\* Keys and routes, one of each, with two fetches in flight.
SPECIFICATION FairSpec
CONSTANTS
  TabOrder <- KeysThenRouting
  Ids <- OneEach
  Slots = {1, 2}
  NoId = 0
INVARIANTS
  TypeOK
  EditsGoWhereTheyWereFilled
PROPERTY ScreenCatchesUp
