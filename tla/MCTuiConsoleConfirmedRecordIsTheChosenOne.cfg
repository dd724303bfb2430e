\* Two routes and one fetch that arrives while a confirmation is open.
SPECIFICATION Spec
CONSTANTS
  TabOrder <- JustRouting
  Ids <- TwoRoutes
  Slots = {1}
  NoId = 0
INVARIANT ConfirmedRecordIsTheChosenOne
