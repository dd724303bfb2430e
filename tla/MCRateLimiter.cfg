\* The two buckets of one key, side by side: a minute of 3 ticks and a second of 1.
SPECIFICATION Spec
CONSTANTS
  MinuteBuckets = {k1}
  SecondBuckets = {k1rps}
  MinuteLength = 3
  SecondLength = 1
  MaxLimit = 2
  MaxTime = 4
INVARIANTS
  TypeOK
  PurgeKeepsRecent
  EveryWindowBounded
  RetryAfterExact
PROPERTY ImplementsContract
