\* Three requests of one key, whose limits are raised, lowered and first set meanwhile.
SPECIFICATION Spec
CONSTANTS
  Requests = {r1, r2, r3}
  Keys = {k1}
  Estimates = {1, 2}
  Limits = {0, 2, 3}
  MaxUsage = 4
SYMMETRY Symmetry
\* The only key may be deleted.
CHECK_DEADLOCK FALSE
INVARIANT TypeOK
PROPERTY OvershootBounded
