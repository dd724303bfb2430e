\* Safety, refinement and recovery: two targets that fail and heal, two concurrent requests.
SPECIFICATION FairSpec
CONSTANTS
  Targets = {m1, m2}
  Callers = {r1, r2}
  NoTarget = NoTarget
  FailureThreshold = 2
  CooldownDuration = 2
  FailureCap = 3
INVARIANTS
  TypeOK
  CountDecidesState
  ReportMatchesAdmission
PROPERTIES
  ImplementsContract
  Recovers
