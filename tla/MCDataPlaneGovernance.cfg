\* Two requests while an administrator changes the route, the deny list and the key.
SPECIFICATION Spec
CONSTANTS
  m1 = m1
  m2 = m2
  coding = coding
  k1 = k1
  NoKey = NoKey
  Requests = {r1, r2}
  Models <- TwoModels
  Aliases <- OneAlias
  Routes <- Fallback
  DenyLists <- SomeDenyLists
  Keys <- OneKey
  KeyRecords <- LimitedOrDisabled
  Asks <- AskAny
  Outcomes = {"s401", "s429", "ok"}
  Catalogs <- BothModels
  Estimate = 1
  FailureThreshold = 2
  CooldownDuration = 1
  FailureCap = 2
SYMMETRY Symmetry
INVARIANTS
  StatusExplainsEffects
  UsageIsAnsweredRequests
PROPERTY ImplementsQuota
