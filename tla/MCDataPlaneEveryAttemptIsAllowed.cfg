\* The global deny list forbids the fallback model; nothing changes it or the key.
SPECIFICATION Spec
CONSTANTS
  m1 = m1
  m2 = m2
  coding = coding
  k1 = k1
  NoKey = NoKey
  Requests = {r1}
  Models <- TwoModels
  Aliases <- OneAlias
  Routes <- Fallback
  DenyLists <- FallbackDenied
  Keys <- OneKey
  KeyRecords <- JustUnlimited
  Asks <- AskAlias
  Outcomes = {"transport", "s5xx", "ok"}
  Catalogs = {}
  Estimate = 1
  FailureThreshold = 1
  CooldownDuration = 1
  FailureCap = 2
INVARIANT EveryAttemptIsAllowed
