\* Two requests for one alias of two models, while upstream, network and clients fail.
SPECIFICATION FairSpec
CONSTANTS
  m1 = m1
  m2 = m2
  coding = coding
  k1 = k1
  NoKey = NoKey
  Requests = {r1, r2}
  Models <- TwoModels
  Aliases <- OneAlias
  Routes <- Fallback
  DenyLists <- NoDenyList
  Keys <- OneKey
  KeyRecords <- JustUnlimited
  Asks <- AskAlias
  Outcomes = {"transport", "s5xx", "ok"}
  Catalogs = {}
  Estimate = 1
  FailureThreshold = 1
  CooldownDuration = 1
  FailureCap = 2
INVARIANTS
  TypeOK
  StatusExplainsEffects
  OutageIsCounted
  UsageIsAnsweredRequests
  OnlyAttemptsCount
PROPERTIES
  ImplementsBreaker
  EveryRequestIsAnswered
