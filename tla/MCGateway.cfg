\* Two gateways and two migrations; one request, a call or a readiness probe.
CONSTANTS
  g1 = g1
  g2 = g2
  c1 = c1
  Instances = {g1, g2}
  Last = 2
  Calls = {c1}
  Chunks = 2
  BufferSize = 1
  Budget = 1
  Overrun = 1
  MaxRequests = 1
SPECIFICATION FairSpec
INVARIANTS
  GatewayTypeOK
  SuccessMeansMigrated
  CompleteMeansWhole
  ProbeCoversAllInBudget
PROPERTIES
  ImplementsSchema
  StartsAndStopsEnd
