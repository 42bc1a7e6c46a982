CONSTANTS
  NoReq = NoReq
  NoCaches = NoCaches
  NumLayers = 2
  NumBlocks = 3
  BlockSize = 2
  MaxPosition = 6
  Policies <- ManyPolicies
  Blocks <- Grid
  LayerOf <- LayerOfGrid
  Overwrite = TRUE
  Priorities = {0}
  MaxInFlight = 1
  Latency = 1
  Prioritize = TRUE
  Dedup = TRUE
  FailOnMissing = TRUE
  CacheArgs <- TwoLayersGiven
  WaitSteps = {}
  MaxRequests = 4
SPECIFICATION RuntimeSpec
INVARIANTS
  RuntimeTypeOK
  StepsSucceed
  AttentionReady
  PlanSparesNextStep
  NoSilentFallback
PROPERTY
  SchedulerSteps
