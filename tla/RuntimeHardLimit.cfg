CONSTANTS
  NoReq = NoReq
  NoCaches = NoCaches
  NumLayers = 1
  NumBlocks = 2
  BlockSize = 1
  MaxPosition = 2
  Policies <- LimitedPolicies
  Blocks <- Grid
  LayerOf <- LayerOfGrid
  Overwrite = TRUE
  Priorities = {0}
  MaxInFlight = 1
  Latency = 1
  Prioritize = TRUE
  Dedup = TRUE
  FailOnMissing = TRUE
  CacheArgs <- OneLayerGiven
  WaitSteps = {}
  MaxRequests = 0
SPECIFICATION RuntimeSpec
INVARIANT
  HardLimit
