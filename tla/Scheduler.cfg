CONSTANTS
  b1 = b1
  b2 = b2
  NoReq = NoReq
  NoCaches = NoCaches
  Blocks <- TwoBlocks
  LayerOf <- OneLayer
  Overwrite = TRUE
  Priorities = {0, 1}
  MaxInFlight = 1
  Latency = 2
  Prioritize = TRUE
  Dedup = TRUE
  FailOnMissing = TRUE
  CacheArgs <- AnyCaches
  WaitSteps = {1, 6}
  MaxRequests = 3
SPECIFICATION FairSpec
INVARIANTS
  TypeOK
  InFlightBounded
  RequestInOnePlace
  OneRequestPerBlock
  StatsAgree
  FifoWithinPriority
  EnsureSound
  NoSpuriousTimeout
  ResidentHasData
  StoreHoldsData
PROPERTIES
  EveryRequestLeaves
  EveryCallReturns
