SPECIFICATION Spec
CONSTANTS
  Tokens <- TwoTokensAndEos
  Models <- TwoModels
  Predict <- Chosen
  EOS = 2
  Fingerprint <- OwnFingerprint
  MaxSize = 2
  Prompts <- SomePrompts
  Limits <- NewTokens
  Capacities <- Sizes
  Zero = Zero
  Mixed = Mixed
INVARIANTS
  TypeOK
  ReuseIsExact
  OneEntryPerStart
  RecentlyUsedKept
  FullOnlyWhenOver
  StopsOnTime
PROPERTY GreedySpec
