SPECIFICATION Spec
CONSTANTS
  Tokens <- TwoTokensAndEos
  Models <- TwoModels
  Predict <- Chosen
  EOS = 2
  Prompts <- ShortPrompts
  Limits <- UpToFour
  DraftLength = 3
  Drafters <- Random
  FixedIds <- NoLists
  Verifiers <- Parallel
  ExactModes <- Exact
  NoState = NoState
INVARIANT FirstTargetFollowsContext
