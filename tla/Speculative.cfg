SPECIFICATION FairSpec
CONSTANTS
  Tokens <- TwoTokensAndEos
  Models <- TwoModels
  Predict <- Chosen
  EOS = 2
  Prompts <- ShortPrompts
  Limits <- UpToFour
  DraftLength = 3
  Drafters <- AllDrafters
  FixedIds <- FixedLists
  Verifiers <- BothVerifiers
  ExactModes <- BOOLEAN
  NoState = NoState
INVARIANTS
  TypeOK
  SelfDraftAccepted
  EndsComplete
PROPERTIES
  GreedySpec
  EveryStepCommits
  CallsReturn
