SPECIFICATION FairSpec
CONSTANTS
  Plan <- OnnxPlan
  Models <- OnnxModels
  Runners <- AllRunners
  NoModel <- MCNoModel
  NoRunner <- MCNoRunner
  FormatOf <- OnnxFormats
  ParentOf <- OnnxParents
  SourceRunners <- TorchSourceRunners
  KeepsWorkspace = FALSE
  HasVerifyFunc = FALSE
INVARIANTS
  SkippedOnlyIfNotProduced
  StaleOnlyFromFailure
  ContextFileFollows
PROPERTIES
  ImplementsLedger
  RunEnds
