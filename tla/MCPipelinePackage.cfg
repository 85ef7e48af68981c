SPECIFICATION Spec
CONSTANTS
  Plan <- PackagePlan
  Models <- PackageModels
  Runners <- AllRunners
  NoModel <- MCNoModel
  NoRunner <- MCNoRunner
  FormatOf <- PackageFormats
  ParentOf <- PackageParents
  SourceRunners <- TensorFlowSourceRunners
  KeepsWorkspace = TRUE
  HasVerifyFunc = TRUE
INVARIANTS
  TypeOK
  VerifiedOnlyAfterEvaluation
  RequiredSucceeded
  ArgumentsResolve
