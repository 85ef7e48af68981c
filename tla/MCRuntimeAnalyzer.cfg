SPECIFICATION Spec
CONSTANTS
  Packages <- MCPackages
  Strategies <- MCStrategies
INVARIANTS
  MinLatencyIsMinimal
  MaxThroughputIsMaximal
  BudgetIsRespected
  CombinedReachesBoth
CHECK_DEADLOCK FALSE
