SPECIFICATION Planning
CONSTANTS
  Flows <- AllFlows
  Devices <- AllDevices
  Customs <- MCCustoms
  Selections <- MCSelections
  Batching = {TRUE, FALSE}
INVARIANTS
  NothingIsOverwritten
  ParentsAreMadeFirst
  EvaluatedModelsAreMade
  RequirementsComeFirst
  NeedsAreProvided
  SearchComesBetween
CHECK_DEADLOCK FALSE
