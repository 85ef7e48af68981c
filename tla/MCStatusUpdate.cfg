SPECIFICATION Spec
CONSTANTS
    Packages <- MCPackages
    MaxLoads = 3
INVARIANTS
    EvaluationsSurvive
    ModelsAreFoundAgain
CHECK_DEADLOCK FALSE
