SPECIFICATION Spec
CONSTANTS
    Addresses = {a1, a2, a3, a4}
    Null = Null
    Inputs = {x, y}
    Output = Output
    Shapes = {1, 2}
    Unset = Unset
    MaxCalls = 2
    MaxActivations = 2
SYMMETRY DeviceSymmetry
INVARIANT GraphRunnerReadsTheFeed
CHECK_DEADLOCK FALSE
