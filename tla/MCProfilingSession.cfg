SPECIFICATION Spec
CONSTANTS
    Profiles <- MCProfiles
    SampleCount = 2
    Latencies = {10, 20}
    Scale = 20
    Consoles = {"stderr", "notebook"}
    MaxBatchSize = 4
    MaxCommands = 2
INVARIANTS
    ResultsFollowThePlan
    ResultsAreOfTheirSample
    ConsoleComesBack
CHECK_DEADLOCK FALSE
