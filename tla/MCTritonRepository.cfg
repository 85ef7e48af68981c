SPECIFICATION Spec
CONSTANTS
    Versions = {1, 2}
    Uploads <- MCUploads
    Runtimes <- MCRuntimes
    Measurements <- MCMeasurements
    MaxCalls = 2
INVARIANTS
    ConfigNamesAModel
    SuccessMeansComplete
    SettingsReachTriton
    DeployedAsMeasured
CHECK_DEADLOCK FALSE
