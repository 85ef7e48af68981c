SPECIFICATION FairSpec
CONSTANTS
  None = None
  Sizes = {1, 2, 3, 5, 12}
  Configurations = 2
  MaxMeasured = 64
  Threshold = 8
  Halving = 2
INVARIANTS
  TriedBetweenDataloaderAndDevice
  AttemptsBounded
  GivesUpAtDataloader
  DeviceSizeWasSeen
PROPERTIES
  Terminates
CHECK_DEADLOCK FALSE
