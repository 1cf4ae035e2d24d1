CONSTANTS
  SampleModes <- MCSampleModes
  OfflineMode = "AutoShot"
  PairTimeout = 1
  StaleTimeout = 2
  MaxSamples = 2
  MaxTime = 5
  None = None
SPECIFICATION Spec
PROPERTY NewestSampleWins
CHECK_DEADLOCK FALSE
