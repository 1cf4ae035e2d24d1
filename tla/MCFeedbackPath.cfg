CONSTANTS
  SampleModes <- MCSampleModes
  OfflineMode = "AutoShot"
  PairTimeout = 1
  StaleTimeout = 2
  MaxSamples = 3
  MaxTime = 4
  None = None
SPECIFICATION Spec
INVARIANTS
  MixedOnlyAcrossLosses
  SilenceRevokesPermit
PROPERTIES
  HeadsAreUsedOnce
CHECK_DEADLOCK FALSE
