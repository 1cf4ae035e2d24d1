CONSTANTS
  SampleModes <- MCSwitch
  Faults <- MCNoFaults
  MaxFrames = 1
  MaxTransitions = 1
  None = None
SPECIFICATION FairSpec
PROPERTY Shutdown
