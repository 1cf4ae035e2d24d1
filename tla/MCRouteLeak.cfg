CONSTANTS
  SampleModes <- MCArmor
  Faults <- MCNoFaults
  MaxFrames = 1
  MaxTransitions = 1
  None = None
SPECIFICATION Spec
INVARIANT RouteChangeDropsOldWork
