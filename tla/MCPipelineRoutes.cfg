CONSTANTS
  SampleModes <- MCSwitch
  Faults <- MCFrameFaults
  MaxFrames = 2
  MaxTransitions = 2
  None = None
SPECIFICATION Spec
INVARIANTS
  StaleWorkEscapedTheClear
