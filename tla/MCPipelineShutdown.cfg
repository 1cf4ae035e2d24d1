CONSTANTS
  SampleModes <- MCHit
  Faults <- MCAllFaults
  MaxFrames = 1
  MaxTransitions = 1
  None = None
SPECIFICATION FairSpec
INVARIANTS
  FlagsAreTruthful
PROPERTIES
  ShutdownUnlessStranded
