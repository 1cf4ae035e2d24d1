CONSTANTS
  Capacity = 2
  MaxItems = 5
SPECIFICATION FairSpec
INVARIANTS
  NoLostWakeup
PROPERTIES
  ImplementsMailbox
  NewestIsTaken
