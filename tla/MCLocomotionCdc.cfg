SPECIFICATION FairSpec
CONSTANTS
  StateTimeout = 2
  SeqModulus = 3
  MaxMemory = 2
  Zero = Zero
  MaxSteps = 0
  MaxLag = 3
  MaxInference = 2
  RxCapacity = 2
  MaxReconnects = 1
  None = None
PROPERTIES ImplementsPolicyLink PolicyTargetsAreFresh SilenceEndsInHold ReconnectsAfterReplug
