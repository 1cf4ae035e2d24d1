SPECIFICATION InputSpec
CHECK_DEADLOCK FALSE
CONSTANTS
  Pads <- MCPads
  Selectors <- MCSelectors
  AnyPad = AnyPad
  MinHeight = 10
  MaxHeight = 11
  FixedHeight = 10
  None = None
  Streams <- MCStreams
  Sof <- MCSof
  Version <- MCVersion
  MaxPayload = 5
  Crc <- MCCrc
  StateTimeout = 1
  SeqModulus = 3
  MaxMemory = 1
  Zero = Zero
  TargetTimeout = 1
  QueueLength = 2
  MaxLag = 0
  MaxStarts = 2
  Nothing = Nothing
  LogEvery = 2
  FrameLength = 3
  Patience = 1
  MaxFrames = 3
INVARIANTS
  FramesComeOut
  HandshakeDrivesNothing
  OnlyBadHoldsAreRefused
  HoldForgetsPoison
  NonfiniteIsFlagged
  BestThatRegisters
PROPERTIES
  OneTogglePerPress
  OneStepPerPress
  RunsArePolicyLinks
  PeerReturns
  ImplementsFramePort
