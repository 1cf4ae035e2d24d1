CONSTANTS
  Dt = 4
  SlotPeriod = 50
  Advance <- MCAdvance
  EnterSlots = 2
  HoldSlots = 1
  MinBurst = 20
  Cooldown = 40
  FireGap = 12
  MaxSlots = 4
  Turn = 72
  SwitchPenalty = 2
  Coming <- MCComing
  Leaving <- MCLeaving
  PlaneOffset <- MCPlaneOffset
  LowSpeedAngle = 12
  Relaxed = 2
  LowSpeed = 1
  Omegas <- MCOmegas
  SeenAt = {5}
  Jitter = 1
  Apart = 3
  NoIndex = NoIndex
  FullTurn = 6
  MaxDelta = 1
  MaxLead = 1
  Horizon = 5
  FirstSlotStep = 2
  SlotStep = 2
  PreSteps = 1
  Tolerance = 2
  FirstSteps <- MCFirstSteps
  Throughs = {3, 5}
  Wind = 4
  Fine = 4
  CodeMin <- MCCodeMin
  CodeMax = 1
  Angles <- MCAngles
  NaN = NaN
SPECIFICATION DecisionSpec
INVARIANTS
  ShotsNeedPermission
  HoldIsShort
  ViableMeansOnTarget
  FramesMeanWhatWasSent
PROPERTIES
  ShotsAreSpaced
  CooldownIsKept
  NoFlutter
