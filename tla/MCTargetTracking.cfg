CONSTANTS
  infantry = infantry
  outpost = outpost
  sentry = sentry
  Enemies = {infantry, outpost, sentry}
  Outposts = {outpost}
  Large = {}
  NoEnemy = NoEnemy
  Places = {1, 2}
  FromCenter <- MCFromCenter
  FromOutpostAim <- MCFromOutpostAim
  MaxArmors = 2
  MaxGap = 2
  ArmorLostWait = 2
  EnemyLostWait = 3
  NeutralGrace = 2
  HoldFrames = 3
  IgnoreSameNumber = FALSE
  Blades = {1, 2}
  None = None
  MaxWait = 3
  LostWait <- MCLostWait
  ModelReset = 2
  Confirm = 2
  History = 3
  CurveHistory = 3
  MinHistory = 2
  SeedFrames = 2
  MaxObs = 2
  NisWindow = 5
  MinUpdates = 2
  PriorGate = 1
  ReinitAfter = 4
  JumpWindow = 3
  Cooldown = 2
  MismatchStreak = 2
  MinMatched = 2
  IdCapacity = 3
  MinIds = 3
  MinPerId = 1
  Boxes <- MCBoxes
  Scores = {1, 2}
  Robots = {1, 2}
  MaxRows = 3
  IouPercent = 30
  Shapes <- MCShapes
  Infinity = 100
CHECK_DEADLOCK FALSE
SPECIFICATION TrackingSpec
INVARIANTS
  PermitNeedsTwoSightings
  JumpHoldsFire
  OneMechanismAtATime
  RestartNeedsTwoFrames
  BestOfEachOverlap
  HungarianIsOptimal
  SearchIsOptimal
PROPERTIES
  HandedOverOnlyAfterAGap
  OddFramesAreConfirmed
