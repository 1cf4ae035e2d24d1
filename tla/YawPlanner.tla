------------------------------ MODULE YawPlanner ------------------------------
(***************************************************************************)
(* YawPlanner (yaw_planner.rs): which armor of a spinning robot to aim at,   *)
(* and the yaw reference over the preview horizon.                           *)
(*                                                                         *)
(* Angles are whole units, Turn of them a circle; the robot stands ahead and *)
(* only turns.  Ballistics are left out: an armor can be hit or not, and the *)
(* flight time only shifts the phase.  Scores are five times the code's, for *)
(* its weight of a fifth.                                                    *)
(***************************************************************************)
EXTENDS Integers, Sequences

CONSTANTS
  Turn,                           \* units in a circle
  SwitchPenalty,                  \* AIM_SWITCH_PENALTY_RAD, even
  Coming, Leaving,                \* by armor count: the angles of the window
  PlaneOffset,                    \* by armor count: of an armor that faces us
  LowSpeedAngle, Relaxed,         \* LOW_SPEED_MAX_DELTA_RAD, AIM_RELAXED_ANGLE_EXTRA_RAD
  LowSpeed,                       \* greatest omega that counts as low
  Omegas,                         \* speeds a robot may have, per preview
  SeenAt,                         \* phases a robot may be seen at first
  Jitter,                         \* bound: units a robot turns between two plans
  Apart,                          \* units between a switch and the switch back
  NoIndex                         \* -1

Counts == {3, 4}
SpinningRobots == [count : Counts, phase : SeenAt, omega : Omegas]

VARIABLES
  target,    \* the robot of the last plan
  selected,  \* last_selected_armor_index
  lastCount, \* last_armor_count, 0 for none
  yawRef,    \* last_yaw_ref_rad, as far as the next plan reads it
  control,   \* control of the last plan
  switch     \* ghost: [from, moved] of the last switch, or from = NoIndex

plannerVars == <<target, selected, lastCount, yawRef, control, switch>>

Abs(n) == IF n < 0 THEN -n ELSE n
Above(a, b) == IF a > b THEN a - b ELSE 0

\* limit_rad and closest_equivalent_rad
Limit(angle) == ((angle + Turn \div 2) % Turn) - Turn \div 2
Closest(reference, angle) == reference + Limit(angle - reference)

(***************************************************************************)
(* PlannerTarget and the aim at one of its armors.                          *)
(***************************************************************************)
Predicted(robot) == [robot EXCEPT !.phase = (@ + robot.omega) % Turn]
Armors(robot) == 0 .. robot.count - 1

\* Where the armor is on its circle, 0 for the nearest place, and the angle
\* between its plane and the line to it.
Place(robot, armor) == Limit(robot.phase + armor * (Turn \div robot.count))
Delta(robot, armor) == Limit(Place(robot, armor) + PlaneOffset[robot.count])

\* The yaw to a place: to a side by a tenth of its angle, forth and back.
YawTo(place) ==
  LET side == IF Abs(place) <= Turn \div 4 THEN Abs(place) ELSE Turn \div 2 - Abs(place)
      aside == side \div 10
  IN IF place < 0 THEN -aside ELSE aside

(***************************************************************************)
(* score_aim_solution.                                                      *)
(***************************************************************************)
IsLowSpeed(robot) == Abs(robot.omega) <= LowSpeed /\ robot.count # 3
AngleLimit(robot) ==
  Relaxed + IF IsLowSpeed(robot) THEN LowSpeedAngle ELSE Coming[robot.count]

Directional(robot, delta) ==
  CASE IsLowSpeed(robot) \/ robot.omega = 0 -> 0
    [] ~IsLowSpeed(robot) /\ robot.omega > 0 -> Above(delta, Leaving[robot.count])
    [] ~IsLowSpeed(robot) /\ robot.omega < 0 -> Above(-delta, Leaving[robot.count])

\* Mutant: an armor that is not the preferred one costs nothing more.
NoPenalty(armor, preferred) == 0

Penalty(armor, preferred) ==
  IF preferred # NoIndex /\ armor # preferred THEN SwitchPenalty ELSE 0

Score(robot, armor, preferred, continuity) ==
  LET delta == Delta(robot, armor) IN
    5 * (Abs(delta) + 4 * Above(Abs(delta), AngleLimit(robot)) + Penalty(armor, preferred)
         + IF continuity = <<>> THEN 0
           ELSE Abs(Limit(YawTo(Place(robot, armor)) - continuity[1])))
    + Directional(robot, delta)

\* solve_aim: of the armors that can be hit the best, of two as good the nearer
\* and then the first; the preferred one if it is nearly as good.
Chosen(robot, hittable, preferred, continuity) ==
  LET rated == {[armor |-> a, near |-> Abs(Place(robot, a)),
                 score |-> Score(robot, a, preferred, continuity)] : a \in hittable}
      Before(r, s) ==
        \/ r.score < s.score
        \/ r.score = s.score /\ r.near < s.near
        \/ r.score = s.score /\ r.near = s.near /\ r.armor <= s.armor
      best == CHOOSE r \in rated : \A s \in rated : Before(r, s)
      kept == {r \in rated : /\ r.armor = preferred
                             /\ 2 * r.score <= 2 * best.score + 5 * SwitchPenalty}
  IN IF kept # {} THEN preferred ELSE best.armor

\* build_yaw_reference: every preview prefers what the one before chose, from
\* the yaw before.  Later plans read no preview after the second.
Preview(robot, hittable, preferred, continuity) ==
  LET armor == Chosen(robot, hittable, preferred, continuity)
      aim   == YawTo(Place(robot, armor))
  IN [armor |-> armor,
      yaw |-> IF continuity = <<>> THEN aim ELSE Closest(continuity[1], aim)]

NoRobot == [count |-> 0, phase |-> 0, omega |-> 0]
NoSwitch == [from |-> NoIndex, moved |-> 0]

PlannerInit ==
  /\ target = NoRobot
  /\ selected = NoIndex /\ lastCount = 0 /\ yawRef = <<>>
  /\ control = FALSE
  /\ switch = NoSwitch

\* plan(None): reset
PlanNothing ==
  /\ target' = NoRobot
  /\ selected' = NoIndex /\ lastCount' = 0 /\ yawRef' = <<>>
  /\ control' = FALSE
  /\ switch' = NoSwitch

\* The robots the next snapshot may show: the same a little further, or another.
Turned(units) ==
  [target EXCEPT !.phase = (@ + target.omega + units) % Turn]

\* A plan for a robot of which no armor can be hit forgets nothing but, of one
\* with another number of armors, everything.
PlanFails(robot) ==
  /\ target' = robot
  /\ lastCount' = robot.count
  /\ IF lastCount \in {0, robot.count} THEN UNCHANGED <<selected, yawRef>>
     ELSE selected' = NoIndex /\ yawRef' = <<>>
  /\ control' = FALSE

PlanAims(robot, hittable) ==
  LET known  == lastCount \in {0, robot.count}
      first  == Preview(robot, hittable, IF known THEN selected ELSE NoIndex,
                        IF known THEN yawRef ELSE <<>>)
      second == Preview(Predicted(robot), hittable, first.armor, <<first.yaw>>)
  IN /\ target' = robot
     /\ lastCount' = robot.count
     /\ selected' = first.armor
     /\ yawRef' = <<second.yaw>>
     /\ control' = TRUE

\* The same robot, all its armors in reach.
PlanOn ==
  /\ target # NoRobot
  /\ \E units \in -Jitter .. Jitter :
       /\ PlanAims(Turned(units), Armors(target))
       /\ switch' =
            IF selected' # selected /\ selected # NoIndex
            THEN [from |-> selected, moved |-> 0]
            ELSE [switch EXCEPT !.moved = LET m == @ + target.omega + units IN
                    IF switch.from = NoIndex THEN 0
                    ELSE IF m > Apart THEN Apart ELSE IF m < -Apart THEN -Apart ELSE m]

\* Another robot, or one with armors out of reach.
PlanOther ==
  /\ \E robot \in SpinningRobots : \E hittable \in SUBSET Armors(robot) :
       IF hittable = {} THEN PlanFails(robot) ELSE PlanAims(robot, hittable)
  /\ switch' = NoSwitch

PlannerNext == PlanNothing \/ PlanOn \/ PlanOther

PlannerSpec == PlannerInit /\ [][PlannerNext]_plannerVars

(***************************************************************************)
(* Properties.                                                              *)
(***************************************************************************)
\* The aim does not flutter between two armors: it comes back to the armor it
\* left only when the robot has turned by Apart units in between.
NoFlutter ==
  [][switch.from # NoIndex /\ switch'.moved = 0 /\ switch'.from = selected /\ selected' # selected
     /\ selected' = switch.from
     => Abs(switch.moved + (Limit(target'.phase - target.phase))) >= Apart]_plannerVars
=============================================================================
