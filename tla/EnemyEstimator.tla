---------------------------- MODULE EnemyEstimator ----------------------------
(***************************************************************************)
(* estimate_process: from the armors solved in each frame to the one enemy  *)
(* fire control aims at.  RbtHandlerPoll selects an enemy and updates one   *)
(* RbtEstimator per enemy; only the selected one is shown its solution.     *)
(*                                                                         *)
(* The filter inside an estimator is left to what its users can tell        *)
(* (YpdTracker has its control): unset, or how good it is.  A place stands  *)
(* for where in the image an armor is seen.                                 *)
(***************************************************************************)
EXTENDS Integers, FiniteSets

CONSTANTS
  Enemies,          \* TRACKED_ENEMY_IDS
  Outposts,         \* those with three armors: {Outpost8}
  Large,            \* those with large armors: {Hero1}
  NoEnemy,
  Places,           \* where in the image an armor can be
  FromCenter,       \* its distance from the image center, by place
  FromOutpostAim,   \* its distance from the point where outposts are aimed at
  MaxArmors,        \* bound: armors solved in one frame
  MaxGap,           \* bound: time between two frames
  ArmorLostWait,    \* armor_lost_wait_duration_ms
  EnemyLostWait,    \* enemy_lost_wait_duration_ms
  NeutralGrace,     \* armor_neutral_grace_frames
  HoldFrames,       \* fire_armor_jump_block_frames
  IgnoreSameNumber  \* ignore_same_number_condition_switch

ASSUME EstimatorAssumption ==
  /\ Outposts \subseteq Enemies /\ Large \subseteq Enemies
  /\ NoEnemy \notin Enemies
  /\ FromCenter \in [Places -> Nat] /\ FromOutpostAim \in [Places -> Nat]
  /\ {ArmorLostWait, EnemyLostWait, NeutralGrace, HoldFrames} \subseteq Nat
  /\ MaxGap \in Nat \ {0} /\ MaxArmors \in Nat
  /\ IgnoreSameNumber \in BOOLEAN

\* min_by finds one: among any armors there is a nearest (true of finite Places).
ASSUME SomeIsNearest ==
  \A distance \in {FromCenter, FromOutpostAim}, S \in (SUBSET Places) \ {{}} :
    \E p \in S : \A q \in S : distance[p] <= distance[q]

VARIABLES
  selector,   \* EnemySelectHandler::state
  est,        \* estimators
  task,       \* estimate_process: about to look at the route, or waiting
  active,     \* the route is armor_pipeline_active
  moved,      \* transition_seq differs from last_transition_seq
  follows,    \* ghost: whose armor each filter was last corrected with
  sightings,  \* ghost: frames in a row each estimator was shown its enemy in
  calm        \* ghost: such frames since its armor was last seen to jump

estimatorVars == <<selector, est, task, active, moved, follows, sightings, calm>>

Armors == [id : Enemies, place : Places, neutral : BOOLEAN]

\* What enemys_solver makes of a frame: at most two armors of an enemy.
Frames ==
  {f \in SUBSET Armors :
     /\ Cardinality(f) <= MaxArmors
     /\ \A a, b \in f : a.place = b.place => a = b
     /\ \A e \in Enemies : Cardinality({a \in f : a.id = e}) <= 2}

ArmorsOf(frame, e) == {a \in frame : a.id = e}

Nearest(armors, distance) ==
  CHOOSE a \in armors : \A b \in armors : distance[a.place] <= distance[b.place]

\* What the rest can tell of a filter: none yet; fit to fire on; not yet or no
\* longer; about to be reset, diverged or for its share of bad measurements (an
\* outpost's may be called stable in the same frame).
Filters == {"unset", "steady", "unsteady", "hopeless", "steadyHopeless", "diverged"}
Useless == {"hopeless", "steadyHopeless", "diverged"}
Stable == {"steady", "steadyHopeless"}

\* init and update_batch.
Initialised(e) == IF e \in Outposts THEN {"steady"} ELSE {"steady", "diverged"}
Corrected(e) ==
  Filters \ (IF e \in Outposts THEN {"unset"} ELSE {"unset", "steadyHopeless"})

(***************************************************************************)
(* The selection.                                                           *)
(***************************************************************************)
NoSelector == [state |-> "Idle", enemy |-> NoEnemy, age |-> 0]

Lock(frame) ==
  IF frame = {} THEN NoSelector
  ELSE [state |-> "Locked", enemy |-> Nearest(frame, FromCenter).id, age |-> 0]

Elapse(age, dt, wait) == IF age + dt > wait THEN wait + 1 ELSE age + dt

Select(s, frame, dt) ==
  LET visible == ArmorsOf(frame, s.enemy) # {}
      age     == Elapse(s.age, dt, EnemyLostWait)
  IN CASE s.state = "Idle" -> Lock(frame)
       [] s.state = "Locked" ->
            IF visible THEN s ELSE [s EXCEPT !.state = "Lost", !.age = 0]
       [] s.state = "Lost" /\ visible ->
            [s EXCEPT !.state = "Locked", !.age = 0]
       [] s.state = "Lost" /\ ~visible ->
            IF age <= EnemyLostWait THEN [s EXCEPT !.age = age] ELSE Lock(frame)

(***************************************************************************)
(* One estimator.                                                           *)
(***************************************************************************)
NewEstimator ==
  [st |-> "Init", age |-> 0, filter |-> "unset", hold |-> 0, seenBefore |-> FALSE,
   tracked |-> NoEnemy, neutral |-> 0, fire |-> FALSE]

\* Mutant: an enemy found again is tracked at once.
NoRecovery(st, seen, age) ==
  CASE seen  -> IF st \in {"Init", "Sleep"} THEN "WakeUp" ELSE "Track"
    [] ~seen -> (CASE st \in {"Init", "Sleep"} -> "Sleep"
                   [] st = "Lost" /\ age > ArmorLostWait -> "Sleep"
                   [] OTHER                    -> "Lost")

\* EstimatorStateMachine::update
NextState(st, seen, age) ==
  CASE seen  -> (CASE st \in {"Init", "Sleep"} -> "WakeUp"
                   [] st = "Lost"              -> "Recovery"
                   [] OTHER                    -> "Track")
    [] ~seen -> (CASE st \in {"Init", "Sleep"} -> "Sleep"
                   [] st = "Lost" /\ age > ArmorLostWait -> "Sleep"
                   [] OTHER                    -> "Lost")

\* Mutant: any armor of its size does.
OfItsSize(tracked, a) == tracked = NoEnemy \/ (a.id \in Large <=> tracked \in Large)

\* Which armors pass for the one last tracked: of its number and of its size.
PassesFor(tracked, a) ==
  \/ tracked = NoEnemy
  \/ /\ a.id \in Large <=> tracked \in Large
     /\ IgnoreSameNumber \/ a.id = tracked

\* match_solution_for_current_target: a solution is its armors and the first of
\* them, the nearest if they were sorted and any if they are the detector's.
NoSolution == [armors |-> {}]

Solutions(e, r, frame) ==
  LET own  == ArmorsOf(frame, e)
      pass == {a \in frame : PassesFor(r.tracked, a)}
  IN CASE own = {}  -> {NoSolution}
       [] own # {} /\ pass # {} ->
            {[armors |-> pass, first |-> Nearest(pass, FromCenter)]}
       [] own # {} /\ pass = {} -> {[armors |-> own, first |-> a] : a \in own}

\* filter_neutral_solution
Accepted(r, solution) ==
  /\ solution.armors # {}
  /\ ~(solution.first.neutral /\ r.neutral >= NeutralGrace)

\* preferred_observation_index
Preferred(e, armors) ==
  Nearest(armors, IF e \in Outposts THEN FromOutpostAim ELSE FromCenter)

\* predict_or_reset_tracker, after the reset of a sleeping estimator
Predicted(r, st) ==
  IF st \in {"Init", "Sleep"} \/ r.filter \in Useless THEN "unset" ELSE r.filter

\* observation_jump_for_solution, if the filter was there before this frame
Jumps(r, far) == r.filter # "unset" /\ r.seenBefore /\ far

\* Mutant: the frame of the jump is counted against its own hold.
HoldLess(r, far) ==
  CASE Jumps(r, far)  -> HoldFrames - 1
    [] ~Jumps(r, far) -> IF r.hold > 0 THEN r.hold - 1 ELSE 0

\* update_fire_observation_hold
NextHold(r, far) ==
  CASE Jumps(r, far)  -> IF r.hold > HoldFrames THEN r.hold ELSE HoldFrames
    [] ~Jumps(r, far) -> IF r.hold > 0 THEN r.hold - 1 ELSE 0

\* RbtEstimator::update.  A missed frame resets everything but the filter.
UpdateUnseen(r, dt) ==
  LET age == Elapse(r.age, dt, ArmorLostWait)
      st  == NextState(r.st, FALSE, age)
  IN [NewEstimator EXCEPT
        !.st = st,
        !.age = IF r.st = "Lost" /\ st = "Lost" THEN age ELSE 0,
        !.filter = Predicted(r, st)]

UpdateSeen(e, r, solution, far, filter) ==
  LET st == NextState(r.st, TRUE, r.age)
  IN [st         |-> st,
      age        |-> 0,
      filter     |-> filter,
      hold       |-> NextHold(r, far),
      seenBefore |-> TRUE,
      tracked    |-> Preferred(e, solution.armors).id,
      neutral    |-> IF solution.first.neutral THEN r.neutral + 1 ELSE 0,
      fire       |-> st = "Track"]

\* RbtEstimator::snapshot of the selected enemy, as far as fire control may act
\* on it.
HasSnapshot(e) ==
  e # NoEnemy /\ est[e].st \notin {"Init", "Sleep"} /\ est[e].filter # "unset"
Permits(e) ==
  /\ HasSnapshot(e)
  /\ est[e].fire
  /\ est[e].filter # "diverged"
  /\ est[e].filter \in Stable /\ est[e].hold = 0

(***************************************************************************)
(* estimate_process.                                                        *)
(***************************************************************************)
NewPoll ==
  /\ selector' = NoSelector
  /\ est' = [e \in Enemies |-> NewEstimator]
  /\ follows' = [e \in Enemies |-> NoEnemy]
  /\ sightings' = [e \in Enemies |-> 0]
  /\ calm' = [e \in Enemies |-> HoldFrames]

Init ==
  /\ selector = NoSelector
  /\ est = [e \in Enemies |-> NewEstimator]
  /\ task = "look"
  /\ active \in BOOLEAN
  /\ moved = FALSE
  /\ follows = [e \in Enemies |-> NoEnemy]
  /\ sightings = [e \in Enemies |-> 0]
  /\ calm = [e \in Enemies |-> HoldFrames]

Transition ==
  /\ moved' = TRUE
  /\ active' \in BOOLEAN
  /\ UNCHANGED <<selector, est, task, follows, sightings, calm>>

\* The top of the loop: a new poll after a transition, then the route decides
\* whether to wait for a frame.
Look ==
  /\ task = "look"
  /\ IF moved THEN NewPoll ELSE UNCHANGED <<selector, est, follows, sightings, calm>>
  /\ moved' = FALSE
  /\ task' = IF active THEN "wait" ELSE "look"
  /\ UNCHANGED active

Timeout ==
  /\ task = "wait"
  /\ task' = "look"
  /\ UNCHANGED <<selector, est, active, moved, follows, sightings, calm>>

\* RbtHandlerPoll::update with a frame in which the selected enemy is not seen,
\* or not taken for alive.
AllUnseen(dt) == est' = [e \in Enemies |-> UpdateUnseen(est[e], dt)]

Saturate(n, top) == IF n < top THEN n + 1 ELSE top

FrameMissed(e, frame, dt) ==
  /\ e = NoEnemy \/ \E solution \in Solutions(e, est[e], frame) :
                       ~Accepted(est[e], solution)
  /\ AllUnseen(dt)
  /\ sightings' = [x \in Enemies |-> 0]
  /\ calm' = [x \in Enemies |-> Saturate(calm[x], HoldFrames)]
  /\ follows' = [x \in Enemies |->
                   IF est'[x].filter = "unset" THEN NoEnemy ELSE follows[x]]

FrameSeen(e, frame, dt) ==
  /\ e # NoEnemy
  /\ \E solution \in Solutions(e, est[e], frame), far \in BOOLEAN :
     \E filter \in IF Predicted(est[e], "Track") = "unset"
                   THEN Initialised(e) ELSE Corrected(e) :
       /\ Accepted(est[e], solution)
       /\ est' = [x \in Enemies |->
                    IF x = e THEN UpdateSeen(e, est[e], solution, far, filter)
                    ELSE UpdateUnseen(est[x], dt)]
       /\ calm' = [x \in Enemies |->
                     IF x = e /\ Jumps(est[e], far) THEN 0
                     ELSE Saturate(calm[x], HoldFrames)]
  /\ sightings' = [x \in Enemies |-> IF x = e THEN Saturate(sightings[x], 2) ELSE 0]
  /\ follows' = [x \in Enemies |->
                   CASE est'[x].filter = "unset" -> NoEnemy
                     [] est'[x].filter # "unset" /\ x = e -> est'[x].tracked
                     [] OTHER -> follows[x]]

Frame ==
  /\ task = "wait"
  /\ \E frame \in Frames, dt \in 1 .. MaxGap :
       /\ selector' = Select(selector, frame, dt)
       /\ \/ FrameMissed(selector'.enemy, frame, dt)
          \/ FrameSeen(selector'.enemy, frame, dt)
  /\ task' = "look"
  /\ UNCHANGED <<active, moved>>

Next == Transition \/ Look \/ Timeout \/ Frame

Spec == Init /\ [][Next]_estimatorVars

(***************************************************************************)
(* Properties.                                                              *)
(***************************************************************************)
States == {"Init", "Sleep", "WakeUp", "Track", "Lost", "Recovery"}

TypeOK ==
  /\ selector \in [state : {"Idle", "Locked", "Lost"}, enemy : Enemies \cup {NoEnemy},
                   age : 0 .. EnemyLostWait + 1]
  /\ est \in [Enemies -> [st : States, age : 0 .. ArmorLostWait + 1,
                          filter : Filters, hold : 0 .. HoldFrames,
                          seenBefore : BOOLEAN,
                          tracked : Enemies \cup {NoEnemy},
                          neutral : 0 .. NeutralGrace, fire : BOOLEAN]]
  /\ task \in {"look", "wait"} /\ active \in BOOLEAN /\ moved \in BOOLEAN
  /\ follows \in [Enemies -> Enemies \cup {NoEnemy}]
  /\ sightings \in [Enemies -> 0 .. 2]
  /\ calm \in [Enemies -> 0 .. HoldFrames]

\* Fire is permitted on the selected enemy only, and only after it was seen in
\* two frames in a row: neither a single frame nor the first one after a gap is
\* enough (WakeUp and Recovery do not permit).
PermitNeedsTwoSightings ==
  \A e \in Enemies : est[e].fire => selector.enemy = e /\ sightings[e] = 2

\* After the observed armor jumped (the robot turned another one to the camera,
\* or was mistaken for another) HoldFrames frames pass before fire control may
\* shoot, even if a missed frame in between clears the hold.
JumpHoldsFire ==
  \A e \in Enemies : Permits(e) => calm[e] = HoldFrames

\* From one frame to the next the filter of an enemy is not handed to the armor
\* of another one: that takes a frame without it, after which the code lets any
\* armor of the frame pass (tracked_id.is_none_or).
HandedOverOnlyAfterAGap ==
  [][\A e \in Enemies :
       follows'[e] \notin {NoEnemy, e, follows[e]} => est[e].tracked = NoEnemy]_estimatorVars
=============================================================================
