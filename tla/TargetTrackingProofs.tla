------------------------ MODULE TargetTrackingProofs -------------------------
(***************************************************************************)
(* From a network's output to a target, for every value of the constants: the *)
(* estimators (EnemyEstimator), the tracker of the energy mechanism        *)
(* (EnergyTracker), the filter of one enemy (YpdTracker) and the candidates *)
(* that are kept (Detector).  The assignments between them are proved about *)
(* in AssignmentProofs, whose induction on numbers is needed here too.     *)
(***************************************************************************)
EXTENDS EnemyEstimator, EnergyTracker, YpdTracker, Detector, AssignmentProofs,
        SequenceTheorems, TLAPS

-----------------------------------------------------------------------------
(***************************************************************************)
(* EnemyEstimator, for any enemies, any image and any waiting times.  A    *)
(* missed frame resets all but the filter (MissedFrame), a seen one moves the *)
(* state machine one step towards Track (SeenFrame); everything else is about *)
(* what these two do to the counts of frames.                              *)
(***************************************************************************)

Selectors == [state : {"Idle", "Locked", "Lost"}, enemy : Enemies \cup {NoEnemy},
              age : 0 .. EnemyLostWait + 1]

Estimators == [st : States, age : 0 .. ArmorLostWait + 1, filter : Filters,
               hold : 0 .. HoldFrames, seenBefore : BOOLEAN,
               tracked : Enemies \cup {NoEnemy}, neutral : 0 .. NeutralGrace,
               fire : BOOLEAN]

Away == {"Init", "Sleep", "Lost"}

\* Only the enemy selected leaves the states of a missed one, and Track takes
\* two frames.
Sighted ==
  \A e \in Enemies :
    /\ est[e].fire => est[e].st = "Track"
    /\ est[e].st = "Track" => sightings[e] = 2
    /\ est[e].st \notin Away => selector.enemy = e /\ sightings[e] >= 1

\* Frames of hold and of calm make up for each other, but for the frames an
\* enemy that was missed still needs to be tracked again.
Settling ==
  \A e \in Enemies :
    /\ est[e].st \in Away => ~est[e].seenBefore /\ calm[e] + 2 >= HoldFrames
    /\ est[e].st # "Track" => est[e].hold = 0
    /\ est[e].st \in {"WakeUp", "Recovery"} => calm[e] + 1 >= HoldFrames
    /\ est[e].st = "Track" => est[e].hold + calm[e] >= HoldFrames

\* The armor last tracked is the one the filter follows.
FollowsTracked ==
  \A e \in Enemies : est[e].tracked # NoEnemy => follows[e] = est[e].tracked

-----------------------------------------------------------------------------
(* Operators *)

LEMMA EstimatorBounds ==
  /\ ArmorLostWait \in Nat /\ EnemyLostWait \in Nat
  /\ NeutralGrace \in Nat /\ HoldFrames \in Nat
BY EstimatorAssumption

LEMMA EstimatorFields ==
  ASSUME NEW r \in Estimators
  PROVE  /\ r.st \in States /\ r.age \in 0 .. ArmorLostWait + 1 /\ r.filter \in Filters
         /\ r.hold \in 0 .. HoldFrames /\ r.seenBefore \in BOOLEAN
         /\ r.tracked \in Enemies \cup {NoEnemy} /\ r.neutral \in 0 .. NeutralGrace
         /\ r.fire \in BOOLEAN
BY DEF Estimators

LEMMA NearestIsOne ==
  ASSUME NEW armors \in SUBSET Armors, armors # {},
         NEW distance \in {FromCenter, FromOutpostAim}
  PROVE  Nearest(armors, distance) \in armors
<1> DEFINE S == {a.place : a \in armors}
<1>1. S \in (SUBSET Places) \ {{}}
  BY DEF Armors
<1>2. PICK p \in S : \A q \in S : distance[p] <= distance[q]
  BY <1>1, SomeIsNearest
<1>3. \E a \in armors : \A b \in armors : distance[a.place] <= distance[b.place]
  BY <1>2
<1> QED
  BY <1>3 DEF Nearest

LEMMA LockType == ASSUME NEW frame \in SUBSET Armors PROVE Lock(frame) \in Selectors
<1>1. frame # {} => Nearest(frame, FromCenter).id \in Enemies
  BY NearestIsOne DEF Armors
<1>2. 0 \in 0 .. EnemyLostWait + 1
  BY EstimatorAssumption
<1> QED
  BY <1>1, <1>2 DEF Lock, NoSelector, Selectors

LEMMA ElapseType ==
  ASSUME NEW wait \in Nat, NEW age \in 0 .. wait + 1, NEW dt \in 1 .. MaxGap
  PROVE  Elapse(age, dt, wait) \in 0 .. wait + 1
BY EstimatorAssumption DEF Elapse

LEMMA SelectType ==
  ASSUME NEW s \in Selectors, NEW frame \in SUBSET Armors, NEW dt \in 1 .. MaxGap
  PROVE  Select(s, frame, dt) \in Selectors
<1>1. Lock(frame) \in Selectors
  BY LockType
<1>2. Elapse(s.age, dt, EnemyLostWait) \in 0 .. EnemyLostWait + 1
  BY ElapseType, EstimatorAssumption DEF Selectors
<1>3. 0 \in 0 .. EnemyLostWait + 1
  BY EstimatorAssumption
<1> QED
  BY <1>1, <1>2, <1>3 DEF Select, Selectors

LEMMA NewEstimatorType == NewEstimator \in Estimators
BY EstimatorAssumption DEF NewEstimator, Estimators, States, Filters

LEMMA UnseenState ==
  ASSUME NEW st, NEW age
  PROVE  NextState(st, FALSE, age) \in {"Sleep", "Lost"}
BY DEF NextState

LEMMA SeenState ==
  ASSUME NEW st \in States, NEW age
  PROVE  /\ NextState(st, TRUE, age) \in {"WakeUp", "Recovery", "Track"}
         /\ NextState(st, TRUE, age) = "Track" <=> st \notin Away
BY DEF NextState, States, Away

\* What is left of an estimator after a frame without its enemy.
LEMMA MissedFrame ==
  ASSUME NEW r \in Estimators, NEW dt \in 1 .. MaxGap
  PROVE  LET u == UpdateUnseen(r, dt)
         IN /\ u \in Estimators
            /\ u.st \in {"Sleep", "Lost"} /\ u.hold = 0 /\ ~u.seenBefore
            /\ u.tracked = NoEnemy /\ ~u.fire
<1> DEFINE age == Elapse(r.age, dt, ArmorLostWait)
           st  == NextState(r.st, FALSE, age)
           aged == IF r.st = "Lost" /\ st = "Lost" THEN age ELSE 0
<1>1. age \in 0 .. ArmorLostWait + 1 /\ 0 \in 0 .. ArmorLostWait + 1
  <2>1. r.age \in 0 .. ArmorLostWait + 1
    BY EstimatorFields
  <2>2. Elapse(r.age, dt, ArmorLostWait) \in 0 .. ArmorLostWait + 1
    BY <2>1, ElapseType, EstimatorBounds
  <2>3. 0 \in 0 .. ArmorLostWait + 1
    BY EstimatorBounds
  <2> QED
    BY <2>2, <2>3
<1>2. st \in {"Sleep", "Lost"}
  <2> HIDE DEF age
  <2> QED
    BY UnseenState
<1>3. Predicted(r, st) \in Filters
  BY DEF Predicted, Filters, Estimators
<1>4. UpdateUnseen(r, dt) =
        [st |-> st, age |-> aged, filter |-> Predicted(r, st), hold |-> 0,
         seenBefore |-> FALSE, tracked |-> NoEnemy, neutral |-> 0, fire |-> FALSE]
  <2>1. UpdateUnseen(r, dt) =
          [NewEstimator EXCEPT !.st = st, !.age = aged, !.filter = Predicted(r, st)]
    BY DEF UpdateUnseen
  <2> HIDE DEF age, st, aged
  <2> QED
    BY <2>1 DEF NewEstimator
<1>5. aged \in 0 .. ArmorLostWait + 1
  BY <1>1
<1> HIDE DEF age, st, aged
<1> QED
  BY <1>2, <1>3, <1>4, <1>5, EstimatorAssumption DEF Estimators, States

\* The armors a solution can be made of, and which enemy's they are.
LEMMA SolutionFacts ==
  ASSUME NEW e \in Enemies, NEW r \in Estimators, NEW frame \in SUBSET Armors,
         NEW solution \in Solutions(e, r, frame), Accepted(r, solution)
  PROVE  /\ solution.armors \in SUBSET Armors /\ solution.armors # {}
         /\ solution.first \in solution.armors
         /\ solution.first.neutral => r.neutral + 1 \in 0 .. NeutralGrace
         /\ ~IgnoreSameNumber /\ r.tracked # NoEnemy =>
              \A a \in solution.armors : a.id \in {e, r.tracked}
<1> DEFINE own  == ArmorsOf(frame, e)
           pass == {a \in frame : PassesFor(r.tracked, a)}
<1>1. solution.armors # {}
  BY DEF Accepted
<1>2. own # {}
  <2>1. own = {} => Solutions(e, r, frame) = {NoSolution}
    BY DEF Solutions
  <2> QED
    BY <1>1, <2>1 DEF NoSolution
<1>3. own \subseteq Armors /\ pass \subseteq Armors /\ \A a \in own : a.id = e
  BY DEF ArmorsOf
<1>4. /\ solution.armors \in {own, pass}
      /\ solution.first \in solution.armors
  <2>1. CASE pass # {}
    <3>1. solution = [armors |-> pass, first |-> Nearest(pass, FromCenter)]
      BY <1>2, <2>1 DEF Solutions
    <3>2. Nearest(pass, FromCenter) \in pass
      BY <1>3, <2>1, NearestIsOne
    <3> QED
      BY <3>1, <3>2
  <2>2. CASE pass = {}
    <3>1. \E a \in own : solution = [armors |-> own, first |-> a]
      BY <1>2, <2>2 DEF Solutions
    <3> QED
      BY <3>1
  <2> QED
    BY <2>1, <2>2
<1>5. solution.first.neutral => r.neutral + 1 \in 0 .. NeutralGrace
  BY EstimatorAssumption DEF Accepted, Estimators
<1>6. ~IgnoreSameNumber /\ r.tracked # NoEnemy => \A a \in pass : a.id = r.tracked
  BY DEF PassesFor
<1> HIDE DEF own, pass
<1> QED
  BY <1>1, <1>3, <1>4, <1>5, <1>6

LEMMA HoldFacts ==
  ASSUME NEW r \in Estimators, NEW far \in BOOLEAN
  PROVE  /\ NextHold(r, far) \in 0 .. HoldFrames
         /\ Jumps(r, far) => NextHold(r, far) = HoldFrames
         /\ ~Jumps(r, far) /\ r.hold > 0 => NextHold(r, far) = r.hold - 1
         /\ ~Jumps(r, far) /\ r.hold = 0 => NextHold(r, far) = 0
<1>1. r.hold \in 0 .. HoldFrames /\ HoldFrames \in Nat
  BY EstimatorFields, EstimatorBounds
<1> QED
  BY <1>1 DEF NextHold

\* What a frame with its enemy makes of an estimator.
SeenAs(u, e, r, far) ==
  /\ u \in Estimators
  /\ u.st = NextState(r.st, TRUE, r.age)
  /\ u.hold = NextHold(r, far)
  /\ u.fire => u.st = "Track"
  /\ u.tracked \in Enemies
  /\ ~IgnoreSameNumber /\ r.tracked # NoEnemy => u.tracked \in {e, r.tracked}

LEMMA SeenFrame ==
  ASSUME NEW e \in Enemies, NEW r \in Estimators, NEW frame \in SUBSET Armors,
         NEW solution \in Solutions(e, r, frame), Accepted(r, solution),
         NEW far \in BOOLEAN, NEW filter \in Filters
  PROVE  SeenAs(UpdateSeen(e, r, solution, far, filter), e, r, far)
<1> DEFINE st   == NextState(r.st, TRUE, r.age)
           a    == Preferred(e, solution.armors)
           grey == IF solution.first.neutral THEN r.neutral + 1 ELSE 0
<1>1. st \in States
  <2>1. r.st \in States
    BY EstimatorFields
  <2> QED
    BY <2>1, SeenState DEF States
<1>2. a \in solution.armors
  BY SolutionFacts, NearestIsOne DEF Preferred
<1>3. a.id \in Enemies /\ (~IgnoreSameNumber /\ r.tracked # NoEnemy => a.id \in {e, r.tracked})
  BY <1>2, SolutionFacts DEF Armors
<1>4. grey \in 0 .. NeutralGrace
  BY SolutionFacts, EstimatorBounds
<1>5. 0 \in 0 .. ArmorLostWait + 1
  BY EstimatorBounds
<1>6. UpdateSeen(e, r, solution, far, filter) =
        [st |-> st, age |-> 0, filter |-> filter, hold |-> NextHold(r, far),
         seenBefore |-> TRUE, tracked |-> a.id, neutral |-> grey, fire |-> st = "Track"]
  BY DEF UpdateSeen
<1>7. NextHold(r, far) \in 0 .. HoldFrames
  BY HoldFacts
<1> HIDE DEF st, a, grey
<1>8. UpdateSeen(e, r, solution, far, filter) \in Estimators
  BY <1>1, <1>3, <1>4, <1>5, <1>6, <1>7 DEF Estimators
<1> DEFINE u == UpdateSeen(e, r, solution, far, filter)
<1>9. /\ u.st = st /\ u.hold = NextHold(r, far)
      /\ u.tracked = a.id /\ u.fire = (st = "Track")
  BY <1>6
<1> HIDE DEF u
<1>10. u.fire => u.st = "Track"
  BY <1>9
<1>11. u.tracked \in Enemies /\ (~IgnoreSameNumber /\ r.tracked # NoEnemy => u.tracked \in {e, r.tracked})
  BY <1>3, <1>9
<1>12. u \in Estimators
  BY <1>8 DEF u
<1>13. st = NextState(r.st, TRUE, r.age)
  BY DEF st
<1> QED
  BY <1>9, <1>10, <1>11, <1>12, <1>13 DEF u, SeenAs

LEMMA FilterTypes ==
  ASSUME NEW e
  PROVE  Initialised(e) \subseteq Filters \ {"unset"} /\ Corrected(e) \subseteq Filters \ {"unset"}
BY DEF Initialised, Corrected, Filters

LEMMA SaturateFacts ==
  ASSUME NEW top \in Nat, NEW n \in 0 .. top
  PROVE  /\ Saturate(n, top) \in 0 .. top
         /\ Saturate(n, top) = top \/ Saturate(n, top) = n + 1
BY DEF Saturate

-----------------------------------------------------------------------------
(* Types *)

LEMMA TypeInit == Init => TypeOK
<1> SUFFICES ASSUME Init PROVE TypeOK
  OBVIOUS
<1>1. NoSelector \in Selectors
  BY EstimatorBounds DEF NoSelector, Selectors
<1>2. 0 \in 0 .. 2 /\ HoldFrames \in 0 .. HoldFrames
  BY EstimatorBounds
<1> QED
  BY <1>1, <1>2, NewEstimatorType DEF Init, TypeOK, Selectors, Estimators

\* The parts of a frame step that both of its cases share.
LEMMA FrameStep ==
  ASSUME TypeOK, Frame
  PROVE  \E frame \in SUBSET Armors, dt \in 1 .. MaxGap :
           /\ selector' \in Selectors
           /\ \/ FrameMissed(selector'.enemy, frame, dt)
              \/ FrameSeen(selector'.enemy, frame, dt)
<1>1. PICK frame \in Frames, dt \in 1 .. MaxGap :
        /\ selector' = Select(selector, frame, dt)
        /\ \/ FrameMissed(selector'.enemy, frame, dt)
           \/ FrameSeen(selector'.enemy, frame, dt)
  BY DEF Frame
<1>2. frame \in SUBSET Armors
  BY DEF Frames
<1>3. selector' \in Selectors
  BY <1>1, <1>2, SelectType DEF TypeOK, Selectors
<1> QED
  BY <1>1, <1>2, <1>3

\* What a step means to the estimator of an enemy it misses, and of the one it
\* sees.
CalmerBy(x) ==
  calm'[x] \in 0 .. HoldFrames /\ (calm'[x] = HoldFrames \/ calm'[x] = calm[x] + 1)

Missed(x) ==
  /\ est'[x] \in Estimators
  /\ est'[x].st \in {"Sleep", "Lost"} /\ est'[x].hold = 0 /\ ~est'[x].seenBefore
  /\ est'[x].tracked = NoEnemy /\ ~est'[x].fire
  /\ CalmerBy(x)
  /\ sightings'[x] \in 0 .. 2
  /\ follows'[x] \in {NoEnemy, follows[x]}

Seen(e) ==
  /\ \E far \in BOOLEAN :
       /\ SeenAs(est'[e], e, est[e], far)
       /\ Jumps(est[e], far) => calm'[e] = 0
       /\ ~Jumps(est[e], far) => CalmerBy(e)
  /\ sightings'[e] \in 0 .. 2
  /\ sightings'[e] = 2 \/ sightings'[e] = sightings[e] + 1
  /\ follows'[e] = est'[e].tracked

Shaped ==
  /\ est' = [x \in Enemies |-> est'[x]] /\ follows' = [x \in Enemies |-> follows'[x]]
  /\ sightings' = [x \in Enemies |-> sightings'[x]] /\ calm' = [x \in Enemies |-> calm'[x]]

LEMMA Fields ==
  ASSUME TypeOK, NEW x \in Enemies
  PROVE  /\ est[x] \in Estimators /\ calm[x] \in 0 .. HoldFrames
         /\ sightings[x] \in 0 .. 2 /\ follows[x] \in Enemies \cup {NoEnemy}
BY DEF TypeOK, Estimators

\* One enemy of a frame that misses it.
LEMMA OneMissed ==
  ASSUME TypeOK, NEW x \in Enemies, NEW dt \in 1 .. MaxGap,
         est'[x] = UpdateUnseen(est[x], dt),
         calm'[x] = Saturate(calm[x], HoldFrames), sightings'[x] = 0,
         follows'[x] \in {NoEnemy, follows[x]}
  PROVE  Missed(x)
<1>1. est[x] \in Estimators /\ calm[x] \in 0 .. HoldFrames /\ HoldFrames \in Nat
  BY Fields, EstimatorBounds
<1>2. CalmerBy(x)
  BY <1>1, SaturateFacts DEF CalmerBy
<1>3. sightings'[x] \in 0 .. 2
  OBVIOUS
<1>4. /\ est'[x] \in Estimators
      /\ est'[x].st \in {"Sleep", "Lost"} /\ est'[x].hold = 0 /\ ~est'[x].seenBefore
      /\ est'[x].tracked = NoEnemy /\ ~est'[x].fire
  BY <1>1, MissedFrame
<1> QED
  BY <1>2, <1>3, <1>4 DEF Missed

LEMMA MissedStep ==
  ASSUME TypeOK, NEW e, NEW frame, NEW dt \in 1 .. MaxGap, FrameMissed(e, frame, dt)
  PROVE  Shaped /\ \A x \in Enemies : Missed(x)
<1>1. Shaped
  BY DEF FrameMissed, AllUnseen, Shaped
<1>2. ASSUME NEW x \in Enemies PROVE Missed(x)
  <2>1. /\ est'[x] = UpdateUnseen(est[x], dt) /\ sightings'[x] = 0
        /\ calm'[x] = Saturate(calm[x], HoldFrames) /\ follows'[x] \in {NoEnemy, follows[x]}
    BY DEF FrameMissed, AllUnseen
  <2> QED
    BY <2>1, OneMissed
<1> QED
  BY <1>1, <1>2

LEMMA SeenStep ==
  ASSUME TypeOK, NEW e, NEW frame \in SUBSET Armors, NEW dt \in 1 .. MaxGap,
         e \in Enemies \cup {NoEnemy}, FrameSeen(e, frame, dt)
  PROVE  Shaped /\ e \in Enemies /\ Seen(e) /\ \A x \in Enemies \ {e} : Missed(x)
<1>1. e \in Enemies
  BY DEF FrameSeen
<1>2. PICK solution \in Solutions(e, est[e], frame), far \in BOOLEAN :
      \E filter \in IF Predicted(est[e], "Track") = "unset"
                    THEN Initialised(e) ELSE Corrected(e) :
        /\ Accepted(est[e], solution)
        /\ est' = [x \in Enemies |->
                     IF x = e THEN UpdateSeen(e, est[e], solution, far, filter)
                     ELSE UpdateUnseen(est[x], dt)]
        /\ calm' = [x \in Enemies |->
                      IF x = e /\ Jumps(est[e], far) THEN 0
                      ELSE Saturate(calm[x], HoldFrames)]
  BY DEF FrameSeen
<1>3. PICK filter \in Filters \ {"unset"} :
        /\ Accepted(est[e], solution)
        /\ est' = [x \in Enemies |->
                     IF x = e THEN UpdateSeen(e, est[e], solution, far, filter)
                     ELSE UpdateUnseen(est[x], dt)]
        /\ calm' = [x \in Enemies |->
                      IF x = e /\ Jumps(est[e], far) THEN 0
                      ELSE Saturate(calm[x], HoldFrames)]
  BY <1>2, FilterTypes
<1>4. \A x \in Enemies :
        sightings'[x] = IF x = e THEN Saturate(sightings[x], 2) ELSE 0
  BY DEF FrameSeen
<1>5. \A x \in Enemies :
        follows'[x] = CASE est'[x].filter = "unset" -> NoEnemy
                        [] est'[x].filter # "unset" /\ x = e -> est'[x].tracked
                        [] OTHER -> follows[x]
  BY DEF FrameSeen
<1>6. Shaped
  BY <1>3 DEF FrameSeen, Shaped
<1>7. ASSUME NEW x \in Enemies \ {e} PROVE Missed(x)
  <2>1. /\ est'[x] = UpdateUnseen(est[x], dt) /\ calm'[x] = Saturate(calm[x], HoldFrames)
        /\ sightings'[x] = 0 /\ follows'[x] \in {NoEnemy, follows[x]}
    BY <1>3, <1>4, <1>5
  <2> QED
    BY <2>1, OneMissed
<1>8. Seen(e)
  <2> DEFINE u == UpdateSeen(e, est[e], solution, far, filter)
  <2>1. est'[e] = u /\ u.filter = filter
    BY <1>1, <1>3 DEF UpdateSeen
  <2>2. follows'[e] = est'[e].tracked
    BY <1>1, <1>3, <1>5, <2>1
  <2>3. est[e] \in Estimators /\ calm[e] \in 0 .. HoldFrames /\ sightings[e] \in 0 .. 2
        /\ HoldFrames \in Nat /\ 2 \in Nat
    BY <1>1, Fields, EstimatorBounds
  <2>4. /\ Jumps(est[e], far) => calm'[e] = 0
        /\ ~Jumps(est[e], far) => CalmerBy(e)
    <3>1. calm'[e] = IF Jumps(est[e], far) THEN 0 ELSE Saturate(calm[e], HoldFrames)
      BY <1>1, <1>3
    <3> QED
      BY <2>3, <3>1, SaturateFacts DEF CalmerBy
  <2>5. sightings'[e] \in 0 .. 2 /\ (sightings'[e] = 2 \/ sightings'[e] = sightings[e] + 1)
    <3>1. sightings'[e] = Saturate(sightings[e], 2)
      BY <1>1, <1>4
    <3> QED
      BY <2>3, <3>1, SaturateFacts
  <2>6. SeenAs(u, e, est[e], far)
    <3>1. Accepted(est[e], solution) /\ filter \in Filters
      BY <1>3
    <3> QED
      BY <1>1, <2>3, <3>1, SeenFrame
  <2> HIDE DEF u
  <2> QED
    BY <2>1, <2>2, <2>4, <2>5, <2>6 DEF Seen
<1> QED
  BY <1>1, <1>6, <1>7, <1>8

\* A step with a frame sees one enemy, the selected one, or none.
LEMMA FrameSees ==
  ASSUME TypeOK, Frame
  PROVE  /\ selector' \in Selectors /\ Shaped
         /\ \A x \in Enemies : Missed(x) \/ (Seen(x) /\ selector'.enemy = x)
<1>1. PICK frame \in SUBSET Armors, dt \in 1 .. MaxGap :
        /\ selector' \in Selectors
        /\ \/ FrameMissed(selector'.enemy, frame, dt)
           \/ FrameSeen(selector'.enemy, frame, dt)
  BY FrameStep
<1>2. selector'.enemy \in Enemies \cup {NoEnemy}
  BY <1>1 DEF Selectors
<1>3. CASE FrameMissed(selector'.enemy, frame, dt)
  BY <1>1, <1>3, MissedStep
<1>4. CASE FrameSeen(selector'.enemy, frame, dt)
  BY <1>1, <1>2, <1>4, SeenStep
<1> QED
  BY <1>1, <1>3, <1>4

\* Steps without a frame leave the estimators or start them anew.
LEMMA OtherStep ==
  ASSUME TypeOK, [Next]_estimatorVars, ~Frame
  PROVE  \/ UNCHANGED <<selector, est, follows, sightings, calm>>
         \/ NewPoll
BY DEF Next, Transition, Look, Timeout, estimatorVars

LEMMA TypeNext == TypeOK /\ [Next]_estimatorVars => TypeOK'
<1> SUFFICES ASSUME TypeOK, [Next]_estimatorVars PROVE TypeOK'
  OBVIOUS
<1>1. task' \in {"look", "wait"} /\ active' \in BOOLEAN /\ moved' \in BOOLEAN
  BY DEF TypeOK, Next, Transition, Look, Timeout, Frame, estimatorVars
<1>2. CASE Frame
  <2>1. selector' \in Selectors /\ Shaped
    BY <1>2, FrameSees
  <2>2. ASSUME NEW x \in Enemies
        PROVE  /\ est'[x] \in Estimators /\ calm'[x] \in 0 .. HoldFrames
               /\ sightings'[x] \in 0 .. 2 /\ follows'[x] \in Enemies \cup {NoEnemy}
    <3>1. CASE Missed(x)
      BY <3>1, Fields DEF Missed, CalmerBy
    <3>2. CASE Seen(x)
      BY <3>2, EstimatorBounds DEF Seen, SeenAs, CalmerBy
    <3> QED
      BY <1>2, <3>1, <3>2, FrameSees
  <2> QED
    BY <1>1, <2>1, <2>2 DEF Shaped, TypeOK, Selectors, Estimators
<1>3. CASE NewPoll
  <2>1. NoSelector \in Selectors /\ 0 \in 0 .. 2 /\ HoldFrames \in 0 .. HoldFrames
    BY EstimatorBounds DEF NoSelector, Selectors
  <2> QED
    BY <1>1, <1>3, <2>1, NewEstimatorType DEF NewPoll, TypeOK, Selectors, Estimators
<1>4. CASE UNCHANGED <<selector, est, follows, sightings, calm>>
  BY <1>1, <1>4 DEF TypeOK
<1> QED
  BY <1>2, <1>3, <1>4, OtherStep

-----------------------------------------------------------------------------
(* Invariants *)

LEMMA SightedNext ==
  ASSUME TypeOK, Sighted, [Next]_estimatorVars
  PROVE  Sighted'
<1>1. CASE Frame
  <2> SUFFICES ASSUME NEW e \in Enemies
               PROVE  /\ est'[e].fire => est'[e].st = "Track"
                      /\ est'[e].st = "Track" => sightings'[e] = 2
                      /\ est'[e].st \notin Away => selector'.enemy = e /\ sightings'[e] >= 1
    BY DEF Sighted
  <2>1. est[e].st \in States /\ sightings[e] \in 0 .. 2
    BY Fields, EstimatorFields
  <2>2. CASE Missed(e)
    BY <2>2 DEF Missed, Away
  <2>3. CASE Seen(e) /\ selector'.enemy = e
    <3>1. PICK far \in BOOLEAN : SeenAs(est'[e], e, est[e], far)
      BY <2>3 DEF Seen
    <3>2. est'[e].st = "Track" => est[e].st \notin Away
      BY <2>1, <3>1, SeenState DEF SeenAs
    <3>3. est'[e].st = "Track" => sightings'[e] = 2
      BY <2>1, <2>3, <3>2 DEF Seen, Sighted
    <3>4. sightings'[e] >= 1
      BY <2>1, <2>3 DEF Seen
    <3>5. est'[e].fire => est'[e].st = "Track"
      BY <3>1 DEF SeenAs
    <3> QED
      BY <2>3, <3>3, <3>4, <3>5
  <2> QED
    BY <1>1, <2>2, <2>3, FrameSees
<1>2. CASE NewPoll
  BY <1>2 DEF NewPoll, NewEstimator, Sighted, Away
<1>3. CASE UNCHANGED <<selector, est, follows, sightings, calm>>
  BY <1>3 DEF Sighted
<1> QED
  BY <1>1, <1>2, <1>3, OtherStep

LEMMA SettlingNext ==
  ASSUME TypeOK, Settling, HoldFrames <= 3, [Next]_estimatorVars
  PROVE  Settling'
<1>0. HoldFrames \in Nat
  BY EstimatorBounds
<1>1. CASE Frame
  <2> SUFFICES ASSUME NEW e \in Enemies
               PROVE  /\ est'[e].st \in Away => ~est'[e].seenBefore /\ calm'[e] + 2 >= HoldFrames
                      /\ est'[e].st # "Track" => est'[e].hold = 0
                      /\ est'[e].st \in {"WakeUp", "Recovery"} => calm'[e] + 1 >= HoldFrames
                      /\ est'[e].st = "Track" => est'[e].hold + calm'[e] >= HoldFrames
    BY DEF Settling
  <2>1. /\ est[e] \in Estimators /\ est[e].st \in States
        /\ est[e].hold \in 0 .. HoldFrames /\ calm[e] \in 0 .. HoldFrames
    BY Fields, EstimatorFields
  <2>2. CASE Missed(e)
    BY <1>0, <2>1, <2>2 DEF Missed, CalmerBy
  <2>3. CASE Seen(e)
    <3>1. PICK far \in BOOLEAN :
            /\ est'[e].st = NextState(est[e].st, TRUE, est[e].age)
            /\ est'[e].hold = NextHold(est[e], far)
            /\ Jumps(est[e], far) => calm'[e] = 0
            /\ ~Jumps(est[e], far) => CalmerBy(e)
      BY <2>3 DEF Seen, SeenAs
    <3>2. /\ est'[e].st \in {"WakeUp", "Recovery", "Track"}
          /\ est'[e].st = "Track" <=> est[e].st \notin Away
      BY <2>1, <3>1, SeenState
    <3>3. CASE est[e].st \in Away
      <4>1. est'[e].st \in {"WakeUp", "Recovery"}
        BY <3>2, <3>3
      <4>2. ~Jumps(est[e], far) /\ est[e].hold = 0 /\ calm[e] + 2 >= HoldFrames
        BY <3>3 DEF Settling, Jumps, Away
      <4>3. est'[e].hold = 0
        BY <2>1, <3>1, <4>2, HoldFacts
      <4> QED
        <5>1. CalmerBy(e)
          BY <3>1, <4>2
        <5>2. calm'[e] + 1 >= HoldFrames
          BY <1>0, <2>1, <4>2, <5>1 DEF CalmerBy
        <5> QED
          BY <4>1, <4>3, <5>2 DEF Away
    <3>4. CASE est[e].st \notin Away
      <4>1. est'[e].st = "Track"
        BY <3>2, <3>4
      <4>2. est[e].hold > 0 => est[e].hold + calm[e] >= HoldFrames
        BY <2>1 DEF Settling
      <4>3. est[e].hold = 0 => calm[e] + 1 >= HoldFrames
        BY <1>0, <2>1, <3>4 DEF Settling, Away, States
      <4>4. est'[e].hold + calm'[e] >= HoldFrames
        <5>1. CASE Jumps(est[e], far)
          BY <1>0, <2>1, <3>1, <5>1, HoldFacts
        <5>2. CASE ~Jumps(est[e], far) /\ est[e].hold > 0
          <6>1. est'[e].hold = est[e].hold - 1
            BY <2>1, <3>1, <5>2, HoldFacts
          <6> QED
            BY <1>0, <2>1, <3>1, <4>2, <5>2, <6>1 DEF CalmerBy
        <5>3. CASE ~Jumps(est[e], far) /\ est[e].hold = 0
          <6>1. est'[e].hold = 0
            BY <2>1, <3>1, <5>3, HoldFacts
          <6> QED
            BY <1>0, <2>1, <3>1, <4>3, <5>3, <6>1 DEF CalmerBy
        <5> QED
          BY <2>1, <5>1, <5>2, <5>3
      <4> QED
        BY <4>1, <4>4 DEF Away
    <3> QED
      BY <3>3, <3>4
  <2> QED
    BY <1>1, <2>2, <2>3, FrameSees
<1>2. CASE NewPoll
  BY <1>0, <1>2 DEF NewPoll, NewEstimator, Settling, Away
<1>3. CASE UNCHANGED <<selector, est, follows, sightings, calm>>
  BY <1>3 DEF Settling
<1> QED
  BY <1>1, <1>2, <1>3, OtherStep

LEMMA FollowsTrackedNext ==
  ASSUME TypeOK, FollowsTracked, [Next]_estimatorVars
  PROVE  FollowsTracked'
<1>1. CASE Frame
  BY <1>1, FrameSees DEF FollowsTracked, Missed, Seen, SeenAs
<1>2. CASE NewPoll
  BY <1>2 DEF NewPoll, NewEstimator, FollowsTracked
<1>3. CASE UNCHANGED <<selector, est, follows, sightings, calm>>
  BY <1>3 DEF FollowsTracked
<1> QED
  BY <1>1, <1>2, <1>3, OtherStep

-----------------------------------------------------------------------------
(* Theorems *)

\* For any enemies, places and waiting times, the estimators, the selector and
\* the loop of estimate_process keep their types; no count passes its limit.
THEOREM TypeCorrect == Spec => []TypeOK
BY TypeInit, TypeNext, PTL DEF Spec

\* For every configuration, an estimator permits fire only on the enemy that is
\* selected, after two frames in a row with it.
THEOREM PermitsAreEarned == Spec => []PermitNeedsTwoSightings
<1>1. Init => Sighted
  BY DEF Init, NewEstimator, Sighted, Away
<1>2. TypeOK /\ Sighted /\ [Next]_estimatorVars => Sighted'
  BY SightedNext
<1>3. Sighted => PermitNeedsTwoSightings
  BY DEF Sighted, PermitNeedsTwoSightings, Away
<1> QED
  BY <1>1, <1>2, <1>3, TypeCorrect, PTL DEF Spec

\* For a fire_armor_jump_block_frames of at most three, a jump of the armor keeps
\* fire control from shooting for that many frames.  A missed frame clears the
\* hold, and three is what the enemy then takes to be tracked again.
THEOREM JumpsHoldFire ==
  ASSUME HoldFrames <= 3
  PROVE  Spec => []JumpHoldsFire
<1>0. HoldFrames \in Nat
  BY EstimatorBounds
<1>1. Init => Settling
  BY <1>0 DEF Init, NewEstimator, Settling, Away
<1>2. TypeOK /\ Settling /\ [Next]_estimatorVars => Settling'
  BY SettlingNext
<1>3. Init => Sighted
  BY DEF Init, NewEstimator, Sighted, Away
<1>4. TypeOK /\ Sighted /\ [Next]_estimatorVars => Sighted'
  BY SightedNext
<1>5. TypeOK /\ Sighted /\ Settling => JumpHoldsFire
  <2> SUFFICES ASSUME TypeOK, Sighted, Settling, NEW e \in Enemies, Permits(e)
               PROVE  calm[e] = HoldFrames
    BY DEF JumpHoldsFire
  <2>1. est[e].st = "Track" /\ est[e].hold = 0
    BY DEF Permits, Sighted
  <2>2. calm[e] \in 0 .. HoldFrames
    BY Fields
  <2> QED
    BY <1>0, <2>1, <2>2 DEF Settling
<1> QED
  BY <1>1, <1>2, <1>3, <1>4, <1>5, TypeCorrect, PTL DEF Spec

\* With the numbers of armors told apart (ignore_same_number_condition_switch
\* off), a filter passes to another enemy only after a frame without its own.
THEOREM HandOverTakesAGap ==
  ASSUME ~IgnoreSameNumber
  PROVE  Spec => HandedOverOnlyAfterAGap
<1>1. Init => FollowsTracked
  BY DEF Init, NewEstimator, FollowsTracked
<1>2. TypeOK /\ FollowsTracked /\ [Next]_estimatorVars => FollowsTracked'
  BY FollowsTrackedNext
<1>3. TypeOK /\ FollowsTracked /\ [Next]_estimatorVars =>
        \A e \in Enemies :
          follows'[e] \notin {NoEnemy, e, follows[e]} => est[e].tracked = NoEnemy
  <2> SUFFICES ASSUME TypeOK, FollowsTracked, [Next]_estimatorVars, NEW e \in Enemies,
                      follows'[e] \notin {NoEnemy, e, follows[e]}
               PROVE  est[e].tracked = NoEnemy
    OBVIOUS
  <2>1. CASE Frame
    <3>1. Seen(e)
      BY <2>1, FrameSees DEF Missed
    <3>2. est[e].tracked # NoEnemy => est'[e].tracked \in {e, est[e].tracked}
      BY <3>1 DEF Seen, SeenAs
    <3> QED
      BY <3>1, <3>2 DEF Seen, FollowsTracked
  <2>2. CASE ~Frame
    BY <2>2, OtherStep DEF NewPoll
  <2> QED
    BY <2>1, <2>2
<1> QED
  BY <1>1, <1>2, <1>3, TypeCorrect, PTL DEF Spec, HandedOverOnlyAfterAGap

-----------------------------------------------------------------------------
(***************************************************************************)
(* EnergyTracker, for any blades, any history and any number of confirming *)
(* frames.  Every frame either leaves the tracker's samples alone (Kept) or *)
(* adds the one it saw (Corrected).                                        *)
(***************************************************************************)

Counts == [mode : Modes, blade : Blades]

\* The frame before was the odd one that is counted.
OfferedIsCounted ==
  tracker.mode = "Large" /\ tracker.streak >= 1 => offered = tracker.pending

\* One mechanism's samples and turning, and on the large one a single blade's.
Pure(t) ==
  /\ \A i \in DOMAIN t.history : t.history[i].mode = t.mode
  /\ t.turns \subseteq {t.mode}
  /\ t.mode = "Large" =>
       /\ \A i \in DOMAIN t.history : t.history[i].blade = t.blade
       /\ t.curve.of \subseteq {t.blade}

-----------------------------------------------------------------------------
(* Operators *)

LEMMA EnergyBounds ==
  /\ ModelReset \in Nat /\ Confirm \in Nat /\ History \in Nat
  /\ CurveHistory \in Nat /\ None \notin Blades /\ None \notin Samples
BY EnergyAssumption DEF Samples

LEMMA TrackerFields ==
  ASSUME NEW t \in Trackers
  PROVE  /\ t.mode \in Modes /\ t.blade \in Blades \cup {None}
         /\ t.history \in Seq(Counts) /\ t.age \in 0 .. ModelReset + 1
         /\ t.pending \in Blades \cup {None} /\ t.streak \in Nat
         /\ t.curve \in [size : 0 .. CurveHistory, of : SUBSET Blades,
                         seeded : BOOLEAN, learned : BOOLEAN]
         /\ t.turns \in SUBSET Modes
BY DEF Trackers, Counts

Sound(t) ==
  /\ t \in Trackers /\ Len(t.history) <= History /\ t.streak <= Confirm /\ Pure(t)

Curves == [size : 0 .. CurveHistory, of : SUBSET Blades, seeded : BOOLEAN,
           learned : BOOLEAN]

LEMMA NewCurveType == NewCurve \in Curves /\ NewCurve.of = {}
BY EnergyBounds DEF NewCurve, Curves

LEMMA RecordedType ==
  ASSUME NEW c \in Curves, NEW blade \in Blades
  PROVE  Recorded(c, blade) \in Curves /\ Recorded(c, blade).of = c.of \cup {blade}
<1> DEFINE size == IF c.size < CurveHistory THEN c.size + 1 ELSE c.size
<1>1. size \in 0 .. CurveHistory
  BY EnergyBounds DEF Curves
<1>2. Recorded(c, blade) = [c EXCEPT !.size = size, !.of = c.of \cup {blade}]
  BY DEF Recorded, Curves
<1> HIDE DEF size
<1> QED
  BY <1>1, <1>2 DEF Curves

LEMMA AdvancedType ==
  ASSUME NEW c \in Curves, NEW d \in Advanced(c)
  PROVE  d \in Curves /\ d.of = c.of
<1>1. PICK seeded \in Seeds(c), accepted \in Accepts(c) : d = Learned(c, seeded, accepted)
  BY DEF Advanced
<1>2. seeded \in BOOLEAN
  BY DEF Seeds, Curves
<1>3. Learned(c, seeded, accepted) \in
        {[c EXCEPT !.seeded = seeded, !.learned = TRUE], [c EXCEPT !.seeded = seeded]}
  <2>1. CASE accepted
    BY <2>1 DEF Learned, Curves
  <2>2. CASE ~accepted
    BY <2>2 DEF Learned, Curves
  <2> QED
    BY <2>1, <2>2
<1> QED
  BY <1>1, <1>2, <1>3 DEF Curves

\* The history goes on by one sample, and lets go of the oldest if it is full.
LEMMA HistoryFacts ==
  ASSUME NEW h \in Seq(Counts), Len(h) <= History, NEW x \in Counts
  PROVE  /\ LastOf(Append(h, x)) \in Seq(Counts)
         /\ Len(LastOf(Append(h, x))) <= History
         /\ \A i \in DOMAIN LastOf(Append(h, x)) :
              \/ LastOf(Append(h, x))[i] = x
              \/ \E j \in DOMAIN h : LastOf(Append(h, x))[i] = h[j]
<1> DEFINE a == Append(h, x)
<1>1. a \in Seq(Counts) /\ Len(a) = Len(h) + 1 /\ Len(h) \in Nat /\ DOMAIN a = 1 .. Len(h) + 1
  OBVIOUS
<1>2. \A i \in DOMAIN a : a[i] = x \/ \E j \in DOMAIN h : a[i] = h[j]
  OBVIOUS
<1>3. a # <<>>
  BY <1>1
<1> HIDE DEF a
<1>4. /\ Tail(a) \in Seq(Counts) /\ Len(Tail(a)) = Len(h)
      /\ \A i \in DOMAIN Tail(a) : i + 1 \in DOMAIN a /\ Tail(a)[i] = a[i + 1]
  BY <1>1, <1>3
<1>5. CASE Len(a) > History
  <2>1. LastOf(a) = Tail(a)
    BY <1>5 DEF LastOf
  <2> QED
    BY <1>2, <1>4, <2>1 DEF a
<1>6. CASE ~(Len(a) > History)
  <2>1. LastOf(a) = a
    BY <1>6 DEF LastOf
  <2> QED
    BY <1>1, <1>2, <1>6, <2>1, EnergyBounds DEF a
<1> QED
  BY <1>5, <1>6

LEMMA NewTrackerSound ==
  ASSUME NEW mode \in Modes
  PROVE  Sound(NewTracker(mode)) /\ ~Known(NewTracker(mode))
<1>1. <<>> \in Seq(Counts) /\ Len(<<>>) = 0 /\ DOMAIN <<>> = {}
  OBVIOUS
<1>2. NewTracker(mode) \in Trackers
  BY <1>1, EnergyBounds, NewCurveType DEF NewTracker, Trackers, Curves, Counts
<1> QED
  BY <1>1, <1>2, EnergyBounds, NewCurveType DEF NewTracker, Sound, Pure, Known

\* A step of time changes nothing but the age.
LEMMA OlderSound ==
  ASSUME NEW t, Sound(t), NEW dt \in 1 .. MaxWait
  PROVE  /\ Sound(Older(t, dt))
         /\ Older(t, dt).blade = t.blade /\ Older(t, dt).mode = t.mode
         /\ Older(t, dt).pending = t.pending /\ Older(t, dt).streak = t.streak
<1> DEFINE age == IF t.age + dt <= ModelReset THEN t.age + dt ELSE ModelReset + 1
<1>1. t \in Trackers /\ t.age \in 0 .. ModelReset + 1 /\ dt \in Nat /\ ModelReset \in Nat
  BY TrackerFields, EnergyBounds, EnergyAssumption DEF Sound
<1>2. age \in 0 .. ModelReset + 1
  BY <1>1
<1>3. Older(t, dt) \in {t, [t EXCEPT !.age = age]}
  BY DEF Older
<1> HIDE DEF age
<1>4. CASE Older(t, dt) = [t EXCEPT !.age = age]
  BY <1>1, <1>2, <1>4 DEF Sound, Trackers, Pure
<1> QED
  BY <1>3, <1>4

\* An odd sample is counted; one that fits clears the count.
LEMMA OfferedFacts ==
  ASSUME NEW t, Sound(t), NEW s \in Samples
  PROVE  /\ Offered(t, s) \in Trackers /\ Pure(Offered(t, s))
         /\ Offered(t, s).mode = t.mode /\ Offered(t, s).blade = t.blade
         /\ Offered(t, s).history = t.history /\ Offered(t, s).curve = t.curve
         /\ Offered(t, s).turns = t.turns
         /\ Switches(t, s) =>
              /\ Offered(t, s).pending = s.blade
              /\ Offered(t, s).streak = IF t.pending = s.blade THEN t.streak + 1 ELSE 1
<1>1. t \in Trackers /\ t.streak \in Nat /\ s.blade \in Blades
  BY TrackerFields DEF Sound, Samples
<1> DEFINE streak == IF t.pending = s.blade THEN t.streak + 1 ELSE 1
<1>2. Counted(t, s) = [t EXCEPT !.pending = s.blade, !.streak = streak]
  BY <1>1 DEF Counted, Trackers
<1>3. streak \in Nat
  BY <1>1
<1>4. Switches(t, s) => Known(t)
  BY DEF Switches
<1>5. CASE Switches(t, s)
  <2>1. Offered(t, s) = [t EXCEPT !.pending = s.blade, !.streak = streak]
    BY <1>2, <1>4, <1>5 DEF Offered
  <2> HIDE DEF streak
  <2>2. /\ Offered(t, s).pending = s.blade /\ Offered(t, s).streak = streak
        /\ Offered(t, s) \in Trackers
        /\ Offered(t, s).mode = t.mode /\ Offered(t, s).blade = t.blade
        /\ Offered(t, s).history = t.history /\ Offered(t, s).curve = t.curve
        /\ Offered(t, s).turns = t.turns
    BY <1>1, <1>3, <2>1 DEF Trackers
  <2> QED
    BY <2>2 DEF Sound, Pure, streak
<1>6. CASE ~Switches(t, s)
  <2>1. Offered(t, s) \in {t, [t EXCEPT !.pending = None, !.streak = 0]}
    BY <1>6 DEF Offered
  <2>2. /\ Offered(t, s) \in Trackers
        /\ Offered(t, s).mode = t.mode /\ Offered(t, s).blade = t.blade
        /\ Offered(t, s).history = t.history /\ Offered(t, s).curve = t.curve
        /\ Offered(t, s).turns = t.turns
    <3>1. CASE Offered(t, s) = t
      BY <1>1, <3>1
    <3>2. CASE Offered(t, s) = [t EXCEPT !.pending = None, !.streak = 0]
      <4>1. 0 \in Nat /\ None \in Blades \cup {None}
        OBVIOUS
      <4> QED
        BY <1>1, <3>2, <4>1 DEF Trackers
    <3> QED
      BY <2>1, <3>1, <3>2
  <2> QED
    BY <1>6, <2>2 DEF Sound, Pure
<1> QED
  BY <1>5, <1>6

\* correct: the sample joins the others, or is the first of its own.
LEMMA CorrectFacts ==
  ASSUME NEW t \in Trackers, Pure(t), Len(t.history) <= History,
         NEW s \in Samples, NEW u \in Correct(t, s)
  PROVE  Sound(u) /\ u.mode = t.mode /\ u.blade = s.blade /\ u.streak = 0
<1> DEFINE starts  == Starts(t, s)
           history == IF starts THEN <<>> ELSE t.history
           recent  == LastOf(Append(history, Sample(t, s)))
<1>1. /\ t.mode \in Modes /\ t.history \in Seq(Counts) /\ s.blade \in Blades
      /\ t.curve \in Curves
  BY TrackerFields DEF Samples, Curves
<1>2. Sample(t, s) \in Counts /\ Sample(t, s).mode = t.mode /\ Sample(t, s).blade = s.blade
  BY <1>1 DEF Sample, Counts
<1> DEFINE turns == LearnedOn(t, s)
<1>turns. turns \in SUBSET Modes /\ turns \subseteq {t.mode}
  BY <1>1, TrackerFields DEF LearnedOn, Pure
<1>3. history \in Seq(Counts) /\ Len(history) <= History
  BY <1>1, EnergyBounds
<1>4. \A j \in DOMAIN history : history[j].mode = t.mode
  BY DEF Pure
<1>5. t.mode = "Large" /\ ~starts => s.blade = t.blade
  BY DEF Starts, Switches
<1>6. t.mode = "Large" => \A j \in DOMAIN history : history[j].blade = s.blade
  BY <1>5 DEF Pure
<1>7. /\ recent \in Seq(Counts) /\ Len(recent) <= History
      /\ \A i \in DOMAIN recent : recent[i].mode = t.mode
      /\ t.mode = "Large" => \A i \in DOMAIN recent : recent[i].blade = s.blade
  <2> DEFINE x == Sample(t, s)
  <2>1. x \in Counts /\ x.mode = t.mode /\ x.blade = s.blade
    BY <1>2
  <2> HIDE DEF history, x
  <2>2. /\ LastOf(Append(history, x)) \in Seq(Counts)
        /\ Len(LastOf(Append(history, x))) <= History
        /\ \A i \in DOMAIN LastOf(Append(history, x)) :
             \/ LastOf(Append(history, x))[i] = x
             \/ \E j \in DOMAIN history : LastOf(Append(history, x))[i] = history[j]
    BY <1>3, <2>1, HistoryFacts
  <2>3. recent = LastOf(Append(history, x))
    BY DEF x
  <2> HIDE DEF recent
  <2>4. \A i \in DOMAIN recent : recent[i] = x \/ \E j \in DOMAIN history : recent[i] = history[j]
    BY <2>2, <2>3
  <2>5. \A i \in DOMAIN recent : recent[i].mode = t.mode
    BY <1>4, <2>1, <2>4
  <2>6. t.mode = "Large" => \A i \in DOMAIN recent : recent[i].blade = s.blade
    BY <1>6, <2>1, <2>4
  <2> QED
    BY <2>2, <2>3, <2>5, <2>6
<1>8. PICK c :
        /\ u = [t EXCEPT !.blade = s.blade, !.history = recent, !.age = 0,
                         !.pending = None, !.streak = 0, !.curve = c, !.turns = turns]
        /\ c \in (CASE t.mode = "Small" -> {NewCurve}
                    [] t.mode = "Large" /\ starts  -> {Recorded(NewCurve, s.blade)}
                    [] t.mode = "Large" /\ ~starts ->
                         {Recorded(d, s.blade) : d \in Advanced(t.curve)})
  BY DEF Correct
<1>9. c \in Curves /\ (t.mode = "Large" => c.of \subseteq {s.blade})
  <2>1. CASE t.mode = "Small"
    BY <1>8, <2>1, NewCurveType
  <2>2. CASE t.mode = "Large" /\ starts
    BY <1>1, <1>8, <2>2, NewCurveType, RecordedType
  <2>3. CASE t.mode = "Large" /\ ~starts
    <3>1. PICK d \in Advanced(t.curve) : c = Recorded(d, s.blade)
      BY <1>8, <2>3
    <3>2. d \in Curves /\ d.of = t.curve.of
      BY <1>1, <3>1, AdvancedType
    <3>3. c \in Curves /\ c.of = t.curve.of \cup {s.blade}
      BY <1>1, <3>1, <3>2, RecordedType
    <3> QED
      BY <1>5, <2>3, <3>3 DEF Pure
  <2> QED
    BY <1>1, <2>1, <2>2, <2>3 DEF Modes
<1> HIDE DEF starts, history, recent, turns
<1>10. /\ u \in Trackers /\ u.mode = t.mode /\ u.blade = s.blade /\ u.streak = 0
       /\ u.history = recent /\ u.curve = c /\ u.turns = turns
  <2>1. /\ 0 \in Nat /\ 0 \in 0 .. ModelReset + 1 /\ None \in Blades \cup {None}
        /\ s.blade \in Blades \cup {None}
    BY <1>1, EnergyBounds
  <2>2. u = [t EXCEPT !.blade = s.blade, !.history = recent, !.age = 0,
                      !.pending = None, !.streak = 0, !.curve = c, !.turns = turns]
    BY <1>8
  <2>3. recent \in Seq(Counts) /\ c \in Curves
    BY <1>7, <1>9
  <2> QED
    BY <2>1, <2>2, <2>3, <1>turns DEF Trackers, Counts, Curves
<1>11. Len(u.history) <= History /\ u.streak <= Confirm
  BY <1>7, <1>10, EnergyBounds
<1>12. Pure(u)
  BY <1>7, <1>9, <1>10, <1>turns DEF Pure
<1> QED
  BY <1>10, <1>11, <1>12 DEF Sound

\* update without a target
LEMMA UnseenFacts ==
  ASSUME NEW t, Sound(t), NEW u \in Unseen(t)
  PROVE  /\ Sound(u) /\ u.mode = t.mode /\ u.blade = t.blade
         /\ u.pending = t.pending /\ u.streak = t.streak
<1>1. u \in {t, [t EXCEPT !.curve = NewCurve]}
  BY DEF Unseen
<1>2. CASE u = [t EXCEPT !.curve = NewCurve]
  BY <1>2, NewCurveType DEF Sound, Trackers, Pure, Curves
<1> QED
  BY <1>1, <1>2

\* update: what each of its outcomes leaves and changes.
LEMMA UpdateFacts ==
  ASSUME NEW t, Sound(t), NEW s \in Samples \cup {None}, NEW u \in Update(t, s)
  PROVE  /\ Sound(u) /\ u.mode = t.mode
         /\ s = None => u.blade = t.blade /\ u.pending = t.pending /\ u.streak = t.streak
         /\ s # None /\ Defers(t, s) => u.blade = t.blade /\ u.pending = s.blade
         /\ s # None /\ ~Defers(t, s) => u.blade = s.blade /\ u.streak = 0
<1>1. t \in Trackers /\ t.mode \in Modes /\ Pure(t) /\ Len(t.history) <= History
  BY TrackerFields DEF Sound
<1>2. CASE s = None
  <2>1. u \in Unseen(t)
    BY <1>2 DEF Update
  <2> QED
    BY <1>2, <2>1, UnseenFacts
<1>3. CASE s # None /\ t.mode = "Small"
  <2>1. s \in Samples /\ u \in Correct(t, s)
    BY <1>3 DEF Update
  <2>2. ~Defers(t, s)
    BY <1>3 DEF Defers
  <2> QED
    BY <1>1, <1>3, <2>1, <2>2, CorrectFacts
<1>4. CASE s # None /\ t.mode = "Large" /\ Defers(t, s)
  <2>1. s \in Samples /\ u = Offered(t, s)
    BY <1>4 DEF Update
  <2>2. Switches(t, s) /\ Offered(t, s).streak < Confirm
    BY <1>4 DEF Defers
  <2>3. /\ u \in Trackers /\ Pure(u) /\ u.mode = t.mode /\ u.blade = t.blade
        /\ u.history = t.history /\ u.pending = s.blade
    BY <2>1, <2>2, OfferedFacts
  <2>4. u.streak \in Nat /\ u.streak <= Confirm
    BY <2>1, <2>2, <2>3, TrackerFields, EnergyBounds
  <2> QED
    BY <1>1, <1>4, <2>3, <2>4 DEF Sound
<1>5. CASE s # None /\ t.mode = "Large" /\ ~Defers(t, s)
  <2>1. s \in Samples /\ u \in Correct(Offered(t, s), s)
    BY <1>5 DEF Update
  <2>2. /\ Offered(t, s) \in Trackers /\ Pure(Offered(t, s))
        /\ Offered(t, s).mode = t.mode /\ Offered(t, s).history = t.history
    BY <2>1, OfferedFacts
  <2>3. Sound(u) /\ u.mode = t.mode /\ u.blade = s.blade /\ u.streak = 0
    BY <1>1, <2>1, <2>2, CorrectFacts
  <2> QED
    BY <1>5, <2>3
<1> QED
  BY <1>1, <1>2, <1>3, <1>4, <1>5 DEF Modes

Snapshots == [mode : Modes \cup {None}, valid : BOOLEAN, blade : Blades \cup {None}]

LEMMA SnapshotType ==
  ASSUME NEW t \in Trackers
  PROVE  Snapshot(t) \in Snapshots
<1>1. t.mode \in Modes /\ t.blade \in Blades \cup {None}
  BY TrackerFields
<1>2. Valid(t) \in BOOLEAN
  BY DEF Valid
<1>3. NoTrack \in Snapshots
  BY DEF NoTrack, Snapshots
<1>4. [mode |-> t.mode, valid |-> Valid(t), blade |-> t.blade] \in Snapshots
  BY <1>1, <1>2 DEF Snapshots
<1> QED
  BY <1>3, <1>4 DEF Snapshot

-----------------------------------------------------------------------------
(* The invariant *)

EnergyInvariant ==
  /\ routed \in Tasks /\ rerouted \in BOOLEAN /\ loop \in Modes \cup {"look"}
  /\ Sound(tracker)
  /\ track \in Snapshots /\ offered \in Blades \cup {None}
  /\ OfferedIsCounted

LEMMA InitInvariant == EnergyInit => EnergyInvariant
<1> SUFFICES ASSUME EnergyInit PROVE EnergyInvariant
  OBVIOUS
<1>1. "Small" \in Modes
  BY DEF Modes
<1>2. Sound(tracker) /\ tracker.mode = "Small"
  BY <1>1, NewTrackerSound DEF EnergyInit, NewTracker
<1>3. track \in Snapshots
  BY DEF EnergyInit, NoTrack, Snapshots
<1> QED
  BY <1>2, <1>3 DEF EnergyInit, EnergyInvariant, OfferedIsCounted

\* The tracker a frame is handed to: the one kept, or a new one of the loop's mode.
LEMMA HandedTo ==
  ASSUME EnergyInvariant, loop # "look", NEW dt \in 1 .. MaxWait,
         NEW t, t = Older(InMode(loop), dt)
  PROVE  /\ Sound(t) /\ t.mode = loop
         /\ tracker.mode = loop => /\ t.blade = tracker.blade
                                   /\ t.pending = tracker.pending
                                   /\ t.streak = tracker.streak
         /\ tracker.mode # loop => t.streak = 0
<1>1. loop \in Modes /\ Sound(tracker)
  BY DEF EnergyInvariant
<1>2. CASE tracker.mode = loop
  <2>1. InMode(loop) = tracker
    BY <1>2 DEF InMode
  <2> QED
    BY <1>1, <1>2, <2>1, OlderSound
<1>3. CASE tracker.mode # loop
  <2>1. InMode(loop) = NewTracker(loop)
    BY <1>3 DEF InMode
  <2>2. Sound(NewTracker(loop))
    BY <1>1, NewTrackerSound
  <2>3. NewTracker(loop).mode = loop /\ NewTracker(loop).streak = 0
    BY DEF NewTracker
  <2> QED
    BY <1>3, <2>1, <2>2, <2>3, OlderSound
<1> QED
  BY <1>2, <1>3

LEMMA FrameInvariant == EnergyInvariant /\ TrackFrame => EnergyInvariant'
<1> SUFFICES ASSUME EnergyInvariant, TrackFrame PROVE EnergyInvariant'
  OBVIOUS
<1>1. PICK s \in Samples \cup {None}, dt \in 1 .. MaxWait :
        /\ tracker' \in Update(Older(InMode(loop), dt), s)
        /\ offered' = CASE s = None -> IF tracker.mode = loop THEN offered ELSE None
                        [] s # None -> IF Defers(Older(InMode(loop), dt), s)
                                       THEN s.blade ELSE None
  BY DEF TrackFrame
<1> DEFINE t == Older(InMode(loop), dt)
<1>2. /\ loop \in Modes /\ loop # "look" /\ offered \in Blades \cup {None}
      /\ OfferedIsCounted /\ routed' = routed /\ rerouted' = rerouted /\ loop' = "look"
      /\ track' = Snapshot(tracker')
  BY DEF EnergyInvariant, TrackFrame
<1>3. /\ Sound(t) /\ t.mode = loop
      /\ tracker.mode = loop => t.pending = tracker.pending /\ t.streak = tracker.streak
      /\ tracker.mode # loop => t.streak = 0
  <2> HIDE DEF t
  <2> QED
    BY <1>2, HandedTo DEF t
<1>4. /\ tracker' \in Update(t, s)
      /\ s = None => offered' = IF tracker.mode = loop THEN offered ELSE None
      /\ s # None => offered' = IF Defers(t, s) THEN s.blade ELSE None
  BY <1>1
<1> HIDE DEF t
<1>5. /\ Sound(tracker') /\ tracker'.mode = t.mode
      /\ s = None => tracker'.pending = t.pending /\ tracker'.streak = t.streak
      /\ s # None /\ Defers(t, s) => tracker'.pending = s.blade
      /\ s # None /\ ~Defers(t, s) => tracker'.streak = 0
  BY <1>3, <1>4, UpdateFacts
<1>6. offered' \in Blades \cup {None}
  BY <1>2, <1>4 DEF Samples
<1>7. track' \in Snapshots
  BY <1>2, <1>5, SnapshotType DEF Sound
<1>8. OfferedIsCounted'
  BY <1>2, <1>3, <1>4, <1>5 DEF OfferedIsCounted
<1> QED
  BY <1>2, <1>5, <1>6, <1>7, <1>8 DEF EnergyInvariant

LEMMA NextInvariant == EnergyInvariant /\ [EnergyNext]_energyVars => EnergyInvariant'
<1> SUFFICES ASSUME EnergyInvariant, [EnergyNext]_energyVars PROVE EnergyInvariant'
  OBVIOUS
<1>1. CASE SwitchMode
  BY <1>1 DEF SwitchMode, EnergyInvariant, OfferedIsCounted, IsEnergy
<1>2. CASE LookEnergy
  <2>1. ModeOf(routed) \in Modes
    BY DEF ModeOf, IsEnergy, Modes
  <2>2. /\ Sound(NewTracker(ModeOf(routed))) /\ NewTracker(ModeOf(routed)).streak = 0
    BY <2>1, NewTrackerSound DEF NewTracker
  <2>3. loop' \in Modes \cup {"look"}
    BY <1>2 DEF LookEnergy, IsEnergy
  <2>4. CASE rerouted
    <3>1. tracker' = NewTracker(ModeOf(routed)) /\ offered' = None
      BY <1>2, <2>4 DEF LookEnergy
    <3>2. Sound(tracker') /\ tracker'.streak = 0
      BY <2>2, <3>1
    <3>3. OfferedIsCounted'
      BY <3>2 DEF OfferedIsCounted
    <3>4. routed' \in Tasks /\ rerouted' \in BOOLEAN /\ track' \in Snapshots
      BY <1>2 DEF LookEnergy, EnergyInvariant
    <3> QED
      BY <2>3, <3>1, <3>2, <3>3, <3>4 DEF EnergyInvariant
  <2>5. CASE ~rerouted
    BY <1>2, <2>3, <2>5 DEF LookEnergy, EnergyInvariant, OfferedIsCounted
  <2> QED
    BY <2>4, <2>5
<1>3. CASE NoFrame
  BY <1>3 DEF NoFrame, EnergyInvariant, OfferedIsCounted
<1>4. CASE TrackFrame
  BY <1>4, FrameInvariant
<1>5. CASE UNCHANGED energyVars
  BY <1>5 DEF energyVars, EnergyInvariant, OfferedIsCounted
<1> QED
  BY <1>1, <1>2, <1>3, <1>4, <1>5 DEF EnergyNext

\* The tracker is sound and the count of odd frames true, whatever frames come and
\* whenever the mode changes.
THEOREM Invariance == EnergySpec => []EnergyInvariant
  BY InitInvariant, NextInvariant, PTL DEF EnergySpec

-----------------------------------------------------------------------------
(* What it is for *)

\* The variables keep their types: no more history than HISTORY_CAPACITY, and no
\* longer count than the frames that confirm a switch (tracker.rs).
THEOREM EnergyTypeCorrect == EnergySpec => []EnergyTypeOK
<1>1. EnergyInvariant => EnergyTypeOK
  BY DEF EnergyInvariant, EnergyTypeOK, Sound, Snapshots
<1> QED
  BY <1>1, Invariance, PTL

\* The history and the curve a prediction is made of are of one mechanism, and on
\* the large one of the blade that is aimed at (correct, the reset of update).
THEOREM SamplesAreOfOneMechanism == EnergySpec => []OneMechanismAtATime
<1>1. EnergyInvariant => OneMechanismAtATime
  BY DEF EnergyInvariant, OneMechanismAtATime, Sound, Pure
<1> QED
  BY <1>1, Invariance, PTL

Turns ==
  /\ tracker.mode = "Large" /\ tracker'.mode = "Large"
  /\ Known(tracker) /\ Known(tracker')
  /\ tracker'.blade # tracker.blade

LEMMA FrameConfirms ==
  ASSUME EnergyInvariant, TrackFrame, Turns, Confirm >= 2
  PROVE  offered = tracker'.blade
<1>1. PICK s \in Samples \cup {None}, dt \in 1 .. MaxWait :
        tracker' \in Update(Older(InMode(loop), dt), s)
  BY DEF TrackFrame
<1> DEFINE t == Older(InMode(loop), dt)
<1>2. /\ Sound(t) /\ t.mode = loop
      /\ tracker.mode = loop => /\ t.blade = tracker.blade
                                /\ t.pending = tracker.pending
                                /\ t.streak = tracker.streak
  <2> HIDE DEF t
  <2> QED
    BY HandedTo DEF t, TrackFrame
<1>3. tracker' \in Update(t, s)
  BY <1>1
<1> HIDE DEF t
<1>4. /\ tracker'.mode = t.mode
      /\ s = None => tracker'.blade = t.blade
      /\ s # None /\ Defers(t, s) => tracker'.blade = t.blade
      /\ s # None /\ ~Defers(t, s) => tracker'.blade = s.blade
  BY <1>2, <1>3, UpdateFacts
<1>5. /\ t.mode = "Large" /\ t.blade = tracker.blade
      /\ t.pending = tracker.pending /\ t.streak = tracker.streak
  BY <1>2, <1>4 DEF Turns
<1>6. s # None /\ ~Defers(t, s) /\ tracker'.blade = s.blade /\ s \in Samples
  BY <1>4, <1>5 DEF Turns
<1>7. Switches(t, s)
  BY <1>5, <1>6 DEF Turns, Switches, Known
<1>8. ~(Offered(t, s).streak < Confirm)
  BY <1>5, <1>6, <1>7 DEF Defers
<1>9. t.streak \in Nat /\ Confirm \in Nat
  BY <1>2, TrackerFields, EnergyBounds DEF Sound
<1>10. t.pending = s.blade /\ t.streak >= 1
  <2>1. Offered(t, s).streak = IF t.pending = s.blade THEN t.streak + 1 ELSE 1
    BY <1>2, <1>6, <1>7, OfferedFacts
  <2> QED
    BY <1>8, <1>9, <2>1
<1>11. offered = tracker.pending
  BY <1>5, <1>10 DEF Turns, EnergyInvariant, OfferedIsCounted
<1> QED
  BY <1>5, <1>6, <1>10, <1>11

\* With two or more confirming frames no single odd frame turns the tracker to
\* another blade (should_defer_target_switch).
THEOREM SwitchesAreConfirmed ==
  ASSUME Confirm >= 2
  PROVE  EnergySpec => OddFramesAreConfirmed
<1>1. ASSUME EnergyInvariant, [EnergyNext]_energyVars, Turns
      PROVE  offered = tracker'.blade
  <2>1. CASE TrackFrame
    <3>1. Confirm \in Nat /\ Confirm >= 2
      BY EnergyBounds
    <3> QED
      BY <1>1, <2>1, <3>1, FrameConfirms
  <2>2. CASE LookEnergy
    <3>1. ModeOf(routed) \in Modes
      BY DEF ModeOf, IsEnergy, Modes
    <3>2. ~Known(NewTracker(ModeOf(routed)))
      BY <3>1, NewTrackerSound
    <3> QED
      BY <1>1, <2>2, <3>2 DEF LookEnergy, Turns
  <2>3. CASE SwitchMode \/ NoFrame \/ UNCHANGED energyVars
    BY <1>1, <2>3 DEF SwitchMode, NoFrame, energyVars, Turns
  <2> QED
    BY <1>1, <2>1, <2>2, <2>3 DEF EnergyNext
<1>2. EnergyInvariant /\ [EnergyNext]_energyVars =>
        [/\ tracker.mode = "Large" /\ tracker'.mode = "Large"
         /\ Known(tracker) /\ Known(tracker')
         /\ tracker'.blade # tracker.blade
         => offered = tracker'.blade]_energyVars
  BY <1>1 DEF Turns
<1> QED
  BY <1>2, Invariance, PTL DEF EnergySpec, OddFramesAreConfirmed

-----------------------------------------------------------------------------
(***************************************************************************)
(* YpdTracker: a frame adds at most as many rejections as it has armors, and *)
(* one fewer when a measurement of it was taken, so that two frames are needed *)
(* for a restart.                                                          *)
(***************************************************************************)

\* A tracker whose rejections are counted and whose recovery window is a number.
CountedFilter(t) ==
  /\ DOMAIN t = DOMAIN Fresh
  /\ t.rejected \in Nat
  /\ t.window \in Nat

\* A reset or started tracker has rejected nothing.
LEMMA FreshCounts ==
  /\ CountedFilter(Fresh) /\ Fresh.rejected = 0
  /\ \A t \in Started : CountedFilter(t) /\ t.rejected = 0
<1>1. CountedFilter(Fresh) /\ Fresh.rejected = 0
  BY DEF CountedFilter, Fresh
<1>2. ASSUME NEW limit
      PROVE  /\ CountedFilter([Fresh EXCEPT !.initialized = TRUE, !.atLimit = limit])
             /\ [Fresh EXCEPT !.initialized = TRUE, !.atLimit = limit].rejected = 0
  BY DEF CountedFilter, Fresh
<1>3. \A t \in Started : \E limit : t = [Fresh EXCEPT !.initialized = TRUE, !.atLimit = limit]
  BY DEF Started
<1> QED  BY <1>1, <1>2, <1>3

\* A prediction forgets the rejections or leaves them.
LEMMA PredictKeeps ==
  ASSUME NEW t, CountedFilter(t)
  PROVE  /\ CountedFilter(PredictOrReset(t))
         /\ PredictOrReset(t).rejected \in {0, t.rejected}
<1>1. CASE PredictOrReset(t) = Fresh
  BY <1>1, FreshCounts
<1>2. CASE PredictOrReset(t) = t
  BY <1>2
<1>3. CASE PredictOrReset(t) = [t EXCEPT !.converged = TRUE]
  BY <1>3 DEF CountedFilter, Fresh
<1> QED  BY <1>1, <1>2, <1>3 DEF PredictOrReset, Predict

\* note_observation_jump leaves the rejections.
LEMMA NoteKeeps ==
  ASSUME NEW t, CountedFilter(t), NEW jumped \in BOOLEAN
  PROVE  CountedFilter(NoteJump(t, jumped)) /\ NoteJump(t, jumped).rejected = t.rejected
<1>1. NoteJump(t, jumped) \in {t, [t EXCEPT !.window = JumpWindow], [t EXCEPT !.streak = 0]}
  BY DEF NoteJump
<1> QED  BY <1>1, YpdAssumption DEF CountedFilter, Fresh

\* update_geometry_recovery leaves the rejections.
LEMMA RecoverKeeps ==
  ASSUME NEW t, CountedFilter(t), NEW matched \in Nat, NEW mismatch
  PROVE  /\ CountedFilter(Recover(t, matched, mismatch))
         /\ Recover(t, matched, mismatch).rejected = t.rejected
<1> DEFINE cooled == CoolDown(t)
           inspected == Inspect(cooled, matched, mismatch)
<1>1. CountedFilter(cooled) /\ cooled.rejected = t.rejected
  BY DEF CountedFilter, CoolDown, Fresh
<1>2. cooled.window > 0 => CountedFilter(inspected) /\ inspected.rejected = t.rejected
  BY <1>1 DEF CountedFilter, Inspect, Fresh
<1>3. cooled.window > 0 => CountedFilter(Inflated(inspected)) /\ Inflated(inspected).rejected = t.rejected
  BY <1>2 DEF CountedFilter, Inflated, Fresh
<1>4. cooled.window = 0 \/ cooled.window > 0
  BY <1>1 DEF CountedFilter
<1>5. (matched >= MinMatched) = ~(matched < MinMatched)
  BY YpdAssumption
<1>6. cooled.window > 0 => ~(cooled.window = 0)
  OBVIOUS
<1> DEFINE r == Recover(t, matched, mismatch)
<1>7. \/ r = cooled
      \/ cooled.window > 0 /\ r = inspected
      \/ cooled.window > 0 /\ r = Inflated(inspected)
  BY <1>4, <1>5, <1>6 DEF Recover
<1> HIDE DEF cooled, inspected, r
<1>8. CountedFilter(r) /\ r.rejected = t.rejected
  BY <1>1, <1>2, <1>3, <1>7
<1> QED  BY <1>8 DEF r

\* A measurement adds one rejection at most, and ends their row when it is taken.
LEMMA CorrectCounts ==
  ASSUME NEW t, CountedFilter(t), NEW o \in Observations, NEW clear
  PROVE  /\ CountedFilter(CorrectWith(t, o, clear))
         /\ CorrectWith(t, o, clear).rejected <= t.rejected + 1
         /\ Taken(o) => CorrectWith(t, o, clear).rejected = 0
<1> DEFINE c == CorrectWith(t, o, clear)
<1>1. o.verdict \in Verdicts
  BY DEF Observations
<1>2. CASE o.verdict = "gated"
  <2>1. c = RecordNis([t EXCEPT !.rejected = @ + 1], TRUE)
    BY <1>2 DEF CorrectWith, Taken
  <2> QED  BY <1>2, <2>1 DEF RecordNis, CountedFilter, Fresh, Taken
<1>3. CASE o.verdict = "refused"
  <2>1. c = RecordNis(t, TRUE)
    BY <1>3 DEF CorrectWith, Taken
  <2> QED  BY <1>3, <2>1 DEF RecordNis, CountedFilter, Fresh, Taken
<1>4. CASE Taken(o)
  <2> DEFINE taken == RecordNis(CountUpdate(t), o.verdict = "bad")
  <2>1. c = IF isOutpost THEN HeightPhase(taken, o.id, clear) ELSE taken
    BY <1>4 DEF CorrectWith, Taken
  <2>2. CountedFilter(taken) /\ taken.rejected = 0
    BY DEF RecordNis, CountUpdate, CountedFilter, Fresh
  <2> HIDE DEF taken
  <2>3. CountedFilter(AddSample(taken, o.id)) /\ AddSample(taken, o.id).rejected = 0
    BY <2>2 DEF AddSample, CountedFilter, Fresh
  <2>4. CountedFilter(HeightPhase(taken, o.id, clear)) /\ HeightPhase(taken, o.id, clear).rejected = 0
    BY <2>3 DEF HeightPhase, CountedFilter, Fresh
  <2>5. CountedFilter(c) /\ c.rejected = 0
    BY <2>1, <2>2, <2>4
  <2> QED  BY <2>5 DEF CountedFilter
<1> QED  BY <1>1, <1>2, <1>3, <1>4 DEF Verdicts, Taken

\* The equation of Run, for batches of any length.
RunOf(run, t, batch, clear, n) ==
  run = [i \in 0 .. n |-> IF i = 0 THEN t ELSE CorrectWith(run[i - 1], batch[i], clear)]

\* Run is what its recursion says.
LEMMA RunUnfolds ==
  ASSUME NEW t, NEW batch, NEW clear, Len(batch) \in Nat
  PROVE  RunOf(Run(t, batch, clear), t, batch, clear, Len(batch))
<1> DEFINE S == {n \in Nat : \E run : RunOf(run, t, batch, clear, n)}
<1>1. 0 \in S
  <2>1. RunOf([i \in 0 .. 0 |-> t], t, batch, clear, 0)
    BY DEF RunOf
  <2> QED  BY <2>1
<1>2. ASSUME NEW n \in Nat, n \in S PROVE n + 1 \in S
  <2>1. PICK run : RunOf(run, t, batch, clear, n)
    BY <1>2
  <2> DEFINE next == [i \in 0 .. n + 1 |->
                        IF i = n + 1 THEN CorrectWith(run[n], batch[n + 1], clear) ELSE run[i]]
  <2>2. ASSUME NEW i \in 0 .. n + 1
        PROVE  next[i] = IF i = 0 THEN t ELSE CorrectWith(next[i - 1], batch[i], clear)
    <3>1. CASE i = n + 1
      BY <3>1
    <3>2. CASE i \in 0 .. n
      <4>1. next[i] = run[i]
        BY <3>2
      <4>2. run[i] = IF i = 0 THEN t ELSE CorrectWith(run[i - 1], batch[i], clear)
        BY <2>1, <3>2 DEF RunOf
      <4>3. i # 0 => next[i - 1] = run[i - 1]
        BY <3>2
      <4> QED  BY <4>1, <4>2, <4>3
    <3> QED  BY <3>1, <3>2
  <2>3. RunOf(next, t, batch, clear, n + 1)
    BY <2>2 DEF RunOf
  <2> QED  BY <2>3
<1>3. Len(batch) \in S
  <2> HIDE DEF S
  <2> QED  BY <1>1, <1>2, Counting
<1>4. \E run : RunOf(run, t, batch, clear, Len(batch))
  BY <1>3
<1>5. Run(t, batch, clear) = CHOOSE run : RunOf(run, t, batch, clear, Len(batch))
  BY DEF Run, RunOf
<1> QED  BY <1>4, <1>5

\* What is rejected after i observations: at most i more, and fewer once one was taken.
RunCounts(run, t, batch, i) ==
  /\ CountedFilter(run[i])
  /\ run[i].rejected <= t.rejected + i
  /\ (\E j \in 1 .. i : Taken(batch[j])) => run[i].rejected <= i - 1

\* A batch adds as many rejections as it has measurements, and leaves fewer than that
\* when one of them was taken.
LEMMA RunRejects ==
  ASSUME NEW t, CountedFilter(t), NEW batch \in Batches, NEW clear
  PROVE  LET run == Run(t, batch, clear)
         IN /\ Len(batch) \in 1 .. MaxObs
            /\ DOMAIN batch = 1 .. Len(batch)
            /\ RunCounts(run, t, batch, Len(batch))
<1> DEFINE run == Run(t, batch, clear)
<1>1. PICK m \in 1 .. MaxObs : batch \in [1 .. m -> Observations]
  BY DEF Batches
<1>2. m = Len(batch) /\ Len(batch) \in Nat
  BY <1>1, YpdAssumption
<1>3. RunOf(run, t, batch, clear, m)
  BY <1>2, RunUnfolds
<1> HIDE DEF run
<1> DEFINE S == {n \in Nat : n <= m => RunCounts(run, t, batch, n)}
<1>4. 0 \in S
  <2>1. run[0] = t
    BY <1>2, <1>3 DEF RunOf
  <2> QED  BY <2>1 DEF RunCounts, CountedFilter
<1>5. ASSUME NEW n \in Nat, n \in S PROVE n + 1 \in S
  <2> SUFFICES ASSUME n + 1 <= m PROVE RunCounts(run, t, batch, n + 1)
    OBVIOUS
  <2>1. RunCounts(run, t, batch, n)
    BY <1>2, <1>5
  <2>2. batch[n + 1] \in Observations
    BY <1>1
  <2>3. run[n + 1] = CorrectWith(run[n], batch[n + 1], clear)
    BY <1>2, <1>3 DEF RunOf
  <2>4. /\ CountedFilter(run[n + 1]) 
        /\ run[n + 1].rejected <= run[n].rejected + 1
        /\ Taken(batch[n + 1]) => run[n + 1].rejected = 0
    BY <2>1, <2>2, <2>3, CorrectCounts DEF RunCounts
  <2>5. run[n].rejected \in Nat /\ run[n + 1].rejected \in Nat /\ t.rejected \in Nat
    BY <2>1, <2>4 DEF RunCounts, CountedFilter
  <2>6. ASSUME \E j \in 1 .. n + 1 : Taken(batch[j]) PROVE run[n + 1].rejected <= n
    <3>1. CASE Taken(batch[n + 1])
      BY <2>4, <3>1
    <3>2. CASE ~Taken(batch[n + 1])
      <4>1. \E j \in 1 .. n : Taken(batch[j])
        BY <2>6, <3>2
      <4> QED  BY <2>1, <2>4, <2>5, <4>1 DEF RunCounts
    <3> QED  BY <3>1, <3>2
  <2> QED  BY <2>1, <2>4, <2>5, <2>6 DEF RunCounts
<1>6. m \in S
  <2> HIDE DEF S
  <2> QED  BY <1>1, <1>2, <1>4, <1>5, Counting
<1> QED  BY <1>1, <1>2, <1>6 DEF run

YpdInvariant ==
  /\ CountedFilter(ypd)
  /\ since \in Nat
  /\ event \in {"none", "restarted"}
  /\ Aged = 0 => ypd.rejected <= MaxObs - 1
  /\ RestartNeedsTwoFrames

\* No filter, no rejections.
LEMMA YpdStart == YpdInit => YpdInvariant
BY FreshCounts, YpdAssumption DEF YpdInit, YpdInvariant, RestartNeedsTwoFrames

\* Every frame keeps the invariant.
LEMMA YpdStep == YpdInvariant /\ [YpdNext]_ypdVars => YpdInvariant'
<1> SUFFICES ASSUME YpdInvariant, [YpdNext]_ypdVars PROVE YpdInvariant'
  OBVIOUS
<1> USE YpdAssumption
<1>1. /\ CountedFilter(ypd) /\ ypd.rejected \in Nat
      /\ since \in Nat /\ Aged \in Nat
      /\ Aged = 0 => ypd.rejected <= MaxObs - 1
  BY DEF YpdInvariant, CountedFilter, Aged
<1>2. CASE FilterSleeps
  BY <1>2, FreshCounts DEF FilterSleeps, YpdInvariant, RestartNeedsTwoFrames
<1>3. CASE FilterUnseen
  <2>1. CountedFilter(ypd') /\ ypd'.rejected \in {0, ypd.rejected}
    BY <1>1, <1>3, PredictKeeps DEF FilterUnseen
  <2>2. event' = "none" /\ since' = Aged /\ Aged' = Aged
    BY <1>3 DEF FilterUnseen, Aged
  <2> QED  BY <1>1, <2>1, <2>2 DEF YpdInvariant, RestartNeedsTwoFrames
<1>4. CASE FilterStarts
  <2>1. CountedFilter(ypd') /\ ypd'.rejected = 0
    BY <1>4, FreshCounts DEF FilterStarts
  <2>2. event' = "none" /\ since' = 0
    BY <1>4 DEF FilterStarts
  <2> QED  BY <2>1, <2>2 DEF YpdInvariant, RestartNeedsTwoFrames
<1>5. CASE FilterCorrected
  <2> DEFINE predicted == PredictOrReset(ypd)
  <2> DEFINE only4 == IF isOutpost THEN {FALSE} ELSE BOOLEAN
             only3 == IF isOutpost THEN BOOLEAN ELSE {FALSE}
  <2>1. PICK jumped, mismatch, limit \in only4, clear \in only3, batch \in Batches :
          LET run       == Run(NoteJump(predicted, jumped), batch, clear)
              corrected == run[Len(batch)]
              recovered == Recover(corrected, Len(batch), mismatch)
              restarts  == Restarts(corrected, batch)
          IN /\ Fits(run, batch)
             /\ limit = predicted.atLimit \/ ~NoneTaken(batch)
             /\ ypd' \in IF restarts THEN Started
                         ELSE {[recovered EXCEPT !.atLimit = limit]}
             /\ event' = IF restarts THEN "restarted" ELSE "none"
             /\ since' = IF ~NoneTaken(batch) THEN 0
                         ELSE IF Aged < ReinitAfter THEN Aged + 1 ELSE Aged
    BY <1>5 DEF FilterCorrected
  <2> DEFINE noted     == NoteJump(predicted, jumped)
             corrected == Run(noted, batch, clear)[Len(batch)]
  <2>2. CountedFilter(noted) /\ noted.rejected \in {0, ypd.rejected}
    <3>1. jumped \in BOOLEAN
      OBVIOUS
    <3> QED  BY <1>1, <3>1, PredictKeeps, NoteKeeps
  <2> HIDE DEF noted
  <2>3. /\ Len(batch) \in 1 .. MaxObs /\ DOMAIN batch = 1 .. Len(batch)
        /\ CountedFilter(corrected)
        /\ corrected.rejected <= noted.rejected + Len(batch)
        /\ ~NoneTaken(batch) => corrected.rejected <= Len(batch) - 1
    BY <2>2, RunRejects DEF RunCounts, NoneTaken
  <2> DEFINE recovered == Recover(corrected, Len(batch), mismatch)
             restarts == Restarts(corrected, batch)
  <2>4. /\ ypd' \in IF restarts THEN Started
                    ELSE {[recovered EXCEPT !.atLimit = limit]}
        /\ event' = IF restarts THEN "restarted" ELSE "none"
        /\ since' = IF ~NoneTaken(batch) THEN 0
                    ELSE IF Aged < ReinitAfter THEN Aged + 1 ELSE Aged
    BY <2>1 DEF noted
  <2> HIDE DEF corrected
  <2>5. corrected.rejected \in Nat /\ noted.rejected \in Nat
    BY <2>2, <2>3 DEF CountedFilter
  <2>6. CASE restarts
    <3>1. NoneTaken(batch) /\ corrected.rejected >= ReinitAfter
      BY <2>6 DEF Restarts
    <3>2. Aged # 0
      BY <1>1, <2>2, <2>3, <2>5, <3>1
    <3>3. since' \in Nat /\ since' >= 2
      BY <1>1, <2>4, <3>1, <3>2
    <3>4. event' = "restarted" /\ CountedFilter(ypd') /\ ypd'.rejected = 0
      BY <2>4, <2>6, FreshCounts
    <3> QED  BY <3>3, <3>4 DEF YpdInvariant, RestartNeedsTwoFrames
  <2>7. CASE ~restarts
    <3>1. ypd' = [recovered EXCEPT !.atLimit = limit] /\ event' = "none"
      BY <2>4, <2>7
    <3>2. CountedFilter(ypd') /\ ypd'.rejected = corrected.rejected
      <4>1. Len(batch) \in Nat
        BY <2>3
      <4>2. CountedFilter(recovered) /\ recovered.rejected = corrected.rejected
        BY <2>3, <4>1, RecoverKeeps
      <4> HIDE DEF recovered
      <4> QED  BY <3>1, <4>2 DEF CountedFilter, Fresh
    <3>3. since' \in Nat /\ Aged' = since'
      BY <1>1, <2>4, <3>1 DEF Aged
    <3>4. since' = 0 => ~NoneTaken(batch)
      BY <1>1, <2>4
    <3>5. since' = 0 => ypd'.rejected <= MaxObs - 1
      BY <2>3, <2>5, <3>2, <3>4
    <3> QED  BY <3>1, <3>2, <3>3, <3>5 DEF YpdInvariant, RestartNeedsTwoFrames
  <2> QED  BY <2>6, <2>7
<1>6. CASE UNCHANGED ypdVars
  BY <1>6 DEF ypdVars, YpdInvariant, RestartNeedsTwoFrames, Aged
<1> QED  BY <1>2, <1>3, <1>4, <1>5, <1>6 DEF YpdNext

\* update_batch: one frame in which every armor is rejected never restarts an
\* outpost's filter, while twice the armors of a frame are no more than the
\* rejections it takes (YpdAssumption).
THEOREM OneBadFrameIsForgiven == YpdSpec => []RestartNeedsTwoFrames
<1>1. YpdInvariant => RestartNeedsTwoFrames
  BY DEF YpdInvariant
<1> QED  BY <1>1, YpdStart, YpdStep, PTL DEF YpdSpec

-----------------------------------------------------------------------------
(***************************************************************************)
(* Detector: what is left never overlaps what was kept, and what is gone was *)
(* covered by something at least as good.                                  *)
(***************************************************************************)

KeptApart == \A a, b \in kept : a # b => ~Overlap(a, b)

\* What is left overlaps nothing that was kept.
LeftApart == \A k \in kept, r \in rest : ~Overlap(k, r)

GoneAreCovered ==
  \A r \in Candidates(rows) \ (rest \cup kept) :
    \E k \in kept : Overlap(k, r) /\ k.score >= r.score

DetectorInvariant ==
  /\ stage = "idle" => rows = {} /\ kept = {}
  /\ stage # "nms" => rest = {}
  /\ KeptApart /\ LeftApart /\ GoneAreCovered

\* Overlap of two candidates is mutual.
LEMMA OverlapSymmetric ==
  \A a, b : Overlap(a, b) <=> Overlap(b, a)
<1> SUFFICES ASSUME NEW a, NEW b PROVE Overlap(a, b) <=> Overlap(b, a)
  OBVIOUS
<1>1. a.box \cap b.box = b.box \cap a.box /\ a.box \cup b.box = b.box \cup a.box
  OBVIOUS
<1> QED  BY <1>1 DEF Overlap

\* Nothing is left to suppress before a frame.
LEMMA DetectorStart == DetectorInit => DetectorInvariant
BY DEF DetectorInit, DetectorInvariant, KeptApart, LeftApart, GoneAreCovered, Candidates

\* Every round of the suppression keeps the invariant.
LEMMA DetectorStep == DetectorInvariant /\ [DetectorNext]_detectorVars => DetectorInvariant'
<1> SUFFICES ASSUME DetectorInvariant, [DetectorNext]_detectorVars PROVE DetectorInvariant'
  OBVIOUS
<1>1. CASE Infer
  <2>1. /\ stage' = "nms" /\ kept = {} /\ kept' = {} /\ rest' = Candidates(rows')
        /\ UNCHANGED network
    BY <1>1 DEF Infer, DetectorInvariant
  <2>2. Candidates(rows)' = rest'
    BY <2>1 DEF Candidates
  <2> QED  BY <2>1, <2>2 DEF DetectorInvariant, KeptApart, LeftApart, GoneAreCovered
<1>2. CASE Keep
  <2>1. PICK chosen \in rest :
          /\ \A r \in rest : r.score <= chosen.score
          /\ kept' = kept \cup {chosen}
          /\ rest' = {r \in rest \ {chosen} : ~Overlap(chosen, r)}
    BY <1>2 DEF Keep, Suppresses
  <2>2. stage = "nms" /\ UNCHANGED <<stage, network, rows>>
    BY <1>2 DEF Keep
  <2>3. Candidates(rows)' = Candidates(rows)
    BY <2>2 DEF Candidates
  <2>4. KeptApart'
    BY <2>1, OverlapSymmetric DEF DetectorInvariant, KeptApart, LeftApart
  <2>5. LeftApart'
    BY <2>1 DEF DetectorInvariant, LeftApart
  <2>6. GoneAreCovered'
    <3> SUFFICES ASSUME NEW r \in Candidates(rows), r \notin rest', r \notin kept'
                 PROVE  \E k \in kept' : Overlap(k, r) /\ k.score >= r.score
      BY <2>3 DEF GoneAreCovered
    <3>1. CASE r \in rest
      <4>1. Overlap(chosen, r) /\ chosen.score >= r.score
        BY <2>1, <3>1
      <4> QED  BY <2>1, <4>1
    <3>2. CASE r \notin rest
      <4>1. r \in Candidates(rows) \ (rest \cup kept)
        BY <2>1, <3>2
      <4> QED  BY <2>1, <4>1 DEF DetectorInvariant, GoneAreCovered
    <3> QED  BY <3>1, <3>2
  <2> QED  BY <2>2, <2>4, <2>5, <2>6 DEF DetectorInvariant
<1>3. CASE Solve
  <2>1. stage' = "solved" /\ rest = {} /\ UNCHANGED <<network, rows, rest, kept>>
    BY <1>3 DEF Solve
  <2> QED  BY <2>1 DEF DetectorInvariant, KeptApart, LeftApart, GoneAreCovered, Candidates
<1>4. CASE NextFrame
  <2>1. stage = "solved" /\ stage' = "idle" /\ rows' = {} /\ kept' = {} /\ UNCHANGED rest
    BY <1>4 DEF NextFrame
  <2>2. Candidates(rows)' = {} /\ rest' = {}
    BY <2>1 DEF Candidates, DetectorInvariant
  <2> QED  BY <2>1, <2>2 DEF DetectorInvariant, KeptApart, LeftApart, GoneAreCovered
<1>5. CASE UNCHANGED detectorVars
  BY <1>5 DEF detectorVars, DetectorInvariant, KeptApart, LeftApart, GoneAreCovered, Candidates
<1> QED  BY <1>1, <1>2, <1>3, <1>4, <1>5 DEF DetectorNext

\* nms: of candidates that overlap the best is handed on, and nothing is lost that
\* does not overlap something better, for any boxes, scores and threshold.
THEOREM OverlapsLeaveOne == DetectorSpec => []BestOfEachOverlap
<1>1. DetectorInvariant => BestOfEachOverlap
  BY DEF DetectorInvariant, KeptApart, GoneAreCovered, BestOfEachOverlap
<1> QED  BY <1>1, DetectorStart, DetectorStep, PTL DEF DetectorSpec
==============================================================================
