----------------------------- MODULE ArmorSearch -----------------------------
(***************************************************************************)
(* ArmorAssignmentSearch (rbt_ypd_angle_tracker.rs): which observation is     *)
(* which armor of the robot, by visiting the assignments depth first and     *)
(* leaving out what is already as dear as the best one found.                *)
(*                                                                         *)
(* The calls of visit on the stack are the first `index` entries of current: *)
(* a call's total is the cost of the entries below it, and the loop of each  *)
(* one but the innermost stands at the id it has entered there.              *)
(***************************************************************************)
EXTENDS CostMatrix

VARIABLES
  costs,     \* match_cost of every observation and armor
  phase,     \* "visit": visit was called, "loop": in its loop, "done"
  index,     \* the depth of the innermost call
  id,        \* where its loop stands
  idUsed,    \* used
  current, best,
  bestCost

searchVars == <<costs, phase, index, id, idUsed, current, best, bestCost>>

Observed == Len(costs)
ArmorIds == 1 .. Len(costs[1])
Nobody == 0

\* Observations beyond the number of armors are not looked at.
Observable(m) == SubSeq(m, 1, IF Len(m) <= Len(m[1]) THEN Len(m) ELSE Len(m[1]))

SearchInit ==
  /\ \E shape \in Shapes : \E m \in Tables(shape) : costs = Observable(m)
  /\ phase = "visit" /\ index = 0 /\ id = 1 /\ idUsed = {}
  /\ current = [i \in 1 .. Observed |-> Nobody]
  /\ best = [i \in 1 .. Observed |-> Nobody]
  /\ bestCost = Infinity

Total == SumOf([i \in 1 .. index |-> costs[i][current[i]]], index)

\* Mutant: an id is never free again.
Hoards == idUsed

Released == idUsed \ {current[index]}

\* The innermost call returns, and its caller goes on behind the id it had tried.
Return ==
  \/ /\ index = 0 /\ phase' = "done"
     /\ UNCHANGED <<index, id, idUsed, current>>
  \/ /\ index > 0 /\ phase' = "loop" /\ index' = index - 1
     /\ id' = current[index] + 1
     /\ idUsed' = Released
     /\ current' = [current EXCEPT ![index] = Nobody]

CutOff ==
  /\ phase = "visit" /\ Total >= bestCost
  /\ Return
  /\ UNCHANGED <<costs, best, bestCost>>

Found ==
  /\ phase = "visit" /\ Total < bestCost /\ index = Observed
  /\ best' = current /\ bestCost' = Total
  /\ Return
  /\ UNCHANGED costs

Open ==
  /\ phase = "visit" /\ Total < bestCost /\ index < Observed
  /\ phase' = "loop" /\ id' = 1
  /\ UNCHANGED <<costs, index, idUsed, current, best, bestCost>>

Skip ==
  /\ phase = "loop" /\ id \in ArmorIds \cap idUsed
  /\ id' = id + 1
  /\ UNCHANGED <<costs, phase, index, idUsed, current, best, bestCost>>

Try ==
  /\ phase = "loop" /\ id \in ArmorIds \ idUsed
  /\ phase' = "visit" /\ index' = index + 1
  /\ idUsed' = idUsed \cup {id}
  /\ current' = [current EXCEPT ![index + 1] = id]
  /\ UNCHANGED <<costs, id, best, bestCost>>

Exhausted ==
  /\ phase = "loop" /\ id \notin ArmorIds
  /\ Return
  /\ UNCHANGED <<costs, best, bestCost>>

SearchNext == CutOff \/ Found \/ Open \/ Skip \/ Try \/ Exhausted

SearchSpec == SearchInit /\ [][SearchNext]_searchVars

(***************************************************************************)
(* Properties.                                                              *)
(***************************************************************************)
\* However much of the tree is cut off, every observation is given an armor of its
\* own, and no other way to give them out costs less.
SearchIsOptimal == phase = "done" => Cheapest(costs, best)
===============================================================================
