------------------------------- MODULE Detector -------------------------------
(***************************************************************************)
(* From the rows a network puts out for a frame to what is tracked: decoding *)
(* and non-maximum suppression (rbt_yolo.rs for armors, detected.rs for the  *)
(* energy mechanism), then the armors of each robot and its center           *)
(* (rbt_solver.rs) or the blade (solved.rs).                                 *)
(*                                                                         *)
(* A box is the set of cells it covers.  Rows without a chance, those below  *)
(* the threshold, of a class that is no target or without a proper shape,    *)
(* are left out.                                                             *)
(***************************************************************************)
EXTENDS Integers, FiniteSets

CONSTANTS
  Boxes,       \* sets of cells
  Scores,      \* a set of numbers
  Robots,      \* the enemies a number can be decoded to
  MaxRows,     \* bound: rows that may become candidates
  IouPercent   \* nms_iou_threshold

VARIABLES
  stage,       \* "idle", "nms" or "solved"
  network,     \* "armor" or "energy"
  rows,        \* what the network put out
  rest,        \* candidates still to be kept or suppressed
  kept,        \* those kept
  result       \* what the trackers are given

detectorVars == <<stage, network, rows, rest, kept, result>>

Colors == {"self", "other"}      \* of the own robots, or not
Rows == [box : Boxes, score : Scores, color : Colors, robot : Robots]
Outputs == {{}} \cup {{row[i] : i \in 1 .. MaxRows} : row \in [1 .. MaxRows -> Rows]}

Overlap(a, b) ==
  Cardinality(a.box \cap b.box) * 100 >= IouPercent * Cardinality(a.box \cup b.box)

\* Mutant: overlapping boxes of different robots leave each other alone.
OverlapOfOne(a, b) == a.robot = b.robot /\ Overlap(a, b)

\* retain(iou < threshold)
Suppresses(a, b) == Overlap(a, b)

\* The rows that become candidates.  Armors of the own color do: they are
\* filtered after the suppression, blades of the own color before it.
Candidates(output) ==
  {r \in output : network = "energy" => r.color # "self"}

DetectorInit ==
  /\ stage = "idle"
  /\ network \in {"armor", "energy"}
  /\ rows = {} /\ rest = {} /\ kept = {} /\ result = {}

Infer ==
  /\ stage = "idle"
  /\ rows' \in Outputs
  /\ rest' = Candidates(rows')
  /\ stage' = "nms"
  /\ UNCHANGED <<network, kept, result>>

\* nms: the best that is left is kept, and takes away all that it overlaps.
Keep ==
  /\ stage = "nms"
  /\ \E best \in rest :
       /\ \A r \in rest : r.score <= best.score
       /\ kept' = kept \cup {best}
       /\ rest' = {r \in rest \ {best} : ~Suppresses(best, r)}
  /\ UNCHANGED <<stage, network, rows, result>>

(***************************************************************************)
(* The solution.                                                            *)
(***************************************************************************)
\* enemys_solver: the pose of an armor may be rejected.  One armor and a radius
\* make a center, or two whose lines cross; three make none.
ArmorsSolved ==
  {s \in SUBSET {a \in kept : a.color # "self"} :
     \A robot \in Robots : Cardinality({a \in s : a.robot = robot}) <= 2}

\* solve_energy_mechanism: the first blade whose pose can be solved.  A later one
\* would need a better score, which the order of the suppression excludes.
BladeSolved == {{}} \cup {{b} : b \in kept}

Solve ==
  /\ stage = "nms" /\ rest = {}
  /\ result' \in IF network = "armor" THEN ArmorsSolved ELSE BladeSolved
  /\ stage' = "solved"
  /\ UNCHANGED <<network, rows, rest, kept>>

NextFrame ==
  /\ stage = "solved"
  /\ stage' = "idle"
  /\ rows' = {} /\ kept' = {} /\ result' = {}
  /\ UNCHANGED <<network, rest>>

DetectorNext == Infer \/ Keep \/ Solve \/ NextFrame

DetectorSpec == DetectorInit /\ [][DetectorNext]_detectorVars

(***************************************************************************)
(* Properties.                                                              *)
(***************************************************************************)
\* Of boxes that overlap one is kept and one only, the best: no two of those kept
\* overlap, and each that is gone overlaps one that was kept for its score.
BestOfEachOverlap ==
  /\ \A a, b \in kept : a # b => ~Overlap(a, b)
  /\ \A r \in Candidates(rows) \ (rest \cup kept) :
       \E k \in kept : Overlap(k, r) /\ k.score >= r.score
=============================================================================
