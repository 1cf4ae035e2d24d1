------------------------------- MODULE Matching -------------------------------
(***************************************************************************)
(* hungarian_algorithm (rbt_sort.rs), as the loops it runs: rows are inserted *)
(* one by one, each along the cheapest path of columns to a free one, on     *)
(* which the rows before it move over.                                      *)
(***************************************************************************)
EXTENDS CostMatrix

VARIABLES
  cost,      \* cost_matrix as the algorithm sees it, not higher than wide
  row,       \* the row being inserted, 0 before the first
  col,       \* current_col, 0 where a row starts and where its path ends
  flipping,  \* the path found is being flipped
  rowPot, colPot, match, previous, minCost, used

matchingVars ==
  <<cost, row, col, flipping, rowPot, colPot, match, previous, minCost, used>>

Height == Len(cost)
Width == Len(cost[1])
Cols == 1 .. Width

(***************************************************************************)
(* rectangular_hungarian.                                                   *)
(***************************************************************************)
\* A matrix that is higher than wide is transposed.
Transposed(m) == [j \in 1 .. Len(m[1]) |-> [i \in 1 .. Len(m) |-> m[i][j]]]
Oriented(m) == IF Len(m) <= Len(m[1]) THEN m ELSE Transposed(m)

MatchingInit ==
  /\ \E shape \in Shapes : \E m \in Tables(shape) : cost = Oriented(m)
  /\ row = 0 /\ col = 0 /\ flipping = FALSE
  /\ rowPot = [i \in 0 .. Height |-> 0]
  /\ colPot = [j \in 0 .. Width |-> 0]
  /\ match = [j \in 0 .. Width |-> 0]
  /\ previous = [j \in 0 .. Width |-> 0]
  /\ minCost = [j \in 0 .. Width |-> Infinity]
  /\ used = {}

Settled == ~flipping /\ col = 0 /\ used = {}
Done == Settled /\ row = Height

\* Insert the next row and look at its columns.
NextRow ==
  /\ Settled /\ row < Height
  /\ row' = row + 1
  /\ match' = [match EXCEPT ![0] = row + 1]
  /\ minCost' = [j \in 0 .. Width |-> Infinity]
  /\ used' = {0}
  /\ UNCHANGED <<cost, col, flipping, rowPot, colPot, previous>>

\* Mutant: the potential of the column is forgotten.
WithoutColumn(i, j) == cost[i][j] - rowPot[i]

Reduced(i, j) == cost[i][j] - rowPot[i] - colPot[j]

\* One pass of the inner loop: relax, shift the potentials by the least reduced
\* cost, go to its column; a column without a row ends the path.
Relax ==
  LET from    == match[col]
      free    == Cols \ used
      better  == {j \in free : Reduced(from, j) < minCost[j]}
      relaxed == [j \in 0 .. Width |-> IF j \in better THEN Reduced(from, j) ELSE minCost[j]]
      least   == CHOOSE j \in free : \A k \in free :
                   relaxed[j] < relaxed[k] \/ (relaxed[j] = relaxed[k] /\ j <= k)
      delta   == relaxed[least]
      rows    == {match[j] : j \in used}
  IN /\ ~flipping /\ used # {}
     /\ previous' = [j \in 0 .. Width |-> IF j \in better THEN col ELSE previous[j]]
     /\ rowPot' = [i \in 0 .. Height |-> IF i \in rows THEN rowPot[i] + delta ELSE rowPot[i]]
     /\ colPot' = [j \in 0 .. Width |-> IF j \in used THEN colPot[j] - delta ELSE colPot[j]]
     /\ minCost' = [j \in 0 .. Width |-> IF j \in used THEN relaxed[j] ELSE relaxed[j] - delta]
     /\ col' = least
     /\ flipping' = (match[least] = 0)
     /\ used' = IF match[least] = 0 THEN {} ELSE used \cup {least}
     /\ UNCHANGED <<cost, row, match>>

Flip ==
  /\ flipping
  /\ match' = [match EXCEPT ![col] = match[previous[col]]]
  /\ col' = previous[col]
  /\ flipping' = (previous[col] # 0)
  /\ UNCHANGED <<cost, row, rowPot, colPot, previous, minCost, used>>

MatchingNext == NextRow \/ Relax \/ Flip

MatchingSpec == MatchingInit /\ [][MatchingNext]_matchingVars

(***************************************************************************)
(* Properties.                                                              *)
(***************************************************************************)
Assigned == [i \in 1 .. Height |-> CHOOSE j \in Cols : match[j] = i]

\* The algorithm assigns every row a column of its own, and no assignment is
\* cheaper.
HungarianIsOptimal == Done => Cheapest(cost, Assigned)
=============================================================================
