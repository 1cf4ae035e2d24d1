------------------------------ MODULE CostMatrix ------------------------------
(***************************************************************************)
(* What both assignments of the vision code are about: a matrix of costs, a  *)
(* column of its own for every row, and the cheapest way to give them out.   *)
(***************************************************************************)
EXTENDS Integers, Sequences

CONSTANTS
  Shapes,    \* bound: triples of rows, columns and the greatest cost
  Infinity   \* f64::INFINITY, more than any sum of costs

ASSUME MatrixAssumption ==
  /\ Infinity \in Nat
  /\ \A shape \in Shapes :
       /\ shape[1] \in Nat \ {0} /\ shape[2] \in Nat \ {0} /\ shape[3] \in Nat
       /\ shape[1] * shape[3] < Infinity /\ 2 * shape[3] < Infinity

Tables(shape) == [1 .. shape[1] -> [1 .. shape[2] -> 0 .. shape[3]]]

SumOf(g, n) ==
  LET sum[i \in 0 .. n] == IF i = 0 THEN 0 ELSE sum[i - 1] + g[i] IN sum[n]

Assignments(m) ==
  {f \in [1 .. Len(m) -> 1 .. Len(m[1])] : \A i, k \in 1 .. Len(m) : f[i] = f[k] => i = k}

CostOf(m, f) == SumOf([i \in 1 .. Len(m) |-> m[i][f[i]]], Len(m))

Cheapest(m, f) ==
  f \in Assignments(m) /\ \A g \in Assignments(m) : CostOf(m, f) <= CostOf(m, g)
===============================================================================
