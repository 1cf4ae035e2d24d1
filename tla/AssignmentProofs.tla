--------------------------- MODULE AssignmentProofs ---------------------------
(***************************************************************************)
(* Both assignments of the vision code are optimal, for matrices of any size: *)
(* the Hungarian algorithm (Matching) and the branch and bound over the      *)
(* armors of a robot (ArmorSearch).                                         *)
(***************************************************************************)
EXTENDS Matching, ArmorSearch, FiniteSetTheorems, WellFoundedInduction, TLAPS

-----------------------------------------------------------------------------
\* A set of numbers that has 0 and every successor has them all.
LEMMA Counting ==
  ASSUME NEW S, 0 \in S, \A n \in Nat : n \in S => n + 1 \in S
  PROVE  Nat \subseteq S
<1> SUFFICES ASSUME Nat \ S # {} PROVE FALSE
  OBVIOUS
<1>1. IsWellFoundedOn(OpToRel(<, Nat), Nat)
  BY NatLessThanWellFounded, Zenon
<1>2. Nat \ S \subseteq Nat
  OBVIOUS
<1>3. \E x \in Nat \ S : \A y \in Nat \ S : ~(<<y, x>> \in OpToRel(<, Nat))
  BY <1>1, <1>2, WFMin
<1>4. PICK x \in Nat \ S : \A y \in Nat \ S : ~(<<y, x>> \in OpToRel(<, Nat))
  BY <1>3
<1>5. x # 0 /\ x - 1 \in Nat /\ (x - 1) + 1 = x
  OBVIOUS
<1>6. x - 1 \notin S
  BY <1>5
<1>7. <<x - 1, x>> \in OpToRel(<, Nat)
  BY <1>5 DEF OpToRel
<1> QED  BY <1>4, <1>5, <1>6, <1>7

(***************************************************************************)
(* Sums.                                                                    *)
(***************************************************************************)
SumStep(s, g, i) == s[i - 1] + g[i]
IsSum(s, g, n) == s = [i \in 0 .. n |-> IF i = 0 THEN 0 ELSE SumStep(s, g, i)]
Partial(s, g, n) == s[0] = 0 /\ \A i \in 1 .. n : s[i] = s[i - 1] + g[i]
Ints(g, n) == \A i \in 1 .. n : g[i] \in Int

\* SumOf is the last of its partial sums.
LEMMA SumUnfolds ==
  ASSUME NEW g, NEW n \in Nat
  PROVE  \E s : Partial(s, g, n) /\ SumOf(g, n) = s[n]
<1> DEFINE S == {m \in Nat : \E s : IsSum(s, g, m)}
<1>1. 0 \in S
  <2>1. IsSum([i \in 0 .. 0 |-> 0], g, 0)
    BY DEF IsSum
  <2> QED  BY <2>1
<1>2. ASSUME NEW m \in Nat, m \in S PROVE m + 1 \in S
  <2>1. PICK s : IsSum(s, g, m)
    BY <1>2
  <2> DEFINE next == [i \in 0 .. m + 1 |-> IF i = m + 1 THEN SumStep(s, g, m + 1) ELSE s[i]]
  <2>2. ASSUME NEW i \in 0 .. m + 1
        PROVE  next[i] = IF i = 0 THEN 0 ELSE SumStep(next, g, i)
    <3>0. i # 0 => next[i - 1] = s[i - 1]
      OBVIOUS
    <3>3. i # 0 => SumStep(next, g, i) = SumStep(s, g, i)
      BY <3>0 DEF SumStep
    <3>1. CASE i = m + 1
      BY <3>1, <3>3
    <3>2. CASE i \in 0 .. m
      <4>1. next[i] = s[i]
        BY <3>2
      <4>2. s[i] = IF i = 0 THEN 0 ELSE SumStep(s, g, i)
        BY <2>1, <3>2 DEF IsSum
      <4> QED  BY <4>1, <4>2, <3>3
    <3> QED  BY <3>1, <3>2
  <2>3. IsSum(next, g, m + 1)
    BY <2>2 DEF IsSum
  <2> QED  BY <2>3
<1>3. \E s : IsSum(s, g, n)
  <2>1. n \in S
    <3> HIDE DEF S
    <3> QED  BY <1>1, <1>2, Counting
  <2> QED  BY <2>1
<1> DEFINE sum == CHOOSE s : IsSum(s, g, n)
<1>4. SumOf(g, n) = sum[n]
  BY DEF SumOf, IsSum, SumStep
<1>5. IsSum(sum, g, n)
  BY <1>3
<1> HIDE DEF sum
<1>6. ASSUME NEW i \in 0 .. n PROVE sum[i] = IF i = 0 THEN 0 ELSE SumStep(sum, g, i)
  BY <1>5 DEF IsSum
<1>7. Partial(sum, g, n)
  BY <1>6 DEF Partial, SumStep
<1> QED  BY <1>4, <1>7

\* Partial sums of integers are integers.
LEMMA SumsAreInts ==
  ASSUME NEW g, NEW n \in Nat, NEW s, Partial(s, g, n), Ints(g, n)
  PROVE  \A i \in 0 .. n : s[i] \in Int
<1> DEFINE S == {m \in Nat : m <= n => s[m] \in Int}
<1>1. 0 \in S
  BY DEF Partial
<1>2. ASSUME NEW m \in Nat, m \in S PROVE m + 1 \in S
  <2> SUFFICES ASSUME m + 1 <= n PROVE s[m + 1] \in Int
    OBVIOUS
  <2>1. m + 1 \in 1 .. n /\ (m + 1) - 1 = m /\ s[m] \in Int
    BY <1>2
  <2>2. s[m + 1] = s[m] + g[m + 1]
    BY <2>1 DEF Partial
  <2> QED  BY <2>1, <2>2 DEF Ints
<1>3. Nat \subseteq S
  <2> HIDE DEF S
  <2> QED  BY <1>1, <1>2, Counting
<1> QED  BY <1>3

\* A sum of integers is one.
LEMMA SumIsInt ==
  ASSUME NEW g, NEW n \in Nat, Ints(g, n)
  PROVE  SumOf(g, n) \in Int
<1>1. PICK s : Partial(s, g, n) /\ SumOf(g, n) = s[n]
  BY SumUnfolds
<1> QED  BY <1>1, SumsAreInts

\* What is not more anywhere is not more in sum, and what is two together is the sum
\* of both.
LEMMA SumsCompare ==
  ASSUME NEW n \in Nat, NEW f, NEW g, NEW h, Ints(f, n), Ints(g, n), Ints(h, n)
  PROVE  /\ (\A i \in 1 .. n : f[i] + g[i] <= h[i]) => SumOf(f, n) + SumOf(g, n) <= SumOf(h, n)
         /\ (\A i \in 1 .. n : f[i] + g[i] = h[i]) => SumOf(f, n) + SumOf(g, n) = SumOf(h, n)
<1>1. PICK a : Partial(a, f, n) /\ SumOf(f, n) = a[n]
  BY SumUnfolds
<1>2. PICK b : Partial(b, g, n) /\ SumOf(g, n) = b[n]
  BY SumUnfolds
<1>3. PICK c : Partial(c, h, n) /\ SumOf(h, n) = c[n]
  BY SumUnfolds
<1>4. \A i \in 0 .. n : a[i] \in Int /\ b[i] \in Int /\ c[i] \in Int
  BY <1>1, <1>2, <1>3, SumsAreInts
<1> DEFINE Less == \A i \in 1 .. n : f[i] + g[i] <= h[i]
           Same == \A i \in 1 .. n : f[i] + g[i] = h[i]
           S == {m \in Nat : m <= n => /\ Less => a[m] + b[m] <= c[m]
                                       /\ Same => a[m] + b[m] = c[m]}
<1>5. 0 \in S
  BY <1>1, <1>2, <1>3 DEF Partial
<1>6. ASSUME NEW m \in Nat, m \in S PROVE m + 1 \in S
  <2> SUFFICES ASSUME m + 1 <= n
               PROVE  /\ Less => a[m + 1] + b[m + 1] <= c[m + 1]
                      /\ Same => a[m + 1] + b[m + 1] = c[m + 1]
    OBVIOUS
  <2>1. m + 1 \in 1 .. n /\ (m + 1) - 1 = m /\ m \in 0 .. n /\ m <= n
    OBVIOUS
  <2>2. /\ a[m + 1] = a[m] + f[m + 1]
        /\ b[m + 1] = b[m] + g[m + 1]
        /\ c[m + 1] = c[m] + h[m + 1]
    BY <1>1, <1>2, <1>3, <2>1 DEF Partial
  <2>3. /\ a[m] \in Int /\ b[m] \in Int /\ c[m] \in Int
        /\ f[m + 1] \in Int /\ g[m + 1] \in Int /\ h[m + 1] \in Int
    BY <1>4, <2>1 DEF Ints
  <2>4. (Less => a[m] + b[m] <= c[m]) /\ (Same => a[m] + b[m] = c[m])
    BY <1>6, <2>1
  <2>5. (Less => f[m + 1] + g[m + 1] <= h[m + 1]) /\ (Same => f[m + 1] + g[m + 1] = h[m + 1])
    BY <2>1
  <2> HIDE DEF Less, Same
  <2> QED  BY <2>2, <2>3, <2>4, <2>5
<1>7. Nat \subseteq S
  <2> HIDE DEF S
  <2> QED  BY <1>5, <1>6, Counting
<1>8. (Less => a[n] + b[n] <= c[n]) /\ (Same => a[n] + b[n] = c[n])
  BY <1>7
<1> QED  BY <1>1, <1>2, <1>3, <1>8

\* A sum of zeros.
LEMMA SumOfNothing ==
  ASSUME NEW n \in Nat, NEW g, \A i \in 1 .. n : g[i] = 0
  PROVE  SumOf(g, n) = 0
<1>1. Ints(g, n)
  BY DEF Ints
<1>2. \A i \in 1 .. n : g[i] + g[i] = g[i]
  OBVIOUS
<1>3. SumOf(g, n) + SumOf(g, n) = SumOf(g, n)
  BY <1>1, <1>2, SumsCompare
<1> QED  BY <1>1, <1>3, SumIsInt

\* A number added in one place is added to the sum.
LEMMA SumGrows ==
  ASSUME NEW n \in Nat, NEW g, NEW h, Ints(g, n), Ints(h, n), NEW k \in 1 .. n, NEW x \in Int,
         h[k] = g[k] + x, \A i \in 1 .. n : i # k => h[i] = g[i]
  PROVE  SumOf(h, n) = SumOf(g, n) + x
<1>1. PICK a : Partial(a, g, n) /\ SumOf(g, n) = a[n]
  BY SumUnfolds
<1>2. PICK b : Partial(b, h, n) /\ SumOf(h, n) = b[n]
  BY SumUnfolds
<1>3. \A i \in 0 .. n : a[i] \in Int /\ b[i] \in Int
  BY <1>1, <1>2, SumsAreInts
<1> DEFINE S == {m \in Nat : m <= n => b[m] = IF m < k THEN a[m] ELSE a[m] + x}
<1>4. 0 \in S
  BY <1>1, <1>2 DEF Partial
<1>5. ASSUME NEW m \in Nat, m \in S PROVE m + 1 \in S
  <2> SUFFICES ASSUME m + 1 <= n
               PROVE  b[m + 1] = IF m + 1 < k THEN a[m + 1] ELSE a[m + 1] + x
    OBVIOUS
  <2>1. m + 1 \in 1 .. n /\ (m + 1) - 1 = m /\ m \in 0 .. n /\ m <= n
    OBVIOUS
  <2>2. a[m + 1] = a[m] + g[m + 1] /\ b[m + 1] = b[m] + h[m + 1]
    BY <1>1, <1>2, <2>1 DEF Partial
  <2>3. a[m] \in Int /\ b[m] \in Int /\ g[m + 1] \in Int /\ h[m + 1] \in Int
    BY <1>3, <2>1 DEF Ints
  <2>4. b[m] = IF m < k THEN a[m] ELSE a[m] + x
    BY <1>5, <2>1
  <2>5. h[m + 1] = IF m + 1 = k THEN g[m + 1] + x ELSE g[m + 1]
    BY <2>1
  <2> QED  BY <2>2, <2>3, <2>4, <2>5
<1>6. Nat \subseteq S
  <2> HIDE DEF S
  <2> QED  BY <1>4, <1>5, Counting
<1> QED  BY <1>1, <1>2, <1>6

(***************************************************************************)
(* Potentials and costs.                                                    *)
(***************************************************************************)
\* What the columns taken by the first n rows pay, the others nothing.
Paid(f, v, n, w) == [j \in 1 .. w |-> IF \E i \in 1 .. n : f[i] = j THEN v[j] ELSE 0]

\* A sum over the columns that rows take is a sum over the rows.
LEMMA PaidByRows ==
  ASSUME NEW h \in Nat, NEW w \in Nat, NEW v, Ints(v, w),
         NEW f \in [1 .. h -> 1 .. w], \A i, k \in 1 .. h : f[i] = f[k] => i = k
  PROVE  SumOf([i \in 1 .. h |-> v[f[i]]], h) = SumOf(Paid(f, v, h, w), w)
<1> DEFINE g == [i \in 1 .. h |-> v[f[i]]]
<1>1. Ints(g, h)
  BY DEF Ints
<1>2. PICK s : Partial(s, g, h) /\ SumOf(g, h) = s[h]
  BY SumUnfolds
<1>3. \A n \in Nat : Ints(Paid(f, v, n, w), w)
  BY DEF Ints, Paid
<1> DEFINE S == {n \in Nat : n <= h => s[n] = SumOf(Paid(f, v, n, w), w)}
<1>4. 0 \in S
  <2>1. \A j \in 1 .. w : Paid(f, v, 0, w)[j] = 0
    BY DEF Paid
  <2> QED  BY <1>2, <2>1, SumOfNothing DEF Partial
<1>5. ASSUME NEW n \in Nat, n \in S PROVE n + 1 \in S
  <2> SUFFICES ASSUME n + 1 <= h PROVE s[n + 1] = SumOf(Paid(f, v, n + 1, w), w)
    OBVIOUS
  <2>1. n + 1 \in 1 .. h /\ (n + 1) - 1 = n /\ n <= h
    OBVIOUS
  <2>2. s[n + 1] = s[n] + v[f[n + 1]]
    BY <1>2, <2>1 DEF Partial
  <2> DEFINE k == f[n + 1]
             p == Paid(f, v, n, w)
             q == Paid(f, v, n + 1, w)
  <2>3. k \in 1 .. w /\ v[k] \in Int
    BY <2>1 DEF Ints
  <2>4. ~ \E i \in 1 .. n : f[i] = k
    BY <2>1
  <2>5. p[k] = 0 /\ q[k] = v[k]
    BY <2>1, <2>3, <2>4 DEF Paid
  <2>6. ASSUME NEW j \in 1 .. w, j # k PROVE q[j] = p[j]
    <3>1. (\E i \in 1 .. n + 1 : f[i] = j) <=> (\E i \in 1 .. n : f[i] = j)
      BY <2>6
    <3> QED  BY <3>1 DEF Paid
  <2>7. Ints(p, w) /\ Ints(q, w)
    BY <1>3
  <2>8. s[n] = SumOf(p, w)
    BY <1>5, <2>1
  <2>9. s[n + 1] = s[n] + v[k]
    BY <2>2
  <2> HIDE DEF k, p, q
  <2>10. q[k] = p[k] + v[k]
    BY <2>3, <2>5
  <2>11. SumOf(q, w) = SumOf(p, w) + v[k]
    BY <2>3, <2>6, <2>7, <2>10, SumGrows
  <2> QED  BY <2>8, <2>9, <2>11 DEF q
<1>6. Nat \subseteq S
  <2> HIDE DEF S
  <2> QED  BY <1>4, <1>5, Counting
<1> QED  BY <1>2, <1>6

\* Potentials of h rows and w columns, and the costs c of an assignment f.
Priced(u, v, c, f, h, w) ==
  /\ Ints(u, h) /\ Ints(v, w) /\ Ints(c, h)
  /\ f \in [1 .. h -> 1 .. w] /\ \A i, k \in 1 .. h : f[i] = f[k] => i = k
  /\ \A j \in 1 .. w : v[j] <= 0

\* No cost is below its potentials.
Covers(u, v, c, f, h) == \A i \in 1 .. h : u[i] + v[f[i]] <= c[i]

\* The assignment takes tight columns, and all those whose potential is not zero.
Meets(u, v, c, f, h, w) ==
  /\ \A i \in 1 .. h : u[i] + v[f[i]] = c[i]
  /\ \A j \in 1 .. w : (\E i \in 1 .. h : f[i] = j) \/ v[j] = 0

\* Potentials that no cost is below bound every assignment from below, and one that
\* meets them is no more.
LEMMA PotentialsBound ==
  ASSUME NEW h \in Nat, NEW w \in Nat, NEW c, NEW u, NEW v, NEW f, Priced(u, v, c, f, h, w)
  PROVE  /\ Covers(u, v, c, f, h) => SumOf(u, h) + SumOf(v, w) <= SumOf(c, h)
         /\ Meets(u, v, c, f, h, w) => SumOf(u, h) + SumOf(v, w) = SumOf(c, h)
<1> DEFINE g == [i \in 1 .. h |-> v[f[i]]]
           p == Paid(f, v, h, w)
           z == [j \in 1 .. w |-> 0]
<1>0. /\ Ints(u, h) /\ Ints(v, w) /\ Ints(c, h)
      /\ f \in [1 .. h -> 1 .. w] /\ \A i, k \in 1 .. h : f[i] = f[k] => i = k
      /\ \A j \in 1 .. w : v[j] <= 0
  BY DEF Priced
<1>1. Ints(g, h) /\ Ints(p, w) /\ Ints(z, w)
  BY <1>0 DEF Ints, Paid
<1>2. SumOf(g, h) = SumOf(p, w)
  BY <1>0, PaidByRows
<1>3. \A i \in 1 .. h : g[i] = v[f[i]]
  OBVIOUS
<1>4. \A j \in 1 .. w : p[j] = IF \E i \in 1 .. h : f[i] = j THEN v[j] ELSE 0
  BY DEF Paid
<1>5. \A j \in 1 .. w : z[j] = 0
  OBVIOUS
<1>6. SumOf(z, w) = 0
  BY <1>5, SumOfNothing
<1>7. /\ SumOf(u, h) \in Int /\ SumOf(v, w) \in Int /\ SumOf(c, h) \in Int
      /\ SumOf(g, h) \in Int /\ SumOf(p, w) \in Int
  BY <1>0, <1>1, SumIsInt
<1> HIDE DEF g, p, z
<1>8. \A j \in 1 .. w : v[j] + z[j] <= p[j]
  BY <1>0, <1>4, <1>5 DEF Ints
<1>9. SumOf(v, w) + SumOf(z, w) <= SumOf(p, w)
  BY <1>0, <1>1, <1>8, SumsCompare
<1>10. ASSUME Covers(u, v, c, f, h)
       PROVE  SumOf(u, h) + SumOf(v, w) <= SumOf(c, h)
  <2>1. \A i \in 1 .. h : u[i] + g[i] <= c[i]
    BY <1>3, <1>10 DEF Covers
  <2>2. SumOf(u, h) + SumOf(g, h) <= SumOf(c, h)
    BY <1>0, <1>1, <2>1, SumsCompare
  <2> QED  BY <1>2, <1>6, <1>7, <1>9, <2>2
<1>11. ASSUME Meets(u, v, c, f, h, w)
       PROVE  SumOf(u, h) + SumOf(v, w) = SumOf(c, h)
  <2>1. \A i \in 1 .. h : u[i] + g[i] = c[i]
    BY <1>3, <1>11 DEF Meets
  <2>2. SumOf(u, h) + SumOf(g, h) = SumOf(c, h)
    BY <1>0, <1>1, <2>1, SumsCompare
  <2>3. \A j \in 1 .. w : v[j] + z[j] = p[j]
    BY <1>0, <1>4, <1>5, <1>11 DEF Ints, Meets
  <2>4. SumOf(v, w) + SumOf(z, w) = SumOf(p, w)
    BY <1>0, <1>1, <2>3, SumsCompare
  <2> QED  BY <1>2, <1>6, <1>7, <2>2, <2>4
<1> QED  BY <1>10, <1>11

(***************************************************************************)
(* The invariant of the algorithm.                                          *)
(***************************************************************************)
RowNumbers == 1 .. Height

\* A matrix of costs that are small next to Infinity, not higher than wide.
Matrix ==
  /\ Height \in Nat \ {0} /\ Width \in Nat \ {0} /\ Height <= Width
  /\ \E most \in Nat :
       /\ 2 * most < Infinity
       /\ \A i \in RowNumbers, j \in Cols : cost[i][j] \in 0 .. most

MatchingTypeOK ==
  /\ row \in 0 .. Height /\ col \in 0 .. Width /\ flipping \in BOOLEAN
  /\ rowPot \in [0 .. Height -> Int] /\ colPot \in [0 .. Width -> Int]
  /\ match \in [0 .. Width -> 0 .. Height] /\ previous \in [0 .. Width -> 0 .. Width]
  /\ minCost \in [0 .. Width -> Int] /\ used \in SUBSET (0 .. Width)

\* The potentials bound the costs from below.
Feasible ==
  /\ \A i \in RowNumbers : rowPot[i] >= 0
  /\ \A j \in Cols : colPot[j] <= 0
  /\ \A i \in RowNumbers, j \in Cols : Reduced(i, j) >= 0

\* The columns whose row stays, all but the one a path is being flipped at, and the
\* rows that have a column.
Firm == Cols \ (IF flipping THEN {col} ELSE {})
Inserted == IF flipping \/ used # {} THEN row - 1 ELSE row

\* Rows take tight columns, one each; a column without a row has potential zero.
Matched ==
  /\ \A j \in Firm : /\ match[j] \in 0 .. Inserted
                     /\ match[j] # 0 => Reduced(match[j], j) = 0
                     /\ match[j] = 0 => colPot[j] = 0
  /\ \A j, k \in Firm : match[j] = match[k] /\ match[j] # 0 => j = k
  /\ \A i \in 1 .. Inserted : \E j \in Firm : match[j] = i

MatchingBase == Matrix /\ MatchingTypeOK /\ Feasible /\ Matched

\* Done, the assignment is the cheapest.
LEMMA DoneIsOptimal ==
  ASSUME MatchingBase
  PROVE  HungarianIsOptimal
<1> SUFFICES ASSUME Done
             PROVE  /\ Assigned \in Assignments(cost)
                    /\ \A f \in Assignments(cost) : CostOf(cost, Assigned) <= CostOf(cost, f)
  BY DEF HungarianIsOptimal, Cheapest
<1> DEFINE h == Height
           w == Width
<1>1. h \in Nat /\ w \in Nat /\ Cols = 1 .. w
  BY DEF MatchingBase, Matrix, Cols
<1>2. Firm = Cols /\ Inserted = h
  BY DEF Done, Settled, Firm, Inserted
<1>3. \A i \in RowNumbers : Assigned[i] \in Cols /\ match[Assigned[i]] = i
  BY <1>2 DEF MatchingBase, Matched, Assigned, RowNumbers
<1>4. Assigned \in Assignments(cost)
  <2>1. Assigned \in [RowNumbers -> Cols]
    BY <1>3 DEF Assigned, RowNumbers
  <2>2. \A i, k \in RowNumbers : Assigned[i] = Assigned[k] => i = k
    BY <1>3
  <2> QED  BY <2>1, <2>2 DEF Assignments, RowNumbers, Cols, Height, Width
<1>5. Ints(rowPot, h) /\ Ints(colPot, w) /\ \A j \in 1 .. w : colPot[j] <= 0
  <2>1. rowPot \in [0 .. h -> Int] /\ colPot \in [0 .. w -> Int]
    BY DEF MatchingBase, MatchingTypeOK
  <2>2. \A j \in 1 .. w : colPot[j] <= 0
    BY <1>1 DEF MatchingBase, Feasible
  <2> HIDE DEF h, w
  <2> QED  BY <1>1, <2>1, <2>2 DEF Ints
<1>6. \A i \in RowNumbers, j \in Cols : cost[i][j] \in Int /\ rowPot[i] \in Int /\ colPot[j] \in Int
  <2>1. \A i \in RowNumbers, j \in Cols : cost[i][j] \in Int
    BY DEF MatchingBase, Matrix
  <2>2. \A i \in RowNumbers, j \in Cols : rowPot[i] \in Int /\ colPot[j] \in Int
    BY <1>1, <1>5 DEF Ints, RowNumbers
  <2> QED  BY <2>1, <2>2
<1> DEFINE of(f) == [i \in 1 .. h |-> cost[i][f[i]]]
<1>7. ASSUME NEW f \in Assignments(cost)
      PROVE  /\ f \in [1 .. h -> 1 .. w] /\ \A i, k \in 1 .. h : f[i] = f[k] => i = k
             /\ Ints(of(f), h)
             /\ \A i \in 1 .. h : of(f)[i] = cost[i][f[i]]
             /\ CostOf(cost, f) = SumOf(of(f), h)
  <2>1. f \in [1 .. h -> Cols] /\ \A i, k \in 1 .. h : f[i] = f[k] => i = k
    BY DEF Assignments, Cols, Height, Width
  <2>2. Ints(of(f), h)
    BY <1>6, <2>1 DEF Ints, RowNumbers
  <2>3. CostOf(cost, f) = SumOf(of(f), h)
    BY DEF CostOf, Height
  <2> QED  BY <1>1, <2>1, <2>2, <2>3
<1> HIDE DEF of, h, w
<1>8. ASSUME NEW f \in Assignments(cost)
      PROVE  Priced(rowPot, colPot, of(f), f, h, w)
  BY <1>5, <1>7 DEF Priced
<1>9. ASSUME NEW f \in Assignments(cost)
      PROVE  SumOf(rowPot, h) + SumOf(colPot, w) <= CostOf(cost, f)
  <2>1. ASSUME NEW i \in 1 .. h PROVE rowPot[i] + colPot[f[i]] <= of(f)[i]
    <3>1. i \in RowNumbers /\ f[i] \in Cols
      BY <1>1, <1>7 DEF h, RowNumbers
    <3>2. Reduced(i, f[i]) >= 0
      BY <3>1 DEF MatchingBase, Feasible
    <3>3. of(f)[i] = cost[i][f[i]]
      BY <1>7
    <3> QED  BY <1>6, <3>1, <3>2, <3>3 DEF Reduced
  <2>2. Covers(rowPot, colPot, of(f), f, h)
    BY <2>1 DEF Covers
  <2> QED  BY <1>1, <1>7, <1>8, <2>2, PotentialsBound
<1>10. SumOf(rowPot, h) + SumOf(colPot, w) = CostOf(cost, Assigned)
  <2>1. ASSUME NEW i \in 1 .. h
        PROVE  rowPot[i] + colPot[Assigned[i]] = of(Assigned)[i]
    <3>1. i \in RowNumbers /\ Assigned[i] \in Cols /\ match[Assigned[i]] = i /\ i # 0
      BY <1>1, <1>3 DEF h, RowNumbers
    <3>2. Reduced(i, Assigned[i]) = 0
      BY <1>2, <3>1 DEF MatchingBase, Matched
    <3>3. of(Assigned)[i] = cost[i][Assigned[i]]
      BY <1>4, <1>7
    <3> QED  BY <1>6, <3>1, <3>2, <3>3 DEF Reduced
  <2>2. ASSUME NEW j \in 1 .. w, colPot[j] # 0
        PROVE  \E i \in 1 .. h : Assigned[i] = j
    <3>1. j \in Firm /\ match[j] \in 0 .. h /\ match[j] # 0
      BY <1>1, <1>2, <2>2 DEF MatchingBase, Matched
    <3>2. match[j] \in 1 .. h /\ match[j] \in RowNumbers
      BY <1>1, <3>1 DEF h, RowNumbers
    <3>3. Assigned[match[j]] \in Cols /\ match[Assigned[match[j]]] = match[j]
      BY <1>3, <3>2
    <3>4. Assigned[match[j]] = j
      BY <1>2, <3>1, <3>3 DEF MatchingBase, Matched
    <3> QED  BY <3>2, <3>4
  <2>3. Meets(rowPot, colPot, of(Assigned), Assigned, h, w)
    BY <2>1, <2>2 DEF Meets
  <2> QED  BY <1>1, <1>4, <1>7, <1>8, <2>3, PotentialsBound
<1> QED  BY <1>4, <1>9, <1>10

\* Depths that fall along previous, from the columns of T to the column 0 of the row
\* being inserted: each column is tight for the row of the one before.
Leads(T, depth) ==
  /\ 0 \in T /\ depth[0] = 0
  /\ \A j \in T \ {0} :
       /\ j \in Cols /\ previous[j] \in T /\ depth[previous[j]] < depth[j]
       /\ match[previous[j]] \in RowNumbers /\ Reduced(match[previous[j]], j) = 0

Depths == [0 .. Width -> Nat]

WayBack(T) ==
  \E depth \in Depths : Leads(T, depth) /\ col \in T /\ \A j \in T : depth[j] <= depth[col]

\* What the columns not used yet remember is the least reduced cost to any of the
\* used columns' rows, but for the column just reached, and where it comes from.
Frontier ==
  \/ used = {0} /\ col = 0 /\ \A j \in Cols : minCost[j] = Infinity
  \/ \A j \in Cols \ used :
       /\ previous[j] \in used \ {col}
       /\ minCost[j] = Reduced(match[previous[j]], j)
       /\ \A k \in used \ {col} : minCost[j] <= Reduced(match[k], j)

Searching ==
  used # {} =>
    /\ ~flipping /\ row \in RowNumbers /\ match[0] = row /\ WayBack(used)
    /\ \A j \in used \ {0} : match[j] # 0
    /\ Frontier

PathFlips ==
  flipping =>
    /\ used = {} /\ row \in RowNumbers /\ match[0] = row /\ col \in Cols
    /\ \E T \in SUBSET (0 .. Width) : WayBack(T)

MatchingInvariant == MatchingBase /\ Searching /\ PathFlips

(***************************************************************************)
(* Where it starts.                                                         *)
(***************************************************************************)
\* A table is a sequence of sequences of its size.
LEMMA TableSizes ==
  ASSUME NEW h \in Nat \ {0}, NEW w \in Nat \ {0}, NEW C, NEW m \in [1 .. h -> [1 .. w -> C]]
  PROVE  Len(m) = h /\ \A i \in 1 .. h : Len(m[i]) = w
<1>1. \A i \in 1 .. h : m[i] \in [1 .. w -> C]
  OBVIOUS
<1>2. Len(m) = h
  OBVIOUS
<1>3. ASSUME NEW i \in 1 .. h PROVE Len(m[i]) = w
  BY <1>1
<1> QED  BY <1>2, <1>3

\* Turned so that it is not higher than wide, the matrix has the same costs.
LEMMA OrientedIsWide ==
  ASSUME NEW h \in Nat \ {0}, NEW w \in Nat \ {0}, NEW C, NEW m \in [1 .. h -> [1 .. w -> C]]
  PROVE  \E a \in Nat \ {0}, b \in Nat \ {0} :
           a <= b /\ Oriented(m) \in [1 .. a -> [1 .. b -> C]]
<1>1. Len(m) = h /\ Len(m[1]) = w
  BY TableSizes
<1>2. CASE h <= w
  BY <1>1, <1>2 DEF Oriented
<1>3. CASE ~(h <= w)
  <2>1. Oriented(m) = [j \in 1 .. w |-> [i \in 1 .. h |-> m[i][j]]]
    BY <1>1, <1>3 DEF Oriented, Transposed
  <2>2. \A i \in 1 .. h, j \in 1 .. w : m[i][j] \in C
    OBVIOUS
  <2>3. Oriented(m) \in [1 .. w -> [1 .. h -> C]]
    BY <2>1, <2>2
  <2>4. w <= h
    BY <1>3
  <2> WITNESS w \in Nat \ {0}, h \in Nat \ {0}
  <2> QED  BY <2>3, <2>4
<1> QED  BY <1>2, <1>3

\* Before the first row nothing is matched and every potential is zero.
LEMMA MatchingStart == MatchingInit => MatchingInvariant
<1> SUFFICES ASSUME MatchingInit PROVE MatchingInvariant
  OBVIOUS
<1>1. PICK shape \in Shapes :
        \E m \in Tables(shape) : cost = Oriented(m)
  BY DEF MatchingInit
<1> DEFINE most == shape[3]
           h == shape[1]
           w == shape[2]
<1>2. /\ h \in Nat \ {0} /\ w \in Nat \ {0}
      /\ most \in Nat /\ 2 * most < Infinity /\ Infinity \in Nat
  BY MatrixAssumption
<1>0. PICK m \in [1 .. h -> [1 .. w -> 0 .. most]] : cost = Oriented(m)
  BY <1>1 DEF Tables
<1> HIDE DEF most, h, w
<1>3. PICK a \in Nat \ {0}, b \in Nat \ {0} : a <= b /\ cost \in [1 .. a -> [1 .. b -> 0 .. most]]
  BY <1>0, <1>2, OrientedIsWide
<1>4. Height = a /\ Width = b
  BY <1>3, TableSizes DEF Height, Width
<1>5. Matrix
  <2>1. \A i \in RowNumbers, j \in Cols : cost[i][j] \in 0 .. most
    BY <1>3, <1>4 DEF RowNumbers, Cols
  <2> QED  BY <1>2, <1>3, <1>4, <2>1 DEF Matrix
<1>6. /\ row = 0 /\ col = 0 /\ flipping = FALSE /\ used = {}
      /\ rowPot = [i \in 0 .. Height |-> 0]
      /\ colPot = [j \in 0 .. Width |-> 0]
      /\ match = [j \in 0 .. Width |-> 0]
      /\ previous = [j \in 0 .. Width |-> 0]
      /\ minCost = [j \in 0 .. Width |-> Infinity]
  BY DEF MatchingInit
<1>7. MatchingTypeOK
  <2>1. 0 \in 0 .. Height /\ 0 \in 0 .. Width /\ Infinity \in Int
    BY <1>2, <1>3, <1>4
  <2>2. /\ rowPot \in [0 .. Height -> Int] /\ colPot \in [0 .. Width -> Int]
        /\ minCost \in [0 .. Width -> Int]
    BY <1>6, <2>1
  <2>3. match \in [0 .. Width -> 0 .. Height] /\ previous \in [0 .. Width -> 0 .. Width]
    BY <1>6, <2>1
  <2> QED  BY <1>6, <2>1, <2>2, <2>3 DEF MatchingTypeOK
<1>8. \A i \in RowNumbers, j \in Cols : cost[i][j] \in Nat /\ rowPot[i] = 0 /\ colPot[j] = 0
  BY <1>5, <1>6 DEF Matrix, RowNumbers, Cols
<1>9. Feasible
  <2>1. \A i \in RowNumbers : rowPot[i] = 0
    BY <1>3, <1>4, <1>6 DEF RowNumbers
  <2>2. \A j \in Cols : colPot[j] = 0
    BY <1>3, <1>4, <1>6 DEF Cols
  <2> QED  BY <1>8, <2>1, <2>2 DEF Feasible, Reduced
<1>10. Matched
  <2>1. \A j \in Cols : match[j] = 0 /\ colPot[j] = 0
    BY <1>3, <1>4, <1>6 DEF Cols
  <2>2. Firm \subseteq Cols /\ Inserted = 0
    BY <1>6 DEF Firm, Inserted
  <2> QED  BY <2>1, <2>2 DEF Matched
<1> QED  BY <1>5, <1>6, <1>7, <1>9, <1>10 DEF MatchingInvariant, MatchingBase, Searching, PathFlips

(***************************************************************************)
(* A row is inserted.                                                       *)
(***************************************************************************)
\* The matrix stays.
LEMMA MatrixStays ==
  ASSUME Matrix, UNCHANGED cost
  PROVE  Matrix' /\ Height' = Height /\ Width' = Width /\ Cols' = Cols /\ RowNumbers' = RowNumbers
<1>1. Height' = Height /\ Width' = Width
  BY DEF Height, Width
<1>2. Cols' = Cols /\ RowNumbers' = RowNumbers
  BY <1>1 DEF Cols, RowNumbers
<1>3. Matrix'
  BY <1>1, <1>2 DEF Matrix
<1> QED  BY <1>1, <1>2, <1>3

\* A row that starts has a column zero of its own and no way yet.
LEMMA NextRowKeeps ==
  ASSUME MatchingInvariant, NextRow
  PROVE  MatchingInvariant'
<1>1. /\ Matrix /\ MatchingTypeOK /\ Feasible /\ Matched
      /\ Height \in Nat \ {0} /\ Width \in Nat \ {0} /\ Infinity \in Nat
  BY MatrixAssumption DEF MatchingInvariant, MatchingBase, Matrix
<1>2. /\ ~flipping /\ col = 0 /\ used = {} /\ row < Height
      /\ row' = row + 1 /\ match' = [match EXCEPT ![0] = row + 1]
      /\ minCost' = [j \in 0 .. Width |-> Infinity] /\ used' = {0}
      /\ UNCHANGED <<cost, col, flipping, rowPot, colPot, previous>>
  BY DEF NextRow, Settled
<1>3. Matrix' /\ Height' = Height /\ Width' = Width /\ Cols' = Cols /\ RowNumbers' = RowNumbers
  BY <1>1, <1>2, MatrixStays
<1>4. \A i, j : Reduced(i, j)' = Reduced(i, j)
  BY <1>2 DEF Reduced
<1>5. MatchingTypeOK'
  <2>1. row + 1 \in 0 .. Height /\ row + 1 \in RowNumbers
    BY <1>1, <1>2 DEF MatchingTypeOK, RowNumbers
  <2>2. match' \in [0 .. Width -> 0 .. Height]
    BY <1>1, <1>2, <2>1 DEF MatchingTypeOK
  <2>3. used' \in SUBSET (0 .. Width) /\ minCost' \in [0 .. Width -> Int]
    BY <1>1, <1>2
  <2> QED  BY <1>1, <1>2, <1>3, <2>1, <2>2, <2>3 DEF MatchingTypeOK
<1>6. Feasible'
  BY <1>1, <1>2, <1>3, <1>4 DEF Feasible
<1>7. Matched'
  <2>1. Firm = Cols /\ Firm' = Cols /\ Inserted = row /\ Inserted' = row
    BY <1>1, <1>2, <1>3 DEF Firm, Inserted, MatchingTypeOK
  <2>2. \A j \in Cols : match'[j] = match[j]
    BY <1>1, <1>2 DEF Cols, MatchingTypeOK
  <2> QED  BY <1>1, <1>2, <1>4, <2>1, <2>2 DEF Matched
<1>8. Searching'
  <2>1. row' \in RowNumbers' /\ match'[0] = row'
    BY <1>1, <1>2, <1>3 DEF MatchingTypeOK, RowNumbers
  <2>2. Frontier'
    <3>1. \A j \in Cols : minCost'[j] = Infinity
      BY <1>1, <1>2 DEF Cols
    <3> QED  BY <1>2, <1>3, <3>1 DEF Frontier
  <2>3. WayBack(used)'
    <3>1. PICK d \in Depths' : d[0] = 0
      <4>1. [j \in 0 .. Width |-> 0] \in Depths' /\ [j \in 0 .. Width |-> 0][0] = 0
        BY <1>1, <1>3 DEF Depths
      <4> QED  BY <4>1
    <3>2. Leads(used, d)'
      BY <1>2, <3>1 DEF Leads
    <3>3. col' = 0 /\ used' = {0} /\ d[0] <= d[0]
      BY <1>2, <3>1
    <3> QED  BY <3>1, <3>2, <3>3 DEF WayBack
  <2> QED  BY <1>2, <2>1, <2>2, <2>3 DEF Searching
<1>9. PathFlips'
  BY <1>2 DEF PathFlips
<1> QED  BY <1>3, <1>5, <1>6, <1>7, <1>8, <1>9 DEF MatchingInvariant, MatchingBase

(***************************************************************************)
(* The path is flipped.                                                     *)
(***************************************************************************)
\* One step of the flip gives a column to the row that leads to it; the rest of the way
\* stays as it was.
LEMMA FlipKeeps ==
  ASSUME MatchingInvariant, Flip
  PROVE  MatchingInvariant'
<1> DEFINE p == previous[col]
<1>1. /\ Matrix /\ MatchingTypeOK /\ Feasible /\ Matched
      /\ Height \in Nat \ {0} /\ Width \in Nat \ {0}
  BY DEF MatchingInvariant, MatchingBase, Matrix
<1>2. /\ flipping /\ match' = [match EXCEPT ![col] = match[p]]
      /\ col' = p /\ flipping' = (p # 0)
      /\ UNCHANGED <<cost, row, rowPot, colPot, previous, minCost, used>>
  BY DEF Flip
<1>3. Matrix' /\ Height' = Height /\ Width' = Width /\ Cols' = Cols /\ RowNumbers' = RowNumbers
  BY <1>1, <1>2, MatrixStays
<1>4. \A i, j : Reduced(i, j)' = Reduced(i, j)
  BY <1>2 DEF Reduced
<1>5. /\ used = {} /\ row \in RowNumbers /\ match[0] = row
      /\ col \in Cols /\ col \in 0 .. Width /\ col # 0
  BY <1>1, <1>2 DEF MatchingInvariant, PathFlips, Cols
<1>6. PICK depth \in Depths, T \in SUBSET (0 .. Width) :
        Leads(T, depth) /\ col \in T /\ \A j \in T : depth[j] <= depth[col]
  BY <1>2 DEF MatchingInvariant, PathFlips, WayBack
<1>7. /\ p \in T /\ p \in 0 .. Width /\ depth[p] < depth[col] /\ p # col
      /\ match[p] \in RowNumbers /\ Reduced(match[p], col) = 0
  <2>1. \A j \in 0 .. Width : depth[j] \in Nat
    BY <1>6 DEF Depths
  <2>2. p \in T /\ depth[p] < depth[col] /\ match[p] \in RowNumbers /\ Reduced(match[p], col) = 0
    BY <1>5, <1>6 DEF Leads
  <2>3. p \in 0 .. Width /\ depth[p] \in Nat /\ depth[col] \in Nat
    BY <1>5, <1>6, <2>1, <2>2
  <2>4. p # col
    BY <2>2, <2>3
  <2> QED  BY <2>2, <2>3, <2>4
<1> HIDE DEF p
<1>8. match'[col] = match[p] /\ \A j \in 0 .. Width : j # col => match'[j] = match[j]
  BY <1>1, <1>2, <1>5 DEF MatchingTypeOK
<1>9. MatchingTypeOK'
  <2>1. match[p] \in 0 .. Height
    BY <1>1, <1>7 DEF MatchingTypeOK
  <2>2. match' \in [0 .. Width -> 0 .. Height]
    BY <1>1, <1>2, <2>1 DEF MatchingTypeOK
  <2> QED  BY <1>1, <1>2, <1>3, <1>7, <2>2 DEF MatchingTypeOK
<1>10. Feasible'
  BY <1>1, <1>2, <1>3, <1>4 DEF Feasible
<1>11. row \in 1 .. Height /\ row \in Int /\ row - 1 \in Nat
  BY <1>1, <1>5 DEF RowNumbers
<1>12. Matched'
  <2>1. Firm = Cols \ {col} /\ Inserted = row - 1
    BY <1>2 DEF Firm, Inserted
  <2>2. /\ \A j \in Cols \ {col} : /\ match[j] \in 0 .. row - 1
                                   /\ match[j] # 0 => Reduced(match[j], j) = 0
                                   /\ match[j] = 0 => colPot[j] = 0
        /\ \A j, k \in Cols \ {col} : match[j] = match[k] /\ match[j] # 0 => j = k
        /\ \A i \in 1 .. row - 1 : \E j \in Cols \ {col} : match[j] = i
    BY <1>1, <2>1 DEF Matched
  <2>3. \A j \in Cols : j \in 0 .. Width /\ j # 0
    BY <1>1 DEF Cols
  <2>4. match[p] # 0
    BY <1>1, <1>7 DEF RowNumbers
  <2>5. CASE p = 0
    <3>1. match[p] = row /\ Firm' = Cols /\ Inserted' = row
      BY <1>2, <1>3, <1>5, <2>5 DEF Firm, Inserted
    <3>2. \A j \in Cols : /\ match'[j] \in 0 .. row
                          /\ match'[j] # 0 => Reduced(match'[j], j) = 0
                          /\ match'[j] = 0 => colPot[j] = 0
      BY <1>7, <1>8, <1>11, <2>2, <2>3, <3>1
    <3>3. \A j, k \in Cols : match'[j] = match'[k] /\ match'[j] # 0 => j = k
      BY <1>8, <1>11, <2>2, <2>3, <3>1
    <3>4. \A i \in 1 .. row : \E j \in Cols : match'[j] = i
      BY <1>5, <1>8, <1>11, <2>2, <2>3, <3>1
    <3> QED  BY <1>2, <1>4, <3>1, <3>2, <3>3, <3>4 DEF Matched
  <2>6. CASE p # 0
    <3>0. flipping' = TRUE /\ col' = p
      BY <1>2, <2>6
    <3>1. p \in Cols \ {col} /\ Firm' = Cols \ {p} /\ Inserted' = row - 1
      <4>1. p \in Cols \ {col}
        BY <1>1, <1>7, <2>6 DEF Cols
      <4>2. Firm' = Cols \ {p}
        BY <1>3, <3>0 DEF Firm
      <4>3. Inserted' = row - 1
        BY <1>2, <3>0 DEF Inserted
      <4> QED  BY <4>1, <4>2, <4>3
    <3>2. match[p] \in 0 .. row - 1
      BY <2>2, <3>1
    <3>3. \A j \in Cols \ {p} : /\ match'[j] \in 0 .. row - 1
                                /\ match'[j] # 0 => Reduced(match'[j], j) = 0
                                /\ match'[j] = 0 => colPot[j] = 0
      BY <1>7, <1>8, <2>2, <2>3, <2>4, <3>2
    <3>4. \A j, k \in Cols \ {p} : match'[j] = match'[k] /\ match'[j] # 0 => j = k
      BY <1>8, <2>2, <2>3, <3>1
    <3>5. \A i \in 1 .. row - 1 : \E j \in Cols \ {p} : match'[j] = i
      <4> SUFFICES ASSUME NEW i \in 1 .. row - 1 PROVE \E j \in Cols \ {p} : match'[j] = i
        OBVIOUS
      <4>1. PICK j \in Cols \ {col} : match[j] = i
        BY <2>2
      <4>2. CASE j = p
        BY <1>5, <1>7, <1>8, <4>1, <4>2
      <4>3. CASE j # p
        BY <1>8, <2>3, <4>1, <4>3
      <4> QED  BY <4>2, <4>3
    <3> QED  BY <1>2, <1>4, <3>1, <3>3, <3>4, <3>5 DEF Matched
  <2> QED  BY <2>5, <2>6
<1>13. Searching'
  BY <1>2, <1>5 DEF Searching
<1>14. PathFlips'
  <2> SUFFICES ASSUME p # 0
               PROVE  /\ used = {} /\ row \in RowNumbers /\ match'[0] = row /\ p \in Cols
                      /\ \E d \in Depths, U \in SUBSET (0 .. Width) :
                           Leads(U, d)' /\ p \in U /\ \A j \in U : d[j] <= d[p]
    BY <1>2, <1>3 DEF PathFlips, WayBack, Depths
  <2>1. match'[0] = row /\ p \in Cols
    BY <1>1, <1>5, <1>7, <1>8 DEF Cols
  <2>0. PICK U : U = {j \in T : depth[j] <= depth[p]}
    OBVIOUS
  <2>2. \A j \in 0 .. Width : depth[j] \in Nat
    BY <1>6 DEF Depths
  <2>3. T \subseteq 0 .. Width /\ depth[p] \in Nat /\ depth[col] \in Nat
    BY <1>5, <1>6, <1>7, <2>2
  <2>4. Leads(U, depth)'
    <3>1. 0 \in U /\ depth[0] = 0
      BY <1>6, <2>0, <2>3 DEF Leads
    <3>2. ASSUME NEW j \in U \ {0}
          PROVE  /\ j \in Cols /\ previous[j] \in U /\ depth[previous[j]] < depth[j]
                 /\ match'[previous[j]] \in RowNumbers /\ Reduced(match'[previous[j]], j) = 0
      <4>1. j \in T \ {0} /\ depth[j] <= depth[p] /\ depth[j] \in Nat
        BY <2>0, <2>2, <2>3
      <4>2. /\ j \in Cols /\ previous[j] \in T /\ depth[previous[j]] < depth[j]
            /\ match[previous[j]] \in RowNumbers /\ Reduced(match[previous[j]], j) = 0
        BY <1>6, <4>1 DEF Leads
      <4>3. depth[previous[j]] \in Nat /\ previous[j] \in 0 .. Width
        BY <2>2, <2>3, <4>2
      <4>4. depth[previous[j]] <= depth[p] /\ previous[j] # col
        BY <1>7, <2>3, <4>1, <4>2, <4>3
      <4>5. match'[previous[j]] = match[previous[j]]
        BY <1>8, <4>3, <4>4
      <4> QED  BY <2>0, <4>2, <4>4, <4>5
    <3> QED  BY <1>2, <1>3, <1>4, <3>1, <3>2 DEF Leads
  <2>5. p \in U /\ U \in SUBSET (0 .. Width) /\ \A j \in U : depth[j] <= depth[p]
    <3>1. depth[p] <= depth[p]
      BY <2>3
    <3>2. p \in U
      BY <1>7, <2>0, <3>1
    <3>3. U \subseteq T /\ \A j \in U : depth[j] <= depth[p]
      BY <2>0
    <3> QED  BY <2>3, <3>2, <3>3
  <2> QED  BY <1>5, <1>6, <2>1, <2>4, <2>5
<1> QED  BY <1>3, <1>9, <1>10, <1>12, <1>13, <1>14 DEF MatchingInvariant, MatchingBase

(***************************************************************************)
(* A path grows.                                                            *)
(***************************************************************************)
\* What one pass of the loop computes.
Free == Cols \ used
Better == {j \in Free : Reduced(match[col], j) < minCost[j]}
Relaxed == [j \in 0 .. Width |-> IF j \in Better THEN Reduced(match[col], j) ELSE minCost[j]]
Source(j) == IF j \in Better THEN col ELSE previous[j]
Least == CHOOSE j \in Free : \A k \in Free :
           Relaxed[j] < Relaxed[k] \/ (Relaxed[j] = Relaxed[k] /\ j <= k)
Delta == Relaxed[Least]
UsedRows == {match[j] : j \in used}

\* What a pass of the inner loop assigns, in the names of this module.
LEMMA RelaxDoes ==
  ASSUME Relax
  PROVE  /\ ~flipping /\ used # {}
         /\ previous' = [j \in 0 .. Width |-> Source(j)]
         /\ rowPot' = [i \in 0 .. Height |-> IF i \in UsedRows THEN rowPot[i] + Delta ELSE rowPot[i]]
         /\ colPot' = [j \in 0 .. Width |-> IF j \in used THEN colPot[j] - Delta ELSE colPot[j]]
         /\ minCost' = [j \in 0 .. Width |-> IF j \in used THEN Relaxed[j] ELSE Relaxed[j] - Delta]
         /\ col' = Least /\ flipping' = (match[Least] = 0)
         /\ used' = IF match[Least] = 0 THEN {} ELSE used \cup {Least}
         /\ UNCHANGED <<cost, row, match>>
BY DEF Relax, Free, Better, Relaxed, Source, Least, Delta, UsedRows

\* What holds while a path is looked for: the rows of the used columns, the new one
\* among them, are no other column's.
LEMMA WhileSearching ==
  ASSUME MatchingBase, Searching, used # {}
  PROVE  /\ Firm = Cols /\ Inserted = row - 1 /\ row \in RowNumbers /\ row - 1 \in Nat
         /\ \A k \in used : k \in 0 .. Width /\ match[k] \in RowNumbers /\ match[k] # 0
         /\ \A j \in Free : j \in Cols /\ j \in 0 .. Width /\ j # 0 /\ match[j] \notin UsedRows
         /\ \A i \in RowNumbers, j \in Cols : Reduced(i, j) \in Nat
<1>1. /\ Height \in Nat \ {0} /\ Width \in Nat \ {0} /\ ~flipping /\ row \in RowNumbers
      /\ match[0] = row
  BY DEF MatchingBase, Matrix, Searching
<1>2. row \in 1 .. Height /\ row - 1 \in Nat
  BY <1>1 DEF RowNumbers
<1>3. Firm = Cols /\ Inserted = row - 1
  BY <1>1 DEF Firm, Inserted
<1>4. \A j \in Cols : match[j] \in 0 .. row - 1
  BY <1>3 DEF MatchingBase, Matched
<1>5. ASSUME NEW k \in used PROVE k \in 0 .. Width /\ match[k] \in RowNumbers /\ match[k] # 0
  <2>1. k \in 0 .. Width
    BY DEF MatchingBase, MatchingTypeOK
  <2>2. CASE k = 0
    BY <1>1, <1>2, <2>1, <2>2
  <2>3. CASE k # 0
    <3>1. k \in Cols /\ match[k] # 0
      BY <1>1, <2>1, <2>3 DEF Searching, Cols
    <3> QED  BY <1>1, <1>2, <1>4, <2>1, <3>1 DEF RowNumbers
  <2> QED  BY <2>2, <2>3
<1>6. ASSUME NEW j \in Free
      PROVE  j \in Cols /\ j \in 0 .. Width /\ j # 0 /\ match[j] \notin UsedRows
  <2>1. j \in Cols /\ j \notin used /\ j \in 0 .. Width /\ j # 0
    BY <1>1 DEF Free, Cols
  <2>2. ASSUME NEW k \in used, match[k] = match[j] PROVE FALSE
    <3>1. match[k] # 0 /\ k \in 0 .. Width
      BY <1>5
    <3>2. CASE k = 0
      BY <1>1, <1>2, <1>4, <2>1, <2>2, <3>2
    <3>3. CASE k # 0
      <4>1. k \in Cols
        BY <1>1, <3>1, <3>3 DEF Cols
      <4> QED  BY <1>3, <2>1, <2>2, <3>1, <4>1 DEF MatchingBase, Matched
    <3> QED  BY <3>2, <3>3
  <2> QED  BY <2>1, <2>2 DEF UsedRows
<1>7. ASSUME NEW i \in RowNumbers, NEW j \in Cols PROVE Reduced(i, j) \in Nat
  <2>1. cost[i][j] \in Int
    BY DEF MatchingBase, Matrix
  <2>2. rowPot[i] \in Int /\ colPot[j] \in Int
    <3>1. i \in 0 .. Height /\ j \in 0 .. Width
      BY <1>1 DEF RowNumbers, Cols
    <3> QED  BY <3>1 DEF MatchingBase, MatchingTypeOK
  <2>3. Reduced(i, j) >= 0
    BY DEF MatchingBase, Feasible
  <2> QED  BY <2>1, <2>2, <2>3 DEF Reduced
<1> QED  BY <1>1, <1>2, <1>3, <1>5, <1>6, <1>7

\* A matrix that is not higher than wide has a column left for the new row.
LEMMA ColumnIsLeft ==
  ASSUME MatchingBase, Searching, used # {}
  PROVE  \E j \in Free : match[j] = 0
<1>1. Height \in Nat /\ Width \in Nat /\ Height <= Width
  BY DEF MatchingBase, Matrix
<1>2. Firm = Cols /\ Inserted = row - 1 /\ row \in 1 .. Height /\ row - 1 \in Nat
  BY WhileSearching DEF RowNumbers
<1>3. \E j \in Cols : match[j] = 0
  <2> SUFFICES ASSUME \A j \in Cols : match[j] # 0 PROVE FALSE
    OBVIOUS
  <2> DEFINE f == [j \in Cols |-> match[j]]
             T == 1 .. row - 1
  <2>1. \A j \in Cols : match[j] \in T
    BY <1>2 DEF MatchingBase, Matched
  <2>2. f \in [Cols -> T]
    BY <2>1
  <2>3. IsFiniteSet(Cols) /\ Cardinality(Cols) = Width
    BY <1>1, FS_Interval DEF Cols
  <2>4. IsFiniteSet(T) /\ Cardinality(T) = row - 1
    BY <1>2, FS_Interval
  <2>5. Cardinality(T) < Cardinality(Cols)
    BY <1>1, <1>2, <2>3, <2>4
  <2>6. \A j \in Cols : f[j] = match[j]
    OBVIOUS
  <2> HIDE DEF f, T
  <2>7. \E j, k \in Cols : j # k /\ f[j] = f[k]
    BY <2>2, <2>3, <2>4, <2>5, FS_PigeonHole
  <2> QED  BY <1>2, <2>6, <2>7 DEF MatchingBase, Matched
<1>4. PICK j \in Cols : match[j] = 0
  BY <1>3
<1>5. j \notin used
  BY <1>4, WhileSearching
<1> QED  BY <1>4, <1>5 DEF Free

\* The new row can reach every column for less than Infinity.
LEMMA WithinReach ==
  ASSUME MatchingBase, Searching, used # {}, NEW j \in Cols
  PROVE  Reduced(row, j) < Infinity
<1>1. PICK most \in Nat :
        2 * most < Infinity /\ \A i \in RowNumbers, k \in Cols : cost[i][k] \in 0 .. most
  BY DEF MatchingBase, Matrix
<1>2. PICK free \in Free : match[free] = 0
  BY ColumnIsLeft
<1>3. /\ free \in Cols /\ Firm = Cols /\ Inserted = row - 1 /\ row \in RowNumbers /\ row - 1 \in Nat
      /\ Height \in Nat /\ Width \in Nat /\ Infinity \in Nat
  BY WhileSearching, MatrixAssumption DEF MatchingBase, Matrix
<1>4. colPot[free] = 0
  BY <1>2, <1>3 DEF MatchingBase, Matched
<1>5. ASSUME NEW i \in RowNumbers
      PROVE  /\ rowPot[i] \in 0 .. most
             /\ \A k \in Cols : colPot[k] \in Int /\ Reduced(i, k) = cost[i][k] - rowPot[i] - colPot[k]
  <2>1. rowPot[i] \in Int /\ \A k \in Cols : colPot[k] \in Int
    <3>1. i \in 0 .. Height /\ Cols \subseteq 0 .. Width
      BY <1>3 DEF RowNumbers, Cols
    <3> QED  BY <3>1 DEF MatchingBase, MatchingTypeOK
  <2>2. rowPot[i] >= 0 /\ Reduced(i, free) >= 0 /\ cost[i][free] \in 0 .. most
    BY <1>1, <1>3 DEF MatchingBase, Feasible
  <2> QED  BY <1>3, <1>4, <2>1, <2>2 DEF Reduced
<1>6. colPot[j] \in Int /\ colPot[j] >= -most
  <2>1. CASE match[j] = 0
    BY <1>3, <1>5, <2>1 DEF MatchingBase, Matched
  <2>2. CASE match[j] # 0
    <3> DEFINE i == match[j]
    <3>1. i \in 0 .. row - 1 /\ Reduced(i, j) = 0
      BY <1>3, <2>2 DEF MatchingBase, Matched
    <3>2. i \in RowNumbers
      BY <1>3, <2>2, <3>1 DEF RowNumbers
    <3> HIDE DEF i
    <3>3. cost[i][j] \in 0 .. most /\ rowPot[i] \in 0 .. most /\ colPot[j] \in Int
          /\ cost[i][j] - rowPot[i] - colPot[j] = 0
      BY <1>1, <1>5, <3>1, <3>2
    <3> QED  BY <3>3
  <2> QED  BY <2>1, <2>2
<1>7. /\ cost[row][j] \in 0 .. most /\ rowPot[row] \in 0 .. most
      /\ Reduced(row, j) = cost[row][j] - rowPot[row] - colPot[j]
  BY <1>1, <1>3, <1>5
<1> QED  BY <1>1, <1>3, <1>6, <1>7

\* Of finitely many columns one is least, the first of those.
LEMMA LeastExists ==
  ASSUME NEW w \in Nat, NEW g, NEW C \in SUBSET (1 .. w), C # {}, \A j \in C : g[j] \in Int
  PROVE  \E j \in C : \A k \in C : g[j] < g[k] \/ (g[j] = g[k] /\ j <= k)
<1> DEFINE Has(A) == \E j \in A : \A k \in A : g[j] < g[k] \/ (g[j] = g[k] /\ j <= k)
           S == {n \in Nat : \A A \in SUBSET (1 .. n) : A # {} /\ A \subseteq C => Has(A)}
<1>1. 0 \in S
  <2>1. \A A \in SUBSET (1 .. 0) : A = {}
    OBVIOUS
  <2> QED  BY <2>1
<1>2. ASSUME NEW n \in Nat, n \in S PROVE n + 1 \in S
  <2> SUFFICES ASSUME NEW A \in SUBSET (1 .. n + 1), A # {}, A \subseteq C PROVE Has(A)
    OBVIOUS
  <2> DEFINE B == A \ {n + 1}
  <2>1. B \in SUBSET (1 .. n) /\ B \subseteq C
    OBVIOUS
  <2>2. \A j \in A : g[j] \in Int /\ j \in Int /\ j <= n + 1
    OBVIOUS
  <2>3. CASE B = {}
    <3>1. A = {n + 1} /\ g[n + 1] \in Int
      BY <2>2, <2>3
    <3> QED  BY <3>1
  <2>4. CASE B # {}
    <3>1. PICK j \in B : \A k \in B : g[j] < g[k] \/ (g[j] = g[k] /\ j <= k)
      BY <1>2, <2>1, <2>4
    <3>2. j \in A /\ g[j] \in Int /\ \A k \in A : k \in B \/ k = n + 1
      BY <2>2, <3>1
    <3>3. CASE n + 1 \in A /\ g[n + 1] < g[j]
      <4>1. \A k \in A : g[n + 1] < g[k] \/ (g[n + 1] = g[k] /\ n + 1 <= k)
        BY <2>2, <3>1, <3>2, <3>3
      <4> QED  BY <3>3, <4>1
    <3>4. CASE ~(n + 1 \in A /\ g[n + 1] < g[j])
      <4>1. \A k \in A : g[j] < g[k] \/ (g[j] = g[k] /\ j <= k)
        BY <2>2, <3>1, <3>2, <3>4
      <4> QED  BY <3>2, <4>1
    <3> QED  BY <3>3, <3>4
  <2> QED  BY <2>3, <2>4
<1>3. w \in S
  <2> HIDE DEF S
  <2> QED  BY <1>1, <1>2, Counting
<1> QED  BY <1>3

\* What is remembered after a pass is the least reduced cost to the rows of all used
\* columns.
LEMMA RelaxedReaches ==
  ASSUME MatchingBase, Searching, used # {}, NEW j \in Free
  PROVE  /\ Source(j) \in used /\ Relaxed[j] = Reduced(match[Source(j)], j)
         /\ \A k \in used : Relaxed[j] <= Reduced(match[k], j)
         /\ Relaxed[j] \in Nat
<1>1. /\ \A k \in used : match[k] \in RowNumbers /\ Reduced(match[k], j) \in Nat
      /\ j \in Cols /\ j \in 0 .. Width /\ col \in used /\ match[0] = row
  BY WhileSearching DEF Searching, WayBack
<1>2. Relaxed[j] = IF j \in Better THEN Reduced(match[col], j) ELSE minCost[j]
  BY <1>1 DEF Relaxed
<1>3. j \in Better <=> Reduced(match[col], j) < minCost[j]
  BY DEF Better
<1>4. CASE used = {0} /\ col = 0 /\ \A k \in Cols : minCost[k] = Infinity
  <2>1. Reduced(row, j) < minCost[j]
    BY <1>1, <1>4, WithinReach
  <2>2. j \in Better /\ Source(j) = 0 /\ Relaxed[j] = Reduced(match[0], j)
    BY <1>1, <1>2, <1>3, <1>4, <2>1 DEF Source
  <2> QED  BY <1>1, <1>4, <2>2
<1>5. CASE \A k \in Free :
             /\ previous[k] \in used \ {col}
             /\ minCost[k] = Reduced(match[previous[k]], k)
             /\ \A l \in used \ {col} : minCost[k] <= Reduced(match[l], k)
  <2>1. /\ previous[j] \in used /\ minCost[j] = Reduced(match[previous[j]], j)
        /\ \A l \in used \ {col} : minCost[j] <= Reduced(match[l], j)
    BY <1>5
  <2>2. minCost[j] \in Nat /\ Reduced(match[col], j) \in Nat
    BY <1>1, <2>1
  <2>3. CASE j \in Better
    <3>1. Source(j) = col /\ Relaxed[j] = Reduced(match[col], j) /\ Relaxed[j] < minCost[j]
      BY <1>2, <1>3, <2>3 DEF Source
    <3>2. \A k \in used : Relaxed[j] <= Reduced(match[k], j)
      BY <1>1, <2>1, <2>2, <3>1
    <3> QED  BY <1>1, <2>2, <3>1, <3>2
  <2>4. CASE j \notin Better
    <3>1. Source(j) = previous[j] /\ Relaxed[j] = minCost[j] /\ minCost[j] <= Reduced(match[col], j)
      BY <1>2, <1>3, <2>2, <2>4 DEF Source
    <3>2. \A k \in used : Relaxed[j] <= Reduced(match[k], j)
      BY <2>1, <3>1
    <3> QED  BY <2>1, <2>2, <3>1, <3>2
  <2> QED  BY <2>3, <2>4
<1> QED  BY <1>4, <1>5 DEF Searching, Frontier, Free

\* The column gone to is one of those left, and no other is nearer.
LEMMA LeastIsLeast ==
  ASSUME MatchingBase, Searching, used # {}
  PROVE  Least \in Free /\ Delta \in Nat /\ \A k \in Free : Delta <= Relaxed[k]
<1>1. Free # {} /\ Free \in SUBSET (1 .. Width) /\ Width \in Nat
  BY ColumnIsLeft DEF Free, Cols, MatchingBase, Matrix
<1>2. \A j \in Free : Relaxed[j] \in Nat
  BY RelaxedReaches
<1>3. \A j \in Free : Relaxed[j] \in Int
  BY <1>2
<1> DEFINE g == Relaxed
           C == Free
<1> HIDE DEF g
<1>4. \E j \in Free : \A k \in Free : g[j] < g[k] \/ (g[j] = g[k] /\ j <= k)
  <2>1. \A j \in C : g[j] \in Int
    BY <1>3 DEF g
  <2>2. C # {} /\ C \in SUBSET (1 .. Width) /\ Width \in Nat
    BY <1>1
  <2> HIDE DEF C
  <2>3. \E j \in C : \A k \in C : g[j] < g[k] \/ (g[j] = g[k] /\ j <= k)
    BY <2>1, <2>2, LeastExists
  <2> QED  BY <2>3 DEF C
<1>5. Least \in Free /\ \A k \in Free : g[Least] < g[k] \/ (g[Least] = g[k] /\ Least <= k)
  BY <1>4 DEF Least, g
<1> QED  BY <1>2, <1>5 DEF Delta, g

\* The potentials of the used columns and their rows move against each other.
LEMMA RelaxShifts ==
  ASSUME MatchingInvariant, Relax, NEW i \in RowNumbers, NEW j \in Cols
  PROVE  Reduced(i, j)' = Reduced(i, j) - (IF i \in UsedRows THEN Delta ELSE 0)
                                        + (IF j \in used THEN Delta ELSE 0)
<1>1. /\ used # {} /\ cost' = cost
      /\ rowPot' = [k \in 0 .. Height |-> IF k \in UsedRows THEN rowPot[k] + Delta ELSE rowPot[k]]
      /\ colPot' = [k \in 0 .. Width |-> IF k \in used THEN colPot[k] - Delta ELSE colPot[k]]
  BY RelaxDoes
<1>2. Height \in Nat /\ Width \in Nat /\ cost[i][j] \in Int
  BY DEF MatchingInvariant, MatchingBase, Matrix
<1>3. i \in 0 .. Height /\ j \in 0 .. Width
  BY <1>2 DEF RowNumbers, Cols
<1>4. rowPot[i] \in Int /\ colPot[j] \in Int
  BY <1>3 DEF MatchingInvariant, MatchingBase, MatchingTypeOK
<1>5. Delta \in Int
  BY <1>1, LeastIsLeast DEF MatchingInvariant
<1>6. /\ rowPot'[i] = rowPot[i] + (IF i \in UsedRows THEN Delta ELSE 0)
      /\ colPot'[j] = colPot[j] - (IF j \in used THEN Delta ELSE 0)
  BY <1>1, <1>3, <1>4, <1>5
<1>7. Reduced(i, j)' = cost[i][j] - rowPot'[i] - colPot'[j]
  BY <1>1 DEF Reduced
<1>8. Reduced(i, j) = cost[i][j] - rowPot[i] - colPot[j]
  BY DEF Reduced
<1> DEFINE x == IF i \in UsedRows THEN Delta ELSE 0
           y == IF j \in used THEN Delta ELSE 0
<1>9. x \in Int /\ y \in Int /\ rowPot'[i] = rowPot[i] + x /\ colPot'[j] = colPot[j] - y
  BY <1>5, <1>6
<1> HIDE DEF x, y
<1>10. Reduced(i, j)' = Reduced(i, j) - x + y
  BY <1>2, <1>4, <1>7, <1>8, <1>9
<1> QED  BY <1>10 DEF x, y

\* Nothing moves between two that are used or two that are not; from a used row to a
\* column that is left it is the least reduced cost less.
LEMMA RelaxMoves ==
  ASSUME MatchingInvariant, Relax
  PROVE  /\ UsedRows \subseteq RowNumbers
         /\ \A i \in UsedRows, j \in Cols : j \in used => Reduced(i, j)' = Reduced(i, j)
         /\ \A i \in UsedRows, j \in Free : Reduced(i, j)' = Reduced(i, j) - Delta
         /\ \A i \in RowNumbers \ UsedRows, j \in Free : Reduced(i, j)' = Reduced(i, j)
<1>1. used # {}
  BY RelaxDoes
<1>2. /\ UsedRows \subseteq RowNumbers
      /\ \A j \in Free : j \in Cols /\ j \notin used
      /\ \A i \in RowNumbers, j \in Cols : Reduced(i, j) \in Nat
  BY <1>1, WhileSearching DEF MatchingInvariant, UsedRows, Free
<1>3. Delta \in Nat
  BY <1>1, LeastIsLeast DEF MatchingInvariant
<1>4. \A i \in RowNumbers, j \in Cols :
        Reduced(i, j)' = Reduced(i, j) - (IF i \in UsedRows THEN Delta ELSE 0)
                                       + (IF j \in used THEN Delta ELSE 0)
  BY RelaxShifts
<1> DEFINE r(i, j) == Reduced(i, j)
           q(i, j) == Reduced(i, j)'
<1>5. \A i \in RowNumbers, j \in Cols :
        /\ i \in UsedRows /\ j \in used => q(i, j) = r(i, j)
        /\ i \in UsedRows /\ j \notin used => q(i, j) = r(i, j) - Delta
        /\ i \notin UsedRows /\ j \notin used => q(i, j) = r(i, j)
  BY <1>2, <1>3, <1>4
<1> QED  BY <1>2, <1>5

\* The types after a pass.
LEMMA RelaxTypes ==
  ASSUME MatchingInvariant, Relax
  PROVE  MatchingTypeOK'
<1>1. /\ MatchingTypeOK /\ Matrix /\ used # {} /\ Height \in Nat /\ Width \in Nat
      /\ MatchingBase /\ Searching
  BY RelaxDoes DEF MatchingInvariant, MatchingBase, Matrix
<1>2. UNCHANGED <<cost, row, match>>
  BY RelaxDoes
<1>3. Height' = Height /\ Width' = Width
  BY <1>1, <1>2, MatrixStays
<1>4. Least \in Free /\ Least \in 0 .. Width /\ Delta \in Int
  BY <1>1, LeastIsLeast, WhileSearching
<1>5. \A i \in 0 .. Height : rowPot[i] \in Int
  BY <1>1 DEF MatchingTypeOK
<1>6. \A j \in 0 .. Width : colPot[j] \in Int /\ minCost[j] \in Int /\ previous[j] \in 0 .. Width
  BY <1>1 DEF MatchingTypeOK
<1>7. \A j \in 0 .. Width : Relaxed[j] \in Int
  <2>1. \A j \in Free : Relaxed[j] \in Int
    BY <1>1, RelaxedReaches
  <2>2. \A j \in 0 .. Width : j \notin Free => Relaxed[j] = minCost[j]
    BY DEF Relaxed, Better
  <2> QED  BY <1>6, <2>1, <2>2
<1>8. \A j \in 0 .. Width : Source(j) \in 0 .. Width
  BY <1>1, <1>6 DEF Source, MatchingTypeOK
<1>9. rowPot' \in [0 .. Height -> Int]
  <2>1. \A i \in 0 .. Height : (IF i \in UsedRows THEN rowPot[i] + Delta ELSE rowPot[i]) \in Int
    BY <1>4, <1>5
  <2>2. rowPot' = [i \in 0 .. Height |-> IF i \in UsedRows THEN rowPot[i] + Delta ELSE rowPot[i]]
    BY RelaxDoes
  <2> QED  BY <2>1, <2>2
<1>10. colPot' \in [0 .. Width -> Int]
  <2>1. \A j \in 0 .. Width : (IF j \in used THEN colPot[j] - Delta ELSE colPot[j]) \in Int
    BY <1>4, <1>6
  <2>2. colPot' = [j \in 0 .. Width |-> IF j \in used THEN colPot[j] - Delta ELSE colPot[j]]
    BY RelaxDoes
  <2> QED  BY <2>1, <2>2
<1>11. minCost' \in [0 .. Width -> Int]
  <2>1. \A j \in 0 .. Width : (IF j \in used THEN Relaxed[j] ELSE Relaxed[j] - Delta) \in Int
    BY <1>4, <1>7
  <2>2. minCost' = [j \in 0 .. Width |-> IF j \in used THEN Relaxed[j] ELSE Relaxed[j] - Delta]
    BY RelaxDoes
  <2> QED  BY <2>1, <2>2
<1>12. previous' \in [0 .. Width -> 0 .. Width]
  <2>1. previous' = [j \in 0 .. Width |-> Source(j)]
    BY RelaxDoes
  <2> QED  BY <1>8, <2>1
<1>13. col' \in 0 .. Width /\ flipping' \in BOOLEAN /\ used' \in SUBSET (0 .. Width)
  <2>1. /\ col' = Least /\ flipping' = (match[Least] = 0)
        /\ used' = IF match[Least] = 0 THEN {} ELSE used \cup {Least}
    BY RelaxDoes
  <2>2. used \subseteq 0 .. Width
    BY <1>1 DEF MatchingTypeOK
  <2>3. used \cup {Least} \subseteq 0 .. Width
    BY <1>4, <2>2
  <2> QED  BY <1>4, <2>1, <2>3
<1>14. row' \in 0 .. Height /\ match' \in [0 .. Width -> 0 .. Height]
  BY <1>1, <1>2 DEF MatchingTypeOK
<1> QED  BY <1>3, <1>9, <1>10, <1>11, <1>12, <1>13, <1>14 DEF MatchingTypeOK

\* The potentials stay below the costs.
LEMMA RelaxStaysFeasible ==
  ASSUME MatchingInvariant, Relax
  PROVE  Feasible'
<1>1. /\ used # {} /\ Height \in Nat /\ Width \in Nat /\ MatchingBase /\ Searching /\ Matrix
  BY RelaxDoes DEF MatchingInvariant, MatchingBase, Matrix
<1>2. Cols' = Cols /\ RowNumbers' = RowNumbers
  BY <1>1, RelaxDoes, MatrixStays
<1>3. Delta \in Nat /\ \A j \in Free : Delta <= Relaxed[j]
  BY <1>1, LeastIsLeast
<1>4. ASSUME NEW i \in RowNumbers PROVE rowPot'[i] >= 0
  <2>0. i \in 0 .. Height
    BY <1>1 DEF RowNumbers
  <2>1. rowPot[i] \in Int /\ rowPot[i] >= 0
    BY <1>1, <2>0 DEF MatchingBase, MatchingTypeOK, Feasible
  <2>2. rowPot' = [k \in 0 .. Height |-> IF k \in UsedRows THEN rowPot[k] + Delta ELSE rowPot[k]]
    BY RelaxDoes
  <2> QED  BY <1>3, <2>0, <2>1, <2>2
<1>5. ASSUME NEW j \in Cols PROVE colPot'[j] <= 0
  <2>0. j \in 0 .. Width
    BY <1>1 DEF Cols
  <2>1. colPot[j] \in Int /\ colPot[j] <= 0
    BY <1>1, <2>0 DEF MatchingBase, MatchingTypeOK, Feasible
  <2>2. colPot' = [k \in 0 .. Width |-> IF k \in used THEN colPot[k] - Delta ELSE colPot[k]]
    BY RelaxDoes
  <2> QED  BY <1>3, <2>0, <2>1, <2>2
<1>6. ASSUME NEW i \in RowNumbers, NEW j \in Cols PROVE Reduced(i, j)' >= 0
  <2> DEFINE r == Reduced(i, j)
             q == Reduced(i, j)'
  <2>1. r \in Nat
    BY <1>1, WhileSearching
  <2>2. q = r - (IF i \in UsedRows THEN Delta ELSE 0) + (IF j \in used THEN Delta ELSE 0)
    BY RelaxShifts
  <2>3. i \in UsedRows /\ j \notin used => Delta <= r
    <3> SUFFICES ASSUME i \in UsedRows, j \notin used PROVE Delta <= r
      OBVIOUS
    <3>1. PICK k \in used : i = match[k]
      BY DEF UsedRows
    <3>2. j \in Free
      BY DEF Free
    <3>3. Relaxed[j] <= r /\ Relaxed[j] \in Nat
      BY <1>1, <3>1, <3>2, RelaxedReaches
    <3>4. Delta <= Relaxed[j]
      BY <1>3, <3>2
    <3> HIDE DEF r
    <3> QED  BY <1>3, <2>1, <3>3, <3>4
  <2> HIDE DEF r, q
  <2>4. q >= 0
    BY <1>3, <2>1, <2>2, <2>3
  <2> QED  BY <2>4 DEF q
<1> QED  BY <1>2, <1>4, <1>5, <1>6 DEF Feasible

\* Rows stay with tight columns.
LEMMA RelaxStaysMatched ==
  ASSUME MatchingInvariant, Relax
  PROVE  Matched'
<1>1. used # {} /\ MatchingBase /\ Searching /\ Matrix /\ Width \in Nat /\ Height \in Nat
  BY RelaxDoes DEF MatchingInvariant, MatchingBase, Matrix
<1>2. Cols' = Cols /\ match' = match /\ row' = row
  BY <1>1, RelaxDoes, MatrixStays
<1>3. Firm = Cols /\ Inserted = row - 1 /\ row - 1 \in Nat
  BY <1>1, WhileSearching
<1>4. Firm' \subseteq Cols
  BY <1>2 DEF Firm
<1>5. Inserted' = row - 1
  <2>1. /\ flipping' = (match[Least] = 0)
        /\ used' = IF match[Least] = 0 THEN {} ELSE used \cup {Least}
    BY RelaxDoes
  <2>2. flipping' \/ used' # {}
    BY <2>1
  <2> QED  BY <1>2, <2>2 DEF Inserted
<1>7. \A j \in Cols : match[j] # 0 => j \in Firm'
  <2>1. flipping' = (match[Least] = 0) /\ col' = Least
    BY RelaxDoes
  <2> QED  BY <1>2, <2>1 DEF Firm
<1>8. ASSUME NEW j \in Cols, match[j] # 0 PROVE Reduced(match[j], j)' = 0
  <2>1. Reduced(match[j], j) = 0 /\ match[j] \in 0 .. row - 1
    BY <1>1, <1>3, <1>8 DEF MatchingBase, Matched
  <2>2. match[j] \in RowNumbers
    BY <1>1, <1>3, <1>8, <2>1, WhileSearching DEF RowNumbers
  <2>3. CASE j \in used
    <3>1. match[j] \in UsedRows
      BY <2>3 DEF UsedRows
    <3>2. \A i \in UsedRows : Reduced(i, j)' = Reduced(i, j)
      BY <2>3, RelaxMoves
    <3> QED  BY <1>2, <2>1, <3>1, <3>2
  <2>4. CASE j \notin used
    <3>1. j \in Free /\ match[j] \notin UsedRows
      BY <1>1, <2>4, WhileSearching DEF Free
    <3>2. \A i \in RowNumbers \ UsedRows : Reduced(i, j)' = Reduced(i, j)
      BY <3>1, RelaxMoves
    <3> QED  BY <1>2, <2>1, <2>2, <3>1, <3>2
  <2> QED  BY <2>3, <2>4
<1>9. ASSUME NEW j \in Cols, match[j] = 0 PROVE colPot'[j] = 0
  <2>1. colPot[j] = 0 /\ j \notin used /\ j \in 0 .. Width
    BY <1>1, <1>3, <1>9, WhileSearching DEF MatchingBase, Matched, Cols
  <2>2. colPot' = [k \in 0 .. Width |-> IF k \in used THEN colPot[k] - Delta ELSE colPot[k]]
    BY RelaxDoes
  <2> QED  BY <2>1, <2>2
<1>10. /\ \A j \in Cols : match[j] \in 0 .. row - 1
       /\ \A j, k \in Cols : match[j] = match[k] /\ match[j] # 0 => j = k
       /\ \A i \in 1 .. row - 1 : \E j \in Cols : match[j] = i
  BY <1>1, <1>3 DEF MatchingBase, Matched
<1>11. \A i \in 1 .. row - 1 : \E j \in Firm' : match[j] = i
  BY <1>3, <1>7, <1>10
<1> QED  BY <1>2, <1>4, <1>5, <1>8, <1>9, <1>10, <1>11 DEF Matched


\* The way back from the column gone to, the last and deepest.
LEMMA RelaxLeadsBack ==
  ASSUME MatchingInvariant, Relax, NEW T, T = used \cup {Least}
  PROVE  WayBack(T)'
<1>1. used # {} /\ MatchingBase /\ Searching /\ Matrix /\ Width \in Nat
  BY RelaxDoes DEF MatchingInvariant, MatchingBase, Matrix
<1>2. /\ UNCHANGED <<cost, row, match>>
      /\ Cols' = Cols /\ RowNumbers' = RowNumbers /\ Width' = Width /\ Depths' = Depths
  BY <1>1, RelaxDoes, MatrixStays DEF Depths
<1>3. PICK l \in Free : l = Least
  BY <1>1, LeastIsLeast
<1>4. l \in Cols /\ l \in 0 .. Width /\ l # 0 /\ l \notin used /\ col' = l /\ T = used \cup {l}
  BY <1>1, <1>3, WhileSearching, RelaxDoes DEF Free
<1>5. PICK old \in Depths :
        Leads(used, old) /\ col \in used /\ \A j \in used : old[j] <= old[col]
  BY <1>1 DEF Searching, WayBack
<1>6. used \subseteq 0 .. Width /\ \A j \in 0 .. Width : old[j] \in Nat
  BY <1>1, <1>5 DEF MatchingBase, MatchingTypeOK, Depths
<1>7. PICK depth \in Depths : depth = [old EXCEPT ![l] = old[col] + 1]
  <2>1. l \in 0 .. Width /\ old[col] + 1 \in Nat
    BY <1>4, <1>5, <1>6
  <2>2. [old EXCEPT ![l] = old[col] + 1] \in Depths
    BY <1>5, <2>1 DEF Depths
  <2> QED  BY <2>2
<1>8. /\ depth[l] = old[col] + 1 /\ old[col] \in Nat
      /\ \A j \in used : depth[j] = old[j] /\ depth[j] \in Nat
  BY <1>4, <1>5, <1>6, <1>7 DEF Depths
<1>9. \A j \in T : depth[j] <= depth[l]
  BY <1>4, <1>5, <1>8
<1>10. /\ \A k \in used : match[k] \in UsedRows /\ k \in 0 .. Width
       /\ UsedRows \subseteq RowNumbers
  BY <1>6, RelaxMoves DEF UsedRows
<1>11. \A j \in 0 .. Width : previous'[j] = Source(j)
  BY RelaxDoes
<1>12. ASSUME NEW j \in used \ {0}
       PROVE  /\ j \in Cols /\ previous'[j] \in used /\ depth[previous'[j]] < depth[j]
              /\ match'[previous'[j]] \in RowNumbers /\ Reduced(match[previous[j]], j)' = 0
  <2>1. /\ j \in Cols /\ previous[j] \in used /\ old[previous[j]] < old[j]
        /\ Reduced(match[previous[j]], j) = 0
    BY <1>5 DEF Leads
  <2>2. j \in 0 .. Width /\ j \notin Better
    BY <1>6 DEF Better, Free
  <2>3. previous'[j] = previous[j]
    BY <1>11, <2>2 DEF Source
  <2>4. \A i \in UsedRows : Reduced(i, j)' = Reduced(i, j)
    BY <2>1, RelaxMoves
  <2>5. match[previous[j]] \in UsedRows
    BY <1>10, <2>1
  <2>6. Reduced(match[previous[j]], j)' = 0
    BY <1>2, <2>1, <2>3, <2>4, <2>5
  <2> QED  BY <1>2, <1>8, <1>10, <2>1, <2>3, <2>5, <2>6
<1>13. /\ l \in Cols /\ previous'[l] \in used /\ depth[previous'[l]] < depth[l]
       /\ match'[previous'[l]] \in RowNumbers /\ Reduced(match[previous[l]], l)' = 0
  <2>1. previous'[l] = Source(l)
    BY <1>4, <1>11
  <2>2. Source(l) \in used /\ Relaxed[l] = Reduced(match[Source(l)], l) /\ Relaxed[l] \in Nat
    BY <1>1, RelaxedReaches
  <2>3. Delta = Relaxed[l]
    BY <1>3 DEF Delta
  <2> DEFINE i == match[Source(l)]
  <2>4. i \in UsedRows
    BY <1>10, <2>2
  <2>5. \A k \in UsedRows : Reduced(k, l)' = Reduced(k, l) - Delta
    BY RelaxMoves
  <2>6. match'[previous'[l]] = i
    BY <1>2, <2>1
  <2>7. Reduced(i, l) = Delta /\ Delta \in Nat
    BY <2>2, <2>3
  <2>8. PICK k : k = i
    OBVIOUS
  <2> HIDE DEF i
  <2>9. Reduced(k, l)' = 0
    BY <2>4, <2>5, <2>7, <2>8
  <2>10. Reduced(match[previous[l]], l)' = 0
    BY <2>6, <2>8, <2>9
  <2>11. old[previous'[l]] <= old[col] /\ old[previous'[l]] \in Nat
    BY <1>5, <1>6, <2>1, <2>2
  <2> QED  BY <1>4, <1>8, <1>10, <2>1, <2>2, <2>4, <2>6, <2>10, <2>11
<1>14. 0 \in T /\ depth[0] = 0
  BY <1>4, <1>5, <1>8 DEF Leads
<1>15. Leads(T, depth)'
  <2>1. ASSUME NEW j \in T \ {0}
        PROVE  /\ j \in Cols /\ previous'[j] \in T /\ depth[previous'[j]] < depth[j]
               /\ match'[previous'[j]] \in RowNumbers /\ Reduced(match[previous[j]], j)' = 0
    <3>1. CASE j = l
      BY <1>4, <1>13, <3>1
    <3>2. CASE j \in used \ {0}
      BY <1>4, <1>12, <3>2
    <3> QED  BY <1>4, <3>1, <3>2
  <2> QED  BY <1>2, <1>14, <2>1 DEF Leads
<1> QED  BY <1>2, <1>4, <1>9, <1>15 DEF WayBack

\* What the columns that are left remember.
LEMMA RelaxRemembers ==
  ASSUME MatchingInvariant, Relax, match[Least] # 0
  PROVE  Frontier'
<1>1. used # {} /\ MatchingBase /\ Searching /\ Matrix
  BY RelaxDoes DEF MatchingInvariant, MatchingBase
<1>2. /\ UNCHANGED <<cost, row, match>> /\ Cols' = Cols
      /\ col' = Least /\ used' = used \cup {Least}
  BY <1>1, RelaxDoes, MatrixStays
<1>3. Least \in Free /\ Least \notin used
  BY <1>1, LeastIsLeast DEF Free
<1>4. used' \ {col'} = used /\ Cols' \ used' \subseteq Free
  BY <1>2, <1>3 DEF Free
<1>5. ASSUME NEW j \in Free \ {Least}
      PROVE  /\ previous'[j] \in used
             /\ minCost'[j] = Reduced(match[previous[j]], j)'
             /\ \A k \in used : minCost'[j] <= Reduced(match[k], j)'
  <2>1. j \in 0 .. Width /\ j \notin used
    BY <1>1, WhileSearching DEF Free
  <2>2. previous'[j] = Source(j) /\ minCost'[j] = Relaxed[j] - Delta
    BY <2>1, RelaxDoes
  <2>3. /\ Source(j) \in used /\ Relaxed[j] = Reduced(match[Source(j)], j) /\ Relaxed[j] \in Nat
        /\ \A k \in used : Relaxed[j] <= Reduced(match[k], j)
    BY <1>1, RelaxedReaches
  <2>4. \A i \in UsedRows : Reduced(i, j)' = Reduced(i, j) - Delta
    BY RelaxMoves
  <2>5. Delta \in Nat /\ \A k \in used : match[k] \in UsedRows /\ Reduced(match[k], j) \in Nat
    BY <1>1, LeastIsLeast, WhileSearching DEF UsedRows
  <2>6. Reduced(match[previous[j]], j)' = Relaxed[j] - Delta
    <3>1. PICK i \in UsedRows : i = match[Source(j)]
      BY <2>3, <2>5
    <3>2. Reduced(i, j)' = Relaxed[j] - Delta
      BY <2>3, <2>4, <3>1
    <3>3. match'[previous'[j]] = i
      BY <1>2, <2>2, <3>1
    <3> QED  BY <3>2, <3>3
  <2>7. ASSUME NEW k \in used PROVE minCost'[j] <= Reduced(match[k], j)'
    <3>1. PICK i \in UsedRows : i = match[k]
      BY <2>5
    <3>2. Reduced(i, j)' = Reduced(i, j) - Delta
      BY <2>4
    <3>3. Relaxed[j] <= Reduced(i, j) /\ Reduced(i, j) \in Nat
      BY <2>3, <2>5, <3>1
    <3>4. minCost'[j] <= Reduced(i, j)'
      BY <2>2, <2>3, <2>5, <3>2, <3>3
    <3>5. match'[k] = i
      BY <1>2, <3>1
    <3> QED  BY <3>4, <3>5
  <2> QED  BY <2>2, <2>3, <2>6, <2>7
<1>6. Cols' \ used' = Free \ {Least}
  BY <1>2 DEF Free
<1> QED  BY <1>2, <1>4, <1>5, <1>6 DEF Frontier

\* A pass of the inner loop keeps the invariant, whether its way ends or goes on.
LEMMA RelaxKeeps ==
  ASSUME MatchingInvariant, Relax
  PROVE  MatchingInvariant'
<1>1. used # {} /\ MatchingBase /\ Searching /\ Matrix /\ row \in RowNumbers /\ match[0] = row
  BY RelaxDoes DEF MatchingInvariant, MatchingBase, Searching
<1>2. /\ UNCHANGED <<cost, row, match>>
      /\ col' = Least /\ flipping' = (match[Least] = 0)
      /\ used' = IF match[Least] = 0 THEN {} ELSE used \cup {Least}
      /\ Matrix' /\ Cols' = Cols /\ RowNumbers' = RowNumbers /\ Width' = Width
  BY <1>1, RelaxDoes, MatrixStays
<1>3. MatchingBase'
  BY <1>2, RelaxTypes, RelaxStaysFeasible, RelaxStaysMatched DEF MatchingBase
<1>4. PICK T : T = used \cup {Least}
  OBVIOUS
<1>5. WayBack(T)' /\ Least \in Cols
  BY <1>1, <1>4, RelaxLeadsBack, LeastIsLeast DEF Free
<1>6. T \in SUBSET (0 .. Width)
  BY <1>1, <1>4, LeastIsLeast, WhileSearching DEF MatchingBase, MatchingTypeOK
<1>7. CASE match[Least] = 0
  <2>1. used' = {} /\ flipping' = TRUE
    BY <1>2, <1>7
  <2>2. PathFlips'
    BY <1>1, <1>2, <1>5, <1>6, <2>1 DEF PathFlips
  <2>3. Searching'
    BY <2>1 DEF Searching
  <2> QED  BY <1>3, <2>2, <2>3 DEF MatchingInvariant
<1>8. CASE match[Least] # 0
  <2>1. used' = T /\ flipping' = FALSE
    BY <1>2, <1>4, <1>8
  <2>2. PathFlips'
    BY <2>1 DEF PathFlips
  <2>3. \A j \in T \ {0} : match'[j] # 0
    BY <1>2, <1>4, <1>8, <1>1 DEF Searching
  <2>4. WayBack(used)'
    BY <1>5, <2>1 DEF WayBack, Leads
  <2>5. Searching'
    BY <1>1, <1>2, <1>8, <2>1, <2>3, <2>4, RelaxRemembers DEF Searching
  <2> QED  BY <1>3, <2>2, <2>5 DEF MatchingInvariant
<1> QED  BY <1>7, <1>8

\* One step of the algorithm.
LEMMA MatchingStep == MatchingInvariant /\ [MatchingNext]_matchingVars => MatchingInvariant'
<1> SUFFICES ASSUME MatchingInvariant, [MatchingNext]_matchingVars PROVE MatchingInvariant'
  OBVIOUS
<1>1. CASE NextRow
  BY <1>1, NextRowKeeps
<1>2. CASE Relax
  BY <1>2, RelaxKeeps
<1>3. CASE Flip
  BY <1>3, FlipKeeps
<1>4. CASE UNCHANGED matchingVars
  BY <1>4 DEF matchingVars, MatchingInvariant, MatchingBase, Matrix, MatchingTypeOK, Feasible,
              Matched, Firm, Inserted, Searching, PathFlips, WayBack, Leads, Depths, Frontier,
              Reduced, RowNumbers, Cols, Height, Width
<1> QED  BY <1>1, <1>2, <1>3, <1>4 DEF MatchingNext

\* rectangular_hungarian: whenever the loops are done every row has a column of its
\* own, and no assignment is cheaper, for every shape of the matrix and all costs.
THEOREM CheapestIsFound == MatchingSpec => []HungarianIsOptimal
<1>1. MatchingInvariant => HungarianIsOptimal
  BY DoneIsOptimal DEF MatchingInvariant
<1> QED  BY <1>1, MatchingStart, MatchingStep, PTL DEF MatchingSpec

(***************************************************************************)
(* ArmorSearch: what has been passed is not cheaper than the best.          *)
(***************************************************************************)
\* A sum of no negative numbers grows with its terms, and stays below as many times
\* the greatest.
LEMMA SumOfMore ==
  ASSUME NEW m \in Nat, NEW n \in 0 .. m, NEW g, NEW h, NEW most \in Nat,
         \A i \in 1 .. m : h[i] \in 0 .. most, \A i \in 1 .. n : g[i] = h[i]
  PROVE  SumOf(g, n) <= SumOf(h, m) /\ SumOf(h, m) <= m * most
<1>1. PICK a : Partial(a, g, n) /\ SumOf(g, n) = a[n]
  BY SumUnfolds
<1>2. PICK b : Partial(b, h, m) /\ SumOf(h, m) = b[m]
  BY SumUnfolds
<1>3. \A i \in 0 .. m : b[i] \in Int
  BY <1>2, SumsAreInts DEF Ints
<1> DEFINE S == {k \in Nat : /\ k <= n => a[k] = b[k]
                             /\ k <= m => b[k] <= k * most
                             /\ n <= k /\ k <= m => b[n] <= b[k]}
<1>4. 0 \in S
  BY <1>1, <1>2, <1>3 DEF Partial
<1>5. ASSUME NEW k \in Nat, k \in S PROVE k + 1 \in S
  <2>1. CASE k + 1 > m
    BY <2>1
  <2>2. CASE k + 1 <= m
    <3>1. k + 1 \in 1 .. m /\ (k + 1) - 1 = k /\ k \in 0 .. m /\ n \in 0 .. m
      BY <2>2
    <3>2. b[k + 1] = b[k] + h[k + 1] /\ h[k + 1] \in 0 .. most /\ b[k] \in Int /\ b[n] \in Int
      BY <1>2, <1>3, <3>1 DEF Partial
    <3>3. k + 1 <= n => a[k + 1] = b[k + 1]
      BY <1>1, <1>5, <3>1, <3>2 DEF Partial
    <3>4. b[k + 1] <= (k + 1) * most
      <4>1. b[k] <= k * most /\ k * most \in Nat /\ (k + 1) * most = k * most + most
        BY <1>5, <3>1
      <4> QED  BY <3>2, <4>1
    <3>5. n <= k + 1 => b[n] <= b[k + 1]
      BY <1>5, <3>1, <3>2
    <3> QED  BY <3>3, <3>4, <3>5
  <2> QED  BY <2>1, <2>2
<1>6. Nat \subseteq S
  <2> HIDE DEF S
  <2> QED  BY <1>4, <1>5, Counting
<1>7. a[n] = b[n] /\ b[n] <= b[m] /\ b[m] <= m * most
  BY <1>6
<1> QED  BY <1>1, <1>2, <1>7

\* A matrix of costs, of no more observations than armors, that Infinity is beyond.
MatchCosts ==
  /\ Observed \in Nat \ {0} /\ Len(costs[1]) \in Nat \ {0} /\ Observed <= Len(costs[1])
  /\ \E most \in Nat :
       /\ Observed * most < Infinity
       /\ \A i \in 1 .. Observed, j \in ArmorIds : costs[i][j] \in 0 .. most

\* The ids on the stack are those that are used, each once.
Stacked ==
  /\ phase \in {"visit", "loop", "done"}
  /\ index \in 0 .. Observed /\ id \in Nat \ {0}
  /\ phase = "loop" => index < Observed
  /\ \A i \in 1 .. index : current[i] \in ArmorIds
  /\ \A i, k \in 1 .. index : current[i] = current[k] => i = k
  /\ idUsed = {current[i] : i \in 1 .. index}
  /\ current \in [1 .. Observed -> ArmorIds \cup {Nobody}]

\* An assignment that begins like the stack, and one that was visited or cut off: it
\* turned to a smaller id somewhere.
Along(f) == \A i \in 1 .. index : f[i] = current[i]
Turned(f, k) == (\A i \in 1 .. k - 1 : f[i] = current[i]) /\ f[k] < current[k]
Passed(f) ==
  \/ phase = "done"
  \/ \E k \in 1 .. index : Turned(f, k)
  \/ phase = "loop" /\ Along(f) /\ f[index + 1] < id

\* The best one found, if any, is an assignment, and none that was passed is cheaper.
BestOfPassed ==
  /\ \/ bestCost = Infinity
     \/ best \in Assignments(costs) /\ bestCost = CostOf(costs, best)
  /\ bestCost \in Nat
  /\ \A f \in Assignments(costs) : Passed(f) => bestCost <= CostOf(costs, f)

SearchInvariant == MatchCosts /\ Stacked /\ BestOfPassed

\* An assignment of the matrix.
LEMMA AssignmentsAreMaps ==
  ASSUME MatchCosts, NEW f \in Assignments(costs)
  PROVE  /\ \A i \in 1 .. Observed : f[i] \in ArmorIds
         /\ \A i, k \in 1 .. Observed : f[i] = f[k] => i = k
         /\ CostOf(costs, f) \in Nat /\ CostOf(costs, f) < Infinity
<1>1. f \in [1 .. Observed -> ArmorIds] /\ \A i, k \in 1 .. Observed : f[i] = f[k] => i = k
  BY DEF Assignments, Observed, ArmorIds
<1>2. PICK most \in Nat :
        /\ Observed * most < Infinity
        /\ \A i \in 1 .. Observed, j \in ArmorIds : costs[i][j] \in 0 .. most
  BY DEF MatchCosts
<1> DEFINE h == [i \in 1 .. Observed |-> costs[i][f[i]]]
<1>3. \A i \in 1 .. Observed : h[i] \in 0 .. most
  BY <1>1, <1>2
<1>4. CostOf(costs, f) = SumOf(h, Observed)
  BY DEF CostOf, Observed
<1>5. SumOf(h, 0) = 0
  BY SumOfNothing
<1> HIDE DEF h
<1>6. Observed \in Nat /\ 0 \in 0 .. Observed /\ \A i \in 1 .. 0 : h[i] = h[i]
  BY DEF MatchCosts
<1>7. Ints(h, Observed)
  BY <1>3 DEF Ints
<1>8. SumOf(h, Observed) \in Int
  BY <1>6, <1>7, SumIsInt
<1>9. SumOf(h, 0) <= SumOf(h, Observed) /\ SumOf(h, Observed) <= Observed * most
  BY <1>3, <1>6, SumOfMore
<1>10. Observed * most \in Nat /\ Infinity \in Nat
  BY <1>6, MatrixAssumption
<1> QED  BY <1>1, <1>2, <1>4, <1>5, <1>8, <1>9, <1>10

\* What begins like the stack costs what the stack does, or more.
LEMMA TotalIsBound ==
  ASSUME MatchCosts, Stacked
  PROVE  /\ Total \in Nat
         /\ \A f \in Assignments(costs) : Along(f) => Total <= CostOf(costs, f)
<1>1. PICK most \in Nat : \A i \in 1 .. Observed, j \in ArmorIds : costs[i][j] \in 0 .. most
  BY DEF MatchCosts
<1> DEFINE n == index
           m == Observed
           g == [i \in 1 .. n |-> costs[i][current[i]]]
<1>2. n \in 0 .. m /\ n \in Nat /\ m \in Nat
  BY DEF MatchCosts, Stacked
<1>3. \A i \in 1 .. n : g[i] \in 0 .. most
  BY <1>1, <1>2 DEF Stacked
<1>4. Total = SumOf(g, n)
  BY DEF Total
<1> HIDE DEF g, n, m
<1>5. SumOf(g, n) \in Nat
  <2>1. SumOf(g, 0) = 0
    BY SumOfNothing
  <2>2. 0 \in 0 .. n /\ \A i \in 1 .. 0 : g[i] = g[i]
    BY <1>2
  <2>3. SumOf(g, 0) <= SumOf(g, n)
    BY <1>2, <1>3, <2>2, SumOfMore
  <2>4. SumOf(g, n) \in Int
    BY <1>2, <1>3, SumIsInt DEF Ints
  <2> QED  BY <2>1, <2>3, <2>4
<1>6. ASSUME NEW f \in Assignments(costs), Along(f) PROVE Total <= CostOf(costs, f)
  <2> DEFINE h == [i \in 1 .. m |-> costs[i][f[i]]]
  <2>1. \A i \in 1 .. m : f[i] \in ArmorIds
    BY AssignmentsAreMaps DEF m
  <2>2. \A i \in 1 .. m : h[i] \in 0 .. most
    BY <1>1, <2>1 DEF m
  <2>3. \A i \in 1 .. n : g[i] = h[i]
    BY <1>2, <1>6 DEF g, n, Along
  <2>4. CostOf(costs, f) = SumOf(h, m)
    BY DEF CostOf, m, Observed
  <2> HIDE DEF h
  <2>5. SumOf(g, n) <= SumOf(h, m)
    BY <1>2, <2>2, <2>3, SumOfMore
  <2> QED  BY <1>4, <2>4, <2>5
<1> QED  BY <1>4, <1>5, <1>6

\* A matrix with no more rows than columns has an assignment.
LEMMA SomeAssignment ==
  ASSUME MatchCosts
  PROVE  \E f : f \in Assignments(costs)
<1>1. [i \in 1 .. Observed |-> i] \in Assignments(costs)
  BY DEF MatchCosts, Assignments, Observed
<1> QED  BY <1>1

\* The first call has nothing on its stack and has passed nothing.
LEMMA SearchStart == SearchInit => SearchInvariant
<1> SUFFICES ASSUME SearchInit PROVE SearchInvariant
  OBVIOUS
<1>1. PICK shape \in Shapes : \E m \in Tables(shape) : costs = Observable(m)
  BY DEF SearchInit
<1> DEFINE most == shape[3]
           h == shape[1]
           w == shape[2]
<1>2. /\ h \in Nat \ {0} /\ w \in Nat \ {0} /\ most \in Nat /\ h * most < Infinity
      /\ Infinity \in Nat
  BY MatrixAssumption
<1>3. PICK m \in [1 .. h -> [1 .. w -> 0 .. most]] : costs = Observable(m)
  BY <1>1 DEF Tables
<1> HIDE DEF most, h, w
<1>4. Len(m) = h /\ Len(m[1]) = w /\ m \in Seq([1 .. w -> 0 .. most])
  <2>1. Len(m) = h /\ \A i \in 1 .. h : Len(m[i]) = w
    BY <1>2, TableSizes
  <2>2. 1 \in 1 .. h
    BY <1>2
  <2>3. \E k \in Nat : m \in [1 .. k -> [1 .. w -> 0 .. most]]
    BY <1>2
  <2>4. m \in Seq([1 .. w -> 0 .. most])
    BY <2>3
  <2> QED  BY <2>1, <2>2, <2>4
<1> DEFINE n == IF h <= w THEN h ELSE w
<1>5. n \in Nat \ {0} /\ n <= h /\ n <= w
  BY <1>2
<1>6. costs = SubSeq(m, 1, n)
  BY <1>3, <1>4 DEF Observable
<1> HIDE DEF n
<1>7. Len(costs) = n /\ \A i \in 1 .. n : costs[i] = m[i]
  BY <1>2, <1>4, <1>5, <1>6
<1>8. Observed = n /\ Len(costs[1]) = w /\ ArmorIds = 1 .. w
  BY <1>4, <1>5, <1>7 DEF Observed, ArmorIds
<1>9. MatchCosts
  <2>1. ASSUME NEW i \in 1 .. n, NEW j \in 1 .. w PROVE costs[i][j] \in 0 .. most
    <3>1. i \in 1 .. h
      BY <1>2, <1>5
    <3>2. m[i] \in [1 .. w -> 0 .. most]
      BY <3>1
    <3> QED  BY <1>7, <3>2
  <2>2. n * most < Infinity
    <3>1. n * most <= h * most
      <4>1. PICK d \in Nat : h = n + d
        <5>1. h - n \in Nat /\ h = n + (h - n)
          BY <1>2, <1>5
        <5> QED  BY <5>1
      <4>2. h * most = n * most + d * most /\ d * most \in Nat /\ n * most \in Nat
        BY <1>2, <1>5, <4>1
      <4> QED  BY <4>2
    <3>2. n * most \in Nat /\ h * most \in Nat
      BY <1>2, <1>5
    <3> QED  BY <1>2, <3>1, <3>2
  <2> QED  BY <1>2, <1>5, <1>8, <2>1, <2>2 DEF MatchCosts
<1>10. /\ phase = "visit" /\ index = 0 /\ id = 1 /\ idUsed = {} /\ bestCost = Infinity
       /\ current = [i \in 1 .. Observed |-> Nobody]
  BY DEF SearchInit
<1>11. Stacked
  BY <1>5, <1>8, <1>10 DEF Stacked
<1>12. BestOfPassed
  BY <1>2, <1>10 DEF BestOfPassed, Passed
<1> QED  BY <1>9, <1>11, <1>12 DEF SearchInvariant

\* The matrix stays.
LEMMA CostsStay ==
  ASSUME UNCHANGED costs
  PROVE  /\ MatchCosts' = MatchCosts /\ Observed' = Observed /\ ArmorIds' = ArmorIds
         /\ Assignments(costs)' = Assignments(costs)
         /\ \A f : CostOf(costs, f)' = CostOf(costs, f)
BY DEF MatchCosts, Observed, ArmorIds

\* A call returns: the ids below it stay, and only what begins like its stack has been
\* passed in addition.
LEMMA ReturnPasses ==
  ASSUME MatchCosts, Stacked, Return, UNCHANGED costs
  PROVE  /\ Stacked'
         /\ \A f \in Assignments(costs) : Passed(f)' => Passed(f) \/ Along(f)
<1>1. Observed' = Observed /\ ArmorIds' = ArmorIds /\ Observed \in Nat /\ Len(costs[1]) \in Nat
  BY CostsStay DEF MatchCosts
<1>2. /\ index \in 0 .. Observed /\ id \in Nat \ {0}
      /\ \A i \in 1 .. index : current[i] \in ArmorIds
      /\ \A i, k \in 1 .. index : current[i] = current[k] => i = k
      /\ idUsed = {current[i] : i \in 1 .. index}
      /\ current \in [1 .. Observed -> ArmorIds \cup {Nobody}]
  BY DEF Stacked
<1>3. CASE /\ index = 0 /\ phase' = "done"
           /\ UNCHANGED <<index, id, idUsed, current>>
  <2>1. Stacked'
    BY <1>1, <1>2, <1>3 DEF Stacked
  <2>2. \A f : Along(f)
    BY <1>3 DEF Along
  <2> QED  BY <2>1, <2>2
<1>4. CASE /\ index > 0 /\ phase' = "loop" /\ index' = index - 1
           /\ id' = current[index] + 1
           /\ idUsed' = Released
           /\ current' = [current EXCEPT ![index] = Nobody]
  <2>1. index \in 1 .. index /\ index \in 1 .. Observed /\ index - 1 \in 0 .. Observed
    BY <1>1, <1>2, <1>4
  <2>2. current[index] \in ArmorIds /\ current[index] + 1 \in Nat \ {0}
    BY <1>1, <1>2, <2>1 DEF ArmorIds
  <2>3. \A i \in 1 .. index - 1 : current'[i] = current[i] /\ i \in 1 .. index /\ i # index
    BY <1>1, <1>2, <1>4, <2>1
  <2>4. Stacked'
    <3>1. current' \in [1 .. Observed -> ArmorIds \cup {Nobody}]
      BY <1>2, <1>4
    <3>2. idUsed' = {current'[i] : i \in 1 .. index - 1}
      <4>1. idUsed' = {current[i] : i \in 1 .. index} \ {current[index]}
        BY <1>2, <1>4 DEF Released
      <4>2. \A i \in 1 .. index : i # index => i \in 1 .. index - 1
        BY <2>1
      <4>3. \A x : x \in idUsed' <=> \E i \in 1 .. index - 1 : x = current'[i]
        BY <1>2, <2>1, <2>3, <4>1, <4>2
      <4> QED  BY <4>3
    <3>3. index' < Observed
      BY <1>1, <1>2, <1>4, <2>1
    <3>4. /\ \A i \in 1 .. index - 1 : current'[i] \in ArmorIds
          /\ \A i, k \in 1 .. index - 1 : current'[i] = current'[k] => i = k
      BY <1>2, <2>3
    <3> QED  BY <1>1, <1>4, <2>1, <2>2, <3>1, <3>2, <3>3, <3>4 DEF Stacked
  <2>5. ASSUME NEW f \in Assignments(costs), Passed(f)' PROVE Passed(f) \/ Along(f)
    <3>1. \A i \in 1 .. Observed : f[i] \in Int
      BY <1>1, AssignmentsAreMaps DEF ArmorIds
    <3>2. CASE \E k \in 1 .. index - 1 : Turned(f, k)'
      <4>1. PICK k \in 1 .. index - 1 :
              (\A i \in 1 .. k - 1 : f[i] = current'[i]) /\ f[k] < current'[k]
        BY <3>2 DEF Turned
      <4>2. \A i \in 1 .. k - 1 : i \in 1 .. index - 1
        BY <2>1, <4>1
      <4>3. Turned(f, k) /\ k \in 1 .. index
        BY <2>3, <4>1, <4>2 DEF Turned
      <4> QED  BY <4>3 DEF Passed
    <3>3. CASE Along(f)' /\ f[index] < current[index] + 1
      <4>1. \A i \in 1 .. index - 1 : f[i] = current[i]
        BY <1>4, <2>3, <3>3 DEF Along
      <4>2. f[index] < current[index] \/ f[index] = current[index]
        BY <2>1, <2>2, <3>1, <3>3 DEF ArmorIds
      <4>3. CASE f[index] < current[index]
        <5>1. Turned(f, index)
          BY <4>1, <4>3 DEF Turned
        <5> QED  BY <2>1, <5>1 DEF Passed
      <4>4. CASE f[index] = current[index]
        <5>1. \A i \in 1 .. index : i \in 1 .. index - 1 \/ i = index
          BY <2>1
        <5> QED  BY <4>1, <4>4, <5>1 DEF Along
      <4> QED  BY <4>2, <4>3, <4>4
    <3>4. (index - 1) + 1 = index
      BY <2>1
    <3> QED  BY <1>4, <2>5, <3>2, <3>3, <3>4 DEF Passed
  <2> QED  BY <2>4, <2>5
<1> QED  BY <1>3, <1>4 DEF Return

\* What is cut off costs no less than the best.
LEMMA CutOffKeeps ==
  ASSUME SearchInvariant, CutOff
  PROVE  SearchInvariant'
<1>1. /\ Total >= bestCost /\ Return /\ UNCHANGED <<costs, best, bestCost>>
      /\ MatchCosts /\ Stacked /\ BestOfPassed
  BY DEF CutOff, SearchInvariant
<1>2. /\ MatchCosts' /\ Assignments(costs)' = Assignments(costs)
      /\ \A f : CostOf(costs, f)' = CostOf(costs, f)
  BY <1>1, CostsStay
<1>3. Stacked' /\ \A f \in Assignments(costs) : Passed(f)' => Passed(f) \/ Along(f)
  BY <1>1, ReturnPasses
<1>4. ASSUME NEW f \in Assignments(costs), Passed(f)' PROVE bestCost <= CostOf(costs, f)
  <2>1. CASE Passed(f)
    BY <1>1, <2>1 DEF BestOfPassed
  <2>2. CASE Along(f)
    <3>1. Total <= CostOf(costs, f) /\ Total \in Nat
      BY <1>1, <2>2, TotalIsBound
    <3>2. CostOf(costs, f) \in Nat /\ bestCost \in Nat
      BY <1>1, AssignmentsAreMaps DEF BestOfPassed
    <3> QED  BY <1>1, <3>1, <3>2
  <2> QED  BY <1>3, <1>4, <2>1, <2>2
<1>5. BestOfPassed'
  BY <1>1, <1>2, <1>4 DEF BestOfPassed
<1> QED  BY <1>2, <1>3, <1>5 DEF SearchInvariant

\* An assignment that was reached below the best becomes the best.
LEMMA FoundKeeps ==
  ASSUME SearchInvariant, Found
  PROVE  SearchInvariant'
<1>1. /\ Total < bestCost /\ index = Observed /\ best' = current /\ bestCost' = Total
      /\ Return /\ UNCHANGED costs
      /\ MatchCosts /\ Stacked /\ BestOfPassed
  BY DEF Found, SearchInvariant
<1>2. /\ MatchCosts' /\ Assignments(costs)' = Assignments(costs)
      /\ \A f : CostOf(costs, f)' = CostOf(costs, f)
  BY <1>1, CostsStay
<1>3. Stacked' /\ \A f \in Assignments(costs) : Passed(f)' => Passed(f) \/ Along(f)
  BY <1>1, ReturnPasses
<1>4. Total \in Nat /\ bestCost \in Nat
  BY <1>1, TotalIsBound DEF BestOfPassed
<1>5. current \in Assignments(costs)
  <2>1. current \in [1 .. Observed -> ArmorIds]
    BY <1>1 DEF Stacked
  <2>2. \A i, k \in 1 .. Observed : current[i] = current[k] => i = k
    BY <1>1 DEF Stacked
  <2> QED  BY <2>1, <2>2 DEF Assignments, Observed, ArmorIds
<1>6. CostOf(costs, current) = Total
  BY <1>1 DEF CostOf, Total, Observed
<1>7. ASSUME NEW f \in Assignments(costs), Passed(f)' PROVE Total <= CostOf(costs, f)
  <2>1. CASE Passed(f)
    <3>1. bestCost <= CostOf(costs, f) /\ CostOf(costs, f) \in Nat
      BY <1>1, <2>1, AssignmentsAreMaps DEF BestOfPassed
    <3> QED  BY <1>1, <1>4, <3>1
  <2>2. CASE Along(f)
    BY <1>1, <2>2, TotalIsBound
  <2> QED  BY <1>3, <1>7, <2>1, <2>2
<1>8. BestOfPassed'
  BY <1>1, <1>2, <1>4, <1>5, <1>6, <1>7 DEF BestOfPassed
<1> QED  BY <1>2, <1>3, <1>8 DEF SearchInvariant

\* A loop that starts has passed no more than the call before it.
LEMMA OpenKeeps ==
  ASSUME SearchInvariant, Open
  PROVE  SearchInvariant'
<1>1. /\ phase = "visit" /\ index < Observed /\ phase' = "loop" /\ id' = 1
      /\ UNCHANGED <<costs, index, idUsed, current, best, bestCost>>
      /\ MatchCosts /\ Stacked /\ BestOfPassed
  BY DEF Open, SearchInvariant
<1>2. /\ MatchCosts' /\ Assignments(costs)' = Assignments(costs)
      /\ \A f : CostOf(costs, f)' = CostOf(costs, f)
      /\ Observed' = Observed /\ ArmorIds' = ArmorIds
  BY <1>1, CostsStay
<1>3. Stacked'
  BY <1>1, <1>2 DEF Stacked
<1>4. ASSUME NEW f \in Assignments(costs), Passed(f)' PROVE Passed(f)
  <2>1. index + 1 \in 1 .. Observed
    BY <1>1 DEF Stacked, MatchCosts
  <2>2. ~(f[index + 1] < 1)
    <3>1. f[index + 1] \in ArmorIds
      BY <1>1, <2>1, AssignmentsAreMaps
    <3> QED  BY <1>1, <3>1 DEF ArmorIds, MatchCosts
  <2>3. \E k \in 1 .. index : Turned(f, k)'
    BY <1>1, <1>4, <2>2 DEF Passed
  <2> QED  BY <1>1, <2>3 DEF Passed, Turned
<1>5. BestOfPassed'
  BY <1>1, <1>2, <1>4 DEF BestOfPassed
<1> QED  BY <1>1, <1>2, <1>3, <1>5 DEF SearchInvariant

\* An id that is used begins no assignment of its own.
LEMMA SkipKeeps ==
  ASSUME SearchInvariant, Skip
  PROVE  SearchInvariant'
<1>1. /\ phase = "loop" /\ id \in ArmorIds /\ id \in idUsed /\ id' = id + 1
      /\ UNCHANGED <<costs, phase, index, idUsed, current, best, bestCost>>
      /\ MatchCosts /\ Stacked /\ BestOfPassed
  BY DEF Skip, SearchInvariant
<1>2. /\ MatchCosts' /\ Assignments(costs)' = Assignments(costs)
      /\ \A f : CostOf(costs, f)' = CostOf(costs, f)
      /\ Observed' = Observed /\ ArmorIds' = ArmorIds
  BY <1>1, CostsStay
<1>3. Stacked'
  BY <1>1, <1>2 DEF Stacked
<1>4. ASSUME NEW f \in Assignments(costs), Passed(f)' PROVE Passed(f)
  <2>1. index + 1 \in 1 .. Observed /\ \A i \in 1 .. index : i \in 1 .. Observed /\ i # index + 1
    BY <1>1 DEF Stacked, MatchCosts
  <2>2. f[index + 1] \in Int /\ id \in Int
    BY <1>1, <2>1, AssignmentsAreMaps DEF ArmorIds, MatchCosts
  <2>3. Along(f) => f[index + 1] # id
    <3> SUFFICES ASSUME Along(f), f[index + 1] = id PROVE FALSE
      OBVIOUS
    <3>1. PICK i \in 1 .. index : id = current[i]
      BY <1>1 DEF Stacked
    <3>2. f[i] = f[index + 1]
      BY <3>1 DEF Along
    <3> QED  BY <1>1, <2>1, <3>2, AssignmentsAreMaps
  <2>4. CASE \E k \in 1 .. index : Turned(f, k)'
    BY <1>1, <2>4 DEF Passed, Turned
  <2>5. CASE Along(f)' /\ f[index + 1] < id + 1
    <3>1. Along(f)
      BY <1>1, <2>5 DEF Along
    <3>2. f[index + 1] < id
      BY <2>2, <2>3, <2>5, <3>1
    <3> QED  BY <1>1, <3>1, <3>2 DEF Passed
  <2> QED  BY <1>1, <1>4, <2>4, <2>5 DEF Passed
<1>5. BestOfPassed'
  BY <1>1, <1>2, <1>4 DEF BestOfPassed
<1> QED  BY <1>1, <1>2, <1>3, <1>5 DEF SearchInvariant

\* A call one deeper has passed what its caller has.
LEMMA TryKeeps ==
  ASSUME SearchInvariant, Try
  PROVE  SearchInvariant'
<1>1. /\ phase = "loop" /\ id \in ArmorIds /\ id \notin idUsed /\ phase' = "visit"
      /\ index' = index + 1 /\ idUsed' = idUsed \cup {id}
      /\ current' = [current EXCEPT ![index + 1] = id]
      /\ UNCHANGED <<costs, id, best, bestCost>>
      /\ MatchCosts /\ Stacked /\ BestOfPassed
  BY DEF Try, SearchInvariant
<1>2. /\ MatchCosts' /\ Assignments(costs)' = Assignments(costs)
      /\ \A f : CostOf(costs, f)' = CostOf(costs, f)
      /\ Observed' = Observed /\ ArmorIds' = ArmorIds
  BY <1>1, CostsStay
<1>3. /\ index \in Nat /\ index + 1 \in 1 .. Observed /\ index + 1 \in 0 .. Observed
      /\ \A i \in 1 .. index : i # index + 1 /\ i \in 1 .. index + 1
      /\ \A i \in 1 .. index + 1 : i \in 1 .. index \/ i = index + 1
  BY <1>1 DEF Stacked, MatchCosts
<1>4. /\ current'[index + 1] = id
      /\ \A i \in 1 .. index : current'[i] = current[i]
  BY <1>1, <1>3 DEF Stacked
<1>5. \A i \in 1 .. index : current[i] \in ArmorIds /\ current[i] # id
  BY <1>1 DEF Stacked
<1>6. Stacked'
  <2>1. \A i \in 1 .. index + 1 : current'[i] \in ArmorIds
    BY <1>1, <1>3, <1>4, <1>5
  <2>2. \A i, k \in 1 .. index + 1 : current'[i] = current'[k] => i = k
    <3>1. \A i, k \in 1 .. index : current[i] = current[k] => i = k
      BY <1>1 DEF Stacked
    <3> QED  BY <1>3, <1>4, <1>5, <3>1
  <2>3. idUsed' = {current'[i] : i \in 1 .. index + 1}
    <3>1. idUsed = {current[i] : i \in 1 .. index}
      BY <1>1 DEF Stacked
    <3>2. \A x : x \in idUsed' <=> \E i \in 1 .. index + 1 : x = current'[i]
      BY <1>1, <1>3, <1>4, <3>1
    <3> QED  BY <3>2
  <2>4. current' \in [1 .. Observed -> ArmorIds \cup {Nobody}]
    BY <1>1 DEF Stacked
  <2>5. id' \in Nat \ {0}
    BY <1>1 DEF Stacked
  <2> QED  BY <1>1, <1>2, <1>3, <2>1, <2>2, <2>3, <2>4, <2>5 DEF Stacked
<1>7. ASSUME NEW f \in Assignments(costs), Passed(f)' PROVE Passed(f)
  <2>1. PICK k \in 1 .. index + 1 :
          (\A i \in 1 .. k - 1 : f[i] = current'[i]) /\ f[k] < current'[k]
    BY <1>1, <1>7 DEF Passed, Turned
  <2>2. \A i \in 1 .. k - 1 : i \in 1 .. index
    BY <1>3, <2>1
  <2>3. CASE k = index + 1
    <3>1. \A i \in 1 .. index : i \in 1 .. k - 1
      BY <1>3, <2>3
    <3>2. Along(f)
      BY <1>4, <2>1, <3>1 DEF Along
    <3> QED  BY <1>1, <1>4, <2>1, <2>3, <3>2 DEF Passed
  <2>4. CASE k \in 1 .. index
    <3>1. Turned(f, k)
      BY <1>4, <2>1, <2>2, <2>4 DEF Turned
    <3> QED  BY <2>4, <3>1 DEF Passed
  <2> QED  BY <1>3, <2>1, <2>3, <2>4
<1>8. BestOfPassed'
  BY <1>1, <1>2, <1>7 DEF BestOfPassed
<1> QED  BY <1>1, <1>2, <1>6, <1>8 DEF SearchInvariant

\* A loop that has come to its end has passed all that begins like its stack.
LEMMA ExhaustedKeeps ==
  ASSUME SearchInvariant, Exhausted
  PROVE  SearchInvariant'
<1>1. /\ phase = "loop" /\ id \notin ArmorIds /\ Return /\ UNCHANGED <<costs, best, bestCost>>
      /\ MatchCosts /\ Stacked /\ BestOfPassed
  BY DEF Exhausted, SearchInvariant
<1>2. /\ MatchCosts' /\ Assignments(costs)' = Assignments(costs)
      /\ \A f : CostOf(costs, f)' = CostOf(costs, f)
  BY <1>1, CostsStay
<1>3. Stacked' /\ \A f \in Assignments(costs) : Passed(f)' => Passed(f) \/ Along(f)
  BY <1>1, ReturnPasses
<1>4. ASSUME NEW f \in Assignments(costs), Along(f) PROVE Passed(f)
  <2>1. index + 1 \in 1 .. Observed
    BY <1>1 DEF Stacked, MatchCosts
  <2>2. f[index + 1] \in ArmorIds
    BY <1>1, <2>1, AssignmentsAreMaps
  <2>3. f[index + 1] < id
    BY <1>1, <2>2 DEF ArmorIds, MatchCosts, Stacked
  <2> QED  BY <1>1, <1>4, <2>3 DEF Passed
<1>5. BestOfPassed'
  BY <1>1, <1>2, <1>3, <1>4 DEF BestOfPassed
<1> QED  BY <1>2, <1>3, <1>5 DEF SearchInvariant

\* Every step of the search keeps the invariant.
LEMMA SearchStep == SearchInvariant /\ [SearchNext]_searchVars => SearchInvariant'
<1> SUFFICES ASSUME SearchInvariant, [SearchNext]_searchVars PROVE SearchInvariant'
  OBVIOUS
<1>1. CASE UNCHANGED searchVars
  <2>1. /\ UNCHANGED <<costs, phase, index, id, idUsed, current, best, bestCost>>
        /\ MatchCosts /\ Stacked /\ BestOfPassed
    BY <1>1 DEF searchVars, SearchInvariant
  <2>2. /\ MatchCosts' /\ Assignments(costs)' = Assignments(costs)
        /\ \A f : CostOf(costs, f)' = CostOf(costs, f)
        /\ Observed' = Observed /\ ArmorIds' = ArmorIds
    BY <2>1, CostsStay
  <2>3. Stacked'
    BY <2>1, <2>2 DEF Stacked
  <2>4. \A f : Passed(f)' => Passed(f)
    BY <2>1 DEF Passed, Along, Turned
  <2>5. BestOfPassed'
    BY <2>1, <2>2, <2>4 DEF BestOfPassed
  <2> QED  BY <2>2, <2>3, <2>5 DEF SearchInvariant
<1> QED  BY <1>1, CutOffKeeps, FoundKeeps, OpenKeeps, SkipKeeps, TryKeeps, ExhaustedKeeps
         DEF SearchNext

\* ArmorAssignmentSearch: the assignment it returns is the cheapest, whatever it cut off,
\* for any number of observations and armors and all costs.
THEOREM NothingCheaperIsCut == SearchSpec => []SearchIsOptimal
<1>1. SearchInvariant => SearchIsOptimal
  <2> SUFFICES ASSUME SearchInvariant, phase = "done" PROVE Cheapest(costs, best)
    BY DEF SearchIsOptimal
  <2>1. MatchCosts /\ \A f \in Assignments(costs) : bestCost <= CostOf(costs, f)
    BY DEF SearchInvariant, BestOfPassed, Passed
  <2>2. bestCost # Infinity
    <3>1. PICK f \in Assignments(costs) : TRUE
      BY <2>1, SomeAssignment
    <3>2. CostOf(costs, f) \in Nat /\ CostOf(costs, f) < Infinity /\ bestCost <= CostOf(costs, f)
      BY <2>1, AssignmentsAreMaps
    <3> QED  BY <3>2, MatrixAssumption
  <2>3. best \in Assignments(costs) /\ bestCost = CostOf(costs, best)
    BY <2>2 DEF SearchInvariant, BestOfPassed
  <2> QED  BY <2>1, <2>3 DEF Cheapest
<1> QED  BY <1>1, SearchStart, SearchStep, PTL DEF SearchSpec
=============================================================================
