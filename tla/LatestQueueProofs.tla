--------------------------- MODULE LatestQueueProofs --------------------------
(***************************************************************************)
(* Proofs about LatestQueue for every capacity and every number of items:   *)
(* its types, the absence of lost wake-ups, and that it implements          *)
(* LatestMailbox.                                                           *)
(***************************************************************************)
EXTENDS LatestQueue, TLAPS

\* What a pop does to a queue.
LEMMA TailFacts ==
  ASSUME NEW S, NEW q \in Seq(S), q # <<>>
  PROVE  /\ Len(q) \in Nat /\ Len(q) >= 1
         /\ Head(q) = q[1] /\ q[1] \in S
         /\ q[Len(q)] \in S
         /\ Tail(q) \in Seq(S)
         /\ Len(Tail(q)) = Len(q) - 1
         /\ \A i \in 1 .. Len(q) - 1 : Tail(q)[i] = q[i + 1]
  OBVIOUS

LEMMA NotLast == ASSUME NEW n \in Nat, NEW m \in 1 .. n, m # n PROVE m \in 1 .. n - 1
  OBVIOUS

LEMMA LongNotEmpty == ASSUME NEW q, Len(q) >= 1 PROVE q # <<>>
  OBVIOUS

\* What a force_push does: it respects the capacity ...
LEMMA ForcePushType ==
  ASSUME NEW S, NEW q \in Seq(S), Len(q) <= Capacity, NEW item \in S
  PROVE  ForcePush(q, item) \in Seq(S) /\ Len(ForcePush(q, item)) <= Capacity
<1>1. CASE Len(q) < Capacity
  BY <1>1, QueueAssumption DEF ForcePush
<1>2. CASE ~(Len(q) < Capacity)
  <2>1. q # <<>> /\ Len(q) = Capacity
    BY <1>2, QueueAssumption
  <2> QED BY <1>2, <2>1, TailFacts, QueueAssumption DEF ForcePush
<1> QED BY <1>1, <1>2

\* ... the new item is last, and each place before it holds what it held (d = 0)
\* or, after an eviction, what stood behind it (d = 1).
LEMMA ForcePushShape ==
  ASSUME NEW q \in Seq(Nat), Len(q) <= Capacity, NEW item \in Nat
  PROVE  /\ ForcePush(q, item) # <<>>
         /\ Len(ForcePush(q, item)) \in Nat /\ Len(ForcePush(q, item)) >= 1
         /\ ForcePush(q, item)[Len(ForcePush(q, item))] = item
         /\ \E d \in {0, 1} :
              /\ Len(ForcePush(q, item)) = Len(q) + 1 - d
              /\ \A i \in 1 .. Len(ForcePush(q, item)) - 1 :
                   ForcePush(q, item)[i] = q[i + d]
<1> DEFINE p == ForcePush(q, item)
<1>1. CASE Len(q) < Capacity
  <2>1. p = Append(q, item)
    BY <1>1 DEF ForcePush
  <2> HIDE DEF p
  <2>2. Len(p) = Len(q) + 1 /\ p[Len(p)] = item
        /\ \A i \in 1 .. Len(q) : p[i] = q[i]
    BY <2>1
  <2>3. p # <<>> /\ Len(q) \in Nat
    BY <2>1
  <2>4. /\ Len(p) = Len(q) + 1 - 0
        /\ \A i \in 1 .. Len(p) - 1 : p[i] = q[i + 0]
    BY <2>2, <2>3
  <2> QED BY <2>2, <2>3, <2>4 DEF p
<1>2. CASE ~(Len(q) < Capacity)
  <2>1. p = Append(Tail(q), item)
    BY <1>2 DEF ForcePush
  <2> HIDE DEF p
  <2>2. q # <<>>
    BY <1>2, QueueAssumption
  <2>3. /\ Tail(q) \in Seq(Nat) /\ Len(q) \in Nat /\ Len(q) >= 1
        /\ Len(Tail(q)) = Len(q) - 1
        /\ \A i \in 1 .. Len(q) - 1 : Tail(q)[i] = q[i + 1]
    BY <2>2, TailFacts
  <2>4. Len(p) = Len(q) /\ p[Len(p)] = item /\ p # <<>>
        /\ \A i \in 1 .. Len(q) - 1 : p[i] = Tail(q)[i]
    BY <2>1, <2>3
  <2>5. /\ Len(p) = Len(q) + 1 - 1
        /\ \A i \in 1 .. Len(p) - 1 : p[i] = q[i + 1]
    BY <2>3, <2>4
  <2> QED BY <2>3, <2>4, <2>5 DEF p
<1> QED BY <1>1, <1>2

-----------------------------------------------------------------------------

LEMMA TypeInit == Init => TypeOK
<1> SUFFICES ASSUME Init PROVE TypeOK
  OBVIOUS
<1>1. queue \in Seq(1 .. MaxItems) /\ Len(queue) <= Capacity
  BY QueueAssumption DEF Init
<1>2. published \in 0 .. MaxItems /\ latest \in 0 .. MaxItems
      /\ delivered \in 0 .. MaxItems /\ floor \in 0 .. MaxItems
      /\ wiped \in 0 .. MaxItems /\ pending \in 0 .. Capacity
  BY QueueAssumption DEF Init
<1>3. permit \in BOOLEAN /\ clearing \in BOOLEAN
  BY DEF Init
<1>4. prodPc \in {"push", "notify"}
      /\ consPc \in {"try", "len", "drain", "park", "parked"}
  BY DEF Init
<1> QED BY <1>1, <1>2, <1>3, <1>4 DEF TypeOK

\* Every step keeps the types.
LEMMA TypeStep == TypeOK /\ [Next]_vars => TypeOK'
<1> SUFFICES ASSUME TypeOK, [Next]_vars PROVE TypeOK'
  OBVIOUS
<1> USE QueueAssumption DEF TypeOK
<1>1. CASE Push
  <2>1. published + 1 \in 1 .. MaxItems
    BY <1>1 DEF Push
  <2>2. queue' \in Seq(1 .. MaxItems) /\ Len(queue') <= Capacity
    BY <1>1, <2>1, ForcePushType DEF Push
  <2> QED BY <1>1, <2>1, <2>2 DEF Push
<1>2. CASE NotifyOne
  BY <1>2 DEF NotifyOne
<1>3. CASE TryPop
  <2>1. CASE queue = <<>>
    BY <1>3, <2>1 DEF TryPop
  <2>2. CASE queue # <<>>
    <3>1. /\ Head(queue) \in 1 .. MaxItems /\ queue[Len(queue)] \in 1 .. MaxItems
          /\ Tail(queue) \in Seq(1 .. MaxItems) /\ Len(Tail(queue)) <= Capacity
      BY <2>2, TailFacts
    <3>2. /\ consPc' = "len" /\ latest' = Head(queue) /\ queue' = Tail(queue)
          /\ floor' = queue[Len(queue)]
          /\ UNCHANGED <<permit, published, prodPc, pending, delivered, clearing, wiped>>
      BY <1>3, <2>2 DEF TryPop
    <3> QED BY <3>1, <3>2
  <2> QED BY <2>1, <2>2
<1>4. CASE ReadLen
  BY <1>4 DEF ReadLen
<1>5. CASE Drain
  <2>1. CASE queue = <<>>
    BY <1>5, <2>1 DEF Drain
  <2>2. CASE queue # <<>>
    <3>1. pending - 1 \in 0 .. Capacity
      BY <1>5 DEF Drain
    <3>2. latest' \in 1 .. MaxItems /\ queue' \in Seq(1 .. MaxItems)
          /\ Len(queue') = Len(queue) - 1
      <4>1. /\ Head(queue) = queue[1] /\ queue[1] \in 1 .. MaxItems
            /\ Tail(queue) \in Seq(1 .. MaxItems) /\ Len(Tail(queue)) = Len(queue) - 1
        BY <2>2, TailFacts
      <4>2. latest' = Head(queue) /\ queue' = Tail(queue)
        BY <1>5, <2>2 DEF Drain
      <4> QED BY <4>1, <4>2
    <3> QED BY <1>5, <2>2, <3>1, <3>2 DEF Drain
  <2> QED BY <2>1, <2>2
<1>6. CASE Return
  BY <1>6 DEF Return
<1>7. CASE Await
  BY <1>7 DEF Await
<1>8. CASE Timeout
  BY <1>8 DEF Timeout
<1>9. CASE ClearBegin
  BY <1>9 DEF ClearBegin
<1>10. CASE ClearPop
  <2>1. CASE queue = <<>>
    BY <1>10, <2>1 DEF ClearPop
  <2>2. CASE queue # <<>>
    <3>1. /\ Head(queue) \in 1 .. MaxItems
          /\ Tail(queue) \in Seq(1 .. MaxItems) /\ Len(Tail(queue)) <= Capacity
      BY <2>2, TailFacts
    <3>2. /\ queue' = Tail(queue) /\ wiped' = Head(queue)
          /\ UNCHANGED <<permit, published, prodPc, consPc, latest, pending, delivered,
                         clearing, floor>>
      BY <1>10, <2>2 DEF ClearPop
    <3> QED BY <3>1, <3>2
  <2> QED BY <2>1, <2>2
<1>11. CASE UNCHANGED vars
  BY <1>11 DEF vars
<1> QED
  BY <1>1, <1>2, <1>3, <1>4, <1>5, <1>6, <1>7, <1>8, <1>9, <1>10, <1>11
  DEF Next, Producer, Consumer

(* Every variable keeps its type, and neither the queue nor the number of    *)
(* pops left ever exceeds the capacity.                                      *)
THEOREM TypeCorrect == Spec => []TypeOK
  BY TypeInit, TypeStep, PTL DEF Spec

-----------------------------------------------------------------------------

(* push_latest and pop_latest never lose a wake-up, whatever the capacity    *)
(* and wherever timeouts and clears fall: the force_push comes before the    *)
(* notify_one, which leaves a permit for a task that has not parked yet.     *)
THEOREM WakeupsAreKept == Spec => []NoLostWakeup
<1>1. Init => NoLostWakeup
  BY DEF Init, NoLostWakeup
<1>2. TypeOK /\ NoLostWakeup /\ [Next]_vars => NoLostWakeup'
  <2> SUFFICES ASSUME TypeOK, NoLostWakeup, [Next]_vars PROVE NoLostWakeup'
    OBVIOUS
  <2> USE DEF NoLostWakeup
  <2>1. CASE Push
    BY <2>1 DEF Push
  <2>2. CASE NotifyOne
    BY <2>2 DEF NotifyOne
  <2>3. CASE TryPop
    BY <2>3 DEF TryPop
  <2>4. CASE ReadLen \/ Drain \/ Return \/ Timeout
    BY <2>4 DEF ReadLen, Drain, Return, Timeout
  <2>5. CASE Await
    BY <2>5 DEF Await
  <2>6. CASE ClearBegin
    BY <2>6 DEF ClearBegin
  <2>7. CASE ClearPop
    BY <2>7 DEF ClearPop
  <2>8. CASE UNCHANGED vars
    BY <2>8 DEF vars
  <2> QED
    BY <2>1, <2>2, <2>3, <2>4, <2>5, <2>6, <2>7, <2>8 DEF Next, Producer, Consumer
<1> QED BY <1>1, <1>2, TypeCorrect, PTL DEF Spec

-----------------------------------------------------------------------------
(***************************************************************************)
(* The refinement.  Items leave the queue, to the consumer or to a clear(), *)
(* in the order they were pushed, so everything queued is newer than what   *)
(* has left it, and the last item is the last one pushed.  A take in        *)
(* progress has or will get `floor`, unless a clear() got it: before the    *)
(* length is read because a non-empty queue ends with the newest item, and  *)
(* after that because one of the pops it still owes reaches it, evictions   *)
(* only bringing it nearer.                                                 *)
(***************************************************************************)

Increasing(q) == \A i, j \in 1 .. Len(q) : i < j => q[i] < q[j]
Above(q, low) == \A i \in 1 .. Len(q) : q[i] > low

Ordered ==
  /\ Increasing(queue)
  /\ Above(queue, latest) /\ Above(queue, wiped)
  /\ queue # <<>> => queue[Len(queue)] = published
  /\ latest <= published /\ wiped <= published /\ floor <= published
  /\ delivered <= latest
  /\ consPc \in {"len", "drain"} => delivered < latest

FloorHad == floor <= latest \/ floor <= wiped

FloorInReach ==
  \E k \in 1 .. Len(queue) : k <= pending /\ queue[k] >= floor

FloorOwed ==
  /\ consPc = "len" => FloorHad \/ queue # <<>>
  /\ consPc = "drain" => FloorHad \/ FloorInReach

RInv == TypeOK /\ Ordered /\ FloorOwed

\* Pushing something newer keeps a queue increasing, and above what it was above.
LEMMA PushIncreasing ==
  ASSUME NEW q \in Seq(Nat), NEW p \in Seq(Nat), NEW item \in Nat, NEW d \in {0, 1},
         Len(p) = Len(q) + 1 - d, Len(p) >= 1, p[Len(p)] = item,
         \A i \in 1 .. Len(p) - 1 : p[i] = q[i + d],
         \A i \in 1 .. Len(q) : q[i] < item,
         Increasing(q)
  PROVE  Increasing(p)
<1> SUFFICES ASSUME NEW i \in 1 .. Len(p), NEW j \in 1 .. Len(p), i < j
             PROVE  p[i] < p[j]
  BY DEF Increasing
<1>0. Len(p) \in Nat /\ Len(q) \in Nat /\ i \in Nat /\ j \in Nat
  OBVIOUS
<1>1. i \in 1 .. Len(p) - 1 /\ i + d \in 1 .. Len(q)
  BY <1>0
<1>2. p[i] = q[i + d]
  BY <1>1
<1>3. CASE j = Len(p)
  BY <1>1, <1>2, <1>3
<1>4. CASE j # Len(p)
  <2>1. j \in 1 .. Len(p) - 1
    BY <1>0, <1>4, NotLast
  <2>2. j + d \in 1 .. Len(q)
    BY <1>0, <2>1
  <2>3. i + d < j + d
    BY <1>0
  <2> QED BY <1>1, <1>2, <2>1, <2>2, <2>3 DEF Increasing
<1> QED BY <1>3, <1>4

LEMMA PushAbove ==
  ASSUME NEW q \in Seq(Nat), NEW p \in Seq(Nat), NEW item \in Nat, NEW d \in {0, 1},
         Len(p) = Len(q) + 1 - d, Len(p) >= 1, p[Len(p)] = item,
         \A i \in 1 .. Len(p) - 1 : p[i] = q[i + d],
         NEW low \in Nat, item > low, Above(q, low)
  PROVE  Above(p, low)
<1> SUFFICES ASSUME NEW i \in 1 .. Len(p) PROVE p[i] > low
  BY DEF Above
<1>1. CASE i = Len(p)
  BY <1>1
<1>2. CASE i # Len(p)
  <2>1. i \in 1 .. Len(p) - 1 /\ i + d \in 1 .. Len(q)
    BY <1>2
  <2> QED BY <2>1 DEF Above
<1> QED BY <1>1, <1>2

\* So does popping, which leaves everything above the popped item.
LEMMA PopOrder ==
  ASSUME NEW q \in Seq(Nat), q # <<>>, Increasing(q), NEW low \in Nat, Above(q, low)
  PROVE  /\ Increasing(Tail(q)) /\ Above(Tail(q), q[1]) /\ Above(Tail(q), low)
         /\ q[1] > low /\ q[1] <= q[Len(q)]
         /\ Tail(q) # <<>> => Tail(q)[Len(Tail(q))] = q[Len(q)]
<1>1. /\ Len(q) \in Nat /\ Len(q) >= 1
      /\ Tail(q) \in Seq(Nat)
      /\ Len(Tail(q)) = Len(q) - 1
      /\ \A i \in 1 .. Len(q) - 1 : Tail(q)[i] = q[i + 1]
  BY TailFacts
<1>2. \A i \in 1 .. Len(Tail(q)) : i + 1 \in 1 .. Len(q) /\ Tail(q)[i] = q[i + 1]
  BY <1>1
<1>3. Increasing(Tail(q))
  BY <1>1, <1>2 DEF Increasing
<1>4. 1 \in 1 .. Len(q) /\ Len(q) \in 1 .. Len(q)
  BY <1>1
<1>5. Above(Tail(q), q[1])
  BY <1>1, <1>2, <1>4 DEF Above, Increasing
<1>6. Above(Tail(q), low) /\ q[1] > low
  BY <1>1, <1>2, <1>4 DEF Above
<1>7. q[1] <= q[Len(q)]
  BY <1>1, <1>4 DEF Increasing
<1>8. ASSUME Tail(q) # <<>> PROVE Tail(q)[Len(Tail(q))] = q[Len(q)]
  <2>1. Len(q) - 1 \in 1 .. Len(q) - 1
    BY <1>1, <1>8
  <2> QED BY <1>1, <2>1
<1> QED BY <1>3, <1>5, <1>6, <1>7, <1>8

LEMMA SeqOfNats == ASSUME NEW q \in Seq(1 .. MaxItems) PROVE q \in Seq(Nat)
<1>1. \A i \in 1 .. Len(q) : q[i] \in Nat
  BY QueueAssumption
<1> QED BY <1>1

LEMMA OrderedInit == Init => Ordered
  BY DEF Init, Ordered, Increasing, Above

LEMMA OrderedStep == TypeOK /\ Ordered /\ TypeOK' /\ [Next]_vars => Ordered'
<1> SUFFICES ASSUME TypeOK, Ordered, TypeOK', [Next]_vars PROVE Ordered'
  OBVIOUS
<1>a. /\ queue \in Seq(Nat) /\ queue' \in Seq(Nat)
      /\ {latest, wiped, floor, delivered, published} \subseteq Nat
  <2>1. queue \in Seq(1 .. MaxItems) /\ queue' \in Seq(1 .. MaxItems)
    BY DEF TypeOK
  <2>2. {latest, wiped, floor, delivered, published} \subseteq Nat
    BY QueueAssumption DEF TypeOK
  <2> QED BY <2>1, <2>2, SeqOfNats
<1>1. CASE Push
  <2>1. /\ queue' = ForcePush(queue, published + 1) /\ published' = published + 1
        /\ UNCHANGED <<latest, wiped, floor, delivered, consPc>>
    BY <1>1 DEF Push
  <2>2. Len(queue) <= Capacity /\ published + 1 \in Nat
    BY <1>a DEF TypeOK
  <2> DEFINE new == ForcePush(queue, published + 1)
  <2>3. /\ queue' # <<>> /\ Len(queue') \in Nat /\ Len(queue') >= 1
        /\ queue'[Len(queue')] = published + 1
        /\ \E d \in {0, 1} :
             /\ Len(queue') = Len(queue) + 1 - d
             /\ \A i \in 1 .. Len(queue') - 1 : queue'[i] = queue[i + d]
    <3>1. /\ new # <<>> /\ Len(new) \in Nat /\ Len(new) >= 1
          /\ new[Len(new)] = published + 1
          /\ \E d \in {0, 1} :
               /\ Len(new) = Len(queue) + 1 - d
               /\ \A i \in 1 .. Len(new) - 1 : new[i] = queue[i + d]
      BY <1>a, <2>2, ForcePushShape
    <3>2. queue' = new
      BY <2>1
    <3> HIDE DEF new
    <3> QED BY <3>1, <3>2
  <2>4. \A i \in 1 .. Len(queue) : queue[i] < published + 1
    <3> SUFFICES ASSUME NEW i \in 1 .. Len(queue) PROVE queue[i] < published + 1
      OBVIOUS
    <3>1. queue # <<>> /\ Len(queue) \in 1 .. Len(queue) /\ queue[i] \in Nat
      BY <1>a
    <3>2. i = Len(queue) \/ queue[i] < queue[Len(queue)]
      BY <1>a, <3>1 DEF Ordered, Increasing
    <3> QED BY <1>a, <3>1, <3>2 DEF Ordered
  <2>5. Increasing(queue')
    BY <1>a, <2>2, <2>3, <2>4, PushIncreasing DEF Ordered
  <2>6. Above(queue', latest) /\ Above(queue', wiped)
    <3>1. latest \in Nat /\ wiped \in Nat
          /\ published + 1 > latest /\ published + 1 > wiped
          /\ Above(queue, latest) /\ Above(queue, wiped)
      BY <1>a DEF Ordered
    <3>2. Above(queue', latest)
      BY <1>a, <2>2, <2>3, <3>1, PushAbove
    <3>3. Above(queue', wiped)
      BY <1>a, <2>2, <2>3, <3>1, PushAbove
    <3> QED BY <3>2, <3>3
  <2> QED BY <1>a, <2>1, <2>3, <2>5, <2>6 DEF Ordered
<1>2. CASE NotifyOne \/ ReadLen \/ Await \/ Timeout \/ ClearBegin
  BY <1>2 DEF Ordered, NotifyOne, ReadLen, Await, Timeout, ClearBegin
<1>3. CASE Return
  BY <1>3, <1>a DEF Ordered, Return
<1>4. CASE UNCHANGED vars
  BY <1>4 DEF Ordered, vars
<1>5. CASE (TryPop \/ Drain \/ ClearPop) /\ queue = <<>>
  BY <1>5 DEF Ordered, TryPop, Drain, ClearPop
<1>6. CASE (TryPop \/ Drain \/ ClearPop) /\ queue # <<>>
  <2>1. queue' = Tail(queue) /\ published' = published /\ Head(queue) = queue[1]
    BY <1>6, <1>a DEF TryPop, Drain, ClearPop
  <2>2. /\ Increasing(queue') /\ Above(queue', queue[1])
        /\ Above(queue', latest) /\ Above(queue', wiped)
        /\ queue[1] > latest /\ queue[1] > wiped
        /\ queue[1] <= published /\ queue[1] \in Nat
        /\ queue' # <<>> => queue'[Len(queue')] = published
    <3>1. queue[1] \in Nat
      BY <1>6, <1>a
    <3> QED BY <1>6, <1>a, <2>1, <3>1, PopOrder DEF Ordered
  <2>3. CASE TryPop
    <3>1. /\ latest' = queue[1] /\ floor' = queue[Len(queue)] /\ consPc' = "len"
          /\ UNCHANGED <<delivered, wiped>>
      BY <1>6, <2>1, <2>3 DEF TryPop
    <3> QED BY <1>6, <1>a, <2>1, <2>2, <3>1 DEF Ordered
  <2>4. CASE Drain
    <3>1. latest' = queue[1] /\ UNCHANGED <<delivered, wiped, floor, consPc>>
      BY <1>6, <2>1, <2>4 DEF Drain
    <3> QED BY <1>a, <2>1, <2>2, <3>1 DEF Ordered
  <2>5. CASE ClearPop
    <3>1. wiped' = queue[1] /\ UNCHANGED <<delivered, latest, floor, consPc>>
      BY <1>6, <2>1, <2>5 DEF ClearPop
    <3> QED BY <1>a, <2>1, <2>2, <3>1 DEF Ordered
  <2> QED BY <1>6, <2>3, <2>4, <2>5
<1> QED
  BY <1>1, <1>2, <1>3, <1>4, <1>5, <1>6 DEF Next, Producer, Consumer


\* What an item of the queue is compared with, as plain numbers.
LEMMA Positions ==
  ASSUME TypeOK, Ordered
  PROVE  /\ queue \in Seq(Nat) /\ Len(queue) \in Nat
         /\ {latest, wiped, floor, delivered, published, pending} \subseteq Nat
         /\ \A i \in 1 .. Len(queue) : queue[i] \in Nat /\ queue[i] <= published
<1>1. queue \in Seq(Nat)
  BY SeqOfNats DEF TypeOK
<1>2. {latest, wiped, floor, delivered, published, pending} \subseteq Nat
  BY QueueAssumption DEF TypeOK
<1>3. ASSUME NEW i \in 1 .. Len(queue) PROVE queue[i] \in Nat /\ queue[i] <= published
  <2>1. queue # <<>> /\ Len(queue) \in 1 .. Len(queue) /\ queue[i] \in Nat
        /\ queue[Len(queue)] \in Nat
    BY <1>1
  <2>2. i = Len(queue) \/ queue[i] < queue[Len(queue)]
    BY <1>1, <2>1 DEF Ordered, Increasing
  <2> QED BY <1>2, <2>1, <2>2 DEF Ordered
<1> QED BY <1>1, <1>2, <1>3

\* What stands further back in the queue is no older.
LEMMA NeverFalls ==
  ASSUME TypeOK, Ordered,
         NEW i \in 1 .. Len(queue), NEW j \in 1 .. Len(queue), i <= j
  PROVE  queue[i] <= queue[j]
<1>1. Increasing(queue)
  BY DEF Ordered
<1>2. queue[i] \in Nat /\ queue[j] \in Nat
  BY Positions
<1>3. CASE i = j
  BY <1>2, <1>3
<1>4. CASE i # j
  <2>1. i < j
    BY <1>4
  <2>2. queue[i] < queue[j]
    BY <1>1, <2>1 DEF Increasing
  <2> QED BY <1>2, <2>2
<1> QED BY <1>3, <1>4

\* A push keeps the floor in reach: what stands at a place is at least as new
\* as what stood there.
LEMMA FloorPush == TypeOK /\ Ordered /\ FloorOwed /\ Push => FloorOwed'
<1> SUFFICES ASSUME TypeOK, Ordered, FloorOwed, Push PROVE FloorOwed'
  OBVIOUS
<1>1. /\ queue' = ForcePush(queue, published + 1)
      /\ UNCHANGED <<latest, wiped, floor, pending, consPc>>
  BY DEF Push
<1>2. Len(queue) <= Capacity /\ published + 1 \in Nat /\ floor <= published
  BY Positions DEF TypeOK, Ordered
<1> DEFINE new == ForcePush(queue, published + 1)
<1>3. /\ new # <<>> /\ Len(new) \in Nat
      /\ new[Len(new)] = published + 1
      /\ \E d \in {0, 1} :
           /\ Len(new) = Len(queue) + 1 - d
           /\ \A i \in 1 .. Len(new) - 1 : new[i] = queue[i + d]
  BY <1>2, Positions, ForcePushShape
<1>4. queue' = new
  BY <1>1
<1> HIDE DEF new
<1>5. ASSUME FloorInReach PROVE FloorInReach'
  <2>1. PICK k \in 1 .. Len(queue) : k <= pending /\ queue[k] >= floor
    BY <1>5 DEF FloorInReach
  <2>2. PICK d \in {0, 1} : /\ Len(new) = Len(queue) + 1 - d
                            /\ \A i \in 1 .. Len(new) - 1 : new[i] = queue[i + d]
    BY <1>3
  <2>a. Len(new) \in Nat /\ Len(queue) \in Nat /\ k \in Nat
        /\ {floor, published, pending} \subseteq Nat
    BY <1>3, Positions
  <2>3. k \in 1 .. Len(new)
    BY <2>a, <2>2
  <2>4. CASE k = Len(new)
    <3>1. new[k] >= floor
      BY <1>2, <1>3, <2>4, <2>a
    <3> QED BY <1>1, <1>4, <2>1, <2>3, <3>1 DEF FloorInReach
  <2>5. CASE k # Len(new)
    <3>1. k \in 1 .. Len(new) - 1 /\ k + d \in 1 .. Len(queue)
      <4>1. Len(new) = Len(queue) + 1 - d
        BY <2>2
      <4> QED BY <2>a, <2>3, <2>5, <4>1
    <3>2. new[k] = queue[k + d]
      BY <2>2, <3>1
    <3>3. queue[k + d] >= queue[k]
      BY <2>1, <2>a, <3>1, NeverFalls
    <3>4. new[k] >= floor
      BY <2>1, <3>1, <3>2, <3>3, Positions
    <3> QED BY <1>1, <1>4, <2>1, <2>3, <3>4 DEF FloorInReach
  <2> QED BY <2>4, <2>5
<1> QED BY <1>1, <1>3, <1>4, <1>5 DEF FloorOwed, FloorHad

\* A pop, by the consumer or by a clear(), brings the floor nearer by one place
\* or gets it.
LEMMA FloorPop ==
  ASSUME TypeOK, Ordered, queue # <<>>, NEW n \in Nat,
         \E k \in 1 .. Len(queue) : k <= n /\ queue[k] >= floor
  PROVE  \/ floor <= queue[1]
         \/ \E k \in 1 .. Len(Tail(queue)) : k <= n - 1 /\ Tail(queue)[k] >= floor
<1>1. PICK k \in 1 .. Len(queue) : k <= n /\ queue[k] >= floor
  OBVIOUS
<1>2. CASE k = 1
  BY <1>1, <1>2, Positions
<1>3. CASE k # 1
  <2>1. /\ Len(Tail(queue)) = Len(queue) - 1
        /\ \A i \in 1 .. Len(queue) - 1 : Tail(queue)[i] = queue[i + 1]
    BY Positions, TailFacts
  <2>2. k - 1 \in 1 .. Len(queue) - 1 /\ k - 1 <= n - 1 /\ (k - 1) + 1 = k
    BY <1>1, <1>3, Positions
  <2>3. Tail(queue)[k - 1] = queue[k]
    BY <2>1, <2>2
  <2> QED BY <1>1, <2>1, <2>2, <2>3
<1> QED BY <1>2, <1>3

LEMMA FloorStep == TypeOK /\ Ordered /\ FloorOwed /\ [Next]_vars => FloorOwed'
<1> SUFFICES ASSUME TypeOK, Ordered, FloorOwed, [Next]_vars PROVE FloorOwed'
  OBVIOUS
<1>1. CASE Push
  BY <1>1, FloorPush
<1>2. CASE NotifyOne \/ Await \/ Timeout \/ ClearBegin \/ Return
  BY <1>2 DEF FloorOwed, FloorHad, FloorInReach, NotifyOne, Await, Timeout,
              ClearBegin, Return
<1>3. CASE UNCHANGED vars
  BY <1>3 DEF FloorOwed, FloorHad, FloorInReach, vars
<1>4. CASE ReadLen
  <2>1. ASSUME queue # <<>> PROVE FloorInReach'
    <3>1. Len(queue) \in 1 .. Len(queue) /\ queue[Len(queue)] >= floor
      BY <2>1, Positions DEF Ordered
    <3>2. pending' = Len(queue) /\ queue' = queue /\ floor' = floor
      BY <1>4 DEF ReadLen
    <3> QED BY <3>1, <3>2, Positions DEF FloorInReach
  <2> QED BY <1>4, <2>1 DEF FloorOwed, FloorHad, ReadLen
<1>5. CASE (TryPop \/ Drain \/ ClearPop) /\ queue = <<>>
  <2>1. ~FloorInReach
    BY <1>5 DEF FloorInReach
  <2> QED BY <1>5, <2>1 DEF FloorOwed, FloorHad, TryPop, Drain, ClearPop
<1>6. CASE (TryPop \/ Drain \/ ClearPop) /\ queue # <<>>
  <2>1. /\ queue' = Tail(queue) /\ Head(queue) = queue[1]
        /\ Len(Tail(queue)) = Len(queue) - 1 /\ Tail(queue) \in Seq(Nat)
        /\ 1 \in 1 .. Len(queue)
    BY <1>6, Positions, TailFacts DEF TryPop, Drain, ClearPop
  <2>2. queue[1] \in Nat /\ queue[1] > latest /\ queue[1] > wiped
    BY <2>1, Positions DEF Ordered, Above
  <2>3. CASE TryPop
    <3>1. latest' = queue[1] /\ floor' = queue[Len(queue)] /\ consPc' = "len"
      BY <1>6, <2>1, <2>3 DEF TryPop
    <3>2. CASE Len(queue) = 1
      BY <2>2, <3>1, <3>2 DEF FloorOwed, FloorHad
    <3>3. CASE Len(queue) # 1
      <4>1. Len(Tail(queue)) >= 1
        BY <2>1, <3>3
      <4>2. Tail(queue) # <<>>
        BY <4>1, LongNotEmpty
      <4> QED BY <2>1, <3>1, <4>2 DEF FloorOwed
    <3> QED BY <3>2, <3>3
  <2>4. CASE Drain
    <3>1. /\ latest' = queue[1] /\ pending' = pending - 1 /\ consPc = "drain"
          /\ UNCHANGED <<wiped, floor, consPc>>
      BY <1>6, <2>1, <2>4 DEF Drain
    <3>2. ASSUME FloorInReach PROVE FloorHad' \/ FloorInReach'
      <4>1. \/ floor <= queue[1]
            \/ \E k \in 1 .. Len(Tail(queue)) : k <= pending - 1 /\ Tail(queue)[k] >= floor
        BY <1>6, <3>2, Positions, FloorPop DEF FloorInReach
      <4> QED BY <2>1, <3>1, <4>1 DEF FloorHad, FloorInReach
    <3>3. FloorHad => FloorHad'
      BY <2>2, <3>1, Positions DEF FloorHad
    <3> QED BY <3>1, <3>2, <3>3 DEF FloorOwed
  <2>5. CASE ClearPop
    <3>1. wiped' = queue[1] /\ UNCHANGED <<latest, floor, pending, consPc>>
      BY <1>6, <2>1, <2>5 DEF ClearPop
    <3>2. ASSUME FloorInReach PROVE FloorHad' \/ FloorInReach'
      <4>1. \/ floor <= queue[1]
            \/ \E k \in 1 .. Len(Tail(queue)) : k <= pending - 1 /\ Tail(queue)[k] >= floor
        BY <1>6, <3>2, Positions, FloorPop DEF FloorInReach
      <4>2. \A k \in 1 .. Len(Tail(queue)) : k <= pending - 1 => k <= pending
        BY <2>1, Positions
      <4> QED BY <2>1, <3>1, <4>1, <4>2 DEF FloorHad, FloorInReach
    <3>3. FloorHad => FloorHad'
      BY <2>2, <3>1, Positions DEF FloorHad
    <3>4. FloorHad' \/ queue' # <<>>
      <4>1. CASE Len(queue) = 1
        BY <1>6, <2>2, <3>1, <4>1, Positions DEF FloorHad, Ordered
      <4>2. CASE Len(queue) # 1
        <5>1. Len(Tail(queue)) >= 1
          BY <2>1, <4>2
        <5>2. Tail(queue) # <<>>
          BY <5>1, LongNotEmpty
        <5> QED BY <2>1, <5>2
      <4> QED BY <4>1, <4>2
    <3> QED BY <3>1, <3>2, <3>3, <3>4 DEF FloorOwed
  <2> QED BY <1>6, <2>3, <2>4, <2>5
<1> QED
  BY <1>1, <1>2, <1>3, <1>4, <1>5, <1>6 DEF Next, Producer, Consumer

LEMMA Inductive == Spec => []RInv
<1>1. Init => RInv
  BY TypeInit, OrderedInit DEF Init, RInv, FloorOwed
<1>2. RInv /\ [Next]_vars => RInv'
  BY TypeStep, OrderedStep, FloorStep DEF RInv
<1> QED BY <1>1, <1>2, PTL DEF Spec

(* "Latest sample wins" for every capacity: a take never goes backwards, and *)
(* returns something at least as new as what was queued when it began unless *)
(* a clear() took that, though it pops, reads the length and pops that many  *)
(* times while pushes evict the head in between.                             *)
THEOREM QueueIsAMailbox == Spec => ImplementsMailbox
<1> DEFINE Promised(c, w, f) == IF c \in {"len", "drain"} /\ w < f THEN f ELSE 0
<1>1. Init => Mailbox!Init
  BY DEF Init, Mailbox!Init
<1>2. RInv /\ [Next]_vars => [Mailbox!Next]_(Mailbox!mailboxVars)
  <2> SUFFICES ASSUME RInv, [Next]_vars
               PROVE  [Mailbox!Next]_(Mailbox!mailboxVars)
    OBVIOUS
  <2>0. TypeOK /\ Ordered /\ FloorOwed
    BY DEF RInv
  <2>a. /\ {latest, wiped, floor, delivered, published, pending} \subseteq Nat
        /\ queue \in Seq(Nat) /\ Len(queue) \in Nat
    BY <2>0, Positions
  <2>1. CASE Push
    BY <2>1 DEF Push, Mailbox!Next, Mailbox!Publish
  <2>2. CASE NotifyOne \/ ReadLen \/ Await \/ Timeout \/ ClearBegin \/ Drain
    BY <2>2 DEF NotifyOne, ReadLen, Await, Timeout, ClearBegin, Drain,
                Mailbox!mailboxVars
  <2>3. CASE UNCHANGED vars
    BY <2>3 DEF vars, Mailbox!mailboxVars
  <2>4. CASE (TryPop \/ ClearPop) /\ queue = <<>>
    BY <2>4 DEF TryPop, ClearPop, Mailbox!mailboxVars
  <2>5. CASE (TryPop \/ ClearPop) /\ queue # <<>>
    <3>1. /\ Head(queue) = queue[1] /\ queue[1] \in Nat /\ queue[1] <= published
          /\ queue[1] > latest /\ queue[1] > wiped /\ queue[Len(queue)] = published
      <4>1. 1 \in 1 .. Len(queue) /\ Head(queue) = queue[1]
        BY <2>5, <2>a
      <4> QED BY <2>0, <2>5, <4>1, Positions DEF Ordered, Above
    <3>2. CASE TryPop
      <4>1. /\ consPc' = "len" /\ floor' = published
            /\ UNCHANGED <<wiped, published, delivered>>
        BY <2>5, <3>1, <3>2 DEF TryPop
      <4>2. published > delivered /\ wiped < published
        BY <2>0, <2>a, <3>1 DEF Ordered
      <4> QED BY <4>1, <4>2 DEF Mailbox!Next, Mailbox!BeginTake
    <3>3. CASE ClearPop
      <4>1. wiped' = queue[1] /\ UNCHANGED <<consPc, floor, published, delivered>>
        BY <2>5, <3>1, <3>3 DEF ClearPop
      <4>2. CASE wiped' < floor
        BY <2>a, <3>1, <4>1, <4>2 DEF Mailbox!mailboxVars
      <4>3. CASE ~(wiped' < floor)
        BY <4>1, <4>3 DEF Mailbox!Next, Mailbox!Wipe
      <4> QED BY <4>2, <4>3
    <3> QED BY <2>5, <3>2, <3>3
  <2>6. CASE Return
    <3>1. /\ consPc = "drain" /\ consPc' = "try" /\ delivered' = latest /\ pending = 0
          /\ UNCHANGED <<wiped, floor, published>>
      BY <2>6 DEF Return
    <3>2. ~FloorInReach
      BY <2>a, <3>1 DEF FloorInReach
    <3>3. floor <= latest \/ ~(wiped < floor)
      BY <2>0, <2>a, <3>1, <3>2 DEF FloorOwed, FloorHad
    <3>4. delivered < latest /\ latest <= published
      BY <2>0, <3>1 DEF Ordered
    <3>5. latest \in Promised(consPc, wiped, floor) .. published
      BY <2>a, <3>3, <3>4
    <3> QED BY <2>a, <3>1, <3>4, <3>5 DEF Mailbox!Next, Mailbox!Deliver
  <2> QED
    BY <2>1, <2>2, <2>3, <2>4, <2>5, <2>6 DEF Next, Producer, Consumer
<1> QED BY <1>1, <1>2, Inductive, PTL DEF Spec, Mailbox!Spec, ImplementsMailbox

=============================================================================
