----------------------------- MODULE LatestQueue -----------------------------
(***************************************************************************)
(* RbtSPSCQueueAsync of rbt_infra/rbt_queue_async.rs at the grain of its    *)
(* atomic operations: the pops and the force_push of the lock-free          *)
(* ArrayQueue, the read of its length, and the notify_one / notified pair   *)
(* of tokio's Notify.  One producer pushes items numbered 1, 2, 3...; one   *)
(* consumer loops on pop_latest, possibly under a timeout; the control loop *)
(* may clear the queue at any moment, as it does on a route transition.     *)
(***************************************************************************)
EXTENDS Integers, Sequences

CONSTANTS
  Capacity,    \* slots of the ArrayQueue (main.rs gives every queue one)
  MaxItems     \* bound: items the producer pushes

ASSUME QueueAssumption ==
  /\ Capacity \in Nat \ {0}
  /\ MaxItems \in Nat

VARIABLES
  queue,       \* the ArrayQueue, oldest item first
  permit,      \* Notify holds a permit nobody has consumed
  published,   \* items pushed so far; the last one pushed has this number
  prodPc,      \* "push", or "notify" between force_push and notify_one
  consPc,      \* where the consumer is inside pop_latest
  latest,      \* the local `latest` of try_pop_latest
  pending,     \* pops left of the `pending_len` it read
  delivered,   \* last item returned to the caller
  clearing,    \* a clear() is in its loop
  floor,       \* ghost: newest item in the queue when the take began
  wiped        \* ghost: newest item a clear() has thrown away

vars == <<queue, permit, published, prodPc, consPc, latest, pending,
          delivered, clearing, floor, wiped>>

Init ==
  /\ queue = <<>>
  /\ permit = FALSE
  /\ published = 0
  /\ prodPc = "push"
  /\ consPc = "try"
  /\ latest = 0
  /\ pending = 0
  /\ delivered = 0
  /\ clearing = FALSE
  /\ floor = 0
  /\ wiped = 0

-----------------------------------------------------------------------------
(* Operations *)

\* Mutant: a push that refuses the new item when the queue is full.
KeepOldest(q, item) == IF Len(q) < Capacity THEN Append(q, item) ELSE q

\* ArrayQueue::force_push: a full queue gives up its oldest item.
ForcePush(q, item) ==
  IF Len(q) < Capacity THEN Append(q, item) ELSE Append(Tail(q), item)

\* push_latest, first half: the item is in the queue before anyone is told.
Push ==
  /\ prodPc = "push"
  /\ published < MaxItems
  /\ published' = published + 1
  /\ queue' = ForcePush(queue, published + 1)
  /\ prodPc' = "notify"
  /\ UNCHANGED <<permit, consPc, latest, pending, delivered, clearing, floor, wiped>>

\* Mutant: a notify_one that stores no permit for a consumer not yet parked.
NotifyWaiterOnly ==
  /\ prodPc = "notify"
  /\ prodPc' = "push"
  /\ consPc' = IF consPc = "parked" THEN "try" ELSE consPc
  /\ UNCHANGED <<queue, permit, published, latest, pending, delivered, clearing,
                 floor, wiped>>

\* push_latest, second half: notify_one wakes the parked consumer, and leaves
\* a permit when there is none.
NotifyOne ==
  /\ prodPc = "notify"
  /\ prodPc' = "push"
  /\ IF consPc = "parked"
       THEN consPc' = "try" /\ UNCHANGED permit
       ELSE permit' = TRUE /\ UNCHANGED consPc
  /\ UNCHANGED <<queue, published, latest, pending, delivered, clearing, floor, wiped>>

\* try_pop_latest, its first pop; an empty queue sends pop_latest to notified().
TryPop ==
  /\ consPc = "try"
  /\ IF queue = <<>>
       THEN /\ consPc' = "park"
            /\ UNCHANGED <<queue, latest, floor>>
       ELSE /\ consPc' = "len"
            /\ latest' = Head(queue)
            /\ queue' = Tail(queue)
            /\ floor' = queue[Len(queue)]
  /\ UNCHANGED <<permit, published, prodPc, pending, delivered, clearing, wiped>>

\* Mutant: a try_pop_latest that leaves the backlog behind its first pop.
SkipBacklog ==
  /\ consPc = "len"
  /\ pending' = 0
  /\ consPc' = "drain"
  /\ UNCHANGED <<queue, permit, published, prodPc, latest, delivered, clearing,
                 floor, wiped>>

\* `let pending_len = self.queue.len()`
ReadLen ==
  /\ consPc = "len"
  /\ pending' = Len(queue)
  /\ consPc' = "drain"
  /\ UNCHANGED <<queue, permit, published, prodPc, latest, delivered, clearing,
                 floor, wiped>>

\* One round of the drain loop; an empty queue breaks out of it.
Drain ==
  /\ consPc = "drain"
  /\ pending > 0
  /\ IF queue = <<>>
       THEN pending' = 0 /\ UNCHANGED <<queue, latest>>
       ELSE /\ latest' = Head(queue)
            /\ queue' = Tail(queue)
            /\ pending' = pending - 1
  /\ UNCHANGED <<permit, published, prodPc, consPc, delivered, clearing, floor, wiped>>

\* Some(latest) goes to the caller, whose loop comes back for more.
Return ==
  /\ consPc = "drain"
  /\ pending = 0
  /\ delivered' = latest
  /\ consPc' = "try"
  /\ UNCHANGED <<queue, permit, published, prodPc, latest, pending, clearing,
                 floor, wiped>>

\* `notified().await`: a stored permit is consumed at once, else the task parks.
Await ==
  /\ consPc = "park"
  /\ permit' = FALSE
  /\ consPc' = IF permit THEN "try" ELSE "parked"
  /\ UNCHANGED <<queue, published, prodPc, latest, pending, delivered, clearing,
                 floor, wiped>>

\* tokio::time::timeout or select! drops the waiting pop_latest; the caller
\* loops and calls it again.
Timeout ==
  /\ consPc = "parked"
  /\ consPc' = "try"
  /\ UNCHANGED <<queue, permit, published, prodPc, latest, pending, delivered,
                 clearing, floor, wiped>>

\* clear(): `while self.queue.pop().is_some() {}`
ClearBegin ==
  /\ ~clearing
  /\ clearing' = TRUE
  /\ UNCHANGED <<queue, permit, published, prodPc, consPc, latest, pending,
                 delivered, floor, wiped>>

ClearPop ==
  /\ clearing
  /\ IF queue = <<>>
       THEN clearing' = FALSE /\ UNCHANGED <<queue, wiped>>
       ELSE /\ queue' = Tail(queue)
            /\ wiped' = Head(queue)
            /\ UNCHANGED clearing
  /\ UNCHANGED <<permit, published, prodPc, consPc, latest, pending, delivered, floor>>

Producer == Push \/ NotifyOne
Consumer == TryPop \/ ReadLen \/ Drain \/ Return \/ Await

\* The producer may stop for good between two pushes, never inside one.
Next == Producer \/ Consumer \/ Timeout \/ ClearBegin \/ ClearPop

Spec == Init /\ [][Next]_vars

\* Tokio keeps polling a task that is ready, and a push once begun completes.
\* Nothing is assumed of new pushes, of timeouts or of clears.
FairSpec == Spec /\ WF_vars(NotifyOne) /\ WF_vars(Consumer)

-----------------------------------------------------------------------------
(* Properties *)

TypeOK ==
  /\ queue \in Seq(1 .. MaxItems)
  /\ Len(queue) <= Capacity
  /\ permit \in BOOLEAN
  /\ published \in 0 .. MaxItems
  /\ prodPc \in {"push", "notify"}
  /\ consPc \in {"try", "len", "drain", "park", "parked"}
  /\ latest \in 0 .. MaxItems
  /\ pending \in 0 .. Capacity
  /\ delivered \in 0 .. MaxItems
  /\ clearing \in BOOLEAN
  /\ floor \in 0 .. MaxItems
  /\ wiped \in 0 .. MaxItems

(* pop_latest never sleeps on work: whenever its task is about to wait or    *)
(* waits while an item is queued, the wake-up for that item is still on its  *)
(* way (a stored permit, or a producer between force_push and notify_one).   *)
NoLostWakeup ==
  consPc \in {"park", "parked"} /\ queue # <<>> =>
    prodPc = "notify" \/ (consPc = "park" /\ permit)

(* "Latest sample wins": a take returns an item at least as new as the       *)
(* newest one that was queued when it began, unless a clear() removed that   *)
(* one, and never an item older than one it returned before.  This is what   *)
(* popping, reading the length and popping that many times has to guarantee  *)
(* against pushes that evict the head between any two of those steps.        *)
Mailbox == INSTANCE LatestMailbox WITH
             promised <- IF consPc \in {"len", "drain"} /\ wiped < floor
                         THEN floor ELSE 0
ImplementsMailbox == Mailbox!Spec

(* The last item pushed reaches the consumer unless a clear() removes it,    *)
(* with no help from the timeout of the caller.                              *)
NewestIsTaken ==
  \A n \in 1 .. MaxItems : published = n ~> delivered >= n \/ wiped >= n \/ published > n

=============================================================================
