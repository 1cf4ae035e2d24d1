---------------------------- MODULE LatestMailbox ----------------------------
(***************************************************************************)
(* What a stage of the vision pipeline may expect of the queue in front of  *)
(* it: not that every item arrives, but that a take never goes backwards    *)
(* and never returns something older than what was already waiting when the *)
(* take began.  Items are numbered 1, 2, 3... in the order they are pushed. *)
(* LatestQueue implements this specification.                               *)
(***************************************************************************)
EXTENDS Naturals

VARIABLES
  published,   \* number of the newest item pushed so far, 0 at the start
  delivered,   \* number of the newest item handed to the consumer
  promised     \* the take in progress returns this item or a newer one

mailboxVars == <<published, delivered, promised>>

Init ==
  /\ published = 0
  /\ delivered = 0
  /\ promised = 0

Publish ==
  /\ published' = published + 1
  /\ UNCHANGED <<delivered, promised>>

\* The consumer finds something new; the newest item is what it is owed.
BeginTake ==
  /\ published > delivered
  /\ promised' = published
  /\ UNCHANGED <<published, delivered>>

\* Another task clears the mailbox: the consumer is owed nothing any more.
Wipe ==
  /\ promised' = 0
  /\ UNCHANGED <<published, delivered>>

Deliver ==
  /\ delivered' \in promised .. published
  /\ delivered' > delivered
  /\ promised' = 0
  /\ UNCHANGED published

Next == Publish \/ BeginTake \/ Wipe \/ Deliver

Spec == Init /\ [][Next]_mailboxVars

=============================================================================
