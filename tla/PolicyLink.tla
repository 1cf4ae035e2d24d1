------------------------------ MODULE PolicyLink ------------------------------
(***************************************************************************)
(* What a robot is owed by the locomotion runtime on one link, whether that *)
(* is a connection of the serial port or one run of the process over the    *)
(* datagram socket: every target follows the command of the same number,    *)
(* the numbers leave no gap, and an inference continues from what this link *)
(* has told the robot and from nothing else.  A step that was not delivered *)
(* leaves no trace, because the link ends with it.                          *)
(***************************************************************************)
EXTENDS Naturals

CONSTANTS
  SeqModulus,  \* the numbers wrap here
  MaxMemory,   \* bound: inferences are counted up to here
  Zero,        \* the action a policy begins with, and a hold
  None

VARIABLES
  listening,  \* there is a link
  told,       \* the last command, target and action, and the targets since a hold
  pending,    \* the step that has been decided and not delivered, or None
  memory,     \* inferences the policy has folded in
  observed    \* the action its next observation holds

linkVars == <<listening, told, pending, memory, observed>>

Numbers == 0 .. SeqModulus - 1
NumberAfter(n) == IF n < SeqModulus - 1 THEN n + 1 ELSE 0
OneMore(n) == IF n < MaxMemory THEN n + 1 ELSE n

\* A step: its number, and the action of its target.
Steps == [number : Numbers, action : Numbers \cup {Zero}]

Silence == [command |-> None, seq |-> None, action |-> Zero, run |-> 0]

LinkInit ==
  /\ listening = FALSE
  /\ told = Silence
  /\ pending = None
  /\ memory = 0
  /\ observed = Zero

\* A link may begin with a target of its own, a handshake.
Begin ==
  /\ ~listening
  /\ listening' = TRUE
  /\ \E greeting \in Numbers \cup {None} : told' = [Silence EXCEPT !.seq = greeting]
  /\ UNCHANGED <<pending, memory, observed>>

InTurn(number) == told.seq # None => number = NumberAfter(told.seq)

Act ==
  /\ listening /\ pending = None
  /\ memory = told.run /\ observed = told.action
  /\ memory' = OneMore(memory)
  /\ \E number \in Numbers :
       InTurn(number) /\ pending' = [number |-> number, action |-> number]
  /\ UNCHANGED <<listening, told, observed>>

Hold ==
  /\ listening /\ pending = None
  /\ memory' = 0 /\ observed' = Zero
  /\ \E number \in Numbers :
       InTurn(number) /\ pending' = [number |-> number, action |-> Zero]
  /\ UNCHANGED <<listening, told>>

Announce ==
  /\ pending \in Steps
  /\ told' = [told EXCEPT !.command = pending.number]
  /\ UNCHANGED <<listening, pending, memory, observed>>

Deliver ==
  /\ pending \in Steps
  /\ told.command = pending.number
  /\ told' = [told EXCEPT !.seq = pending.number, !.action = pending.action,
                          !.run = IF pending.action = Zero THEN 0 ELSE OneMore(@)]
  /\ observed' = pending.action
  /\ pending' = None
  /\ UNCHANGED <<listening, memory>>

\* Nothing outlives its link.
End ==
  /\ listening
  /\ listening' = FALSE
  /\ told' = Silence
  /\ pending' = None
  /\ memory' = 0
  /\ observed' = Zero

LinkNext == Begin \/ Act \/ Hold \/ Announce \/ Deliver \/ End

LinkSpec == LinkInit /\ [][LinkNext]_linkVars
===============================================================================
