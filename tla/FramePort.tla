------------------------------ MODULE FramePort -------------------------------
(***************************************************************************)
(* What the locomotion loop is owed by its serial port: frames are numbered  *)
(* as they are handed over, each crosses the connection whole or not at all, *)
(* in that order, at most once, and a frame that failed takes the connection *)
(* with it, so nothing ever follows half a frame.                            *)
(***************************************************************************)
EXTENDS Naturals, Sequences

VARIABLES
  link,     \* "closed", "open" or "ended"
  handed,   \* frames handed over so far
  pending,  \* the last of them is still on its way
  carried   \* the frames that crossed this connection

portVars == <<link, handed, pending, carried>>

PortInit ==
  /\ link = "closed"
  /\ handed = 0
  /\ pending = FALSE
  /\ carried = <<>>

Connect ==
  /\ link = "closed"
  /\ link' = "open"
  /\ UNCHANGED <<handed, pending, carried>>

HandOver ==
  /\ link = "open" /\ ~pending
  /\ handed' = handed + 1
  /\ pending' = TRUE
  /\ UNCHANGED <<link, carried>>

Carry ==
  /\ pending
  /\ carried' = Append(carried, handed)
  /\ pending' = FALSE
  /\ UNCHANGED <<link, handed>>

\* The connection is lost, with the frame that was on its way, for now or for good.
Lose ==
  /\ link # "ended"
  /\ link' \in {"closed", "ended"}
  /\ pending' = FALSE
  /\ carried' = <<>>
  /\ UNCHANGED handed

PortNext == Connect \/ HandOver \/ Carry \/ Lose

PortSpec == PortInit /\ [][PortNext]_portVars
===============================================================================
