------------------------------- MODULE CdcPort --------------------------------
(***************************************************************************)
(* CdcSerial under run_cdc: one USB CDC port, written by write_all.          *)
(*                                                                         *)
(* The fd does not block: write takes as many bytes as the kernel has room   *)
(* for, so a frame goes out in pieces and may run out of time in the middle. *)
(* The device may vanish under the fd, which stays dead when it comes back.  *)
(* write_all says how far it came to nobody: what keeps half a frame from    *)
(* being followed by the next one is that run_cdc drops the port.            *)
(***************************************************************************)
EXTENDS Naturals, Sequences

CONSTANTS
  FrameLength,   \* bytes of a frame, at least the two halves of it
  Patience,      \* looks at a full buffer before WRITE_TIMEOUT_S is over
  MaxFrames      \* bound: frames written, as in FramePort

ASSUME CdcPortAssumption ==
  /\ FrameLength \in Nat \ {0}
  /\ Patience \in Nat
  /\ MaxFrames \in Nat

VARIABLES
  node,      \* the device node: "absent", "usable", or "refused" to this process
  fd,        \* serial.fd: "none", "live", or "dead": its device went away
  loop,      \* run_cdc: "reconnecting", "running" or "ended"
  frame,     \* frames begun so far; the last of them is the one being written
  writing,   \* write_all has not returned
  offset,    \* its `offset`
  spent,     \* looks at a full buffer since it began
  accepted   \* bytes the kernel took since the port was opened, in order

cdcPortVars == <<node, fd, loop, frame, writing, offset, spent, accepted>>

Bytes(n, from, to) == [k \in 1 .. to - from |-> <<n, from + k>>]

CdcPortInit ==
  /\ node \in {"absent", "usable", "refused"}
  /\ fd = "none"
  /\ loop = "reconnecting"
  /\ frame = 0
  /\ writing = FALSE
  /\ offset = 0
  /\ spent = 0
  /\ accepted = <<>>

\* Mutant: after a timeout the port is kept.
DropsLostPort(error) == error # "WriteTimeout"

\* What run_cdc does with an error of the port: Disconnected and WriteTimeout
\* leave the scope of `serial`, whose drop closes the fd, and it connects again;
\* anything else ends it.
DropsPort(error) == TRUE

Recovers(error) == error \in {"Disconnected", "WriteTimeout"}

Raise(error) ==
  /\ writing' = FALSE
  /\ loop' = CASE ~Recovers(error)  -> "ended"
               [] DropsPort(error)  -> "reconnecting"
               [] OTHER             -> "running"
  /\ IF DropsPort(error)
     THEN fd' = "none" /\ accepted' = <<>>
     ELSE UNCHANGED <<fd, accepted>>
  /\ UNCHANGED <<node, frame, offset, spent>>

\* configure_raw_serial: reading or setting the attributes may fail.
Configured == {"ok", "Disconnected", "Io"}

\* open: a missing node reads as Disconnected, a node that refuses does not.
\* Configuring flushes both directions; if it fails the fd is closed again.
Open ==
  /\ loop = "reconnecting"
  /\ CASE node = "absent"  -> Raise("Disconnected")
       [] node = "refused" -> Raise("Io")
       [] OTHER            ->
            \E result \in Configured :
              IF result # "ok" THEN Raise(result)
              ELSE /\ fd' = "live"
                   /\ accepted' = <<>>
                   /\ loop' = "running"
                   /\ UNCHANGED <<node, frame, writing, offset, spent>>

\* write_all begins: the command frame of a step, or its target frame.
WriteAll ==
  /\ loop = "running" /\ ~writing /\ frame < MaxFrames
  /\ frame' = frame + 1
  /\ writing' = TRUE
  /\ offset' = 0
  /\ spent' = 0
  /\ UNCHANGED <<node, fd, loop, accepted>>

\* write returned n > 0.
WriteSome ==
  /\ writing /\ fd = "live"
  /\ \E to \in offset + 1 .. FrameLength :
       /\ offset' = to
       /\ accepted' = accepted \o Bytes(frame, offset, to)
       /\ writing' = (to < FrameLength)
  /\ UNCHANGED <<node, fd, loop, frame, spent>>

\* write returned 0 or EAGAIN: time out, or wait for room, for a millisecond at most.
WriteFull ==
  /\ writing /\ fd = "live"
  /\ IF spent >= Patience
     THEN Raise("WriteTimeout")
     ELSE /\ spent' = spent + 1
          /\ UNCHANGED <<node, fd, loop, frame, writing, offset, accepted>>

\* write, read or poll failed: on a dead fd, or for a reason of the kernel's own.
CallFails ==
  /\ loop = "running"
  /\ \/ fd = "dead" /\ Raise("Disconnected")
     \/ fd = "live" /\ \E error \in {"Disconnected", "Io"} : Raise(error)

\* cdc_port_disappeared, which run_cdc asks between two steps.
SeesNodeGone ==
  /\ loop = "running" /\ ~writing
  /\ node = "absent"
  /\ Raise("Disconnected")

DeviceLeaves ==
  /\ node # "absent"
  /\ node' = "absent"
  /\ fd' = IF fd = "live" THEN "dead" ELSE fd
  /\ UNCHANGED <<loop, frame, writing, offset, spent, accepted>>

DeviceReturns ==
  /\ node = "absent"
  /\ node' \in {"usable", "refused"}
  /\ UNCHANGED <<fd, loop, frame, writing, offset, spent, accepted>>

CdcPortNext ==
  \/ Open \/ WriteAll \/ WriteSome \/ WriteFull \/ CallFails \/ SeesNodeGone
  \/ DeviceLeaves \/ DeviceReturns

CdcPortSpec == CdcPortInit /\ [][CdcPortNext]_cdcPortVars

-----------------------------------------------------------------------------
(* Refinement *)

\* What a receiver that starts with the connection makes of its bytes: the
\* frame at every multiple of the length, 0 where it is no frame.
FrameAt(k) ==
  LET piece == SubSeq(accepted, (k - 1) * FrameLength + 1, k * FrameLength)
      n == Head(piece)[1]
  IN IF piece = Bytes(n, 0, FrameLength) THEN n ELSE 0

Promised == INSTANCE FramePort WITH
  link    <- CASE loop = "reconnecting" -> "closed"
               [] loop = "running"      -> "open"
               [] OTHER                 -> "ended",
  handed  <- frame,
  pending <- writing,
  carried <- [k \in 1 .. Len(accepted) \div FrameLength |-> FrameAt(k)]

\* The port keeps the promise of FramePort: however a frame is cut up, whatever
\* fails half way through it and whenever the device comes and goes, nothing
\* follows half a frame on a connection, and no frame is sent a second time.
ImplementsFramePort == Promised!PortSpec
===============================================================================
