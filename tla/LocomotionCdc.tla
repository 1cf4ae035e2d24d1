----------------------------- MODULE LocomotionCdc -----------------------------
(***************************************************************************)
(* run_cdc: the 50 Hz policy loop over the USB CDC serial port of the motor *)
(* controller, with its reconnection.  The controller, its cable and the    *)
(* kernel's receive buffer are the environment: state frames arrive at any  *)
(* time, the cable may be pulled and plugged again, a write may take its    *)
(* whole budget or fail.                                                    *)
(*                                                                         *)
(* Time is counted in control periods.  `lag` is now - next_tick: the loop  *)
(* sleeps while it is negative, and falls behind when writes or inferences  *)
(* are slow, because next_tick advances by exactly one period per step.     *)
(***************************************************************************)
EXTENDS LocomotionPolicy, Sequences

CONSTANTS
  MaxSteps,       \* cfg.max_steps; 0 is no limit
  MaxLag,         \* bound: periods the loop may fall behind
  MaxInference,   \* bound: periods one inference may take
  RxCapacity,     \* bound: frames waiting in the receive buffer
  MaxReconnects,  \* bound: how often the cable is pulled or a write times out
  None

ASSUME CdcAssumption ==
  /\ MaxSteps \in Nat /\ MaxLag \in Nat /\ RxCapacity \in Nat /\ MaxReconnects \in Nat
  /\ MaxInference \in Nat
  /\ None \notin Nat /\ None # Zero

VARIABLES
  pc,           \* the position in run_cdc
  portPresent,  \* the device node exists
  openable,     \* open(2) does not refuse it
  fd,           \* the serial port: "closed", "open", or "dead" after an unplug
  rx,           \* frames received and not read
  silent,       \* the controller has stopped sending for good
  latestState,  \* latest_state, with the connection it was read on
  age,          \* now - latest_state_time, up to MaxAge
  lag,          \* now - next_tick
  output,       \* the StepOutput being written, or None
  steps,        \* stats.steps, counted while max_steps limits it
  connection,   \* reconnect_count, counted up to MaxReconnects
  wire          \* ghost: what this connection has carried, see NoWire

loopVars == <<pc, latestState, age, lag, output, steps>>
envVars == <<portPresent, openable, silent>>
portVars == <<envVars, fd, rx, connection>>
vars == <<policyVars, loopVars, portVars, wire>>

MaxAge == StateTimeout + MaxInference + 3

\* The last command number, target number and action that a connection has
\* carried, and how many policy targets since it last carried a hold.
NoWire == [command |-> None, seq |-> None, action |-> Zero, run |-> 0]

\* What the controller sends: a state, with output_enabled = 0 in a "disabled"
\* one and a joint position that is not finite in a "nan" one; a "malformed" one
\* has a good CRC and a wrong payload size; "other" is another message.
StateFrames == {"enabled", "disabled", "nan"}
FrameKinds == StateFrames \cup {"malformed", "other"}
States == [kind : StateFrames, connection : 0 .. MaxReconnects]

Unlimited == MaxSteps = 0
StepMade == IF Unlimited THEN steps ELSE steps + 1

LoopHead(n) == IF Unlimited \/ n < MaxSteps THEN "read" ELSE "done"

Init ==
  /\ PolicyInit
  /\ pc = "connect"
  /\ portPresent \in BOOLEAN
  /\ openable \in BOOLEAN
  /\ fd = "closed"
  /\ rx = <<>>
  /\ silent = FALSE
  /\ latestState = None
  /\ age = 0
  /\ lag = 0
  /\ output = None
  /\ steps = 0
  /\ connection = 0
  /\ wire = NoWire

-----------------------------------------------------------------------------
(* The environment *)

ReceiveFrame ==
  /\ fd = "open" /\ ~silent
  /\ Len(rx) < RxCapacity
  /\ \E kind \in FrameKinds : rx' = Append(rx, kind)
  /\ UNCHANGED <<policyVars, loopVars, envVars, fd, connection, wire>>

GoSilent ==
  /\ ~silent
  /\ silent' = TRUE
  /\ UNCHANGED <<policyVars, loopVars, portPresent, openable, fd, rx, connection, wire>>

Unplug ==
  /\ portPresent
  /\ connection < MaxReconnects
  /\ portPresent' = FALSE
  /\ fd' = IF fd = "open" THEN "dead" ELSE fd
  /\ rx' = <<>>
  /\ UNCHANGED <<policyVars, loopVars, openable, silent, connection, wire>>

\* USB enumeration takes longer than one turn of the loop, so that the loop has
\* noticed the missing device node before it is there again.
Replug ==
  /\ ~portPresent
  /\ fd # "dead"
  /\ portPresent' = TRUE
  /\ UNCHANGED <<policyVars, loopVars, openable, silent, fd, rx, connection, wire>>

Older(d) == IF age + d <= MaxAge THEN age + d ELSE MaxAge

\* `d` periods pass, 0 or 1.
Pass(d) ==
  /\ lag + d <= MaxLag
  /\ lag' = lag + d
  /\ age' = Older(d)

-----------------------------------------------------------------------------
(* The loop *)

\* Mutant: a recoverable error is returned like any other.
Returned ==
  /\ ResetPolicyMemory(TRUE)
  /\ pc' = "failed"
  /\ fd' = "closed"
  /\ rx' = <<>>
  /\ output' = None
  /\ connection' = connection

\* A recoverable CdcError: everything about the connection is dropped, and the
\* policy is reset whatever it had computed.
Disconnected ==
  /\ ResetPolicyMemory(TRUE)
  /\ pc' = "backoff"
  /\ fd' = "closed"
  /\ rx' = <<>>
  /\ output' = None
  /\ connection' = IF connection < MaxReconnects THEN connection + 1 ELSE connection

Connect ==
  /\ pc = "connect"
  /\ latestState' = None
  /\ age' = 0
  /\ lag' = 0
  /\ wire' = NoWire
  /\ \/ /\ portPresent /\ openable
        /\ ResetPolicyMemory(TRUE)
        /\ fd' = "open"
        /\ pc' = "read"
        /\ UNCHANGED <<rx, output, connection>>
     \/ /\ ~portPresent
        /\ Disconnected
     \/ /\ portPresent /\ ~openable
        /\ ResetPolicyMemory(TRUE)
        /\ pc' = "failed"
        /\ UNCHANGED <<fd, rx, output, connection>>
  /\ UNCHANGED <<actionSeq, envVars, steps>>

Backoff ==
  /\ pc = "backoff"
  /\ pc' = "connect"
  /\ UNCHANGED <<policyVars, portVars, latestState, age, lag, output, steps, wire>>

\* wait_readable sleeps until a frame arrives or the next step is due.
Wait ==
  /\ pc = "read"
  /\ rx = <<>> /\ fd = "open"
  /\ lag < 0
  /\ Pass(1)
  /\ pc' = "check"
  /\ UNCHANGED <<policyVars, portVars, latestState, output, steps, wire>>

\* read_states drains the buffer and keeps the last state frame; a malformed one
\* is an error that ends run_cdc.  A dead port reads as empty, or as an error.
ReadStates ==
  LET At(kinds) == {i \in 1 .. Len(rx) : rx[i] \in kinds} IN
  /\ pc = "read"
  /\ rx # <<>> \/ lag >= 0 \/ fd = "dead"
  /\ rx' = <<>>
  /\ pc' = IF At({"malformed"}) = {} THEN "check" ELSE "failed"
  /\ \/ /\ At({"malformed"}) # {} \/ At(StateFrames) = {}
        /\ UNCHANGED <<latestState, age>>
     \/ /\ At({"malformed"}) = {}
        /\ \E last \in At(StateFrames) :
             /\ \A i \in At(StateFrames) : i <= last
             /\ latestState' = [kind |-> rx[last], connection |-> connection]
        /\ age' = 0
  /\ UNCHANGED <<policyVars, envVars, fd, connection, lag, output, steps, wire>>

ReadError ==
  /\ pc = "read"
  /\ fd = "dead"
  /\ Disconnected
  /\ UNCHANGED <<actionSeq, envVars, latestState, age, lag, steps, wire>>

\* now < next_tick goes on waiting.
StepDue == lag >= 0

CheckPort ==
  /\ pc = "check"
  /\ IF portPresent
     THEN /\ pc' = IF StepDue THEN "step" ELSE "read"
          /\ UNCHANGED <<policyVars, fd, rx, output, connection>>
     ELSE /\ Disconnected
          /\ UNCHANGED actionSeq
  /\ UNCHANGED <<envVars, latestState, age, lag, steps, wire>>

\* A step without any state only counts itself.
StepWithoutState ==
  /\ pc = "step"
  /\ latestState = None
  /\ lag' = lag - 1
  /\ steps' = StepMade
  /\ pc' = LoopHead(steps')
  /\ UNCHANGED <<policyVars, portVars, latestState, age, output, wire>>

\* The age is taken before the step, and policy.act takes its time, `d` periods,
\* after it; a hold takes none.  A hold target copies the joint positions of the
\* state, and a frame cannot be packed with a value that is not finite: the error
\* ends run_cdc.
PolicyStep ==
  /\ pc = "step"
  /\ latestState # None
  /\ \E active \in BOOLEAN, d \in 0 .. MaxInference :
       LET reason == StepReason(active, age, latestState.kind # "disabled") IN
       /\ reason # "act" => d = 0
       /\ lag - 1 + d <= MaxLag
       /\ lag' = lag - 1 + d
       /\ age' = Older(d)
       /\ StepFromState(reason)
       /\ IF reason # "act" /\ latestState.kind = "nan"
          THEN pc' = "failed" /\ output' = None
          ELSE pc' = "command" /\ output' = MakeOutput(reason)
  /\ UNCHANGED <<portVars, latestState, steps, wire>>

\* write_step_output_packets writes the command frame first; each write has
\* WRITE_TIMEOUT_S, one period.
WriteCommand ==
  /\ pc = "command"
  /\ fd = "open"
  /\ \E d \in 0 .. 1 : Pass(d)
  /\ wire' = [wire EXCEPT !.command = output.command]
  /\ pc' = "target"
  /\ UNCHANGED <<policyVars, portVars, latestState, output, steps>>

WriteTarget ==
  /\ pc = "target"
  /\ fd = "open"
  /\ \E d \in 0 .. 1 : Pass(d)
  /\ wire' = [wire EXCEPT !.seq = output.seq, !.action = output.action,
                          !.run = IF output.reason = "act" THEN Count(@) ELSE 0]
  /\ RecordAction(output)
  /\ output' = None
  /\ steps' = StepMade
  /\ pc' = LoopHead(steps')
  /\ UNCHANGED <<memory, policyMemoryClean, actionSeq, portVars, latestState>>

\* The port is gone, or did not take the frame within a period.
WriteError ==
  /\ pc \in {"command", "target"}
  /\ fd = "dead" \/ connection < MaxReconnects
  /\ Disconnected
  /\ UNCHANGED <<actionSeq, envVars, latestState, age, lag, steps, wire>>

Finished == pc \in {"done", "failed"} /\ UNCHANGED vars

Runtime ==
  \/ Connect \/ Backoff \/ Wait \/ ReadStates \/ ReadError \/ CheckPort
  \/ StepWithoutState \/ PolicyStep \/ WriteCommand \/ WriteTarget \/ WriteError

Next == ReceiveFrame \/ GoSilent \/ Unplug \/ Replug \/ Runtime \/ Finished

Spec == Init /\ [][Next]_vars

\* The thread keeps running; nothing is assumed of the controller or the cable.
FairSpec == Spec /\ WF_vars(Runtime)
-----------------------------------------------------------------------------
(* Properties *)

TypeOK ==
  /\ PolicyTypeOK
  /\ pc \in {"connect", "read", "check", "step", "command", "target",
             "backoff", "done", "failed"}
  /\ {portPresent, openable, silent} \subseteq BOOLEAN
  /\ fd \in {"closed", "open", "dead"}
  /\ rx \in Seq(FrameKinds)
  /\ latestState \in States \cup {None}
  /\ age \in 0 .. MaxAge
  /\ lag \in -1 .. MaxLag
  /\ output \in Outputs \cup {None}
  /\ steps \in 0 .. MaxSteps
  /\ connection \in 0 .. MaxReconnects
  /\ wire \in [command : Seqs \cup {None}, seq : Seqs \cup {None},
               action : Seqs \cup {Zero}, run : 0 .. MaxMemory]

\* Between two steps the policy's memory and the previous action it observes
\* are those of the targets the controller has been sent on this connection:
\* an inference whose target was not written is forgotten, and a hold, a lost
\* connection or a new one leaves nothing (record_action after the write,
\* reset_policy_memory on every other path).
PolicyMirrorsWire ==
  pc \in {"read", "check", "step", "done"} =>
    /\ memory = wire.run
    /\ lastAction = wire.action
    /\ policyMemoryClean = (wire.run = 0)

\* A controller that follows the numbers of one connection sees every target
\* preceded by the command frame of the same number, and the numbers without a
\* gap (make_command_packet, make_hold_target_packet, make_target_packet).
FramesInOrder ==
  [][wire'.seq # wire.seq /\ wire'.seq # None =>
       /\ wire'.seq = wire.command
       /\ wire.seq # None => wire'.seq = Succ(wire.seq)]_vars

\* A policy target that reaches the port was computed from a state read on the
\* same connection, with output enabled, and that state is older than
\* STATE_TIMEOUT_S by at most what the inference and the two writes took: neither
\* a late loop nor a reconnection adds to it.  The code bounds the writes
\* (WRITE_TIMEOUT_S), not the inference.
PolicyTargetsAreFresh ==
  [][pc = "target" /\ pc' # "backoff" /\ output # None /\ output.reason = "act" =>
       /\ latestState.connection = connection
       /\ latestState.kind # "disabled"
       /\ age' <= StateTimeout + MaxInference + 2]_<<pc, output>>

\* From the moment a connection is open until it is lost or run_cdc returns the
\* loop is a link of PolicyLink, and what is being written a step of it.
Linked == pc \in {"read", "check", "step", "command", "target", "done"}

Owed == INSTANCE PolicyLink WITH
  listening <- Linked,
  told      <- IF Linked THEN wire ELSE NoWire,
  pending   <- IF pc \in {"command", "target"}
               THEN [number |-> output.seq, action |-> output.action] ELSE None,
  memory    <- IF Linked THEN memory ELSE 0,
  observed  <- IF Linked THEN lastAction ELSE Zero

\* However often the port is lost, times out or returns, and whatever was half
\* written, every connection is a link that starts from nothing: its targets are
\* announced and numbered without a gap, and an inference continues exactly from
\* the targets of this connection (run_cdc, step_from_state, reset_policy_memory,
\* record_action).
ImplementsPolicyLink == Owed!LinkSpec

\* Once the controller stops sending, the policy stops acting on what it sent
\* last: it is reset, and stays so, whether the port remains or not, unless
\* run_cdc has returned.
SilenceEndsInHold == silent ~> [](policyMemoryClean \/ pc \in {"done", "failed"})

\* With the device node back for good the loop is reading again: no absent port
\* and no failed read or write strands it (the Disconnected and WriteTimeout
\* arms).  What those arms do not retry does not happen: a port that refuses, a
\* frame that cannot be decoded or held.
NoFatalInput ==
  openable /\ \A i \in 1 .. Len(rx) : rx[i] \notin {"malformed", "nan"}

ReconnectsAfterReplug ==
  <>[]portPresent /\ []NoFatalInput => []<>(pc = "read")
===============================================================================
