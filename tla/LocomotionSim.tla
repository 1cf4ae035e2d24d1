----------------------------- MODULE LocomotionSim -----------------------------
(***************************************************************************)
(* run_sim, the policy loop over a Unix datagram socket, composed with the  *)
(* simulator it talks to (apps/sim_loop/runtime.py), which has a thread     *)
(* that receives and a loop that steps the physics and sends its state.     *)
(*                                                                         *)
(* The two sockets have bounded receive queues.  The runtime's send blocks  *)
(* while the simulator's is full; the simulator's gives up after a while    *)
(* and forgets its peer, until a datagram of that peer names it again.      *)
(* Either process may end at any time, and the runtime may be run again.    *)
(* Time is counted in control periods, as in LocomotionCdc.                 *)
(***************************************************************************)
EXTENDS LocomotionPolicy, Sequences

CONSTANTS
  TargetTimeout,  \* TARGET_TIMEOUT_S of the simulator, in control periods
  QueueLength,    \* datagrams a socket queues: net.unix.max_dgram_qlen
  MaxLag,         \* bound: periods the loop may fall behind
  MaxStarts,      \* bound: how often the runtime is run
  Nothing

ASSUME SimAssumption ==
  /\ TargetTimeout \in Nat /\ MaxLag \in Nat /\ MaxStarts \in Nat
  /\ QueueLength \in Nat \ {0}
  /\ Nothing \notin Nat

VARIABLES
  pc,           \* the position in run_sim
  hasState,     \* latest_state is Some
  age,          \* now - latest_state_time
  lag,          \* now - next_tick
  output,       \* the StepOutput being sent, or Nothing
  starts,       \* how often the runtime has been run
  told,         \* ghost: what this run has sent, see NothingTold
  toRuntime,    \* state datagrams queued for the runtime
  toSim,        \* target and command datagrams queued for the simulator
  simPc,        \* the simulator's loop: "step", "send", or "stopped"
  latestTarget, \* latest_target
  targetAge,    \* now - latest_target_time
  peer,         \* _peer_path is set
  driving       \* where the target that the actuators follow came from, or Nothing

runtimeVars == <<policyVars, pc, hasState, age, lag, output, starts, told>>
simVars == <<simPc, latestTarget, targetAge, peer, driving>>
linkVars == <<runtimeVars, toRuntime, toSim, simVars>>

\* What a target's joint positions are made of: the default pose of the
\* handshake, or a state of the robot.
Target(seq, from) == [type |-> "target", seq |-> seq, from |-> from, path |-> "client"]
Command(seq) == [type |-> "command", seq |-> seq, from |-> "command", path |-> "client"]
InitialTarget == [Target(0, "nothing") EXCEPT !.path = ""]

Saturated(n, bound) == IF n < bound THEN n + 1 ELSE n

\* The last command number, target number and action that a run has sent, and
\* how many policy targets since it last sent a hold.
NothingTold == [command |-> Nothing, seq |-> Nothing, action |-> Zero, run |-> 0]

Listening == pc \in {"turn", "command", "target"}
Simulating == simPc # "stopped"

SimInit ==
  /\ PolicyInit
  /\ pc = "start" /\ hasState = FALSE /\ age = 0 /\ lag = -1
  /\ output = Nothing /\ starts = 1 /\ told = NothingTold
  /\ toRuntime = <<>> /\ toSim = <<>>
  /\ simPc = "step" /\ latestTarget = InitialTarget /\ targetAge = 0
  /\ peer = FALSE /\ driving = Nothing

-----------------------------------------------------------------------------
(* The runtime *)

\* The client socket goes with the process, and what was queued on it.
Ended == pc' = "ended" /\ output' = Nothing /\ toRuntime' = <<>>

\* The handshake is the hold target of the default state, the first number.
Start ==
  /\ pc = "start"
  /\ ResetPolicyMemory(TRUE)
  /\ IF Simulating
     THEN /\ Len(toSim) < QueueLength
          /\ toSim' = Append(toSim, Target(actionSeq, "default pose"))
          /\ told' = [NothingTold EXCEPT !.seq = actionSeq]
          /\ actionSeq' = Succ(actionSeq)
          /\ pc' = "turn"
          /\ lag' = -1
          /\ UNCHANGED <<output, toRuntime>>
     ELSE Ended /\ UNCHANGED <<actionSeq, lag, toSim, told>>
  /\ UNCHANGED <<hasState, age, starts, simVars>>

StepWithoutState ==
  /\ pc = "turn" /\ lag >= 0 /\ ~hasState
  /\ lag' = lag - 1
  /\ UNCHANGED <<policyVars, pc, hasState, age, output, starts, told, toRuntime, toSim, simVars>>

\* The simulator reports its output enabled in every state.
PolicyStep ==
  /\ pc = "turn" /\ lag >= 0 /\ hasState
  /\ lag' = lag - 1
  /\ \E active \in BOOLEAN :
       LET reason == StepReason(active, age, TRUE) IN
       StepFromState(reason) /\ output' = MakeOutput(reason)
  /\ pc' = "command"
  /\ UNCHANGED <<hasState, age, starts, told, toRuntime, toSim, simVars>>

\* A step that is due goes before what has been received; one datagram a turn.
Receive ==
  /\ pc = "turn" /\ lag < 0
  /\ toRuntime # <<>>
  /\ toRuntime' = Tail(toRuntime)
  /\ hasState' = TRUE
  /\ age' = 0
  /\ UNCHANGED <<policyVars, pc, lag, output, starts, told, toSim, simVars>>

SendCommand ==
  /\ pc = "command" /\ Simulating
  /\ Len(toSim) < QueueLength
  /\ toSim' = Append(toSim, Command(output.command))
  /\ told' = [told EXCEPT !.command = output.command]
  /\ pc' = "target"
  /\ UNCHANGED <<policyVars, hasState, age, lag, output, starts, toRuntime, simVars>>

SendTarget ==
  /\ pc = "target" /\ Simulating
  /\ Len(toSim) < QueueLength
  /\ toSim' = Append(toSim, Target(output.seq, "state"))
  /\ told' = [told EXCEPT !.seq = output.seq, !.action = output.action,
                          !.run = IF output.reason = "act" THEN Count(@) ELSE 0]
  /\ RecordAction(output)
  /\ output' = Nothing
  /\ pc' = "turn"
  /\ UNCHANGED <<memory, policyMemoryClean, actionSeq, hasState, age, lag, starts,
                 toRuntime, simVars>>

\* A send to a simulator that is gone ends run_sim.
SendFails ==
  /\ pc \in {"command", "target"} /\ ~Simulating
  /\ Ended
  /\ UNCHANGED <<policyVars, hasState, age, lag, starts, told, toSim, simVars>>

\* max_steps is reached, or the process is stopped from outside.
Stop ==
  /\ Listening
  /\ Ended
  /\ UNCHANGED <<policyVars, hasState, age, lag, starts, told, toSim, simVars>>

\* The operator runs it again: a new process, which numbers from 0.
RunAgain ==
  /\ pc = "ended" /\ starts < MaxStarts
  /\ starts' = starts + 1
  /\ pc' = "start"
  /\ memory' = 0 /\ policyMemoryClean' = TRUE /\ lastAction' = Zero /\ actionSeq' = 0
  /\ hasState' = FALSE /\ age' = 0 /\ lag' = -1
  /\ UNCHANGED <<output, told, toRuntime, toSim, simVars>>

-----------------------------------------------------------------------------
(* The simulator *)

\* Mutants: the peer is taken from the first target only; any number is valid.
NamesPeerAtFirst(datagram) == datagram.from = "default pose"
AnyNumber(target, elapsed) == elapsed <= TargetTimeout

\* Every target and command carries the path to answer to.
NamesPeer(datagram) == datagram.path # ""

TargetValid(target, elapsed) == target.seq # 0 /\ elapsed <= TargetTimeout

\* _recv_loop
SimReceive ==
  /\ Simulating
  /\ toSim # <<>>
  /\ toSim' = Tail(toSim)
  /\ IF Head(toSim).type = "target"
     THEN latestTarget' = Head(toSim) /\ targetAge' = 0
     ELSE UNCHANGED <<latestTarget, targetAge>>
  /\ peer' = (peer \/ NamesPeer(Head(toSim)))
  /\ UNCHANGED <<runtimeVars, toRuntime, simPc, driving>>

SimStep ==
  /\ simPc = "step"
  /\ driving' = IF TargetValid(latestTarget, targetAge) THEN latestTarget.from ELSE Nothing
  /\ simPc' = IF peer THEN "send" ELSE "step"
  /\ UNCHANGED <<runtimeVars, toRuntime, toSim, latestTarget, targetAge, peer>>

SimSend ==
  /\ simPc = "send"
  /\ Listening /\ Len(toRuntime) < QueueLength
  /\ toRuntime' = Append(toRuntime, "state")
  /\ simPc' = "step"
  /\ UNCHANGED <<runtimeVars, toSim, latestTarget, targetAge, peer, driving>>

\* The queue stayed full for the socket's timeout, or nobody listens.  The path
\* is the one that was read before the send, even if it has been named again.
SimSendFails ==
  /\ simPc = "send"
  /\ ~Listening \/ Len(toRuntime) = QueueLength
  /\ peer' = FALSE
  /\ simPc' = "step"
  /\ UNCHANGED <<runtimeVars, toRuntime, toSim, latestTarget, targetAge, driving>>

\* max_steps is reached or the viewer is closed: the actuators are gone with it.
SimStop ==
  /\ Simulating
  /\ simPc' = "stopped"
  /\ toSim' = <<>>
  /\ driving' = Nothing
  /\ UNCHANGED <<runtimeVars, toRuntime, latestTarget, targetAge, peer>>

-----------------------------------------------------------------------------

Tick ==
  /\ lag' = Saturated(lag, MaxLag)
  /\ age' = Saturated(age, StateTimeout + 1)
  /\ targetAge' = Saturated(targetAge, TargetTimeout + 1)
  /\ UNCHANGED <<policyVars, pc, hasState, output, starts, told, toRuntime, toSim, simPc,
                 latestTarget, peer, driving>>

Runtime ==
  Start \/ StepWithoutState \/ PolicyStep \/ SendCommand \/ SendTarget \/ SendFails
SimLoop == SimStep \/ SimSend \/ SimSendFails

SimNext == Runtime \/ Receive \/ Stop \/ RunAgain \/ SimReceive \/ SimLoop \/ SimStop \/ Tick

\* Both processes run and time passes; the loop takes a datagram sooner or later
\* if it is never late for good.
SimFairness ==
  /\ WF_linkVars(Runtime) /\ SF_linkVars(Receive)
  /\ WF_linkVars(SimReceive) /\ WF_linkVars(SimLoop)
  /\ WF_linkVars(Tick)

SimSpec == SimInit /\ [][SimNext]_linkVars /\ SimFairness

-----------------------------------------------------------------------------
(* Properties *)

\* The actuators follow nothing but targets made from a state the simulator has
\* sent: neither the pose it starts from nor that of a handshake, which a newly
\* run process sends while the robot stands as its predecessor left it
\* (target_valid; make_hold_target_packet numbers the handshake 0).
HandshakeDrivesNothing == driving \in {"state", Nothing}

\* From its handshake until it ends, a run of the runtime is a link of PolicyLink,
\* and what is being sent a step of it.
Owed == INSTANCE PolicyLink WITH
  None      <- Nothing,
  listening <- Listening,
  told      <- IF Listening THEN told ELSE NothingTold,
  pending   <- IF pc \in {"command", "target"}
               THEN [number |-> output.seq, action |-> output.action] ELSE Nothing,
  memory    <- IF Listening THEN memory ELSE 0,
  observed  <- IF Listening THEN lastAction ELSE Zero

\* The datagram socket keeps the promise that the serial port keeps: the handshake
\* takes the first number, every target after it is announced and in turn, and an
\* inference continues from what this run has sent, whenever either process ends
\* and is run again (run_sim, step_from_state, reset_policy_memory, record_action).
RunsArePolicyLinks == Owed!LinkSpec

\* A simulator that forgot its peer, because the runtime was slow to read or
\* because the send that failed began before it was named anew, is told it
\* again while both run: neither side waits for the other to speak first.
PeerReturns ==
  []<>(lag < 0) => (~peer ~> peer \/ ~Simulating \/ pc = "ended")
================================================================================
