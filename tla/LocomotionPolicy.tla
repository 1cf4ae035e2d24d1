-------------------------- MODULE LocomotionPolicy ---------------------------
(***************************************************************************)
(* The policy side of LocomotionPolicyRuntime: what one control step does   *)
(* with the latest robot state, whichever transport drives it               *)
(* (LocomotionCdc, LocomotionSim).                                          *)
(*                                                                         *)
(* The policy is recurrent: every inference folds an observation into its   *)
(* memory, and the observation holds the previous action.  A step therefore *)
(* either lets the policy act, or forgets everything and holds the robot at *)
(* its measured joint positions.                                            *)
(***************************************************************************)
EXTENDS Integers

CONSTANTS
  StateTimeout,   \* STATE_TIMEOUT_S, in control periods
  SeqModulus,     \* action_seq is a u32 that wraps: 2^32 in the code
  MaxMemory,      \* bound: the ghost count of inferences stops here
  Zero            \* the action [0.0; 6]

ASSUME PolicyAssumption ==
  /\ StateTimeout \in Nat
  /\ SeqModulus \in Nat \ {0}
  /\ MaxMemory \in Nat \ {0}
  /\ Zero \notin Nat

VARIABLES
  memory,             \* inferences the policy has folded in since policy.reset()
  policyMemoryClean,  \* policy_memory_clean
  lastAction,         \* last_action: Zero, or the action of the target numbered so
  actionSeq           \* action_seq

policyVars == <<memory, policyMemoryClean, lastAction, actionSeq>>

Seqs == 0 .. SeqModulus - 1
Succ(n) == IF n < SeqModulus - 1 THEN n + 1 ELSE 0    \* wrapping_add(1)
Pred(n) == IF n > 0 THEN n - 1 ELSE SeqModulus - 1    \* wrapping_sub(1)
Count(n) == IF n < MaxMemory THEN n + 1 ELSE n

Reasons == {"act", "command_inactive", "state_timeout", "output_disabled"}

\* A StepOutput: the target frame to send, the action it carries (named by the
\* frame's number), the command frame that announces it, and why.
Outputs == [seq : Seqs, command : Seqs, action : Seqs \cup {Zero},
            reason : Reasons]

PolicyInit ==
  /\ memory = 0
  /\ policyMemoryClean = TRUE
  /\ lastAction = Zero
  /\ actionSeq = 0

\* Mutants: the age of the state is not tested; only a forced reset resets; an
\* inference does not mark the memory; the command frame is numbered with the
\* next number.
AnyAgeActs(active, age, outputEnabled) ==
  CASE ~active        -> "command_inactive"
    [] ~outputEnabled -> "output_disabled"
    [] OTHER          -> "act"

ResetIfForced(force) ==
  IF ~force
  THEN UNCHANGED <<memory, policyMemoryClean, lastAction>>
  ELSE memory' = 0 /\ lastAction' = Zero /\ policyMemoryClean' = TRUE

ActUnmarked ==
  /\ memory' = Count(memory)
  /\ UNCHANGED <<policyMemoryClean, lastAction>>

OutputAhead(reason) ==
  [seq      |-> actionSeq,
   command  |-> Succ(actionSeq),
   action   |-> IF reason = "act" THEN actionSeq ELSE Zero,
   reason   |-> reason]

\* step_from_state tests the conditions in this order.
StepReason(active, age, outputEnabled) ==
  CASE ~active            -> "command_inactive"
    [] age > StateTimeout -> "state_timeout"
    [] ~outputEnabled     -> "output_disabled"
    [] OTHER              -> "act"

ResetPolicyMemory(force) ==
  IF policyMemoryClean /\ ~force
  THEN UNCHANGED <<memory, policyMemoryClean, lastAction>>
  ELSE /\ memory' = 0
       /\ lastAction' = Zero
       /\ policyMemoryClean' = TRUE

\* act_from_state: the action is recorded only once it has been sent.
ActFromState ==
  /\ memory' = Count(memory)
  /\ policyMemoryClean' = FALSE
  /\ UNCHANGED lastAction

\* make_target_packet or make_hold_target_packet, then make_command_packet,
\* which runs after action_seq has been advanced.
MakeOutput(reason) ==
  [seq      |-> actionSeq,
   command  |-> Pred(Succ(actionSeq)),
   action   |-> IF reason = "act" THEN actionSeq ELSE Zero,
   reason   |-> reason]

StepFromState(reason) ==
  /\ IF reason = "act" THEN ActFromState ELSE ResetPolicyMemory(FALSE)
  /\ actionSeq' = Succ(actionSeq)

RecordAction(output) == lastAction' = output.action

PolicyTypeOK ==
  /\ memory \in 0 .. MaxMemory
  /\ policyMemoryClean \in BOOLEAN
  /\ lastAction \in Seqs \cup {Zero}
  /\ actionSeq \in Seqs
=============================================================================
