------------------------------- MODULE PolicyIo -------------------------------
(***************************************************************************)
(* The values that go through a control step: what the policy is shown of a  *)
(* robot state, what is made of its answer, and what the frames refuse.      *)
(* LocomotionPolicy has the order of things; here each float is either       *)
(* finite or not, because that is what every guard on this path asks.        *)
(*                                                                         *)
(* A frame with a good CRC may still hold a float that is not finite         *)
(* (from_payload checks sizes only), and a half-precision engine may answer  *)
(* with one.  The observation replaces such values and flags the step, the   *)
(* answer is cleaned, and a frame that would carry one is refused, which     *)
(* ends the program.                                                         *)
(***************************************************************************)
EXTENDS LocomotionPolicy, FiniteSets

CONSTANTS LogEvery   \* telemetry_log_every

ASSUME IoAssumption == LogEvery \in Nat \ {0}

VARIABLES
  checkpoint,  \* what the checkpoint's file and metadata say
  dryRun,      \* cfg.dry_run: run_dry instead of a transport
  logging,     \* telemetry_log is set
  diskFull,    \* the telemetry file takes no more
  phase,       \* "load", "run" or "stopped"
  poisoned,    \* the recurrent memory holds a value that is not finite
  logStep,     \* stats.steps modulo LogEvery
  report       \* the last step: see Reports

ioVars == <<policyVars, checkpoint, dryRun, logging, diskFull, phase, poisoned,
            logStep, report>>

Values == {"finite", "bad"}
IsFinite(v) == v = "finite"

\* LegacyObs leaves the phase of the legs out (phase_active_leg_observation).
NumObs == 34
LegacyObs == 32
NumActions == 6
Checkpoints == [onnx : BOOLEAN, gru : BOOLEAN, shapes : BOOLEAN,
                obs : {LegacyObs, NumObs - 1, NumObs},
                actions : {NumActions - 1, NumActions}]

\* A decoded PolicyStateFrame: the velocities, the direction of gravity, which
\* may also be the null vector, and the joint positions; and its age.
StateReadings == [motion : Values, gravity : Values \cup {"null"}, pos : Values,
                  enabled : BOOLEAN, age : {0, StateTimeout + 1}]

\* What a step did: why, whether it was flagged NONFINITE, whether anything in
\* it was not finite (`tainted`, a ghost), the joint positions it started from,
\* and how it ended; NoReport before the first one.
Outcomes == {"sent", "refused", "shape", "inference", "telemetry"}
Reports == [reason : Reasons, flagged : BOOLEAN, tainted : BOOLEAN, pos : Values,
            outcome : Outcomes]
NoReport == [reason |-> "none", flagged |-> FALSE, tainted |-> FALSE,
             pos |-> "finite", outcome |-> "none"]

-----------------------------------------------------------------------------
(* Start *)

PolicyIoInit ==
  /\ PolicyInit
  /\ checkpoint \in Checkpoints
  /\ dryRun \in BOOLEAN
  /\ logging \in BOOLEAN
  /\ diskFull = FALSE
  /\ phase = "load"
  /\ poisoned = FALSE
  /\ logStep = 0
  /\ report = NoReport

\* The number of observations is not compared here: the builder does it, later.
Loadable(c) == c.onnx /\ c.gru /\ c.shapes /\ c.actions = NumActions

Load ==
  /\ phase = "load"
  /\ phase' = IF Loadable(checkpoint) /\ ~(logging /\ diskFull)
              THEN "run" ELSE "stopped"
  /\ UNCHANGED <<policyVars, checkpoint, dryRun, logging, diskFull, poisoned,
                 logStep, report>>

DiskFills ==
  /\ logging /\ ~diskFull
  /\ diskFull' = TRUE
  /\ UNCHANGED <<policyVars, checkpoint, dryRun, logging, phase, poisoned,
                 logStep, report>>

-----------------------------------------------------------------------------
(* The command *)

\* The stick of a gamepad.  A chassis command with a value that is not finite
\* fails validate, and the idle command, which is finite, stands in for it.
Validated(axis) == IF IsFinite(axis) THEN axis ELSE "finite"

-----------------------------------------------------------------------------
(* The observation *)

\* finite_array: a value that is not finite is shown as zero and reported.
Shown(v) == [value |-> "finite", bad |-> ~IsFinite(v)]

\* Mutant: a null vector is not worth a flag.
ShownGravityQuietly(v) == [value |-> "finite", bad |-> v = "bad"]

\* projected_gravity_clean: the null vector is shown as "down", and reported.
ShownGravity(v) == [value |-> "finite", bad |-> v # "finite"]

Observation(r, command) ==
  {Shown(r.motion), ShownGravity(r.gravity), Shown(r.pos), Shown(command)}

Flagged(obs) == \E part \in obs : part.bad

\* 3 + 3 + 5 + (6 or 4) + 4 + 2 + 2 + 6 + 3.
ObservationLength(numObs) == IF numObs = NumObs THEN NumObs ELSE LegacyObs

ShapeMatches == ObservationLength(checkpoint.obs) = checkpoint.obs

-----------------------------------------------------------------------------
(* The answer *)

\* Mutants: the answer is taken as it is; one that is not finite does not count
\* as use of the memory.
AsAnswered(action) == action
MarksFinite(action) == IsFinite(action)

\* act_from_state: a value that is not finite becomes zero, and flags the step.
Cleaned(action) == IF IsFinite(action) THEN action ELSE "finite"

MarksMemory(action) == TRUE

\* decode: clipping keeps a value that is not a number; the leg targets add
\* the default of the commanded height to the scaled action.
Decoded(action, height) ==
  IF IsFinite(action) /\ IsFinite(height) THEN "finite" ELSE "bad"

\* pack_payload refuses a frame with a value that is not finite.
Packs(v) == IsFinite(v)

\* What a hold sends back: the joint positions as they were reported.
HoldTarget(r) == r.pos

-----------------------------------------------------------------------------
(* A step *)

\* write_telemetry, which most steps with telemetry_log_every > 1 skip, and the
\* event of a reset, which is always written.
LogFails == logging /\ diskFull
SampleFails == LogFails /\ (logStep + 1) % LogEvery = 0
ResetFails(reason) == LogFails /\ reason # "act" /\ ~policyMemoryClean

Report(r, reason, flagged, tainted, outcome) ==
  /\ report' = [reason |-> reason, flagged |-> flagged, tainted |-> tainted,
                pos |-> r.pos, outcome |-> outcome]
  /\ phase' = IF outcome = "sent" THEN "run" ELSE "stopped"

\* The inference itself: whatever the policy answers and remembers, from an
\* observation that is finite.  A poisoned memory stays poisoned until a reset.
PolicyActs(r, command) ==
  \E action \in Values, spoils \in BOOLEAN :
    LET obs == Observation(r, command)
        flagged == Flagged(obs) \/ ~IsFinite(action)
        target == Decoded(Cleaned(action), command)
        sent == dryRun \/ (Packs(command) /\ Packs(target))
    IN
    /\ memory' = Count(memory)
    /\ policyMemoryClean' = (policyMemoryClean /\ ~MarksMemory(action))
    /\ poisoned' = (poisoned \/ spoils)
    /\ actionSeq' = IF dryRun THEN actionSeq ELSE Succ(actionSeq)
    /\ lastAction' = IF sent THEN actionSeq ELSE lastAction
    /\ Report(r, "act", flagged,
              \/ ~IsFinite(r.motion) \/ r.gravity # "finite" \/ ~IsFinite(r.pos)
              \/ ~IsFinite(command) \/ ~IsFinite(action),
              IF ~sent THEN "refused" ELSE IF SampleFails THEN "telemetry" ELSE "sent")

InferenceFails(r) ==
  /\ Report(r, "act", FALSE, FALSE, "inference")
  /\ UNCHANGED <<policyVars, poisoned>>

\* Every branch of step_from_state that does not act; run_dry packs nothing.
PolicyHolds(r, command, reason) ==
  LET obs == Observation(r, command)
      sent == dryRun \/ (Packs(command) /\ Packs(HoldTarget(r)))
  IN
  /\ ResetPolicyMemory(FALSE)
  /\ poisoned' = (poisoned /\ policyMemoryClean)
  /\ actionSeq' = IF ResetFails(reason) THEN actionSeq ELSE Succ(actionSeq)
  /\ Report(r, reason, Flagged(obs),
            \/ ~IsFinite(r.motion) \/ r.gravity # "finite" \/ ~IsFinite(r.pos)
            \/ ~IsFinite(command),
            IF ResetFails(reason) THEN "telemetry"
            ELSE IF ~sent THEN "refused"
            ELSE IF SampleFails THEN "telemetry" ELSE "sent")

\* The robot's states; run_dry makes up its own, finite and always fresh, and
\* asks nothing of output_enabled.
Offered ==
  IF dryRun
  THEN [motion : {"finite"}, gravity : {"finite"}, pos : {"finite"},
        enabled : {TRUE}, age : {0}]
  ELSE StateReadings

Step ==
  /\ phase = "run"
  /\ \E r \in Offered, active \in BOOLEAN, axis \in Values :
       LET command == Validated(axis)
           reason == StepReason(active, r.age, r.enabled)
       IN IF ~ShapeMatches
          THEN /\ Report(r, reason, FALSE, FALSE, "shape")
               /\ UNCHANGED <<policyVars, poisoned>>
          ELSE IF reason # "act"
          THEN PolicyHolds(r, command, reason)
          ELSE PolicyActs(r, command) \/ InferenceFails(r)
  /\ logStep' = (logStep + 1) % LogEvery
  /\ UNCHANGED <<checkpoint, dryRun, logging, diskFull>>

Stopped == phase = "stopped" /\ UNCHANGED ioVars

PolicyIoNext == Load \/ DiskFills \/ Step \/ Stopped

PolicyIoSpec == PolicyIoInit /\ [][PolicyIoNext]_ioVars
-----------------------------------------------------------------------------
(* Properties *)

\* Whatever the robot reports, the gamepad reads and the policy answers, a step
\* that lets the policy act has its frames taken: only a hold ends the program
\* that way, and only one whose joint positions were not finite
\* (make_hold_target_packet copies them as they came).
OnlyBadHoldsAreRefused ==
  report.outcome = "refused" =>
    report.reason # "act" /\ ~IsFinite(report.pos)

\* A memory that went bad is forgotten by the first hold: nothing else clears
\* it, and a reset is skipped when the memory is thought clean.
HoldForgetsPoison ==
  report.reason # "act" /\ report.outcome \in {"sent", "refused"}
    => ~poisoned

\* A step is flagged NONFINITE exactly when something in it was replaced: a
\* value that is not finite, or gravity without a direction.
NonfiniteIsFlagged ==
  report.outcome \in {"sent", "refused"} =>
    (report.flagged = report.tainted)
===============================================================================
