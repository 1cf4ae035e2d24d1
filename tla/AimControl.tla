------------------------------ MODULE AimControl ------------------------------
(***************************************************************************)
(* The yaw command of a control tick and the shot slots it finds viable:     *)
(* SecondOrderPositionMpc with what the two controllers do to it, and        *)
(* FireGateConfig::count_viable_shot_slots.                                  *)
(*                                                                         *)
(* Angles are whole units, FullTurn of them a circle.  The optimiser is       *)
(* external: its first step and its predicted path are whatever the model    *)
(* may choose.                                                               *)
(***************************************************************************)
EXTENDS Integers, FiniteSets, FiniteSetsExt

CONSTANTS
  FullTurn,      \* units in a circle
  MaxDelta,      \* max_rate_deg_s over a tick
  MaxLead,       \* max_lead_deg
  Horizon,       \* SECOND_ORDER_POSITION_MPC_HORIZON
  FirstSlotStep, \* first_slot_time_s in steps of the model
  SlotStep,      \* steps between two slots
  PreSteps,      \* shot_window_pre_ms in steps
  Tolerance,     \* the yaw tolerance; an error has to be less
  FirstSteps,    \* first steps the optimiser may choose
  Throughs,      \* steps of the preview up to which the impact angle is good
  Wind           \* bound: units the gimbal may have turned since a reset

ASSUME AimAssumption ==
  /\ FullTurn \in Nat \ {0}
  /\ MaxDelta \in Nat /\ MaxLead \in Nat /\ FirstSteps \subseteq Int
  /\ Horizon \in Nat /\ Horizon >= 2
  /\ FirstSlotStep \in Nat /\ PreSteps \in Nat
  /\ Tolerance \in Nat \ {0}

VARIABLES
  pipelineOf, \* "armor" or "energy": whose MPC is looked at
  gimbal,     \* feedback.gimbal_yaw
  aim,        \* yaw of the armor or blade that is aimed at
  mpc,        \* [ready, command, measured]
  counted     \* ghost: [slots, worst], the viable slots of the last tick and how
              \* far the path predicted for them is from the aim on the circle

aimVars == <<pipelineOf, gimbal, aim, mpc, counted>>

Circle == -(FullTurn \div 2) .. (FullTurn - 1) \div 2
Magnitude(n) == IF n < 0 THEN -n ELSE n
Clamp(n, low, high) == IF n < low THEN low ELSE IF n > high THEN high ELSE n

\* normalize_angle_deg and closest_equivalent_angle_deg
Normalized(angle) == ((angle + FullTurn \div 2) % FullTurn) - FullTurn \div 2

Equivalent(reference, angle) == reference + Normalized(angle - reference)
Distance(a, b) == Magnitude(Normalized(a - b))

(***************************************************************************)
(* SecondOrderPositionMpc.                                                  *)
(***************************************************************************)
Reset(angle) ==
  [ready |-> TRUE, command |-> Normalized(angle), measured |-> Normalized(angle)]

\* constrain_output_command: the rate first, then the lead.
Constrained(command, last, measured) ==
  Clamp(Clamp(command, last - MaxDelta, last + MaxDelta), measured - MaxLead, measured + MaxLead)

\* unwrap_reference_trajectory of an aim that moves by rate.
Unwrapped(yaw, rate, last) ==
  LET ref[i \in 0 .. Horizon - 1] ==
        IF i = 0 THEN Equivalent(last, yaw)
        ELSE Equivalent(ref[i - 1], Normalized(yaw + i * rate))
  IN ref

(***************************************************************************)
(* count_viable_shot_slots.                                                 *)
(***************************************************************************)
\* Mutant: only the moment of the slot is looked at.
MomentOnly(slot) == {slot}

\* shot_slot_window_max_error_deg: the steps around a slot.
Window(slot) == (IF slot - PreSteps > 1 THEN slot - PreSteps ELSE 1) .. slot

\* Slots that fit the horizon, from the first on.
Slots == {i \in Clamp(FirstSlotStep, 1, Horizon - 1) .. Horizon - 1 :
            (i - Clamp(FirstSlotStep, 1, Horizon - 1)) % SlotStep = 0}

Viable(slot, predicted, reference, inWindow) ==
  /\ slot \in inWindow
  /\ \A i \in Window(slot) : Magnitude(reference[i] - predicted[i]) < Tolerance

\* Slots are counted up to the first that is not viable.
ViableSlots(predicted, reference, inWindow, permit) ==
  {s \in Slots : permit /\ \A t \in Slots : t <= s => Viable(t, predicted, reference, inWindow)}

NoSlots == [slots |-> 0, worst |-> 0]

(***************************************************************************)
(* What a tick does.                                                        *)
(***************************************************************************)
AimInit ==
  /\ pipelineOf = "armor"
  /\ gimbal = 0 /\ aim = 0
  /\ mpc = [ready |-> FALSE, command |-> 0, measured |-> 0]
  /\ counted = NoSlots

\* The gimbal and the aim move on between two ticks, by at most a unit.
World(move, turn) ==
  /\ gimbal' = Normalized(gimbal + move)
  /\ aim' = Normalized(aim + turn)
  /\ UNCHANGED pipelineOf

Steps == -1 .. 1

\* no_target and a plan without control of the armor route.
AimNothing ==
  /\ pipelineOf = "armor"
  /\ \E move \in Steps, yaw \in Circle : World(move, yaw)
  /\ mpc' = Reset(gimbal')
  /\ counted' = NoSlots

\* no_target of the energy route leaves the MPC as it is.
AimKept ==
  /\ pipelineOf = "energy"
  /\ \E move \in Steps, yaw \in Circle : World(move, yaw)
  /\ UNCHANGED mpc
  /\ counted' = NoSlots

\* apply_static_target: the command is the aim itself.
AimStatic ==
  /\ pipelineOf = "armor"
  /\ \E move, turn \in Steps : World(move, turn)
  /\ mpc' = Reset(aim')
  /\ counted' = NoSlots

\* update_trajectory with an optimiser's step, or one that is not finite, and
\* for armor dynamic_gate_state with the path it predicts.
AimDynamic ==
  \E move, turn, slope \in Steps, step \in FirstSteps, permit \in BOOLEAN,
     through \in Throughs :
    /\ World(move, turn)
    /\ LET known     == IF mpc.ready THEN mpc ELSE Reset(gimbal')
           measured  == Equivalent(known.measured, gimbal')
           last      == Equivalent(measured, known.command)
           reference == Unwrapped(aim', turn, last)
           predicted == [i \in 0 .. Horizon - 1 |-> measured + i * slope]
           slots     == IF pipelineOf = "energy" THEN {}
                        ELSE ViableSlots(predicted, reference, 0 .. through - 1, permit)
           looked    == UNION {Clamp(s - PreSteps, 1, s) .. s : s \in slots}
       IN /\ Magnitude(measured) <= Wind
          /\ mpc' = [ready |-> TRUE, measured |-> measured,
                     command |-> Normalized(Constrained(last + step, last, measured))]
          /\ counted' = [slots |-> Cardinality(slots),
                         worst |-> Max({0} \cup {Distance(aim' + i * turn, predicted[i]) :
                                                   i \in looked})]

\* A transition resets both controllers.
AimRouteChange ==
  /\ pipelineOf' \in {"armor", "energy"}
  /\ UNCHANGED <<gimbal, aim>>
  /\ mpc' = Reset(0)
  /\ counted' = NoSlots

AimNext == AimNothing \/ AimKept \/ AimStatic \/ AimDynamic \/ AimRouteChange

AimSpec == AimInit /\ [][AimNext]_aimVars

(***************************************************************************)
(* Properties.                                                              *)
(***************************************************************************)
\* A slot that counts is one at which, and in the window before which, the
\* predicted yaw is on the aim, on the circle and not only as unwrapped.
ViableMeansOnTarget == counted.worst < Tolerance
=============================================================================
