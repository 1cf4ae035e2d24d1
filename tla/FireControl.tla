----------------------------- MODULE FireControl -----------------------------
(***************************************************************************)
(* What a tick of control_loop_250hz decides about firing:                  *)
(* FireControlController and its ShotPhaseController on the armor routes,   *)
(* EnergyMechanismController on the other.  Aiming is left out; of the      *)
(* target a tick keeps what the gates ask of it.                            *)
(*                                                                         *)
(* The controllers compare a clock, which grows by Dt with every update,    *)
(* with times they stored.  Here each stored time is the time left until    *)
(* it, in milliseconds, and Over once it has passed or when there is none.  *)
(* The clock is a sum of many f64: when it should meet a stored time        *)
(* exactly, rounding decides on which side it falls, and so does `late`.    *)
(***************************************************************************)
EXTENDS Integers

CONSTANTS
  Dt,          \* CONTROL_LOOP_PERIOD_MS
  SlotPeriod,  \* 1000 / fire_rate_hz
  Advance,     \* first_shot_advance_ms, negative by default
  EnterSlots,  \* auto_enter_slot_count.max(1)
  HoldSlots,   \* auto_hold_slot_count.max(1)
  MinBurst,    \* auto_min_burst_ms
  Cooldown,    \* auto_restart_cooldown_ms
  FireGap,     \* fire_gap_s of the energy mechanism's aimer
  MaxSlots     \* slots the preview horizon can hold

ASSUME FireAssumption ==
  /\ Dt \in Nat \ {0} /\ SlotPeriod \in Nat /\ Dt < SlotPeriod
  /\ Advance \in Int
  /\ EnterSlots \in Nat \ {0} /\ HoldSlots \in Nat \ {0} /\ HoldSlots <= EnterSlots
  /\ MinBurst \in Nat /\ Cooldown \in Nat /\ FireGap \in Nat
  /\ MaxSlots \in Nat

Routes == {"AutoShot", "Outpost", "EnergyMechanism"}
Shots == {"AutoFire", "ShotOnce"}
Timers == {"slot", "hold", "cooldown", "gap"}
Larger(a, b) == IF a < b THEN b ELSE a

\* compute_shot_check_start_time_s: no later than the advance, no sooner than Dt.
FirstSlot ==
  SlotPeriod - (IF Advance < SlotPeriod - Dt THEN Advance ELSE SlotPeriod - Dt)

Over == -Dt
LongestSlot == Larger(FirstSlot, SlotPeriod)
Spacing == [armor |-> FirstSlot, energy |-> FireGap]

VARIABLES
  route,    \* the route of the RuntimeRouter
  phase,    \* ShotPhaseController: [mode, slot, hold, cooldown, pulse]
  gap,      \* EnergyMechanismController: time left of fire_gap_s
  command,  \* shot_mode of the last CtrlData
  allowed,  \* ghost: every permission for the last command was there
  since     \* ghost: time since [viable, once, burst], see Ghosts

vars == <<route, phase, gap, command, allowed, since>>

Cleared(p) == [p EXCEPT !.mode = "None", !.slot = Over, !.hold = Over, !.pulse = FALSE]
ResetPhase == [mode |-> "None", slot |-> Over, hold |-> Over, cooldown |-> Over,
               pulse |-> FALSE]

\* Ghosts.  `viable`: since slots were last viable behind an open gate; `once`:
\* since a ShotOnce; `burst`: since a burst ran out of slots.  Each stays at
\* its Long value, and a disturbance puts it there.
Long == [viable |-> LongestSlot + MinBurst + Dt,
         once   |-> Larger(FirstSlot, FireGap),
         burst  |-> Cooldown]
Later(g) == IF since[g] + Dt < Long[g] THEN since[g] + Dt ELSE Long[g]

Init ==
  /\ route = "AutoShot"
  /\ phase = ResetPhase
  /\ gap = Over
  /\ command = "DoNothing"
  /\ allowed = FALSE
  /\ since = Long

-----------------------------------------------------------------------------
(* ShotPhaseController *)

Down(t) == Larger(t - Dt, Over)
Running(timer, t, late) == t > 0 \/ (t = 0 /\ timer \in late)

\* advance_phase in a burst: the next slot moves on by one period when it has
\* come.  One is enough, a tick being shorter than the period.
NextSlot(slot, late) ==
  IF Running("slot", slot, late) THEN slot ELSE slot + SlotPeriod

\* advance_clock and advance_phase: the phase at the start of an update.
Advanced(late) ==
  LET p == [phase EXCEPT !.hold = Down(@), !.cooldown = Down(@)] IN
  CASE p.mode = "None"   -> p
    [] p.mode = "Single" -> IF Running("slot", p.slot - Dt, late)
                            THEN [p EXCEPT !.slot = @ - Dt] ELSE Cleared(p)
    [] p.mode = "Auto"   -> [p EXCEPT !.slot = NextSlot(@ - Dt, late)]

\* The comparisons of this update that rounding decides.
Ties == {t \in Timers :
          \/ t = "slot" /\ phase.mode # "None" /\ phase.slot = Dt
          \/ t = "hold" /\ phase.hold = Dt
          \/ t = "cooldown" /\ phase.cooldown = Dt
          \/ t = "gap" /\ gap = Dt}

Started(p, mode) ==
  [p EXCEPT !.mode = mode, !.slot = Larger(FirstSlot, Dt), !.pulse = FALSE]
HoldFromSlot(p) == [p EXCEPT !.hold = p.slot + MinBurst]

\* Mutants: the mechanical hold extends itself; the pulse of a single shot is
\* not remembered; a burst that ran out restarts at once.
HeldAgain(p) == HoldFromSlot(p)
StartedOnly(p) == Started(p, "Single")
RanOutAtOnce(p) == Cleared(p)

Held(p) == p
Pulsed(p) == [Started(p, "Single") EXCEPT !.pulse = TRUE]
RanOut(p) == [Cleared(p) EXCEPT !.cooldown = Cooldown]

Fire(shot, p) == command' = shot /\ phase' = p

GateClosed(p, gate) == ~gate /\ Fire("AimOnly", Cleared(p))

Burst(p, slots) ==
  /\ p.mode = "Auto"
  /\ slots >= HoldSlots
  /\ Fire("AutoFire", HoldFromSlot(p))

MechanicalHold(p, slots, late) ==
  /\ p.mode = "Auto"
  /\ slots < HoldSlots
  /\ Running("hold", p.hold, late)
  /\ Fire("AutoFire", Held(p))

BurstEnds(p, slots, late) ==
  /\ p.mode = "Auto"
  /\ slots < HoldSlots
  /\ ~Running("hold", p.hold, late)
  /\ Fire("AimOnly", RanOut(p))

\* A single shot has been given for this slot; the pulse is not repeated.
SinglePulse(p) ==
  /\ p.mode = "Single"
  /\ Fire(IF p.pulse THEN "AimOnly" ELSE "ShotOnce", [p EXCEPT !.pulse = TRUE])

CoolingDown(p, late) ==
  /\ p.mode = "None"
  /\ Running("cooldown", p.cooldown, late)
  /\ Fire("AimOnly", p)

Enter(p, slots, late) ==
  /\ p.mode = "None"
  /\ ~Running("cooldown", p.cooldown, late)
  /\ \/ /\ slots >= EnterSlots
        /\ Fire("AutoFire", HoldFromSlot(Started(p, "Auto")))
     \/ /\ slots < EnterSlots /\ slots = 1
        /\ Fire("ShotOnce", Pulsed(p))
     \/ /\ slots < EnterSlots /\ slots # 1
        /\ Fire("AimOnly", Cleared(p))

\* ShotPhaseController::update
PhaseUpdate(gate, slots, late) ==
  LET p == Advanced(late) IN
  \/ GateClosed(p, gate)
  \/ gate /\ (Burst(p, slots) \/ MechanicalHold(p, slots, late)
              \/ BurstEnds(p, slots, late) \/ SinglePulse(p)
              \/ CoolingDown(p, late) \/ Enter(p, slots, late))

-----------------------------------------------------------------------------
(* FireControlController *)

\* What the gates ask of a tick: of the feedback, which is stale, or fresh
\* without or with the MCU's permission; of the target's snapshot.
Feedbacks == {"stale", "fresh", "permit"}
Gates == [feedback : Feedbacks, fire_permit : BOOLEAN, motion_uniform : BOOLEAN,
          observation_stable : BOOLEAN]

GateMcu(in) == in.feedback = "permit" /\ in.fire_permit

\* Mutant: an unstable observation does not hold fire.
McuAndMotion(in) == GateMcu(in) /\ in.motion_uniform

HardGate(in) == GateMcu(in) /\ in.motion_uniform /\ in.observation_stable

\* The slots a target offers.  A static target offers all it takes or none at
\* all; the preview of a dynamic one stops counting without the MCU gate.
Offered(in, static) ==
  IF static THEN IF HardGate(in) THEN {0, Larger(EnterSlots, HoldSlots)} ELSE {0}
            ELSE IF GateMcu(in) THEN 0 .. MaxSlots ELSE {0}

Armor == route \in {"AutoShot", "Outpost"}

\* No target, a snapshot older than 180 ms or an invalid track; or a plan that
\* asks for no control.  Either way the phase is reset.
NoTarget ==
  /\ Armor
  /\ Fire("DoNothing", ResetPhase)
  /\ allowed' = FALSE
  /\ since' = Long
  /\ UNCHANGED <<route, gap>>

NoPlan ==
  /\ Armor
  /\ Fire("AimOnly", ResetPhase)
  /\ allowed' = FALSE
  /\ since' = Long
  /\ UNCHANGED <<route, gap>>

Aim ==
  /\ Armor
  /\ \E in \in Gates, static \in BOOLEAN, late \in SUBSET Ties :
       \E slots \in Offered(in, static) :
         /\ PhaseUpdate(HardGate(in), slots, late)
         /\ allowed' = (in.feedback = "permit" /\ in.fire_permit /\ in.motion_uniform
                        /\ in.observation_stable)
         /\ since' =
              [viable |-> IF HardGate(in) /\ slots >= HoldSlots THEN 0 ELSE Later("viable"),
               once   |-> IF command' = "ShotOnce" THEN 0
                          ELSE IF HardGate(in) THEN Later("once") ELSE Long.once,
               burst  |-> IF phase.mode = "Auto" /\ HardGate(in) /\ phase'.mode = "None"
                          THEN 0 ELSE Later("burst")]
  /\ UNCHANGED <<route, gap>>

-----------------------------------------------------------------------------
(* EnergyMechanismController *)

\* A target that cannot be used leaves the time of the last shot alone.
EnergyNoTarget ==
  /\ route = "EnergyMechanism"
  /\ command' = "DoNothing"
  /\ allowed' = FALSE
  /\ gap' = Down(gap)
  /\ since' = [g \in DOMAIN since |-> Later(g)]
  /\ UNCHANGED <<route, phase>>

GapStarted == FireGap

\* next_shot_mode, for feedback that is fresh.  It reads the real clock, which
\* a tick that is on time finds Dt further.
EnergyAim ==
  /\ route = "EnergyMechanism"
  /\ \E permit \in BOOLEAN, late \in SUBSET Ties :
       LET shoot == permit /\ ~Running("gap", Down(gap), late) IN
       /\ command' = IF shoot THEN "ShotOnce" ELSE "AimOnly"
       /\ gap' = IF shoot THEN GapStarted ELSE Down(gap)
       /\ allowed' = permit
       /\ since' = [g \in DOMAIN since |->
                     IF shoot /\ g = "once" THEN 0 ELSE Later(g)]
  /\ UNCHANGED <<route, phase>>

\* A transition resets both controllers and forgets both snapshots, so that the
\* tick finds no target whatever the route.
RouteChange ==
  /\ route' \in Routes \ {route}
  /\ phase' = ResetPhase
  /\ gap' = Over
  /\ command' = "DoNothing"
  /\ allowed' = FALSE
  /\ since' = Long

Next == NoTarget \/ NoPlan \/ Aim \/ EnergyNoTarget \/ EnergyAim \/ RouteChange

Spec == Init /\ [][Next]_vars

-----------------------------------------------------------------------------
(* Properties *)

TypeOK ==
  /\ route \in Routes
  /\ phase \in [mode : {"None", "Auto", "Single"}, slot : Over .. LongestSlot,
                hold : Over .. LongestSlot + MinBurst, cooldown : Over .. Larger(Cooldown, 0),
                pulse : BOOLEAN]
  /\ gap \in Over .. FireGap
  /\ command \in {"DoNothing", "AimOnly"} \cup Shots
  /\ allowed \in BOOLEAN
  /\ since \in [viable : 0 .. Long.viable, once : 0 .. Long.once, burst : 0 .. Long.burst]

(* No controller fires, and no burst goes on, on a tick without fresh         *)
(* feedback, the permission of the MCU, and (for armor) the estimator's own   *)
(* permission, uniform motion and a stable observation.                       *)
ShotsNeedPermission == command \in Shots => allowed

(* The mechanical hold keeps AutoFire alive for a while without a viable slot,*)
(* never longer than to the end of the slot already promised plus the minimum *)
(* burst.                                                                     *)
HoldIsShort == command = "AutoFire" => since.viable <= LongestSlot + MinBurst

(* While the gates stay open a window gives one ShotOnce: the next one comes a*)
(* first slot later.  On the energy route it comes fire_gap_s later, whatever *)
(* the target does in between.                                                *)
ShotsAreSpaced ==
  [][command' = "ShotOnce" =>
       since.once + Dt >= Spacing[IF Armor THEN "armor" ELSE "energy"]]_vars

(* A burst that ran out of slots is not followed by any shot before the       *)
(* cooldown is over, unless the target was lost in between.                   *)
CooldownIsKept == [][command' \in Shots /\ Armor => since.burst + Dt >= Cooldown]_vars

=============================================================================
