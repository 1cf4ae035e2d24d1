---------------------------- MODULE EnergyTracker ----------------------------
(***************************************************************************)
(* energy_mechanism_estimate_process and the EnergyMechanismTracker it      *)
(* keeps: from the blade solved in each frame to the snapshot fire control  *)
(* predicts with.  On the large mechanism the lit blade changes, so a blade *)
(* that does not fit is deferred until a second frame confirms it, and a    *)
(* curve filter learns the speed from the same samples.                     *)
(*                                                                         *)
(* Rolls and positions are left to what the gates make of them: a sample    *)
(* either jumps away from the tracked blade or does not.                    *)
(***************************************************************************)
EXTENDS Integers, Sequences

CONSTANTS
  Blades,       \* selected_phase_index
  None,
  MaxWait,      \* bound: time between two updates
  LostWait,     \* lost_timeout_s of a mode
  ModelReset,   \* big_model_reset_timeout_s, not below LostWait["Large"]
  Confirm,      \* TARGET_SWITCH_CONFIRM_FRAMES
  History,      \* HISTORY_CAPACITY
  CurveHistory, \* what the curve filter keeps
  MinHistory,   \* min_history of the curve filter
  SeedFrames    \* phi_seed_frames

ASSUME EnergyAssumption ==
  /\ None \notin Blades
  /\ None \notin [blade : Blades, jump : BOOLEAN]
  /\ {ModelReset, Confirm, History, CurveHistory, MinHistory, SeedFrames} \subseteq Nat
  /\ MaxWait \in Nat \ {0}
  /\ LostWait \in [{"Small", "Large"} -> Nat]

VARIABLES
  routed,      \* the task mode of the router
  rerouted,    \* transition_seq differs from last_transition_seq
  loop,        \* the mode estimate_process waits with, or "look"
  tracker,     \* EnergyMechanismTracker
  track,       \* the snapshot last published
  offered      \* ghost: the blade of the last sample, if that was deferred

energyVars == <<routed, rerouted, loop, tracker, track, offered>>

Modes == {"Small", "Large"}
Samples == [blade : Blades, jump : BOOLEAN]

(***************************************************************************)
(* BigBuffCurveEskf, without its numbers: how many samples it holds and of  *)
(* which blades, whether its phase was seeded and a speed ever accepted.    *)
(***************************************************************************)
NewCurve == [size |-> 0, of |-> {}, seeded |-> FALSE, learned |-> FALSE]

Recorded(c, blade) ==
  [c EXCEPT !.size = IF @ < CurveHistory THEN @ + 1 ELSE @, !.of = @ \cup {blade}]

\* predict: the seed is tried at one size only, and may find the speed unusable.
Seeds(c) == IF ~c.seeded /\ c.size = SeedFrames THEN BOOLEAN ELSE {c.seeded}

\* update_with_speed: skipped without enough history, or accepted or gated.
Accepts(c) == IF c.size >= MinHistory /\ c.size >= 2 THEN BOOLEAN ELSE {FALSE}

Learned(c, seeded, accepted) ==
  [c EXCEPT !.seeded = seeded, !.learned = IF accepted THEN TRUE ELSE @]

Advanced(c) == {Learned(c, seeded, accepted) : seeded \in Seeds(c), accepted \in Accepts(c)}

(***************************************************************************)
(* EnergyMechanismTracker.                                                  *)
(***************************************************************************)
NewTracker(mode) ==
  [mode |-> mode, blade |-> None, history |-> <<>>, age |-> 0,
   pending |-> None, streak |-> 0, curve |-> NewCurve, turns |-> {}]

Known(t) == t.blade # None      \* initialized

\* is_target_switch_candidate
Switches(t, s) == Known(t) /\ (s.blade # t.blade \/ s.jump)

\* Mutant: any second odd sample confirms the first.
AnyConfirms(t, s) ==
  [t EXCEPT !.pending = s.blade, !.streak = IF @ < Confirm THEN @ + 1 ELSE @]

\* should_defer_target_switch
Counted(t, s) ==
  [t EXCEPT !.pending = s.blade, !.streak = IF t.pending = s.blade THEN @ + 1 ELSE 1]

Offered(t, s) ==
  CASE ~Known(t)      -> t
    [] Switches(t, s) -> Counted(t, s)
    [] OTHER          -> [t EXCEPT !.pending = None, !.streak = 0]

Defers(t, s) == t.mode = "Large" /\ Switches(t, s) /\ Offered(t, s).streak < Confirm

\* Mutant: a confirmed switch goes on with the history of the old blade.
NeverStarts(t, s) == ~Known(t)

\* correct, for the first sample or a confirmed switch
Starts(t, s) == ~Known(t) \/ (t.mode = "Large" /\ Switches(t, s))

\* A sample is kept with the mechanism and the blade it was of, for the properties.
Sample(t, s) == [mode |-> t.mode, blade |-> s.blade]

\* The rate and the direction of the rotation, as the mechanisms they were learned
\* on: a start keeps them, as the lit blade moves on and the wheel turns as before.
LearnedOn(t, s) == IF Starts(t, s) THEN t.turns ELSE t.turns \cup {t.mode}

LastOf(h) == IF Len(h) > History THEN Tail(h) ELSE h

Correct(t, s) ==
  LET starts  == Starts(t, s)
      history == IF starts THEN <<>> ELSE t.history
      curves  == CASE t.mode = "Small" -> {NewCurve}
                   [] t.mode = "Large" /\ starts  -> {Recorded(NewCurve, s.blade)}
                   [] t.mode = "Large" /\ ~starts ->
                        {Recorded(c, s.blade) : c \in Advanced(t.curve)}
  IN {[t EXCEPT !.blade = s.blade, !.history = LastOf(Append(history, Sample(t, s))),
                !.age = 0, !.pending = None, !.streak = 0, !.curve = c,
                !.turns = LearnedOn(t, s)] : c \in curves}

\* The curve is forgotten when its target stays away.
Unseen(t) ==
  {IF t.mode = "Large" /\ t.age > ModelReset THEN [t EXCEPT !.curve = NewCurve] ELSE t}

Update(t, s) ==
  CASE s = None                   -> Unseen(t)
    [] s # None /\ t.mode = "Small" -> Correct(t, s)
    [] s # None /\ t.mode = "Large" ->
         IF Defers(t, s) THEN {Offered(t, s)} ELSE Correct(Offered(t, s), s)

Lost(t) == t.age > LostWait[t.mode]
Valid(t) == ~Lost(t) /\ Len(t.history) >= 2

NoTrack == [mode |-> None, valid |-> FALSE, blade |-> None]
Snapshot(t) ==
  IF ~Known(t) THEN NoTrack
  ELSE [mode |-> t.mode, valid |-> Valid(t), blade |-> t.blade]

(***************************************************************************)
(* energy_mechanism_estimate_process.                                       *)
(***************************************************************************)
Tasks == Modes \cup {"Armor"}
IsEnergy(task) == task \in Modes
ModeOf(task) == IF IsEnergy(task) THEN task ELSE "Small"

EnergyInit ==
  /\ routed \in Tasks
  /\ rerouted = FALSE
  /\ loop = "look"
  /\ tracker = NewTracker("Small")
  /\ track = NoTrack
  /\ offered = None

\* The two energy modes share a route: only the other changes are transitions.
SwitchMode ==
  /\ \E task \in Tasks \ {routed} :
       /\ routed' = task
       /\ rerouted' = (rerouted \/ IsEnergy(task) # IsEnergy(routed))
  /\ UNCHANGED <<loop, tracker, track, offered>>

LookEnergy ==
  /\ loop = "look"
  /\ rerouted' = FALSE
  /\ tracker' = IF rerouted THEN NewTracker(ModeOf(routed)) ELSE tracker
  /\ offered' = IF rerouted THEN None ELSE offered
  /\ loop' = IF IsEnergy(routed) THEN routed ELSE "look"
  /\ UNCHANGED <<routed, track>>

\* No frame came in time, or it was solved for the other mode.
NoFrame ==
  /\ loop # "look"
  /\ loop' = "look"
  /\ UNCHANGED <<routed, rerouted, tracker, track, offered>>

\* update, as far as its reset of a tracker of the other mode
InMode(mode) == IF tracker.mode = mode THEN tracker ELSE NewTracker(mode)

Older(t, dt) ==
  IF Known(t)
  THEN [t EXCEPT !.age = IF @ + dt <= ModelReset THEN @ + dt ELSE ModelReset + 1]
  ELSE t

TrackFrame ==
  /\ loop # "look"
  /\ \E s \in Samples \cup {None}, dt \in 1 .. MaxWait :
       LET t == Older(InMode(loop), dt)
       IN /\ tracker' \in Update(t, s)
          /\ offered' = CASE s = None -> IF tracker.mode = loop THEN offered ELSE None
                          [] s # None -> IF Defers(t, s) THEN s.blade ELSE None
  /\ track' = Snapshot(tracker')
  /\ loop' = "look"
  /\ UNCHANGED <<routed, rerouted>>

EnergyNext == SwitchMode \/ LookEnergy \/ NoFrame \/ TrackFrame

EnergySpec == EnergyInit /\ [][EnergyNext]_energyVars

(***************************************************************************)
(* Properties.                                                              *)
(***************************************************************************)
Trackers ==
  [mode : Modes, blade : Blades \cup {None},
   history : Seq([mode : Modes, blade : Blades]), age : 0 .. ModelReset + 1,
   pending : Blades \cup {None}, streak : Nat,
   curve : [size : 0 .. CurveHistory, of : SUBSET Blades, seeded : BOOLEAN,
            learned : BOOLEAN],
   turns : SUBSET Modes]

EnergyTypeOK ==
  /\ routed \in Tasks /\ rerouted \in BOOLEAN /\ loop \in Modes \cup {"look"}
  /\ tracker \in Trackers
  /\ Len(tracker.history) <= History /\ tracker.streak <= Confirm
  /\ track \in [mode : Modes \cup {None}, valid : BOOLEAN, blade : Blades \cup {None}]
  /\ offered \in Blades \cup {None}

\* All that a prediction is made of was seen on the same mechanism, the rate and the
\* direction of its rotation included; and on the large one the history, the curve
\* and the blade aimed at are of one and the same blade.  When the light moves on,
\* only the rate and the direction of the wheel are kept, as correct does on purpose.
OneMechanismAtATime ==
  /\ \A i \in DOMAIN tracker.history : tracker.history[i].mode = tracker.mode
  /\ tracker.turns \subseteq {tracker.mode}
  /\ tracker.mode = "Large" =>
       /\ \A i \in DOMAIN tracker.history : tracker.history[i].blade = tracker.blade
       /\ tracker.curve.of \subseteq {tracker.blade}

\* One odd frame is never believed: while the tracker keeps its mode it turns to
\* another blade only when the last sample before was the same odd one.
OddFramesAreConfirmed ==
  [][/\ tracker.mode = "Large" /\ tracker'.mode = "Large"
     /\ Known(tracker) /\ Known(tracker')
     /\ tracker'.blade # tracker.blade
     => offered = tracker'.blade]_energyVars

=============================================================================
