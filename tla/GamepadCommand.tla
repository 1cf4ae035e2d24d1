---------------------------- MODULE GamepadCommand ----------------------------
(***************************************************************************)
(* The gamepad as a command source: which of the connected pads              *)
(* se3_input::GamepadInput reads, and how zoo::serial_leg_gamepad_command    *)
(* turns button levels, sampled at the control rate, into the enable toggle  *)
(* and the height steps.                                                     *)
(*                                                                         *)
(* poll() drains every pending gilrs event before it looks at a pad, and     *)
(* nothing else reads what the events change, so an event updates active_id  *)
(* as it happens.                                                            *)
(***************************************************************************)
EXTENDS Integers, FiniteSetsExt

CONSTANTS
  Pads,          \* gamepad ids
  Selectors,     \* the values of --gamepad: AnyPad (Auto), or the Index of one pad
  AnyPad,
  MinHeight,     \* limits.min_height_m, in units of height_step_m
  MaxHeight,     \* limits.max_height_m
  FixedHeight,   \* the height of the fixed command: start value and fallback
  None

ASSUME GamepadAssumption ==
  /\ Pads \subseteq Nat
  /\ AnyPad \notin Nat /\ None \notin Nat
  /\ Selectors \subseteq Nat \cup {AnyPad}
  /\ {MinHeight, MaxHeight, FixedHeight} \subseteq Int
  /\ MinHeight <= FixedHeight /\ FixedHeight <= MaxHeight

VARIABLES
  selector,            \* GamepadInput.selector, which stays as it was given
  plugged,             \* connected pads
  held,                \* buttons held down on each pad
  activeId,            \* GamepadInput.active_id
  height,              \* GamepadCommandState.height_m
  previousDpadY,       \* .previous_dpad_y
  controlsEnabled,     \* .controls_enabled
  previousDownToggle,  \* .previous_down_toggle
  sample,              \* the RuntimeCommandSample returned last, or None
  lastRead,            \* ghost: the pad that was read last
  eastCounted,         \* ghost: its last press of East/B has toggled
  dpadCounted          \* ghost: its d-pad has stepped since it moved, or was sampled
                       \* where the controls are disabled

padVars == <<selector, plugged, held>>
stateVars == <<height, previousDpadY, controlsEnabled, previousDownToggle>>
ghostVars == <<lastRead, eastCounted, dpadCounted>>
vars == <<padVars, activeId, stateVars, sample, ghostVars>>

Buttons == {"east", "up", "down"}
Dpad == {"up", "down"}

Init ==
  /\ selector \in Selectors
  /\ plugged \in SUBSET Pads
  /\ held = [p \in Pads |-> {}]
  /\ activeId = None
  /\ height = FixedHeight
  /\ previousDpadY = 0
  /\ controlsEnabled = TRUE
  /\ previousDownToggle = FALSE
  /\ sample = None
  /\ lastRead = None
  /\ eastCounted = FALSE
  /\ dpadCounted = FALSE

-----------------------------------------------------------------------------
(* Which pad is read *)

MatchesSelector(p) == selector \in {AnyPad, p}

\* Every event of a matching pad selects it; only the loss of the active pad
\* clears the selection.
UpdateActiveId(p, event) ==
  activeId' = IF event = "Disconnected" /\ activeId = p THEN None
              ELSE IF MatchesSelector(p) THEN p ELSE activeId

\* The remembered pad, connected or not; else the first connected one.
ResolveActiveId ==
  LET candidates == {p \in plugged : MatchesSelector(p)} IN
  IF activeId # None THEN activeId
  ELSE IF candidates = {} THEN None ELSE Min(candidates)

Plug(p) ==
  /\ p \notin plugged
  /\ plugged' = plugged \cup {p}
  /\ UpdateActiveId(p, "Connected")
  /\ UNCHANGED <<selector, held, stateVars, sample, ghostVars>>

\* gilrs may or may not report the buttons of a lost pad as released.
Unplug(p) ==
  /\ p \in plugged
  /\ plugged' = plugged \ {p}
  /\ \E left \in {{}, held[p]} : held' = [held EXCEPT ![p] = left]
  /\ UpdateActiveId(p, "Disconnected")
  /\ UNCHANGED <<selector, stateVars, sample, ghostVars>>

Press(p, b) ==
  /\ p \in plugged
  /\ b \notin held[p]
  /\ held' = [held EXCEPT ![p] = @ \cup {b}]
  /\ eastCounted' = (eastCounted /\ ~(p = lastRead /\ b = "east"))
  /\ dpadCounted' = (dpadCounted /\ ~(p = lastRead /\ b \in Dpad))
  /\ UpdateActiveId(p, "ButtonPressed")
  /\ UNCHANGED <<selector, plugged, stateVars, sample, lastRead>>

Release(p, b) ==
  /\ p \in plugged
  /\ b \in held[p]
  /\ held' = [held EXCEPT ![p] = @ \ {b}]
  /\ dpadCounted' = (dpadCounted /\ ~(p = lastRead /\ b \in Dpad))
  /\ UpdateActiveId(p, "ButtonReleased")
  /\ UNCHANGED <<selector, plugged, stateVars, sample, eastCounted, lastRead>>

\* A stick or a trigger moves; its value is not modelled.
MoveStick(p) ==
  /\ p \in plugged
  /\ UpdateActiveId(p, "AxisChanged")
  /\ UNCHANGED <<padVars, stateVars, sample, ghostVars>>

-----------------------------------------------------------------------------
(* One sample of the command source *)

\* Up and down at once cancel out.
Direction(buttons) ==
  CASE buttons \cap Dpad = {"up"}   -> 1
    [] buttons \cap Dpad = {"down"} -> -1
    [] OTHER                        -> 0

\* Mutants: a button acts on its level, not on its edge.
TogglesWhileHeld(buttons) == "east" \in buttons
StepsWhileHeld(direction) == direction # 0

Clamp(h) == IF h < MinHeight THEN MinHeight ELSE IF h > MaxHeight THEN MaxHeight ELSE h

Toggled(buttons) == "east" \in buttons /\ ~previousDownToggle

StepsHeight(direction) == direction # 0 /\ direction # previousDpadY

\* serial_leg_gamepad_command on the buttons of the snapshot.
MapSnapshot(buttons) ==
  LET direction == Direction(buttons) IN
  /\ controlsEnabled' = (controlsEnabled # Toggled(buttons))
  /\ previousDownToggle' = ("east" \in buttons)
  /\ height' = IF controlsEnabled' /\ StepsHeight(direction)
               THEN Clamp(height + direction) ELSE height
  /\ previousDpadY' = direction

\* The ghosts of a sample of pad p.
Remember(p, buttons) ==
  LET direction == Direction(buttons)
      counts    == direction # 0 /\ (controlsEnabled' => StepsHeight(direction))
  IN /\ lastRead' = p
     /\ eastCounted' = (Toggled(buttons) \/ (p = lastRead /\ eastCounted))
     /\ dpadCounted' = (counts \/ (p = lastRead /\ dpadCounted))

\* GamepadCommandSource::sample.
Sample ==
  LET id == ResolveActiveId IN
  /\ activeId' = id
  /\ IF id = None
     THEN /\ sample' = [device |-> None, active |-> FALSE, height |-> FixedHeight]
          /\ UNCHANGED <<stateVars, ghostVars>>
     ELSE /\ MapSnapshot(held[id])
          /\ Remember(id, held[id])
          /\ sample' = [device |-> id,
                        active |-> id \in plugged /\ controlsEnabled',
                        height |-> height']
  /\ UNCHANGED padVars

PadEvent ==
  \E p \in Pads :
    \/ Plug(p) \/ Unplug(p) \/ MoveStick(p)
    \/ \E b \in Buttons : Press(p, b) \/ Release(p, b)

Next == PadEvent \/ Sample

Spec == Init /\ [][Next]_vars
-----------------------------------------------------------------------------
(* Properties *)

Samples == [device : Pads \cup {None}, active : BOOLEAN, height : MinHeight .. MaxHeight]

TypeOK ==
  /\ selector \in Selectors
  /\ plugged \subseteq Pads
  /\ held \in [Pads -> SUBSET Buttons]
  /\ activeId \in Pads \cup {None}
  /\ height \in MinHeight .. MaxHeight
  /\ previousDpadY \in -1 .. 1
  /\ controlsEnabled \in BOOLEAN
  /\ previousDownToggle \in BOOLEAN
  /\ sample \in Samples \cup {None}
  /\ lastRead \in Pads \cup {None}
  /\ eastCounted \in BOOLEAN /\ dpadCounted \in BOOLEAN

\* README: "East/B toggles whether the command is active".  As long as one pad
\* stays the one that is read, a press of its button toggles once, however long
\* and whatever happens to the pads meanwhile.  With GamepadSelector::Auto
\* another pad may be read in between, and a button still held is then an edge
\* again; with an index no other pad ever is.
OneTogglePerPress ==
  [][controlsEnabled' # controlsEnabled /\ eastCounted => lastRead # activeId']_vars

\* README: each up or down of the d-pad moves the height by one step.  As long as
\* one pad is read, its d-pad moves the height at most once until it is moved
\* itself, and not at all where it was moved while the controls were disabled
\* (previous_dpad_y is kept up to date in the early return as well).
OneStepPerPress ==
  [][height' # height /\ dpadCounted => lastRead # activeId']_vars
=============================================================================
