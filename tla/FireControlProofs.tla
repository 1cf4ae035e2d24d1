-------------------------- MODULE FireControlProofs --------------------------
(***************************************************************************)
(* The decisions of a control tick, for every value of their constants: the *)
(* rhythm of fire (FireControl), where the shots that count will hit       *)
(* (AimControl), and what arrives of a frame (CanFrames).                  *)
(***************************************************************************)
EXTENDS FireControl, AimControl, CanFrames, WellFoundedInduction, TLAPS

-----------------------------------------------------------------------------
(***************************************************************************)
(* FireControl: the rhythm, for every period, advance, burst, cooldown and *)
(* gap.  Each ghost clock of `since` runs against one stored time: what the *)
(* clock has gained since it was set, the stored time has lost, so the two *)
(* keep adding up to what they were set to.  Rhythm says so of the three   *)
(* pairs, and with the shape of the phase that is inductive.               *)
(***************************************************************************)

PhaseShape ==
  /\ phase.mode = "None" => phase.slot = Over /\ phase.hold = Over /\ ~phase.pulse
  /\ phase.mode = "Single" => phase.slot \in 0 .. FirstSlot /\ phase.hold = Over /\ phase.pulse
  /\ phase.mode = "Auto" => phase.slot >= 0 /\ phase.hold >= 0
  /\ phase.mode # "None" => phase.cooldown <= 0
  /\ route = "EnergyMechanism" => phase = ResetPhase
  /\ Armor => gap = Over
  /\ command = "AutoFire" => phase.mode = "Auto"

HoldRhythm ==
  phase.mode = "Auto" => since.viable + phase.hold <= LongestSlot + MinBurst

SingleRhythm ==
  Armor => IF phase.mode = "Single" THEN phase.slot + since.once >= FirstSlot
                                    ELSE since.once + Dt >= FirstSlot

GapRhythm ==
  ~Armor => IF gap > 0 THEN gap + since.once >= FireGap
                       ELSE since.once + Dt >= FireGap

CooldownRhythm ==
  IF phase.cooldown > 0 THEN phase.cooldown + since.burst >= Cooldown
                        ELSE since.burst + Dt >= Cooldown

Rhythm == HoldRhythm /\ SingleRhythm /\ GapRhythm /\ CooldownRhythm

FireInv == TypeOK /\ PhaseShape /\ Rhythm /\ ShotsNeedPermission

-----------------------------------------------------------------------------
(* Sizes *)

LEMMA LargerFacts ==
  ASSUME NEW a \in Int, NEW b \in Int
  PROVE  /\ Larger(a, b) \in {a, b} /\ Larger(a, b) \in Int
         /\ Larger(a, b) >= a /\ Larger(a, b) >= b
BY DEF Larger

LEMMA Sizes ==
  /\ Dt \in Nat /\ Dt > 0 /\ Over \in Int /\ Over = -Dt
  /\ FirstSlot \in Int /\ FirstSlot >= Dt
  /\ LongestSlot \in Nat /\ LongestSlot >= FirstSlot /\ LongestSlot >= SlotPeriod
  /\ Larger(FirstSlot, Dt) = FirstSlot
  /\ MinBurst \in Nat /\ Cooldown \in Nat /\ FireGap \in Nat
  /\ SlotPeriod \in Nat /\ Dt < SlotPeriod
  /\ Larger(Cooldown, 0) = Cooldown
<1>1. FirstSlot \in Int /\ FirstSlot >= Dt
  BY FireAssumption DEF FirstSlot
<1> QED
  BY <1>1, FireAssumption DEF Over, LongestSlot, Larger

LEMMA LongFacts ==
  /\ DOMAIN Long = {"viable", "once", "burst"}
  /\ Long = [viable |-> Long.viable, once |-> Long.once, burst |-> Long.burst]
  /\ Long.viable = LongestSlot + MinBurst + Dt
  /\ Long.once \in Nat /\ Long.once >= FirstSlot /\ Long.once >= FireGap
  /\ Long.burst = Cooldown
  /\ Long \in [viable : 0 .. Long.viable, once : 0 .. Long.once, burst : 0 .. Long.burst]
<1>1. /\ Larger(FirstSlot, FireGap) \in Nat
      /\ Larger(FirstSlot, FireGap) >= FirstSlot /\ Larger(FirstSlot, FireGap) >= FireGap
  BY Sizes DEF Larger
<1> QED
  BY <1>1, Sizes DEF Long

\* The ghosts a step leaves to themselves.
Since == [viable : 0 .. Long.viable, once : 0 .. Long.once, burst : 0 .. Long.burst]

LEMMA LaterFacts ==
  ASSUME since \in Since, NEW g \in {"viable", "once", "burst"}
  PROVE  /\ Later(g) \in 0 .. Long[g]
         /\ Later(g) <= since[g] + Dt
         /\ Later(g) = since[g] + Dt \/ Later(g) = Long[g]
<1>1. since[g] \in 0 .. Long[g] /\ Long[g] \in Nat
  BY LongFacts, Sizes DEF Since
<1> QED
  BY <1>1, Sizes DEF Later

\* What phase can be.
Phases ==
  [mode : {"None", "Auto", "Single"}, slot : Over .. LongestSlot,
   hold : Over .. LongestSlot + MinBurst, cooldown : Over .. Larger(Cooldown, 0),
   pulse : BOOLEAN]

LEMMA ResetFacts ==
  /\ ResetPhase \in Phases
  /\ ResetPhase.mode = "None" /\ ResetPhase.slot = Over /\ ResetPhase.hold = Over
  /\ ResetPhase.cooldown = Over /\ ResetPhase.pulse = FALSE
BY Sizes DEF ResetPhase, Phases

LEMMA DownFacts ==
  ASSUME NEW t \in Int, t >= Over
  PROVE  /\ Down(t) \in Int /\ Down(t) >= Over /\ Down(t) >= t - Dt
         /\ t >= Dt => Down(t) = t - Dt
         /\ t >= 0 => Down(t) = t - Dt
         /\ Down(t) > Over => Down(t) = t - Dt
         /\ t <= 0 => Down(t) = Over
         /\ t < Dt => Down(t) < 0
BY Sizes DEF Down, Larger

-----------------------------------------------------------------------------
(* The initial state, and the steps that reset everything *)

LEMMA InitHolds == Init => FireInv
<1> SUFFICES ASSUME Init PROVE FireInv
  OBVIOUS
<1>1. TypeOK
  <2>1. route \in Routes /\ command \in {"DoNothing", "AimOnly"} \cup Shots
    BY DEF Init, Routes, Shots
  <2>2. phase \in Phases /\ since \in Since /\ allowed \in BOOLEAN
    BY ResetFacts, LongFacts DEF Init, Since
  <2>3. gap \in Over .. FireGap
    BY Sizes DEF Init
  <2> QED
    BY <2>1, <2>2, <2>3 DEF TypeOK, Phases, Since
<1>2. PhaseShape
  BY ResetFacts DEF Init, PhaseShape, Armor
<1>3. Rhythm
  BY ResetFacts, LongFacts, Sizes
  DEF Init, Rhythm, HoldRhythm, SingleRhythm, GapRhythm, CooldownRhythm, Armor
<1> QED
  BY <1>1, <1>2, <1>3 DEF Init, FireInv, ShotsNeedPermission, Shots

\* A step that resets the phase and takes every ghost to its Long value.
LEMMA ResetKeeps ==
  ASSUME route' \in Routes, phase' = ResetPhase, gap' = Over,
         command' \in {"DoNothing", "AimOnly"}, allowed' = FALSE, since' = Long
  PROVE  FireInv'
<1>1. TypeOK'
  <2>1. command' \in {"DoNothing", "AimOnly"} \cup Shots
    BY DEF Shots
  <2>2. phase' \in Phases /\ since' \in Since /\ allowed' \in BOOLEAN
    BY ResetFacts, LongFacts DEF Since
  <2>3. gap' \in Over .. FireGap
    BY Sizes
  <2> QED
    BY <2>1, <2>2, <2>3 DEF TypeOK, Phases, Since
<1>2. PhaseShape'
  BY ResetFacts DEF PhaseShape, Armor
<1>3. Rhythm'
  BY ResetFacts, LongFacts, Sizes
  DEF Rhythm, HoldRhythm, SingleRhythm, GapRhythm, CooldownRhythm, Armor
<1> QED
  BY <1>1, <1>2, <1>3 DEF FireInv, ShotsNeedPermission, Shots

-----------------------------------------------------------------------------
(* A tick of the energy route *)

LEMMA EnergyKeeps ==
  ASSUME FireInv, EnergyNoTarget \/ EnergyAim
  PROVE  FireInv'
<1>1. /\ route = "EnergyMechanism" /\ route' = route /\ phase' = phase
      /\ phase = ResetPhase /\ gap \in Over .. FireGap /\ since \in Since
      /\ DOMAIN since = {"viable", "once", "burst"}
  BY DEF FireInv, TypeOK, PhaseShape, Since, EnergyNoTarget, EnergyAim
<1>2. /\ Down(gap) \in Over .. FireGap
      /\ Down(gap) > 0 => Down(gap) = gap - Dt
      /\ Down(gap) >= gap - Dt
  BY <1>1, Sizes, DownFacts DEF Down, Larger
<1>3. \A g \in {"viable", "once", "burst"} :
        /\ Later(g) \in 0 .. Long[g]
        /\ Later(g) = since[g] + Dt \/ Later(g) = Long[g]
  BY <1>1, LaterFacts
<1>4. IF gap > 0 THEN gap + since.once >= FireGap ELSE since.once + Dt >= FireGap
  BY <1>1 DEF FireInv, Rhythm, GapRhythm, Armor
<1>5. since.burst + Dt >= Cooldown
  BY <1>1, ResetFacts, Sizes DEF FireInv, Rhythm, CooldownRhythm
<1>6. /\ since'.viable = Later("viable") /\ since'.burst = Later("burst")
      /\ since' = [viable |-> since'.viable, once |-> since'.once, burst |-> since'.burst]
      /\ \/ since'.once = 0 /\ gap' = FireGap /\ command' = "ShotOnce" /\ allowed' = TRUE
         \/ /\ since'.once = Later("once") /\ gap' = Down(gap)
            /\ command' \in {"AimOnly", "DoNothing"} /\ allowed' \in BOOLEAN
  <2>1. CASE EnergyNoTarget
    BY <2>1, <1>1 DEF EnergyNoTarget
  <2>2. CASE EnergyAim
    BY <2>2, <1>1 DEF EnergyAim, GapStarted
  <2> QED
    BY <2>1, <2>2
<1>7. since'.viable \in 0 .. Long.viable /\ since'.once \in 0 .. Long.once
      /\ since'.burst \in 0 .. Long.burst
  BY <1>3, <1>6, LongFacts
<1>8. TypeOK'
  <2>1. since' \in Since
    BY <1>6, <1>7 DEF Since
  <2>2. phase' \in Phases /\ route' \in Routes
    BY <1>1, ResetFacts DEF Routes
  <2>3. gap' \in Over .. FireGap
    BY <1>2, <1>6, Sizes
  <2>4. command' \in {"DoNothing", "AimOnly"} \cup Shots /\ allowed' \in BOOLEAN
    BY <1>6 DEF Shots
  <2> QED
    BY <2>1, <2>2, <2>3, <2>4 DEF TypeOK, Since, Phases
<1>9. PhaseShape'
  BY <1>1, <1>6, ResetFacts DEF PhaseShape, Armor
<1>10. HoldRhythm' /\ SingleRhythm'
  BY <1>1, ResetFacts DEF HoldRhythm, SingleRhythm, Armor
<1>11. GapRhythm'
  <2>1. since.once \in Nat /\ Long.once \in Nat /\ Long.once >= FireGap
    BY <1>1, LongFacts DEF Since
  <2>2. CASE since'.once = 0 /\ gap' = FireGap
    BY <2>2, Sizes DEF GapRhythm
  <2>3. CASE since'.once = Later("once") /\ gap' = Down(gap)
    BY <2>1, <2>3, <1>1, <1>2, <1>3, <1>4, Sizes DEF GapRhythm
  <2> QED
    BY <2>2, <2>3, <1>6
<1>12. CooldownRhythm'
  BY <1>1, <1>3, <1>5, <1>6, <1>7, ResetFacts, LongFacts, Sizes DEF CooldownRhythm, Since
<1> QED
  BY <1>6, <1>8, <1>9, <1>10, <1>11, <1>12 DEF FireInv, Rhythm, ShotsNeedPermission, Shots

-----------------------------------------------------------------------------
(* A tick of an armor route *)

\* What Advanced makes of the phase.
LEMMA AdvancedFacts ==
  ASSUME FireInv, Armor, NEW late, NEW p, p = Advanced(late)
  PROVE  /\ p \in Phases
         /\ p.cooldown = Down(phase.cooldown)
         /\ phase.mode = "Auto" <=> p.mode = "Auto"
         /\ p.mode = "Auto" => /\ p.slot \in 0 .. LongestSlot
                               /\ p.hold = Down(phase.hold)
         /\ p.mode = "Single" => /\ phase.mode = "Single"
                                 /\ p.slot = phase.slot - Dt /\ p.slot \in 0 .. FirstSlot
                                 /\ p.hold = Over /\ p.pulse
         /\ p.mode = "None" => /\ p.slot = Over /\ p.hold = Over /\ ~p.pulse
                               /\ phase.mode = "Single" => phase.slot <= Dt
<1>1. /\ phase \in Phases /\ PhaseShape
      /\ phase.slot \in Int /\ phase.hold \in Int /\ phase.cooldown \in Int
      /\ phase.hold >= Over /\ phase.cooldown >= Over
      /\ phase.hold <= LongestSlot + MinBurst /\ phase.cooldown <= Cooldown
      /\ phase.slot <= LongestSlot
      /\ phase.mode \in {"None", "Auto", "Single"}
  BY Sizes DEF FireInv, TypeOK, Phases
<1> DEFINE q == [phase EXCEPT !.hold = Down(@), !.cooldown = Down(@)]
<1>2. /\ q \in Phases
      /\ q.mode = phase.mode /\ q.slot = phase.slot /\ q.pulse = phase.pulse
      /\ q.hold = Down(phase.hold) /\ q.cooldown = Down(phase.cooldown)
  <2>1. /\ Down(phase.hold) \in Over .. LongestSlot + MinBurst
        /\ Down(phase.cooldown) \in Over .. Larger(Cooldown, 0)
    BY <1>1, Sizes DEF Down, Larger
  <2> QED
    BY <2>1, <1>1 DEF Phases
<1>3. CASE phase.mode = "None"
  <2>1. p = q
    BY <1>2, <1>3 DEF Advanced
  <2> QED
    BY <2>1, <1>1, <1>2, <1>3, DownFacts, Sizes DEF PhaseShape
<1>4. CASE phase.mode = "Single"
  <2>1. phase.slot \in 0 .. FirstSlot /\ phase.hold = Over /\ phase.pulse
    BY <1>1, <1>4 DEF PhaseShape
  <2>2. Down(phase.hold) = Over
    BY <2>1, DownFacts, Sizes
  <2>3. CASE Running("slot", phase.slot - Dt, late)
    <3>1. p = [q EXCEPT !.slot = phase.slot - Dt]
      BY <1>2, <1>4, <2>3 DEF Advanced
    <3>2. phase.slot - Dt \in 0 .. FirstSlot
      BY <2>1, <2>3, Sizes DEF Running
    <3>3. phase.slot - Dt \in Over .. LongestSlot
      BY <3>2, Sizes
    <3>4. /\ p \in Phases /\ p.mode = "Single" /\ p.slot = phase.slot - Dt
          /\ p.hold = Over /\ p.pulse /\ p.cooldown = Down(phase.cooldown)
      BY <3>1, <3>3, <1>2, <1>4, <2>1, <2>2 DEF Phases
    <3> QED
      BY <3>2, <3>4, <1>4
  <2>4. CASE ~Running("slot", phase.slot - Dt, late)
    <3>1. p = [q EXCEPT !.mode = "None", !.slot = Over, !.hold = Over, !.pulse = FALSE]
      BY <1>2, <1>4, <2>4 DEF Advanced, Cleared
    <3>2. phase.slot <= Dt
      BY <2>1, <2>4, Sizes DEF Running
    <3>3. Over \in Over .. LongestSlot /\ Over \in Over .. LongestSlot + MinBurst
      BY Sizes
    <3>4. /\ p \in Phases /\ p.mode = "None" /\ p.slot = Over
          /\ p.hold = Over /\ ~p.pulse /\ p.cooldown = Down(phase.cooldown)
      BY <3>1, <3>3, <1>2 DEF Phases
    <3> QED
      BY <3>2, <3>4, <1>4
  <2> QED
    BY <2>3, <2>4
<1>5. CASE phase.mode = "Auto"
  <2>1. phase.slot >= 0 /\ phase.hold >= 0
    BY <1>1, <1>5 DEF PhaseShape
  <2>2. p = [q EXCEPT !.slot = NextSlot(phase.slot - Dt, late)]
    BY <1>2, <1>5 DEF Advanced
  <2>3. NextSlot(phase.slot - Dt, late) \in 0 .. LongestSlot
    BY <1>1, <2>1, Sizes DEF NextSlot, Running
  <2>4. NextSlot(phase.slot - Dt, late) \in Over .. LongestSlot
    BY <2>3, Sizes
  <2>5. /\ p \in Phases /\ p.mode = "Auto" /\ p.slot = NextSlot(phase.slot - Dt, late)
        /\ p.hold = Down(phase.hold) /\ p.cooldown = Down(phase.cooldown)
    BY <2>2, <2>4, <1>2, <1>5 DEF Phases
  <2> QED
    BY <2>3, <2>5, <1>5
<1> QED
  BY <1>1, <1>3, <1>4, <1>5

\* The three things an update can come to, p being the phase it starts from.
Quiet(p, open) ==
  /\ command' = "AimOnly" /\ phase' \in Phases
  /\ open => p.mode # "Single"
  /\ phase'.mode = "None" /\ phase'.slot = Over /\ phase'.hold = Over /\ ~phase'.pulse
  /\ phase'.cooldown = IF open /\ p.mode = "Auto" THEN Cooldown ELSE p.cooldown

Bursting(p, open, slots) ==
  /\ open /\ command' = "AutoFire" /\ phase' \in Phases
  /\ phase'.mode = "Auto" /\ phase'.slot >= 0 /\ phase'.hold >= 0
  /\ phase'.cooldown = p.cooldown /\ p.cooldown <= 0 /\ p.mode # "Single"
  /\ slots < HoldSlots => p.mode = "Auto" /\ phase'.hold = p.hold

Pulsing(p, open) ==
  /\ open /\ phase' \in Phases
  /\ phase'.mode = "Single" /\ phase'.slot \in 0 .. FirstSlot /\ phase'.hold = Over
  /\ phase'.pulse /\ phase'.cooldown = p.cooldown /\ p.cooldown <= 0
  /\ \/ p.mode = "Single" /\ phase'.slot = p.slot /\ command' = "AimOnly"
     \/ p.mode = "None" /\ phase'.slot = FirstSlot /\ command' = "ShotOnce"

LEMMA UpdateComesTo ==
  ASSUME FireInv, Armor, NEW open \in BOOLEAN, NEW slots \in Int, NEW late,
         PhaseUpdate(open, slots, late), NEW p, p = Advanced(late)
  PROVE  Quiet(p, open) \/ Bursting(p, open, slots) \/ Pulsing(p, open)
<1>1. /\ p \in Phases /\ p.cooldown = Down(phase.cooldown)
      /\ phase.mode = "Auto" <=> p.mode = "Auto"
      /\ p.mode = "Auto" => p.slot \in 0 .. LongestSlot
      /\ p.mode = "Single" => /\ phase.mode = "Single" /\ p.slot \in 0 .. FirstSlot
                              /\ p.hold = Over /\ p.pulse
      /\ p.mode = "None" => p.slot = Over /\ p.hold = Over /\ ~p.pulse
  BY AdvancedFacts
<1>2. /\ p.cooldown \in Int /\ p.hold \in Int /\ p.mode \in {"None", "Auto", "Single"}
      /\ p.pulse \in BOOLEAN
  BY <1>1, Sizes DEF Phases
<1>3. p.mode # "None" => p.cooldown <= 0
  <2>1. phase.mode # "None" => phase.cooldown <= 0 /\ phase.cooldown \in Int
                               /\ phase.cooldown >= Over
    BY Sizes DEF FireInv, TypeOK, PhaseShape
  <2> QED
    BY <2>1, <1>1, <1>2, DownFacts, Sizes
<1>4. /\ Cleared(p) \in Phases
      /\ Cleared(p).mode = "None" /\ Cleared(p).slot = Over /\ Cleared(p).hold = Over
      /\ ~Cleared(p).pulse /\ Cleared(p).cooldown = p.cooldown
  <2>1. Over \in Over .. LongestSlot /\ Over \in Over .. LongestSlot + MinBurst
    BY Sizes
  <2> QED
    BY <1>1, <2>1 DEF Cleared, Phases
<1>5. CASE GateClosed(p, open)
  BY <1>5, <1>4 DEF GateClosed, Fire, Quiet
<1>6. CASE open /\ Burst(p, slots)
  <2>1. /\ slots >= HoldSlots /\ p.mode = "Auto" /\ command' = "AutoFire"
        /\ phase' = [p EXCEPT !.hold = p.slot + MinBurst]
    BY <1>6 DEF Burst, Fire, HoldFromSlot
  <2>2. p.slot + MinBurst \in Over .. LongestSlot + MinBurst /\ p.slot + MinBurst >= 0
    BY <2>1, <1>1, Sizes
  <2>3. phase' \in Phases /\ phase'.mode = "Auto" /\ phase'.slot = p.slot
        /\ phase'.hold = p.slot + MinBurst /\ phase'.cooldown = p.cooldown
    BY <2>1, <2>2, <1>1 DEF Phases
  <2>4. ~(slots < HoldSlots) /\ p.slot >= 0 /\ p.cooldown <= 0
    BY <2>1, <1>1, <1>3, FireAssumption
  <2> QED
    BY <1>6, <2>1, <2>2, <2>3, <2>4 DEF Bursting
<1>7. CASE open /\ MechanicalHold(p, slots, late)
  <2>1. p.hold >= 0 /\ p.mode = "Auto" /\ command' = "AutoFire" /\ phase' = p
    BY <1>7, <1>2 DEF MechanicalHold, Running, Fire, Held
  <2>2. p.slot >= 0 /\ p.cooldown <= 0
    BY <2>1, <1>1, <1>3, Sizes
  <2> QED
    BY <1>7, <2>1, <2>2, <1>1 DEF Bursting
<1>8. CASE open /\ BurstEnds(p, slots, late)
  <2>1. p.mode = "Auto" /\ command' = "AimOnly"
        /\ phase' = [Cleared(p) EXCEPT !.cooldown = Cooldown]
    BY <1>8 DEF BurstEnds, Fire, RanOut
  <2>2. Cooldown \in Over .. Larger(Cooldown, 0)
    BY Sizes
  <2>3. phase' \in Phases /\ phase'.mode = "None" /\ phase'.slot = Over
        /\ phase'.hold = Over /\ ~phase'.pulse /\ phase'.cooldown = Cooldown
    BY <2>1, <2>2, <1>4 DEF Phases
  <2> QED
    BY <1>8, <2>1, <2>3 DEF Quiet
<1>9. CASE open /\ SinglePulse(p)
  <2>1. p.mode = "Single" /\ command' = "AimOnly" /\ phase' = [p EXCEPT !.pulse = TRUE]
    BY <1>9, <1>1 DEF SinglePulse, Fire
  <2>2. phase' \in Phases /\ phase'.mode = "Single" /\ phase'.slot = p.slot
        /\ phase'.hold = Over /\ phase'.pulse /\ phase'.cooldown = p.cooldown
    BY <2>1, <1>1 DEF Phases
  <2> QED
    BY <1>9, <2>1, <2>2, <1>1, <1>3 DEF Pulsing
<1>10. CASE open /\ CoolingDown(p, late)
  <2>1. p.mode = "None" /\ command' = "AimOnly" /\ phase' = p
    BY <1>10 DEF CoolingDown, Fire
  <2> QED
    BY <1>10, <2>1, <1>1 DEF Quiet
<1>11. CASE open /\ Enter(p, slots, late)
  <2>1. p.mode = "None" /\ p.cooldown <= 0
    BY <1>11, <1>2 DEF Enter, Running
  <2>2. FirstSlot \in Over .. LongestSlot /\ FirstSlot \in 0 .. FirstSlot
        /\ FirstSlot + MinBurst \in Over .. LongestSlot + MinBurst
        /\ FirstSlot + MinBurst >= 0 /\ FirstSlot >= 0
    BY Sizes
  <2>3. ASSUME NEW mode \in {"Auto", "Single"}
        PROVE  /\ Started(p, mode) \in Phases
               /\ Started(p, mode).mode = mode /\ Started(p, mode).slot = FirstSlot
               /\ Started(p, mode).hold = Over /\ Started(p, mode).cooldown = p.cooldown
    BY <2>1, <2>2, <1>1, Sizes DEF Started, Phases
  <2>4. CASE slots >= EnterSlots /\ Fire("AutoFire", HoldFromSlot(Started(p, "Auto")))
    <3>1. /\ command' = "AutoFire"
          /\ phase' = [Started(p, "Auto") EXCEPT !.hold = FirstSlot + MinBurst]
      BY <2>4, <2>3 DEF Fire, HoldFromSlot
    <3>2. phase' \in Phases /\ phase'.mode = "Auto" /\ phase'.slot = FirstSlot
          /\ phase'.hold = FirstSlot + MinBurst /\ phase'.cooldown = p.cooldown
      BY <3>1, <2>2, <2>3 DEF Phases
    <3>3. ~(slots < HoldSlots)
      BY <2>4, FireAssumption
    <3> QED
      BY <1>11, <2>1, <2>2, <3>1, <3>2, <3>3 DEF Bursting
  <2>5. CASE Fire("ShotOnce", Pulsed(p))
    <3>1. command' = "ShotOnce" /\ phase' = [Started(p, "Single") EXCEPT !.pulse = TRUE]
      BY <2>5 DEF Fire, Pulsed
    <3>2. phase' \in Phases /\ phase'.mode = "Single" /\ phase'.slot = FirstSlot
          /\ phase'.hold = Over /\ phase'.pulse /\ phase'.cooldown = p.cooldown
      BY <3>1, <2>3 DEF Phases
    <3> QED
      BY <1>11, <2>1, <2>2, <3>1, <3>2 DEF Pulsing
  <2>6. CASE Fire("AimOnly", Cleared(p))
    BY <2>6, <2>1, <1>4 DEF Fire, Quiet
  <2> QED
    BY <1>11, <2>4, <2>5, <2>6 DEF Enter
<1> QED
  BY <1>5, <1>6, <1>7, <1>8, <1>9, <1>10, <1>11 DEF PhaseUpdate

LEMMA AimKeeps ==
  ASSUME FireInv, Aim
  PROVE  FireInv'
<1>1. PICK in \in Gates, static \in BOOLEAN, late \in SUBSET Ties :
        \E slots \in Offered(in, static) :
          /\ PhaseUpdate(HardGate(in), slots, late)
          /\ allowed' = (in.feedback = "permit" /\ in.fire_permit /\ in.motion_uniform
                         /\ in.observation_stable)
          /\ since' =
               [viable |-> IF HardGate(in) /\ slots >= HoldSlots THEN 0 ELSE Later("viable"),
                once   |-> IF command' = "ShotOnce" THEN 0
                           ELSE IF HardGate(in) THEN Later("once") ELSE Long.once,
                burst  |-> IF phase.mode = "Auto" /\ HardGate(in) /\ phase'.mode = "None"
                           THEN 0 ELSE Later("burst")]
  BY DEF Aim
<1> DEFINE open == HardGate(in)
           p == Advanced(late)
<1>2. PICK slots \in Offered(in, static) :
        /\ PhaseUpdate(open, slots, late)
        /\ allowed' = (in.feedback = "permit" /\ in.fire_permit /\ in.motion_uniform
                       /\ in.observation_stable)
        /\ since' =
             [viable |-> IF open /\ slots >= HoldSlots THEN 0 ELSE Later("viable"),
              once   |-> IF command' = "ShotOnce" THEN 0
                         ELSE IF open THEN Later("once") ELSE Long.once,
              burst  |-> IF phase.mode = "Auto" /\ open /\ phase'.mode = "None"
                         THEN 0 ELSE Later("burst")]
  BY <1>1
<1>3. slots \in Int /\ open \in BOOLEAN
  <2>1. slots \in Int
    BY <1>2, FireAssumption, LargerFacts DEF Offered
  <2>2. open \in BOOLEAN
    BY DEF HardGate, GateMcu, Gates
  <2> QED
    BY <2>1, <2>2
<1>4. allowed' \in BOOLEAN /\ (open => allowed' = TRUE)
  BY <1>2 DEF HardGate, GateMcu
<1>5. /\ Armor /\ Armor' /\ route \in Routes /\ route' = route /\ gap' = gap /\ gap = Over
      /\ phase \in Phases /\ since \in Since /\ PhaseShape /\ Rhythm
      /\ route # "EnergyMechanism"
  BY DEF FireInv, TypeOK, Phases, Since, PhaseShape, Aim, Armor
<1>6. Quiet(p, open) \/ Bursting(p, open, slots) \/ Pulsing(p, open)
  BY <1>2, <1>3, <1>5, UpdateComesTo
<1> DEFINE c == p.cooldown
<1>7. /\ p \in Phases /\ p.cooldown = Down(phase.cooldown)
      /\ phase.mode = "Auto" <=> p.mode = "Auto"
      /\ p.mode = "Auto" => p.hold = Down(phase.hold)
      /\ p.mode = "Single" => phase.mode = "Single" /\ p.slot = phase.slot - Dt
      /\ p.mode = "None" /\ phase.mode = "Single" => phase.slot <= Dt
  BY <1>5, AdvancedFacts
<1> HIDE DEF open, p
<1>8. \A g \in {"viable", "once", "burst"} :
        /\ Later(g) \in 0 .. Long[g]
        /\ Later(g) <= since[g] + Dt
        /\ Later(g) = since[g] + Dt \/ Later(g) = Long[g]
  BY <1>5, LaterFacts
<1>9. /\ Later("viable") \in 0 .. Long.viable /\ Later("once") \in 0 .. Long.once
      /\ Later("burst") \in 0 .. Long.burst
      /\ Later("viable") <= since.viable + Dt
      /\ Later("once") = since.once + Dt \/ Later("once") = Long.once
      /\ Later("burst") = since.burst + Dt \/ Later("burst") = Cooldown
      /\ since.viable \in 0 .. Long.viable /\ since.once \in 0 .. Long.once
      /\ since.burst \in 0 .. Long.burst
  BY <1>5, <1>8, LongFacts DEF Since
<1>10. since' \in Since
  BY <1>2, <1>9, LongFacts, Sizes DEF Since
<1>11. /\ phase' \in Phases
       /\ command' \in {"AimOnly"} \cup Shots
       /\ command' \in Shots => open
  BY <1>6 DEF Quiet, Bursting, Pulsing, Shots
<1>12. TypeOK'
  <2>1. gap' \in Over .. FireGap /\ route' \in Routes
    BY <1>5, Sizes
  <2> QED
    BY <2>1, <1>4, <1>10, <1>11 DEF TypeOK, Since, Phases
<1>13. PhaseShape'
  <2>1. phase'.mode # "None" => phase'.cooldown <= 0
    BY <1>6 DEF Quiet, Bursting, Pulsing
  <2>2. phase'.mode = "None" => phase'.slot = Over /\ phase'.hold = Over /\ ~phase'.pulse
    BY <1>6 DEF Quiet, Bursting, Pulsing
  <2>3. phase'.mode = "Single" =>
          phase'.slot \in 0 .. FirstSlot /\ phase'.hold = Over /\ phase'.pulse
    BY <1>6 DEF Quiet, Bursting, Pulsing
  <2>4. phase'.mode = "Auto" => phase'.slot >= 0 /\ phase'.hold >= 0
    BY <1>6 DEF Quiet, Bursting, Pulsing
  <2>5. command' = "AutoFire" => phase'.mode = "Auto"
    BY <1>6 DEF Quiet, Bursting, Pulsing
  <2> QED
    BY <2>1, <2>2, <2>3, <2>4, <2>5, <1>5 DEF PhaseShape
<1>14. HoldRhythm'
  <2> SUFFICES ASSUME phase'.mode = "Auto"
      PROVE  since'.viable + phase'.hold <= LongestSlot + MinBurst
    BY DEF HoldRhythm
  <2>1. Bursting(p, open, slots)
    BY <1>6 DEF Quiet, Pulsing
  <2>2. CASE slots >= HoldSlots
    <3>1. since'.viable = 0
      BY <2>1, <2>2, <1>2 DEF Bursting
    <3> QED
      BY <3>1, <1>11, Sizes DEF Phases
  <2>3. CASE slots < HoldSlots
    <3>1. phase'.hold = Down(phase.hold) /\ phase.mode = "Auto" /\ phase'.hold >= 0
      BY <2>1, <2>3, <1>7 DEF Bursting
    <3>2. since'.viable = Later("viable")
      BY <2>3, <1>2, <1>3, FireAssumption
    <3>3. /\ since.viable + phase.hold <= LongestSlot + MinBurst
          /\ phase.hold \in Int /\ phase.hold >= Over
      BY <3>1, <1>5, Sizes DEF Rhythm, HoldRhythm, Phases
    <3>4. phase'.hold = phase.hold - Dt
      BY <3>1, <3>3, DownFacts, Sizes
    <3> QED
      BY <3>2, <3>3, <3>4, <1>9, LongFacts, Sizes
  <2> QED
    BY <2>2, <2>3, <1>3, FireAssumption
<1>15. SingleRhythm'
  <2>1. IF phase.mode = "Single" THEN phase.slot + since.once >= FirstSlot
                                 ELSE since.once + Dt >= FirstSlot
    BY <1>5 DEF Rhythm, SingleRhythm
  <2>2. /\ phase.mode = "Single" => phase.slot \in 0 .. FirstSlot
        /\ Long.once >= FirstSlot /\ Long.once \in Nat
    BY <1>5, LongFacts DEF PhaseShape
  <2>3. CASE phase'.mode = "Single"
    <3>1. Pulsing(p, open)
      BY <2>3, <1>6 DEF Quiet, Bursting
    <3>2. CASE command' = "ShotOnce"
      <4>1. since'.once = 0 /\ phase'.slot = FirstSlot
        BY <3>1, <3>2, <1>2 DEF Pulsing
      <4> QED
        BY <2>3, <4>1, <1>5, Sizes DEF SingleRhythm
    <3>3. CASE command' # "ShotOnce"
      <4>1. /\ since'.once = Later("once") /\ phase'.slot = phase.slot - Dt
            /\ phase.mode = "Single" /\ phase'.slot \in 0 .. FirstSlot
        BY <3>1, <3>3, <1>2, <1>7 DEF Pulsing
      <4>2. phase'.slot + since'.once >= FirstSlot
        BY <4>1, <2>1, <2>2, <1>9, LongFacts, Sizes
      <4> QED
        BY <2>3, <4>2, <1>5 DEF SingleRhythm
    <3> QED
      BY <3>2, <3>3
  <2>4. CASE phase'.mode # "Single"
    <3>1. Quiet(p, open) \/ Bursting(p, open, slots)
      BY <2>4, <1>6 DEF Pulsing
    <3>2. command' # "ShotOnce"
      BY <3>1 DEF Quiet, Bursting
    <3>3. since'.once = Later("once") \/ since'.once = Long.once
      BY <3>2, <1>2
    <3>4. CASE since'.once = Long.once
      BY <3>4, <2>2, <2>4, <1>5, Sizes DEF SingleRhythm
    <3>5. CASE since'.once = Later("once") /\ since'.once # Long.once
      <4>1. open
        BY <3>2, <3>5, <1>2
      <4>2. p.mode # "Single"
        BY <3>1, <4>1 DEF Quiet, Bursting
      <4>3. phase.mode = "Single" => phase.slot <= Dt
        BY <4>2, <1>7 DEF Phases
      <4>4. since.once + Dt >= FirstSlot
        BY <4>3, <2>1, <2>2, <1>9, LongFacts, Sizes
      <4>5. since'.once + Dt >= FirstSlot
        BY <4>4, <3>5, <2>2, <1>9, LongFacts, Sizes
      <4> QED
        BY <4>5, <2>4, <1>5 DEF SingleRhythm
    <3> QED
      BY <3>3, <3>4, <3>5
  <2> QED
    BY <2>3, <2>4
<1>16. GapRhythm'
  BY <1>5 DEF GapRhythm
<1>17. CooldownRhythm'
  <2>1. /\ IF phase.cooldown > 0 THEN phase.cooldown + since.burst >= Cooldown
                                 ELSE since.burst + Dt >= Cooldown
        /\ phase.cooldown \in Int /\ phase.cooldown >= Over
    BY <1>5, Sizes DEF Rhythm, CooldownRhythm, Phases
  <2>2. /\ Down(phase.cooldown) \in Int /\ Down(phase.cooldown) >= phase.cooldown - Dt
        /\ Down(phase.cooldown) > 0 => Down(phase.cooldown) = phase.cooldown - Dt
    BY <2>1, DownFacts, Sizes
  <2>3. CASE phase'.mode = "None" /\ open /\ phase.mode = "Auto"
    <3>1. Quiet(p, open)
      BY <2>3, <1>6 DEF Bursting, Pulsing
    <3>2. phase'.cooldown = Cooldown
      BY <3>1, <2>3, <1>7 DEF Quiet
    <3>3. since'.burst = 0
      BY <2>3, <1>2
    <3> QED
      BY <3>2, <3>3, Sizes DEF CooldownRhythm
  <2>4. CASE ~(phase'.mode = "None" /\ open /\ phase.mode = "Auto")
    <3>1. since'.burst = Later("burst")
      BY <2>4, <1>2
    <3>2. phase'.cooldown = Down(phase.cooldown)
      BY <2>4, <1>6, <1>7 DEF Quiet, Bursting, Pulsing
    <3>3. since.burst + Dt >= Cooldown \/ phase.cooldown + since.burst >= Cooldown
      BY <2>1
    <3>4. CASE Later("burst") = Cooldown
      BY <3>1, <3>2, <3>4, <2>2, Sizes DEF CooldownRhythm
    <3>5. CASE Later("burst") = since.burst + Dt
      <4>1. CASE Down(phase.cooldown) > 0
        <5>1. phase.cooldown > 0
          BY <4>1, <2>1, <2>2, Sizes
        <5>2. Down(phase.cooldown) + Later("burst") >= Cooldown
          BY <5>1, <4>1, <3>5, <2>1, <2>2, <1>9, LongFacts, Sizes
        <5> QED
          BY <5>2, <4>1, <3>1, <3>2 DEF CooldownRhythm
      <4>2. CASE ~(Down(phase.cooldown) > 0)
        <5>1. phase.cooldown <= Dt
          BY <4>2, <2>1, <2>2, Sizes
        <5>2. Later("burst") + Dt >= Cooldown
          BY <5>1, <3>5, <2>1, <1>9, LongFacts, Sizes
        <5> QED
          BY <5>2, <4>2, <3>1, <3>2 DEF CooldownRhythm
      <4> QED
        BY <4>1, <4>2
    <3> QED
      BY <3>4, <3>5, <1>9
  <2> QED
    BY <2>3, <2>4
<1>18. ShotsNeedPermission'
  BY <1>4, <1>11 DEF ShotsNeedPermission
<1> QED
  BY <1>12, <1>13, <1>14, <1>15, <1>16, <1>17, <1>18 DEF FireInv, Rhythm

-----------------------------------------------------------------------------
(* The invariant *)

LEMMA StepKeeps ==
  ASSUME FireInv, [Next]_vars
  PROVE  FireInv'
<1>1. route \in Routes
  BY DEF FireInv, TypeOK
<1>2. CASE NoTarget \/ NoPlan
  <2>1. Armor /\ gap = Over
    BY <1>2 DEF NoTarget, NoPlan, FireInv, PhaseShape
  <2> QED
    BY <1>1, <1>2, <2>1, ResetKeeps DEF NoTarget, NoPlan, Fire
<1>3. CASE RouteChange
  BY <1>3, ResetKeeps DEF RouteChange
<1>4. CASE EnergyNoTarget \/ EnergyAim
  BY <1>4, EnergyKeeps
<1>5. CASE Aim
  BY <1>5, AimKeeps
<1>6. CASE UNCHANGED vars
  BY <1>6 DEF vars, FireInv, TypeOK, PhaseShape, Armor, Rhythm, HoldRhythm, SingleRhythm,
              GapRhythm, CooldownRhythm, ShotsNeedPermission
<1> QED
  BY <1>2, <1>3, <1>4, <1>5, <1>6 DEF Next

(* The phase keeps its shape and every stored time its rhythm, whatever the   *)
(* periods the controller is configured with.                                 *)
THEOREM FireInvariant == Spec => []FireInv
<1>1. Init => FireInv
  BY InitHolds
<1>2. FireInv /\ [Next]_vars => FireInv'
  BY StepKeeps
<1> QED
  BY <1>1, <1>2, PTL DEF Spec

(* Types of a tick: every stored time stays within its bounds.                *)
THEOREM TypeCorrect == Spec => []TypeOK
<1>1. FireInv => TypeOK
  BY DEF FireInv
<1> QED
  BY <1>1, FireInvariant, PTL

(* ShotPhaseController and EnergyMechanismController: no shot, and no tick of *)
(* a burst, without every permission.                                         *)
THEOREM FiringIsAllowed == Spec => []ShotsNeedPermission
<1>1. FireInv => ShotsNeedPermission
  BY DEF FireInv
<1> QED
  BY <1>1, FireInvariant, PTL

(* The mechanical hold ends in time, for every slot period and minimum burst. *)
THEOREM HoldStaysShort == Spec => []HoldIsShort
<1>1. FireInv => HoldIsShort
  <2> SUFFICES ASSUME FireInv, command = "AutoFire"
      PROVE  since.viable <= LongestSlot + MinBurst
    BY DEF HoldIsShort
  <2>1. phase.mode = "Auto" /\ phase.hold >= 0 /\ phase.hold \in Int
    BY Sizes DEF FireInv, PhaseShape, TypeOK
  <2>2. since.viable + phase.hold <= LongestSlot + MinBurst /\ since.viable \in Int
    BY <2>1, LongFacts, Sizes DEF FireInv, Rhythm, HoldRhythm, TypeOK
  <2> QED
    BY <2>1, <2>2, Sizes
<1> QED
  BY <1>1, FireInvariant, PTL

-----------------------------------------------------------------------------
(* What a step may not do *)

\* A tick that shoots finds Single over or the cooldown over.
LEMMA ShootingTick ==
  ASSUME FireInv, Aim, command' \in Shots
  PROVE  /\ command' = "ShotOnce" => since.once + Dt >= FirstSlot
         /\ since.burst + Dt >= Cooldown
<1>1. PICK in \in Gates, static \in BOOLEAN, late \in SUBSET Ties :
        \E slots \in Offered(in, static) : PhaseUpdate(HardGate(in), slots, late)
  BY DEF Aim
<1>2. PICK slots \in Offered(in, static) : PhaseUpdate(HardGate(in), slots, late)
  BY <1>1
<1>3. slots \in Int
  BY FireAssumption, LargerFacts DEF Offered
<1>4. HardGate(in) \in BOOLEAN
  BY DEF HardGate, GateMcu, Gates
<1> DEFINE open == HardGate(in)
           p == Advanced(late)
<1>5. Armor /\ phase \in Phases /\ since \in Since /\ PhaseShape /\ Rhythm
  BY DEF FireInv, TypeOK, Phases, Since, Aim
<1>6. Quiet(p, open) \/ Bursting(p, open, slots) \/ Pulsing(p, open)
  BY <1>2, <1>3, <1>4, <1>5, UpdateComesTo
<1>7. /\ p \in Phases /\ p.cooldown = Down(phase.cooldown)
      /\ p.mode = "None" => phase.mode # "Auto"
      /\ p.mode = "None" /\ phase.mode = "Single" => phase.slot <= Dt
  BY <1>5, AdvancedFacts
<1> HIDE DEF open, p
<1>8. p.cooldown <= 0 /\ (command' = "ShotOnce" => p.mode = "None")
  BY <1>6 DEF Quiet, Bursting, Pulsing, Shots
<1>9. since.once \in Int /\ since.burst \in Int
  BY <1>5, LongFacts, Sizes DEF Since
<1>10. since.burst + Dt >= Cooldown
  <2>1. phase.cooldown \in Int /\ phase.cooldown >= Over
    BY <1>5, Sizes DEF Phases
  <2>2. phase.cooldown <= Dt
    BY <2>1, <1>7, <1>8, DownFacts, Sizes
  <2> QED
    BY <2>1, <2>2, <1>5, <1>9, Sizes DEF Rhythm, CooldownRhythm
<1>11. command' = "ShotOnce" => since.once + Dt >= FirstSlot
  <2> SUFFICES ASSUME command' = "ShotOnce" PROVE since.once + Dt >= FirstSlot
    OBVIOUS
  <2>1. phase.mode = "Single" => phase.slot <= Dt /\ phase.slot \in Int
    BY <1>7, <1>8, <1>5, Sizes DEF Phases
  <2> QED
    BY <2>1, <1>5, <1>9, Sizes DEF Rhythm, SingleRhythm
<1> QED
  BY <1>10, <1>11

(* Single shots are a first slot apart on the armor routes and fire_gap_s     *)
(* apart on the energy route, for every value of the two.                     *)
THEOREM SingleShotsAreSpaced == Spec => ShotsAreSpaced
<1>1. ASSUME FireInv, Next, command' = "ShotOnce"
      PROVE  since.once + Dt >= Spacing[IF Armor THEN "armor" ELSE "energy"]
  <2>1. CASE Aim
    <3>1. Armor /\ command' \in Shots
      BY <2>1, <1>1 DEF Aim, Shots
    <3> QED
      BY <2>1, <3>1, <1>1, ShootingTick DEF Spacing
  <2>2. CASE EnergyAim
    <3>1. ~Armor /\ gap \in Over .. FireGap /\ since.once \in Int
      BY <2>2, <1>1, LongFacts DEF EnergyAim, Armor, FireInv, TypeOK
    <3>2. Down(gap) <= 0
      BY <2>2, <1>1, <3>1, Sizes, DownFacts DEF EnergyAim, Running
    <3>3. gap <= Dt
      BY <3>1, <3>2, Sizes, DownFacts
    <3>4. since.once + Dt >= FireGap
      BY <3>1, <3>3, <1>1, Sizes DEF FireInv, Rhythm, GapRhythm
    <3> QED
      BY <3>1, <3>4 DEF Spacing
  <2>3. CASE NoTarget \/ NoPlan \/ EnergyNoTarget \/ RouteChange
    BY <2>3, <1>1 DEF NoTarget, NoPlan, EnergyNoTarget, RouteChange, Fire
  <2> QED
    BY <2>1, <2>2, <2>3, <1>1 DEF Next
<1>2. FireInv /\ [Next]_vars =>
        [command' = "ShotOnce" =>
           since.once + Dt >= Spacing[IF Armor THEN "armor" ELSE "energy"]]_vars
  BY <1>1
<1> QED
  BY <1>2, FireInvariant, PTL DEF Spec, ShotsAreSpaced

(* A burst that ran out of slots keeps its cooldown, for every cooldown.      *)
THEOREM CooldownIsAlwaysKept == Spec => CooldownIsKept
<1>1. ASSUME FireInv, Next, command' \in Shots, Armor
      PROVE  since.burst + Dt >= Cooldown
  <2>1. CASE Aim
    BY <2>1, <1>1, ShootingTick
  <2>2. CASE EnergyNoTarget \/ EnergyAim
    BY <2>2, <1>1 DEF EnergyNoTarget, EnergyAim, Armor
  <2>3. CASE NoTarget \/ NoPlan \/ RouteChange
    BY <2>3, <1>1 DEF NoTarget, NoPlan, RouteChange, Fire, Shots
  <2> QED
    BY <2>1, <2>2, <2>3, <1>1 DEF Next
<1>2. FireInv /\ [Next]_vars =>
        [command' \in Shots /\ Armor => since.burst + Dt >= Cooldown]_vars
  BY <1>1
<1> QED
  BY <1>2, FireInvariant, PTL DEF Spec, CooldownIsKept

-----------------------------------------------------------------------------
(***************************************************************************)
(* AimControl: a slot counts while the unwrapped reference is near the     *)
(* prediction.  That it is then on the circle that the two are near takes two *)
(* facts: however it is unwrapped, the reference looks where the aim will be *)
(* (ReferenceIsTheAim), and the shortest way round is no longer than the way *)
(* that was measured (NormalizedIsShortest).                               *)
(***************************************************************************)

(***************************************************************************)
(* The circle.                                                              *)
(***************************************************************************)
Turns(k) == k * FullTurn
SameDirection(a, b) == \E k \in Int : a = b + Turns(k)

\* Whole turns add up, and any but none is a turn at least.
LEMMA TurnsAdd ==
  ASSUME NEW k \in Int, NEW j \in Int
  PROVE  /\ Turns(k) \in Int
         /\ Turns(k + j) = Turns(k) + Turns(j)
         /\ Turns(k - j) = Turns(k) - Turns(j)
         /\ Turns(0) = 0
         /\ k > 0 => Turns(k) >= FullTurn
         /\ k < 0 => Turns(k) <= -FullTurn
<1>1. FullTurn \in Nat \ {0}
  BY AimAssumption
<1> QED  BY <1>1 DEF Turns

\* Looking in the same direction is an equivalence, and does not depend on the origin.
LEMMA SameIsEquivalence ==
  ASSUME NEW a \in Int, NEW b \in Int, NEW c \in Int
  PROVE  /\ SameDirection(a, a)
         /\ SameDirection(a, b) => SameDirection(b, a)
         /\ SameDirection(a, b) /\ SameDirection(b, c) => SameDirection(a, c)
         /\ SameDirection(a, b) => SameDirection(a + c, b + c) /\ SameDirection(a - c, b - c)
<1>1. SameDirection(a, a)
  <2>1. a = a + Turns(0)
    BY TurnsAdd
  <2> QED  BY <2>1 DEF SameDirection
<1>2. ASSUME SameDirection(a, b) PROVE SameDirection(b, a)
  <2>1. PICK k \in Int : a = b + Turns(k)
    BY <1>2 DEF SameDirection
  <2>2. Turns(0 - k) = Turns(0) - Turns(k) /\ Turns(0) = 0 /\ Turns(k) \in Int
    BY TurnsAdd
  <2>3. b = a + Turns(0 - k)
    BY <2>1, <2>2
  <2> QED  BY <2>3 DEF SameDirection
<1>3. ASSUME SameDirection(a, b), SameDirection(b, c) PROVE SameDirection(a, c)
  <2>1. PICK k \in Int : a = b + Turns(k)
    BY <1>3 DEF SameDirection
  <2>2. PICK j \in Int : b = c + Turns(j)
    BY <1>3 DEF SameDirection
  <2>3. Turns(j + k) = Turns(j) + Turns(k) /\ Turns(k) \in Int /\ Turns(j) \in Int
    BY TurnsAdd
  <2>4. a = c + Turns(j + k)
    BY <2>1, <2>2, <2>3
  <2> QED  BY <2>4 DEF SameDirection
<1>4. ASSUME SameDirection(a, b)
      PROVE  SameDirection(a + c, b + c) /\ SameDirection(a - c, b - c)
  <2>1. PICK k \in Int : a = b + Turns(k)
    BY <1>4 DEF SameDirection
  <2>2. Turns(k) \in Int
    BY TurnsAdd
  <2>3. a + c = (b + c) + Turns(k) /\ a - c = (b - c) + Turns(k)
    BY <2>1, <2>2
  <2> QED  BY <2>3 DEF SameDirection
<1> QED  BY <1>1, <1>2, <1>3, <1>4

\* The representative of a direction: where it lies, and that it is one.
LEMMA NormalizedIsSame ==
  ASSUME NEW a \in Int
  PROVE  /\ Normalized(a) \in Int
         /\ Normalized(a) >= -(FullTurn \div 2)
         /\ Normalized(a) < FullTurn - FullTurn \div 2
         /\ SameDirection(Normalized(a), a)
<1> DEFINE h == FullTurn \div 2
           q == (a + h) \div FullTurn
           r == (a + h) % FullTurn
<1>1. FullTurn \in Nat \ {0} /\ h \in Nat
  BY AimAssumption
<1>2. a + h \in Int
  BY <1>1
<1>3. q \in Int /\ r \in 0 .. FullTurn - 1 /\ a + h = q * FullTurn + r
  <2> HIDE DEF h
  <2> QED  BY <1>1, <1>2
<1>4. Normalized(a) = r - h
  BY DEF Normalized
<1> HIDE DEF h, q, r
<1>5. Turns(q) = q * FullTurn /\ Turns(q) \in Int /\ Turns(0 - q) = Turns(0) - Turns(q) /\ Turns(0) = 0
  BY <1>3, TurnsAdd DEF Turns
<1>6. Normalized(a) = a + Turns(0 - q)
  BY <1>1, <1>3, <1>4, <1>5
<1>7. SameDirection(Normalized(a), a)
  <2>1. 0 - q \in Int
    BY <1>3
  <2> QED  BY <1>6, <2>1 DEF SameDirection
<1> QED  BY <1>1, <1>3, <1>4, <1>7 DEF h

\* A direction has one representative.
LEMMA OneRepresentative ==
  ASSUME NEW a \in Int, NEW b \in Int, SameDirection(a, b),
         a >= -(FullTurn \div 2), a < FullTurn - FullTurn \div 2,
         b >= -(FullTurn \div 2), b < FullTurn - FullTurn \div 2
  PROVE  a = b
<1>1. FullTurn \in Nat \ {0} /\ FullTurn \div 2 \in Nat
  BY AimAssumption
<1>2. PICK k \in Int : a = b + Turns(k)
  BY DEF SameDirection
<1>3. /\ Turns(k) \in Int /\ Turns(0) = 0
      /\ k > 0 => Turns(k) >= FullTurn
      /\ k < 0 => Turns(k) <= -FullTurn
  BY TurnsAdd
<1> QED  BY <1>1, <1>2, <1>3

\* Angles of the same direction have the same representative.
LEMMA SameNormalized ==
  ASSUME NEW a \in Int, NEW b \in Int, SameDirection(a, b)
  PROVE  Normalized(a) = Normalized(b)
<1>1. /\ Normalized(a) \in Int /\ Normalized(b) \in Int
      /\ SameDirection(Normalized(a), a) /\ SameDirection(Normalized(b), b)
  BY NormalizedIsSame
<1>2. SameDirection(Normalized(a), b)
  BY <1>1, SameIsEquivalence
<1>3. SameDirection(b, Normalized(b))
  BY <1>1, SameIsEquivalence
<1>4. SameDirection(Normalized(a), Normalized(b))
  BY <1>1, <1>2, <1>3, SameIsEquivalence
<1> QED  BY <1>1, <1>4, NormalizedIsSame, OneRepresentative

\* The shortest way round is no longer than any way.
LEMMA NormalizedIsShortest ==
  ASSUME NEW a \in Int
  PROVE  Magnitude(Normalized(a)) <= Magnitude(a)
<1>1. FullTurn \in Nat \ {0} /\ FullTurn \div 2 \in Nat
      /\ FullTurn - FullTurn \div 2 \in {FullTurn \div 2, FullTurn \div 2 + 1}
  BY AimAssumption
<1>2. /\ Normalized(a) \in Int
      /\ Normalized(a) >= -(FullTurn \div 2)
      /\ Normalized(a) < FullTurn - FullTurn \div 2
      /\ SameDirection(Normalized(a), a)
  BY NormalizedIsSame
<1>3. CASE a >= -(FullTurn \div 2) /\ a < FullTurn - FullTurn \div 2
  <2>1. Normalized(a) = a
    BY <1>2, <1>3, OneRepresentative
  <2> QED  BY <2>1 DEF Magnitude
<1>4. CASE ~(a >= -(FullTurn \div 2) /\ a < FullTurn - FullTurn \div 2)
  BY <1>1, <1>2, <1>4 DEF Magnitude
<1> QED  BY <1>3, <1>4

\* closest_equivalent_angle_deg changes the turn, not the direction.
LEMMA EquivalentIsSame ==
  ASSUME NEW reference \in Int, NEW angle \in Int
  PROVE  /\ Equivalent(reference, angle) \in Int
         /\ SameDirection(Equivalent(reference, angle), angle)
<1> DEFINE n == Normalized(angle - reference)
<1>1. n \in Int /\ SameDirection(n, angle - reference)
  BY NormalizedIsSame
<1>2. Equivalent(reference, angle) = n + reference
  BY <1>1 DEF Equivalent
<1> HIDE DEF n
<1>3. SameDirection(n + reference, (angle - reference) + reference)
  <2> DEFINE way == angle - reference
  <2>1. way \in Int /\ SameDirection(n, way)
    BY <1>1
  <2> HIDE DEF way
  <2>2. SameDirection(n + reference, way + reference)
    BY <1>1, <2>1, SameIsEquivalence
  <2> QED  BY <2>2 DEF way
<1>4. (angle - reference) + reference = angle
  OBVIOUS
<1> QED  BY <1>1, <1>2, <1>3, <1>4

\* A set of numbers that has 0 and every successor has them all.
LEMMA Counting ==
  ASSUME NEW S, 0 \in S, \A n \in Nat : n \in S => n + 1 \in S
  PROVE  Nat \subseteq S
<1> SUFFICES ASSUME Nat \ S # {} PROVE FALSE
  OBVIOUS
<1>1. IsWellFoundedOn(OpToRel(<, Nat), Nat)
  BY NatLessThanWellFounded, Zenon
<1>2. Nat \ S \subseteq Nat
  OBVIOUS
<1>3. \E x \in Nat \ S : \A y \in Nat \ S : ~(<<y, x>> \in OpToRel(<, Nat))
  BY <1>1, <1>2, WFMin
<1>4. PICK x \in Nat \ S : \A y \in Nat \ S : ~(<<y, x>> \in OpToRel(<, Nat))
  BY <1>3
<1>5. x # 0 /\ x - 1 \in Nat /\ (x - 1) + 1 = x
  OBVIOUS
<1>6. x - 1 \notin S
  BY <1>5
<1>7. <<x - 1, x>> \in OpToRel(<, Nat)
  BY <1>5 DEF OpToRel
<1> QED  BY <1>4, <1>5, <1>6, <1>7

(***************************************************************************)
(* The reference, as far as the horizon.                                    *)
(***************************************************************************)
RefStep(yaw, rate, ref, i) == Equivalent(ref[i - 1], Normalized(yaw + i * rate))
RefOf(ref, yaw, rate, last, n) ==
  ref = [i \in 0 .. n |-> IF i = 0 THEN Equivalent(last, yaw) ELSE RefStep(yaw, rate, ref, i)]

\* Unwrapped is what its recursion says.
LEMMA ReferenceUnfolds ==
  ASSUME NEW yaw, NEW rate, NEW last
  PROVE  RefOf(Unwrapped(yaw, rate, last), yaw, rate, last, Horizon - 1)
<1> DEFINE S == {n \in Nat : \E ref : RefOf(ref, yaw, rate, last, n)}
<1>1. 0 \in S
  <2>1. RefOf([i \in 0 .. 0 |-> Equivalent(last, yaw)], yaw, rate, last, 0)
    BY DEF RefOf
  <2> QED  BY <2>1
<1>2. ASSUME NEW n \in Nat, n \in S PROVE n + 1 \in S
  <2>1. PICK ref : RefOf(ref, yaw, rate, last, n)
    BY <1>2
  <2> DEFINE next == [i \in 0 .. n + 1 |->
                        IF i = n + 1 THEN RefStep(yaw, rate, ref, n + 1) ELSE ref[i]]
  <2>2. ASSUME NEW i \in 0 .. n + 1
        PROVE  next[i] = IF i = 0 THEN Equivalent(last, yaw) ELSE RefStep(yaw, rate, next, i)
    <3>0. i # 0 => next[i - 1] = ref[i - 1]
      OBVIOUS
    <3>3. i # 0 => RefStep(yaw, rate, next, i) = RefStep(yaw, rate, ref, i)
      BY <3>0 DEF RefStep
    <3>1. CASE i = n + 1
      BY <3>1, <3>3
    <3>2. CASE i \in 0 .. n
      <4>1. next[i] = ref[i]
        BY <3>2
      <4>2. ref[i] = IF i = 0 THEN Equivalent(last, yaw) ELSE RefStep(yaw, rate, ref, i)
        BY <2>1, <3>2 DEF RefOf
      <4> QED  BY <4>1, <4>2, <3>3
    <3> QED  BY <3>1, <3>2
  <2>3. RefOf(next, yaw, rate, last, n + 1)
    BY <2>2 DEF RefOf
  <2> QED  BY <2>3
<1>3. Horizon - 1 \in S
  <2> HIDE DEF S
  <2> QED  BY <1>1, <1>2, Counting, AimAssumption
<1>4. \E ref : RefOf(ref, yaw, rate, last, Horizon - 1)
  BY <1>3
<1>5. Unwrapped(yaw, rate, last) = CHOOSE ref : RefOf(ref, yaw, rate, last, Horizon - 1)
  BY DEF Unwrapped, RefOf, RefStep
<1> QED  BY <1>4, <1>5

\* Unwrapped or not, the reference looks where the aim will be.
LEMMA ReferenceIsTheAim ==
  ASSUME NEW yaw \in Int, NEW rate \in Int, NEW last \in Int, NEW i \in 0 .. Horizon - 1
  PROVE  /\ Unwrapped(yaw, rate, last)[i] \in Int
         /\ SameDirection(Unwrapped(yaw, rate, last)[i], yaw + i * rate)
<1> DEFINE ref == Unwrapped(yaw, rate, last)
           Good(n) == ref[n] \in Int /\ SameDirection(ref[n], yaw + n * rate)
           S == {n \in Nat : n <= Horizon - 1 => Good(n)}
<1>1. RefOf(ref, yaw, rate, last, Horizon - 1)
  BY ReferenceUnfolds
<1> HIDE DEF ref
<1>2. 0 \in S
  <2>1. ref[0] = Equivalent(last, yaw)
    BY <1>1, AimAssumption DEF RefOf
  <2>2. yaw + 0 * rate = yaw
    OBVIOUS
  <2>3. Good(0)
    BY <2>1, <2>2, EquivalentIsSame
  <2> QED  BY <2>3
<1>3. ASSUME NEW n \in Nat, n \in S PROVE n + 1 \in S
  <2> SUFFICES ASSUME n + 1 <= Horizon - 1 PROVE Good(n + 1)
    OBVIOUS
  <2>1. n <= Horizon - 1 /\ n + 1 \in 0 .. Horizon - 1 /\ (n + 1) - 1 = n /\ n + 1 # 0
    BY AimAssumption
  <2>2. ref[n] \in Int
    BY <1>3, <2>1
  <2>3. ref[n + 1] = RefStep(yaw, rate, ref, n + 1)
    BY <1>1, <2>1 DEF RefOf
  <2> DEFINE a == yaw + (n + 1) * rate
  <2>4. a \in Int
    OBVIOUS
  <2>5. ref[n + 1] = Equivalent(ref[n], Normalized(a))
    BY <2>1, <2>3 DEF RefStep
  <2> HIDE DEF a
  <2>6. Normalized(a) \in Int /\ SameDirection(Normalized(a), a)
    BY <2>4, NormalizedIsSame
  <2>7. ref[n + 1] \in Int /\ SameDirection(ref[n + 1], Normalized(a))
    BY <2>2, <2>5, <2>6, EquivalentIsSame
  <2>8. SameDirection(ref[n + 1], a)
    BY <2>4, <2>6, <2>7, SameIsEquivalence
  <2> QED  BY <2>7, <2>8 DEF a
<1>4. i \in S
  <2>1. i \in Nat
    BY AimAssumption
  <2> HIDE DEF S
  <2> QED  BY <1>2, <1>3, <2>1, Counting
<1>5. i <= Horizon - 1
  BY AimAssumption
<1> QED  BY <1>4, <1>5 DEF ref

(***************************************************************************)
(* The slots.                                                               *)
(***************************************************************************)
\* Of numbers with an upper bound, Max is one.
LEMMA LargestIsOne ==
  ASSUME NEW T, NEW bound \in Nat, T \subseteq 0 .. bound, 0 \in T
  PROVE  Max(T) \in T
<1>1. SUFFICES \E x \in T : \A y \in T : x >= y
  BY DEF Max
<1>2. SUFFICES ASSUME \A x \in T : \E y \in T : ~(x >= y) PROVE FALSE
  OBVIOUS
<1> DEFINE S == {n \in Nat : \E x \in T : x >= n}
<1>3. 0 \in S
  OBVIOUS
<1>4. ASSUME NEW n \in Nat, n \in S PROVE n + 1 \in S
  <2>1. PICK x \in T : x >= n
    BY <1>4
  <2>2. PICK y \in T : ~(x >= y)
    BY <1>2
  <2>3. y >= n + 1
    BY <2>1, <2>2
  <2> QED  BY <2>3
<1>5. bound + 1 \in S
  <2> HIDE DEF S
  <2> QED  BY <1>3, <1>4, Counting
<1> QED  BY <1>5

\* Where a viable slot looks, the prediction is on the aim.
LEMMA ViableIsOnTarget ==
  ASSUME NEW yaw \in Int, NEW rate \in Int, NEW last \in Int,
         NEW predicted \in [0 .. Horizon - 1 -> Int], NEW inWindow,
         NEW s \in Slots, Viable(s, predicted, Unwrapped(yaw, rate, last), inWindow),
         NEW i \in Clamp(s - PreSteps, 1, s) .. s
  PROVE  Distance(yaw + i * rate, predicted[i]) \in 0 .. Tolerance - 1
<1>1. s \in 1 .. Horizon - 1
  BY AimAssumption DEF Slots, Clamp
<1>2. i \in Window(s) /\ i \in 0 .. Horizon - 1
  BY <1>1, AimAssumption DEF Window, Clamp
<1> DEFINE r == Unwrapped(yaw, rate, last)[i]
           p == predicted[i]
           a == yaw + i * rate
<1>3. r \in Int /\ p \in Int /\ a \in Int /\ SameDirection(r, a)
  <2>1. i \in Int
    BY <1>2, AimAssumption
  <2>2. p \in Int /\ a \in Int
    BY <1>2, <2>1
  <2>3. r \in Int /\ SameDirection(r, a)
    BY <1>2, ReferenceIsTheAim
  <2> QED  BY <2>2, <2>3
<1>4. Magnitude(r - p) < Tolerance
  BY <1>2 DEF Viable
<1> HIDE DEF r, p, a
<1>5. SameDirection(r - p, a - p)
  BY <1>3, SameIsEquivalence
<1>6. Normalized(a - p) = Normalized(r - p) /\ Normalized(r - p) \in Int
  BY <1>3, <1>5, SameNormalized, NormalizedIsSame
<1>7. Magnitude(Normalized(r - p)) <= Magnitude(r - p)
  BY <1>3, NormalizedIsShortest
<1>8. Distance(a, p) \in 0 .. Tolerance - 1
  <2> DEFINE n == Normalized(r - p)
  <2>1. n \in Int /\ Distance(a, p) = Magnitude(n) /\ Magnitude(n) <= Magnitude(r - p)
    BY <1>6, <1>7 DEF Distance
  <2> HIDE DEF n
  <2>2. Magnitude(n) \in Nat /\ Magnitude(r - p) \in Nat
    BY <1>3, <2>1 DEF Magnitude
  <2> QED  BY <1>4, <2>1, <2>2, AimAssumption
<1> QED  BY <1>8 DEF a, p

AimInvariant ==
  /\ gimbal \in Int /\ aim \in Int
  /\ mpc \in [ready : BOOLEAN, command : Int, measured : Int]
  /\ ViableMeansOnTarget

\* A reset MPC is a state of it.
LEMMA ResetNormalizes ==
  ASSUME NEW angle \in Int
  PROVE  Reset(angle) \in [ready : BOOLEAN, command : Int, measured : Int]
BY NormalizedIsSame DEF Reset

\* The gimbal and the aim stay angles.
LEMMA WorldMoves ==
  ASSUME NEW move \in Int, NEW turn \in Int, gimbal \in Int, aim \in Int, World(move, turn)
  PROVE  gimbal' \in Int /\ aim' \in Int
BY NormalizedIsSame DEF World

\* No slots are all on target.
LEMMA NoSlotsAreOnTarget == NoSlots.worst < Tolerance
BY AimAssumption DEF NoSlots

\* Every tick keeps the invariant.
LEMMA AimStep == AimInvariant /\ [AimNext]_aimVars => AimInvariant'
<1> SUFFICES ASSUME AimInvariant, [AimNext]_aimVars PROVE AimInvariant'
  OBVIOUS
<1>0. /\ gimbal \in Int /\ aim \in Int
      /\ mpc \in [ready : BOOLEAN, command : Int, measured : Int]
      /\ Circle \subseteq Int /\ Steps \subseteq Int
  BY AimAssumption DEF AimInvariant, Circle, Steps
<1>1. CASE AimNothing
  <2>1. gimbal' \in Int /\ aim' \in Int
    BY <1>0, <1>1, WorldMoves DEF AimNothing
  <2> QED  BY <1>1, <2>1, ResetNormalizes, NoSlotsAreOnTarget
           DEF AimNothing, AimInvariant, ViableMeansOnTarget
<1>2. CASE AimKept
  <2>1. gimbal' \in Int /\ aim' \in Int
    BY <1>0, <1>2, WorldMoves DEF AimKept
  <2> QED  BY <1>0, <1>2, <2>1, NoSlotsAreOnTarget
           DEF AimKept, AimInvariant, ViableMeansOnTarget
<1>3. CASE AimStatic
  <2>1. gimbal' \in Int /\ aim' \in Int
    BY <1>0, <1>3, WorldMoves DEF AimStatic
  <2> QED  BY <1>3, <2>1, ResetNormalizes, NoSlotsAreOnTarget
           DEF AimStatic, AimInvariant, ViableMeansOnTarget
<1>4. CASE AimDynamic
  <2>1. PICK move \in Steps, turn \in Steps, slope \in Steps, step \in FirstSteps,
             permit \in BOOLEAN, through \in Throughs :
    /\ World(move, turn)
    /\ LET known     == IF mpc.ready THEN mpc ELSE Reset(gimbal')
           measured  == Equivalent(known.measured, gimbal')
           last      == Equivalent(measured, known.command)
           reference == Unwrapped(aim', turn, last)
           predicted == [i \in 0 .. Horizon - 1 |-> measured + i * slope]
           slots     == IF pipelineOf = "energy" THEN {}
                        ELSE ViableSlots(predicted, reference, 0 .. through - 1, permit)
           looked    == UNION {Clamp(s - PreSteps, 1, s) .. s : s \in slots}
       IN /\ Magnitude(measured) <= Wind
          /\ mpc' = [ready |-> TRUE, measured |-> measured,
                     command |-> Normalized(Constrained(last + step, last, measured))]
          /\ counted' = [slots |-> Cardinality(slots),
                         worst |-> Max({0} \cup {Distance(aim' + i * turn, predicted[i]) :
                                                   i \in looked})]
    BY <1>4 DEF AimDynamic
  <2> DEFINE known     == IF mpc.ready THEN mpc ELSE Reset(gimbal')
             measured  == Equivalent(known.measured, gimbal')
             last      == Equivalent(measured, known.command)
             reference == Unwrapped(aim', turn, last)
             predicted == [i \in 0 .. Horizon - 1 |-> measured + i * slope]
             slots     == IF pipelineOf = "energy" THEN {}
                          ELSE ViableSlots(predicted, reference, 0 .. through - 1, permit)
             looked    == UNION {Clamp(s - PreSteps, 1, s) .. s : s \in slots}
             seen      == {0} \cup {Distance(aim' + i * turn, predicted[i]) : i \in looked}
  <2>2. gimbal' \in Int /\ aim' \in Int
    BY <1>0, <2>1, WorldMoves
  <2>3. known \in [ready : BOOLEAN, command : Int, measured : Int]
    BY <1>0, <2>2, ResetNormalizes
  <2>4. /\ mpc' = [ready |-> TRUE, measured |-> measured,
                   command |-> Normalized(Constrained(last + step, last, measured))]
        /\ counted'.worst = Max(seen)
    BY <2>1
  <2> HIDE DEF known
  <2>5. measured \in Int /\ known.command \in Int
    BY <2>2, <2>3, EquivalentIsSame
  <2> HIDE DEF measured
  <2>6. last \in Int
    BY <2>5, EquivalentIsSame
  <2> HIDE DEF last
  <2>7. Constrained(last + step, last, measured) \in Int
    BY <2>5, <2>6, AimAssumption DEF Constrained, Clamp
  <2>8. mpc' \in [ready : BOOLEAN, command : Int, measured : Int]
    BY <2>4, <2>5, <2>7, NormalizedIsSame
  <2>9. predicted \in [0 .. Horizon - 1 -> Int]
    BY <1>0, <2>5, AimAssumption
  <2> HIDE DEF predicted
  <2>10. ASSUME NEW i \in looked
         PROVE  Distance(aim' + i * turn, predicted[i]) \in 0 .. Tolerance - 1
    <3>1. PICK s \in slots : i \in Clamp(s - PreSteps, 1, s) .. s
      BY <2>10
    <3>2. s \in Slots /\ Viable(s, predicted, reference, 0 .. through - 1)
      <4>1. s \in Slots /\ \A t \in Slots : t <= s => Viable(t, predicted, reference, 0 .. through - 1)
        BY <3>1 DEF ViableSlots
      <4>2. s <= s
        BY <4>1, AimAssumption DEF Slots, Clamp
      <4> QED  BY <4>1, <4>2
    <3> QED  BY <1>0, <2>2, <2>6, <2>9, <3>1, <3>2, ViableIsOnTarget
  <2>11. seen \subseteq 0 .. Tolerance - 1 /\ Tolerance - 1 \in Nat
    BY <2>10, AimAssumption
  <2>12. Max(seen) \in 0 .. Tolerance - 1
    <3>1. 0 \in seen
      OBVIOUS
    <3> HIDE DEF seen
    <3> QED  BY <2>11, <3>1, LargestIsOne
  <2>13. counted'.worst < Tolerance
    <3> HIDE DEF seen
    <3> QED  BY <2>4, <2>12, AimAssumption
  <2> QED  BY <2>2, <2>8, <2>13 DEF AimInvariant, ViableMeansOnTarget
<1>5. CASE AimRouteChange
  <2>1. gimbal' \in Int /\ aim' \in Int
    BY <1>0, <1>5 DEF AimRouteChange
  <2> QED  BY <1>5, <2>1, ResetNormalizes, NoSlotsAreOnTarget
           DEF AimRouteChange, AimInvariant, ViableMeansOnTarget
<1>6. CASE UNCHANGED aimVars
  BY <1>6 DEF aimVars, AimInvariant, ViableMeansOnTarget
<1> QED  BY <1>1, <1>2, <1>3, <1>4, <1>5, <1>6 DEF AimNext

\* count_viable_shot_slots: wherever a slot that counts looks, the predicted yaw is
\* less than the tolerance from the aim on the circle, for every horizon, window,
\* tolerance and optimiser.
THEOREM CountedSlotsHit == AimSpec => []ViableMeansOnTarget
<1>1. AimInit => AimInvariant
  BY NoSlotsAreOnTarget DEF AimInit, AimInvariant, ViableMeansOnTarget
<1>2. AimInvariant => ViableMeansOnTarget
  BY DEF AimInvariant
<1> QED  BY <1>1, <1>2, AimStep, PTL DEF AimSpec

-----------------------------------------------------------------------------
(***************************************************************************)
(* CanFrames: rounding is within half a step, clamping moves only what lies *)
(* beyond the ends, the fields of the flags do not overlap, and a frame of *)
(* another sender is refused.                                              *)
(***************************************************************************)

\* q steps of the code.
CodeAngle(q) == q * Fine

\* A quotient times its divisor is at most a divisor below what was divided.
LEMMA QuotientWithin ==
  ASSUME NEW a \in Int, NEW d \in Nat \ {0}
  PROVE  /\ a \div d \in Int
         /\ (a \div d) * d <= a
         /\ a < (a \div d) * d + d
OBVIOUS

\* Codes are in the order of their angles, and a step apart at least.
LEMMA Codes ==
  ASSUME NEW q \in Int, NEW r \in Int
  PROVE  /\ CodeAngle(q) \in Int
         /\ q < r => CodeAngle(q) + Fine <= CodeAngle(r)
         /\ CodeAngle(-q) = -CodeAngle(q)
<1>1. Fine \in Nat \ {0}
  BY CanFramesAssumption
<1> QED  BY <1>1 DEF CodeAngle

\* f64::round: the code of an angle is within half a step of it, on both sides of 0.
LEMMA RoundedIsNear ==
  ASSUME NEW v \in Int
  PROVE  /\ Rounded(v) \in Int
         /\ 2 * (CodeAngle(Rounded(v)) - v) \in -Fine .. Fine
<1>1. Fine \in Nat \ {0} /\ 2 * Fine \in Nat \ {0}
  BY CanFramesAssumption
<1>2. CASE v >= 0
  <2> DEFINE q == (2 * v + Fine) \div (2 * Fine)
  <2>1. q \in Int /\ q * (2 * Fine) <= 2 * v + Fine /\ 2 * v + Fine < q * (2 * Fine) + 2 * Fine
    <3>1. 2 * v + Fine \in Int
      BY <1>1
    <3> QED  BY <1>1, <3>1, QuotientWithin
  <2>2. Rounded(v) = q
    BY <1>2 DEF Rounded
  <2> HIDE DEF q
  <2>3. q * (2 * Fine) = 2 * CodeAngle(q) /\ CodeAngle(q) \in Int
    BY <1>1, <2>1 DEF CodeAngle
  <2> QED  BY <1>1, <2>1, <2>2, <2>3
<1>3. CASE ~(v >= 0)
  <2> DEFINE q == (Fine - 2 * v) \div (2 * Fine)
  <2>1. q \in Int /\ q * (2 * Fine) <= Fine - 2 * v /\ Fine - 2 * v < q * (2 * Fine) + 2 * Fine
    <3>1. Fine - 2 * v \in Int
      BY <1>1
    <3> QED  BY <1>1, <3>1, QuotientWithin
  <2>2. Rounded(v) = -q
    BY <1>3 DEF Rounded
  <2> HIDE DEF q
  <2>3. q * (2 * Fine) = 2 * CodeAngle(q) /\ CodeAngle(q) \in Int /\ CodeAngle(-q) = -CodeAngle(q)
    BY <1>1, <2>1 DEF CodeAngle
  <2> QED  BY <1>1, <2>1, <2>2, <2>3
<1> QED  BY <1>2, <1>3

\* encode and decode of an angle, with the clamp to an i16.
LEMMA ArrivesNear ==
  ASSUME NEW v \in Angles \cup {NaN}
  PROVE  Near(Encoded(v) * Fine, v)
<1>1. /\ Fine \in Nat \ {0}
      /\ CodeMin \in Int /\ CodeMax \in Int /\ CodeMin <= 0 /\ 0 <= CodeMax
      /\ NaN \notin Int
      /\ v # NaN => v \in Int
  BY CanFramesAssumption
<1>2. CASE v = NaN
  BY <1>1, <1>2 DEF Encoded, Near
<1>3. CASE v # NaN
  <2> DEFINE q == Rounded(v)
  <2>1. q \in Int /\ 2 * (CodeAngle(q) - v) \in -Fine .. Fine
    BY <1>1, <1>3, RoundedIsNear
  <2>2. Encoded(v) = Clamped(q)
    BY <1>3 DEF Encoded
  <2> HIDE DEF q
  <2>3. /\ CodeAngle(q) \in Int /\ CodeAngle(CodeMin) \in Int /\ CodeAngle(CodeMax) \in Int
        /\ q < CodeMin => CodeAngle(q) + Fine <= CodeAngle(CodeMin)
        /\ q > CodeMax => CodeAngle(CodeMax) + Fine <= CodeAngle(q)
        /\ q > CodeMin => CodeAngle(CodeMin) + Fine <= CodeAngle(q)
        /\ q < CodeMax => CodeAngle(q) + Fine <= CodeAngle(CodeMax)
    BY <1>1, <2>1, Codes
  <2>4. CodeAngle(Clamped(q)) = Encoded(v) * Fine
    BY <2>2 DEF CodeAngle
  <2>5. CodeAngle(CodeMin) = CodeMin * Fine /\ CodeAngle(CodeMax) = CodeMax * Fine
    BY DEF CodeAngle
  <2>7. CodeMin < CodeMax => CodeAngle(CodeMin) + Fine <= CodeAngle(CodeMax)
    BY <1>1, Codes
  <2>6. CASE q < CodeMin
    <3>1. Clamped(q) = CodeMin
      BY <1>1, <2>1, <2>6 DEF Clamped
    <3>2. v < CodeAngle(CodeMin) /\ ~(v > CodeAngle(CodeMax))
      BY <1>1, <1>3, <2>1, <2>3, <2>6, <2>7
    <3> QED  BY <1>3, <2>4, <2>5, <3>1, <3>2 DEF Near
  <2>8. CASE q > CodeMax
    <3>1. Clamped(q) = CodeMax
      BY <1>1, <2>1, <2>8 DEF Clamped
    <3>2. v > CodeAngle(CodeMax) /\ ~(v < CodeAngle(CodeMin))
      BY <1>1, <1>3, <2>1, <2>3, <2>7, <2>8
    <3> QED  BY <1>3, <2>4, <2>5, <3>1, <3>2 DEF Near
  <2>9. CASE ~(q < CodeMin) /\ ~(q > CodeMax)
    <3>1. Clamped(q) = q
      BY <1>1, <2>1, <2>9 DEF Clamped
    <3>2. v > CodeAngle(CodeMax) => q = CodeMax
      BY <1>1, <1>3, <2>1, <2>3, <2>9
    <3>3. v < CodeAngle(CodeMin) => q = CodeMin
      BY <1>1, <1>3, <2>1, <2>3, <2>9
    <3> QED  BY <1>3, <2>1, <2>4, <2>5, <3>1, <3>2, <3>3 DEF Near
  <2> QED  BY <2>6, <2>8, <2>9
<1> QED  BY <1>2, <1>3

\* The modes of the flags byte do not overlap.
LEMMA FlagsApart ==
  ASSUME NEW c \in Controls
  PROVE  /\ Bits(Flags(c), 1) = c.shot
         /\ (IF Bits(Flags(c), 4) = 1 THEN 1 ELSE 0) = c.buff
         /\ Bits(Flags(c), 16) = c.aim
<1>1. c.shot \in 0 .. 3 /\ c.buff \in 0 .. 1 /\ c.aim \in 0 .. 3
  BY DEF Controls
<1>2. Bits(Flags(c), 1) = c.shot
  BY <1>1 DEF Bits, Flags
<1>3. Bits(Flags(c), 4) = c.buff
  BY <1>1 DEF Bits, Flags
<1>4. Bits(Flags(c), 16) = c.aim
  BY <1>1 DEF Bits, Flags
<1> QED  BY <1>1, <1>2, <1>3, <1>4

\* A pair that is taken has the fields of the sample it was made from.
LEMMA SampleReadsBack ==
  ASSUME NEW s \in Samples,
         NEW p, p \in {PairPayload(s), [PairPayload(s) EXCEPT !.tail.eof = 0]},
         NEW h, h = SampleOf(p), h # Refused
  PROVE  /\ h.yaw = Encoded(s.yaw) * Fine
         /\ TaskBytes[h.task] = s.task
         /\ h.permit <=> s.permit # 0
         /\ s.team # 0 => TeamBytes[h.team] = s.team
<1>1. /\ s.task \in 0 .. 5
      /\ s.team \in {0, 170, 187}
      /\ s.permit \in 0 .. 2
  BY DEF Samples, TeamBytes
<1>2. p = PairPayload(s)
  <2>1. CASE p = [PairPayload(s) EXCEPT !.tail.eof = 0]
    <3>1. p.tail.eof = 0
      BY <2>1 DEF PairPayload
    <3>2. h = Refused
      BY <3>1 DEF SampleOf, Eof
    <3> QED  BY <3>2
  <2> QED  BY <2>1
<1>3. /\ p.head.task = s.task /\ p.head.team = s.team /\ p.head.yaw = Encoded(s.yaw)
      /\ p.tail.permit = s.permit
  BY <1>2 DEF PairPayload
<1>4. /\ \E t \in DOMAIN TaskBytes : TaskBytes[t] = p.head.task
      /\ h = [task |-> CHOOSE t \in DOMAIN TaskBytes : TaskBytes[t] = p.head.task,
              team |-> IF p.head.team = TeamBytes.Blue THEN "Blue" ELSE "Red",
              yaw |-> p.head.yaw * Fine,
              permit |-> p.tail.permit # 0]
  BY DEF SampleOf
<1>5. TaskBytes[h.task] = s.task
  <2>1. \E t \in DOMAIN TaskBytes : TaskBytes[t] = s.task
    BY <1>3, <1>4
  <2>2. h.task = CHOOSE t \in DOMAIN TaskBytes : TaskBytes[t] = s.task
    BY <1>3, <1>4
  <2>3. TaskBytes[CHOOSE t \in DOMAIN TaskBytes : TaskBytes[t] = s.task] = s.task
    BY <2>1
  <2> QED  BY <2>2, <2>3
<1>6. s.team # 0 => TeamBytes[h.team] = s.team
  BY <1>1, <1>3, <1>4 DEF TeamBytes
<1>7. h.permit = (s.permit # 0) /\ h.yaw = Encoded(s.yaw) * Fine
  BY <1>3, <1>4
<1> QED  BY <1>5, <1>6, <1>7

\* A command that is taken has the fields it was made from.
LEMMA ControlReadsBack ==
  ASSUME NEW c \in Controls,
         NEW p, p \in {ControlPayload(c, 0), [ControlPayload(c, 0) EXCEPT !.sof = 0]},
         NEW h, h = ControlOf(p), h # Refused
  PROVE  /\ h.yaw = Encoded(c.yaw) * Fine /\ h.pitch = Encoded(c.pitch) * Fine
         /\ h.shot = c.shot /\ h.buff = c.buff /\ h.aim = c.aim
<1>1. p = ControlPayload(c, 0)
  <2>1. CASE p = [ControlPayload(c, 0) EXCEPT !.sof = 0]
    <3>1. p.sof = 0
      BY <2>1 DEF ControlPayload
    <3>2. h = Refused
      BY <3>1 DEF ControlOf, Sof
    <3> QED  BY <3>2
  <2> QED  BY <2>1
<1>2. p.yaw = Encoded(c.yaw) /\ p.pitch = Encoded(c.pitch) /\ p.flags = Flags(c)
  BY <1>1 DEF ControlPayload
<1>3. h = [yaw |-> p.yaw * Fine, pitch |-> p.pitch * Fine,
           shot |-> Bits(p.flags, 1), buff |-> IF Bits(p.flags, 4) = 1 THEN 1 ELSE 0,
           aim |-> Bits(p.flags, 16)]
  BY DEF ControlOf
<1>4. /\ h.yaw = p.yaw * Fine /\ h.pitch = p.pitch * Fine
      /\ h.shot = Bits(p.flags, 1)
      /\ h.buff = IF Bits(p.flags, 4) = 1 THEN 1 ELSE 0
      /\ h.aim = Bits(p.flags, 16)
  BY <1>3
<1> QED  BY <1>2, <1>4, FlagsApart

\* A command on its way, its marks still there or not, and a sample on its way.
CarriesControl(c) ==
  /\ said = [kind |-> "control", data |-> c]
  /\ wire \in {ControlPayload(c, 0), [ControlPayload(c, 0) EXCEPT !.sof = 0]}

CarriesSample(s) ==
  /\ said = [kind |-> "sample", data |-> s]
  /\ wire \in {PairPayload(s), [PairPayload(s) EXCEPT !.tail.eof = 0]}

FramesInvariant ==
  /\ \/ said = NaN /\ wire = NaN /\ heard = NaN
     \/ \E c \in Controls : CarriesControl(c)
     \/ \E s \in Samples : CarriesSample(s)
  /\ FramesMeanWhatWasSent

\* Every transfer keeps the invariant.
LEMMA FramesStep == FramesInvariant /\ [CanFramesNext]_frameVars => FramesInvariant'
<1> SUFFICES ASSUME FramesInvariant, [CanFramesNext]_frameVars
             PROVE  FramesInvariant'
  OBVIOUS
<1> USE DEF FramesInvariant
<1>1. ASSUME NEW c \in Controls, CarriesControl(c) PROVE said # NaN
  <2>1. [kind |-> "control", data |-> c]
          \in [kind : {"control", "sample"}, data : Controls \cup Samples]
    OBVIOUS
  <2> QED  BY <1>1, <2>1, CanFramesNothing DEF CarriesControl
<1>2. ASSUME NEW s \in Samples, CarriesSample(s) PROVE said # NaN
  <2>1. [kind |-> "sample", data |-> s]
          \in [kind : {"control", "sample"}, data : Controls \cup Samples]
    OBVIOUS
  <2> QED  BY <1>2, <2>1, CanFramesNothing DEF CarriesSample
<1>3. said = NaN => wire = NaN /\ heard = NaN
  BY <1>1, <1>2
<1>4. CASE EncodeControl
  <2>1. PICK c \in Controls : said' = [kind |-> "control", data |-> c] /\ wire' = ControlPayload(c, 0)
    BY <1>4 DEF EncodeControl
  <2>2. CarriesControl(c)'
    BY <2>1 DEF CarriesControl
  <2>3. heard' = NaN
    BY <1>3, <1>4 DEF EncodeControl
  <2> QED  BY <2>2, <2>3 DEF FramesMeanWhatWasSent
<1>5. CASE EncodeSample
  <2>1. PICK s \in Samples : said' = [kind |-> "sample", data |-> s] /\ wire' = PairPayload(s)
    BY <1>5 DEF EncodeSample
  <2>2. CarriesSample(s)'
    BY <2>1 DEF CarriesSample
  <2>3. heard' = NaN
    BY <1>3, <1>5 DEF EncodeSample
  <2> QED  BY <2>2, <2>3 DEF FramesMeanWhatWasSent
<1>6. CASE Foreign
  <2>1. wire # NaN /\ said' = said /\ heard' = NaN
    BY <1>6 DEF Foreign
  <2>2. ASSUME NEW c \in Controls, CarriesControl(c) PROVE CarriesControl(c)'
    <3>1. wire' = [wire EXCEPT !.sof = 0]
      BY <1>6, <2>2 DEF Foreign, CarriesControl
    <3>2. wire' = [ControlPayload(c, 0) EXCEPT !.sof = 0]
      BY <2>2, <3>1 DEF CarriesControl, ControlPayload
    <3> QED  BY <2>1, <2>2, <3>2 DEF CarriesControl
  <2>3. ASSUME NEW s \in Samples, CarriesSample(s) PROVE CarriesSample(s)'
    <3>1. wire' = [wire EXCEPT !.tail.eof = 0]
      BY <1>6, <2>3 DEF Foreign, CarriesSample
    <3>2. wire' = [PairPayload(s) EXCEPT !.tail.eof = 0]
      BY <2>3, <3>1 DEF CarriesSample, PairPayload
    <3> QED  BY <2>1, <2>3, <3>2 DEF CarriesSample
  <2> QED  BY <2>1, <2>2, <2>3 DEF FramesMeanWhatWasSent
<1>7. CASE Decode
  <2>1. wire # NaN /\ said' = said /\ wire' = wire
    BY <1>7 DEF Decode
  <2>2. CASE heard' \in {NaN, Refused}
    BY <2>1, <2>2 DEF FramesMeanWhatWasSent, CarriesControl, CarriesSample
  <2>3. ASSUME NEW c \in Controls, CarriesControl(c), heard' # Refused PROVE FramesInvariant'
    <3>1. heard' = ControlOf(wire)
      BY <1>7, <2>3 DEF Decode, CarriesControl
    <3>2. /\ heard'.yaw = Encoded(c.yaw) * Fine /\ heard'.pitch = Encoded(c.pitch) * Fine
          /\ heard'.shot = c.shot /\ heard'.buff = c.buff /\ heard'.aim = c.aim
      BY <2>3, <3>1, ControlReadsBack DEF CarriesControl
    <3>3. c.yaw \in Angles \cup {NaN} /\ c.pitch \in Angles \cup {NaN}
      BY DEF Controls
    <3>4. Near(heard'.yaw, c.yaw) /\ Near(heard'.pitch, c.pitch)
      BY <3>2, <3>3, ArrivesNear
    <3>5. said'.data = c /\ said'.kind = "control"
      BY <2>1, <2>3 DEF CarriesControl
    <3>6. FramesMeanWhatWasSent'
      BY <3>2, <3>4, <3>5 DEF FramesMeanWhatWasSent, Near
    <3>7. CarriesControl(c)'
      BY <2>1, <2>3 DEF CarriesControl
    <3> QED  BY <3>6, <3>7
  <2>4. ASSUME NEW s \in Samples, CarriesSample(s), heard' # Refused PROVE FramesInvariant'
    <3>1. heard' = SampleOf(wire)
      BY <1>7, <2>4 DEF Decode, CarriesSample
    <3>2. /\ heard'.yaw = Encoded(s.yaw) * Fine
          /\ TaskBytes[heard'.task] = s.task
          /\ heard'.permit <=> s.permit # 0
          /\ s.team # 0 => TeamBytes[heard'.team] = s.team
      BY <2>4, <3>1, SampleReadsBack DEF CarriesSample
    <3>3. s.yaw \in Angles \cup {NaN}
      BY DEF Samples
    <3>4. Near(heard'.yaw, s.yaw)
      BY <3>2, <3>3, ArrivesNear
    <3>5. said'.data = s /\ said'.kind = "sample"
      BY <2>1, <2>4 DEF CarriesSample
    <3>6. FramesMeanWhatWasSent'
      BY <3>2, <3>4, <3>5 DEF FramesMeanWhatWasSent, Near
    <3>7. CarriesSample(s)'
      BY <2>1, <2>4 DEF CarriesSample
    <3> QED  BY <3>6, <3>7
  <2> QED  BY <2>1, <2>2, <2>3, <2>4
<1>8. CASE Handled
  BY <1>8 DEF Handled, FramesMeanWhatWasSent
<1>9. CASE UNCHANGED frameVars
  BY <1>9 DEF frameVars, FramesMeanWhatWasSent, Near, CarriesControl, CarriesSample
<1> QED  BY <1>4, <1>5, <1>6, <1>7, <1>8, <1>9 DEF CanFramesNext

\* What is taken from the wire is what was put there, for every resolution and range
\* of the code (rbt_comm_frame.rs).
THEOREM WireKeepsTheMeaning == CanFramesSpec => []FramesMeanWhatWasSent
<1>1. CanFramesInit => FramesInvariant
  BY DEF CanFramesInit, FramesInvariant, FramesMeanWhatWasSent
<1>2. FramesInvariant => FramesMeanWhatWasSent
  BY DEF FramesInvariant
<1> QED  BY <1>1, <1>2, FramesStep, PTL DEF CanFramesSpec
==============================================================================
