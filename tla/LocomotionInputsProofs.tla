----------------------- MODULE LocomotionInputsProofs ------------------------
(***************************************************************************)
(* What surrounds the locomotion policy, for every value of the constants: the *)
(* gamepad (GamepadCommand), the execution provider (ExecutionProvider), the *)
(* values of a step (PolicyIo), the simulator (LocomotionSim), the serial   *)
(* port (CdcPort) and the frames of a byte stream (StreamParser).           *)
(***************************************************************************)
EXTENDS GamepadCommand, ExecutionProvider, PolicyIo, LocomotionSim, CdcPort,
        StreamParser, SequenceTheorems, WellFoundedInduction, TLAPS

-----------------------------------------------------------------------------
(***************************************************************************)
(* GamepadCommand: as long as one pad stays the one that is read, a press    *)
(* counts once, for any set of pads, either selector and any limits of the   *)
(* height.  That no other pad is read in between holds for an index only.    *)
(***************************************************************************)

\* The press of the pad read last that has counted is the one the edge memory
\* holds: the button is let go, or the memory has seen it down.
EdgeRemembered ==
  \A p \in Pads : lastRead = p =>
    /\ eastCounted /\ "east" \in held[p] => previousDownToggle = TRUE
    /\ dpadCounted /\ Direction(held[p]) # 0 => previousDpadY = Direction(held[p])

PadInvariant == TypeOK /\ EdgeRemembered

LEMMA Heights ==
  \A h \in Int : Clamp(h) \in MinHeight .. MaxHeight
BY GamepadAssumption DEF GamepadAssumption, Clamp

LEMMA Directions ==
  \A buttons \in SUBSET Buttons : Direction(buttons) \in -1 .. 1
BY DEF Direction

LEMMA InvariantInit == Init => PadInvariant
<1> SUFFICES ASSUME Init PROVE PadInvariant
  OBVIOUS
<1>1. TypeOK
  <2>1. /\ selector \in Selectors /\ plugged \subseteq Pads
        /\ held \in [Pads -> SUBSET Buttons]
        /\ eastCounted \in BOOLEAN /\ dpadCounted \in BOOLEAN
    BY DEF Init
  <2>2. height \in MinHeight .. MaxHeight
    BY GamepadAssumption DEF GamepadAssumption, Init
  <2>3. /\ activeId = None /\ controlsEnabled = TRUE /\ previousDownToggle = FALSE
        /\ sample = None /\ lastRead = None
    BY DEF Init
  <2>4. previousDpadY \in -1 .. 1
    BY DEF Init
  <2> QED  BY <2>1, <2>2, <2>3, <2>4 DEF TypeOK
<1>2. EdgeRemembered
  BY DEF Init, EdgeRemembered
<1> QED  BY <1>1, <1>2 DEF PadInvariant

\* An event leaves the sampler alone; what matters is what it does to the
\* buttons of the pad and to the ghosts of its press.
LEMMA EventKeeps ==
  ASSUME PadInvariant, NEW p \in Pads, NEW event,
         UpdateActiveId(p, event), UNCHANGED <<selector, stateVars, sample, lastRead>>,
         plugged' \subseteq Pads,
         NEW buttons \in SUBSET Buttons, held' = [held EXCEPT ![p] = buttons],
         eastCounted' \in BOOLEAN, dpadCounted' \in BOOLEAN,
         eastCounted' => eastCounted, dpadCounted' => dpadCounted,
         p = lastRead /\ eastCounted' /\ "east" \in buttons => "east" \in held[p],
         p = lastRead /\ dpadCounted' => Direction(buttons) \in {0, Direction(held[p])}
  PROVE  PadInvariant'
<1>1. held \in [Pads -> SUBSET Buttons] /\ activeId \in Pads \cup {None}
  BY DEF PadInvariant, TypeOK
<1>2. held' \in [Pads -> SUBSET Buttons] /\ activeId' \in Pads \cup {None}
  BY <1>1 DEF UpdateActiveId
<1>3. TypeOK'
  BY <1>2 DEF PadInvariant, TypeOK, stateVars
<1>4. EdgeRemembered'
  <2> SUFFICES ASSUME NEW q \in Pads, lastRead = q
               PROVE  /\ eastCounted' /\ "east" \in held'[q] => previousDownToggle = TRUE
                      /\ dpadCounted' /\ Direction(held'[q]) # 0
                           => previousDpadY = Direction(held'[q])
    BY DEF EdgeRemembered, stateVars, Direction
  <2>1. /\ eastCounted /\ "east" \in held[q] => previousDownToggle = TRUE
        /\ dpadCounted /\ Direction(held[q]) # 0 => previousDpadY = Direction(held[q])
    BY DEF PadInvariant, EdgeRemembered
  <2>2. CASE p = q
    <3>1. held'[q] = buttons
      BY <1>1, <2>2
    <3> QED  BY <2>1, <2>2, <3>1
  <2>3. CASE p # q
    <3>1. held'[q] = held[q]
      BY <1>1, <2>3
    <3> QED  BY <2>1, <3>1
  <2> QED  BY <2>2, <2>3
<1> QED  BY <1>3, <1>4 DEF PadInvariant

\* A set of natural numbers has a least element, which is its Min.
LEMMA LeastOfNaturals ==
  ASSUME NEW S, S \subseteq Nat, S # {}
  PROVE  Min(S) \in S
<1>1. IsWellFoundedOn(OpToRel(<, Nat), Nat)
  BY NatLessThanWellFounded, Zenon
<1>2. PICK x \in S : \A y \in S : ~(<<y, x>> \in OpToRel(<, Nat))
  BY <1>1, WFMin
<1>3. \A y \in S : x <= y
  <2> SUFFICES ASSUME NEW y \in S, ~(x <= y) PROVE FALSE
    OBVIOUS
  <2>1. <<y, x>> \in OpToRel(<, Nat)
    BY DEF OpToRel
  <2> QED  BY <2>1, <1>2
<1> QED  BY <1>3 DEF Min

LEMMA ResolvesToPad ==
  ASSUME TypeOK PROVE ResolveActiveId \in Pads \cup {None}
<1> DEFINE candidates == {p \in plugged : MatchesSelector(p)}
<1>1. CASE activeId # None \/ candidates = {}
  BY <1>1 DEF ResolveActiveId, TypeOK
<1>2. CASE activeId = None /\ candidates # {}
  <2>1. candidates \subseteq Nat /\ candidates \subseteq Pads
    BY GamepadAssumption DEF GamepadAssumption, TypeOK
  <2>2. Min(candidates) \in candidates
    BY <1>2, <2>1, LeastOfNaturals
  <2> QED  BY <1>2, <2>1, <2>2 DEF ResolveActiveId
<1> QED  BY <1>1, <1>2

\* One sample: what it read is what the memory holds now.
LEMMA SampleKeeps ==
  ASSUME PadInvariant, Sample
  PROVE  PadInvariant'
<1> DEFINE id == ResolveActiveId
<1>1. activeId' = id /\ UNCHANGED padVars /\ id \in Pads \cup {None}
  BY ResolvesToPad DEF PadInvariant, Sample
<1>2. CASE id = None
  <2>1. /\ sample' = [device |-> None, active |-> FALSE, height |-> FixedHeight]
        /\ UNCHANGED <<stateVars, ghostVars>>
    BY <1>2 DEF Sample
  <2>2. sample' \in Samples
    BY <2>1, GamepadAssumption DEF Samples, GamepadAssumption
  <2> QED  BY <1>1, <2>1, <2>2
           DEF PadInvariant, TypeOK, EdgeRemembered, padVars, stateVars, ghostVars, Direction
<1>3. CASE id # None
  <2> DEFINE buttons == held[id]
             direction == Direction(buttons)
  <2>1. id \in Pads
    BY <1>1, <1>3
  <2>2. /\ MapSnapshot(buttons) /\ Remember(id, buttons)
        /\ sample' = [device |-> id, active |-> id \in plugged /\ controlsEnabled',
                      height |-> height']
    BY <1>3 DEF Sample
  <2>3. /\ buttons \in SUBSET Buttons /\ direction \in -1 .. 1
        /\ eastCounted \in BOOLEAN /\ dpadCounted \in BOOLEAN
        /\ controlsEnabled \in BOOLEAN /\ height \in MinHeight .. MaxHeight
    BY <2>1, Directions DEF PadInvariant, TypeOK
  <2>4. /\ controlsEnabled' \in BOOLEAN
        /\ previousDownToggle' = ("east" \in buttons)
        /\ previousDpadY' = direction
    BY <2>2 DEF MapSnapshot
  <2>5. height' \in MinHeight .. MaxHeight
    <3>1. height + direction \in Int
      BY <2>3, GamepadAssumption DEF GamepadAssumption
    <3> QED  BY <2>2, <2>3, <3>1, Heights DEF MapSnapshot
  <2>6. eastCounted' \in BOOLEAN /\ dpadCounted' \in BOOLEAN /\ lastRead' = id
    BY <2>2 DEF Remember
  <2>7. sample' \in Samples
    <3>1. (id \in plugged /\ controlsEnabled') \in BOOLEAN
      BY <2>4
    <3> QED  BY <2>1, <2>2, <2>5, <3>1 DEF Samples
  <2>8. TypeOK'
    BY <1>1, <2>1, <2>3, <2>4, <2>5, <2>6, <2>7 DEF PadInvariant, TypeOK, padVars
  <2>9. EdgeRemembered'
    <3>1. held' = held
      BY <1>1 DEF padVars
    <3>2. "east" \in buttons => previousDownToggle' = TRUE
      BY <2>4
    <3> QED  BY <2>4, <2>6, <3>1, <3>2 DEF EdgeRemembered, Direction
  <2> QED  BY <2>8, <2>9 DEF PadInvariant
<1> QED  BY <1>2, <1>3

LEMMA InvariantStep ==
  ASSUME PadInvariant, [Next]_vars
  PROVE  PadInvariant'
<1>1. ASSUME NEW p \in Pads, Plug(p) \/ Unplug(p) \/ MoveStick(p)
      PROVE  PadInvariant'
  <2>1. held[p] \in SUBSET Buttons /\ held = [held EXCEPT ![p] = held[p]]
        /\ plugged \subseteq Pads
    BY DEF PadInvariant, TypeOK
  <2>2. PICK buttons \in {{}, held[p]} :
          /\ held' = [held EXCEPT ![p] = buttons]
          /\ UNCHANGED <<selector, stateVars, sample, eastCounted, dpadCounted, lastRead>>
          /\ plugged' \subseteq Pads
    BY <1>1, <2>1 DEF Plug, Unplug, MoveStick, padVars, ghostVars
  <2>3. PICK event \in {"Connected", "Disconnected", "AxisChanged"} : UpdateActiveId(p, event)
    BY <1>1 DEF Plug, Unplug, MoveStick
  <2>4. Direction(buttons) \in {0, Direction(held[p])}
    BY <2>2 DEF Direction
  <2>5. eastCounted \in BOOLEAN /\ dpadCounted \in BOOLEAN
    BY DEF PadInvariant, TypeOK
  <2> QED  BY <2>1, <2>2, <2>3, <2>4, <2>5, EventKeeps
<1>2. ASSUME NEW p \in Pads, NEW b \in Buttons, Press(p, b)
      PROVE  PadInvariant'
  <2> DEFINE buttons == held[p] \cup {b}
  <2>1. held[p] \in SUBSET Buttons /\ plugged \subseteq Pads /\ buttons \in SUBSET Buttons
    BY DEF PadInvariant, TypeOK
  <2>2. /\ held' = [held EXCEPT ![p] = buttons]
        /\ UNCHANGED <<selector, stateVars, sample, lastRead>>
        /\ plugged' \subseteq Pads
        /\ UpdateActiveId(p, "ButtonPressed")
    BY <1>2, <2>1 DEF Press
  <2>3. /\ eastCounted' = (eastCounted /\ ~(p = lastRead /\ b = "east"))
        /\ dpadCounted' = (dpadCounted /\ ~(p = lastRead /\ b \in Dpad))
    BY <1>2 DEF Press
  <2>4. b # "east" => ("east" \in buttons => "east" \in held[p])
    OBVIOUS
  <2>5. b \notin Dpad => Direction(buttons) = Direction(held[p])
    BY DEF Direction, Dpad
  <2> QED  BY <2>1, <2>2, <2>3, <2>4, <2>5, EventKeeps
<1>3. ASSUME NEW p \in Pads, NEW b \in Buttons, Release(p, b)
      PROVE  PadInvariant'
  <2> DEFINE buttons == held[p] \ {b}
  <2>1. held[p] \in SUBSET Buttons /\ plugged \subseteq Pads /\ buttons \in SUBSET Buttons
    BY DEF PadInvariant, TypeOK
  <2>2. /\ held' = [held EXCEPT ![p] = buttons]
        /\ UNCHANGED <<selector, stateVars, sample, lastRead>>
        /\ plugged' \subseteq Pads
        /\ UpdateActiveId(p, "ButtonReleased")
    BY <1>3, <2>1 DEF Release
  <2>3. dpadCounted' = (dpadCounted /\ ~(p = lastRead /\ b \in Dpad))
    BY <1>3 DEF Release
  <2>4. b \notin Dpad => Direction(buttons) = Direction(held[p])
    BY DEF Direction, Dpad
  <2>5. eastCounted' = eastCounted /\ eastCounted \in BOOLEAN
    BY <1>3 DEF Release, PadInvariant, TypeOK
  <2> QED  BY <2>1, <2>2, <2>3, <2>4, <2>5, EventKeeps
<1>4. CASE Sample
  BY <1>4, SampleKeeps
<1>5. CASE UNCHANGED vars
  BY <1>5 DEF vars, padVars, stateVars, ghostVars, PadInvariant, TypeOK, EdgeRemembered,
     Direction
<1> QED  BY <1>1, <1>2, <1>3, <1>4, <1>5 DEF Next, PadEvent

LEMMA PadInvariance == Spec => []PadInvariant
BY InvariantInit, InvariantStep, PTL DEF Spec

\* Only a sample changes what the state of the gamepad source is.
LEMMA OnlySamples ==
  ASSUME [Next]_vars
  PROVE  Sample \/ UNCHANGED stateVars
BY DEF Next, PadEvent, Plug, Unplug, MoveStick, Press, Release, vars

-----------------------------------------------------------------------------
(* Theorems *)

\* For any set of pads and either selector, whatever is plugged, pressed and
\* released between two samples: while one pad is read, a press of East on it
\* toggles the controls once.
THEOREM TogglesOnce == Spec => OneTogglePerPress
<1>1. ASSUME PadInvariant, [Next]_vars
      PROVE  [controlsEnabled' # controlsEnabled /\ eastCounted
                => lastRead # activeId']_vars
  <2> SUFFICES ASSUME controlsEnabled' # controlsEnabled, eastCounted,
                      lastRead = activeId'
               PROVE  FALSE
    OBVIOUS
  <2>1. Sample
    BY <1>1, OnlySamples DEF stateVars
  <2>2. activeId' = ResolveActiveId /\ ResolveActiveId # None /\ ResolveActiveId \in Pads
    <3>1. ResolveActiveId \in Pads \cup {None}
      BY <1>1, ResolvesToPad DEF PadInvariant
    <3> QED  BY <2>1, <3>1 DEF Sample, stateVars
  <2>3. MapSnapshot(held[activeId'])
    BY <2>1, <2>2 DEF Sample
  <2>4. Toggled(held[activeId'])
    <3>1. controlsEnabled \in BOOLEAN
      BY <1>1 DEF PadInvariant, TypeOK
    <3>2. controlsEnabled' = (controlsEnabled # Toggled(held[activeId']))
      BY <2>3 DEF MapSnapshot
    <3>3. ~Toggled(held[activeId']) => controlsEnabled' = controlsEnabled
      BY <3>1, <3>2, Zenon DEF Toggled
    <3> QED  BY <3>3
  <2>5. "east" \in held[activeId'] /\ ~previousDownToggle
    BY <2>4 DEF Toggled
  <2> QED  BY <1>1, <2>2, <2>5 DEF PadInvariant, EdgeRemembered
<1> QED  BY <1>1, PadInvariance, PTL DEF Spec, OneTogglePerPress

\* For any limits of the height and either selector: while one pad is read, a move
\* of its d-pad changes the height at most once, and not at all later than the
\* sample that saw it.
THEOREM StepsOnce == Spec => OneStepPerPress
<1>1. ASSUME PadInvariant, [Next]_vars
      PROVE  [height' # height /\ dpadCounted => lastRead # activeId']_vars
  <2> SUFFICES ASSUME height' # height, dpadCounted, lastRead = activeId'
               PROVE  FALSE
    OBVIOUS
  <2>1. Sample
    BY <1>1, OnlySamples DEF stateVars
  <2>2. activeId' = ResolveActiveId /\ ResolveActiveId # None /\ ResolveActiveId \in Pads
    <3>1. ResolveActiveId \in Pads \cup {None}
      BY <1>1, ResolvesToPad DEF PadInvariant
    <3> QED  BY <2>1, <3>1 DEF Sample, stateVars
  <2>3. MapSnapshot(held[activeId'])
    BY <2>1, <2>2 DEF Sample
  <2>4. StepsHeight(Direction(held[activeId']))
    BY <2>3 DEF MapSnapshot
  <2> QED  BY <1>1, <2>2, <2>4 DEF PadInvariant, EdgeRemembered, StepsHeight
<1> QED  BY <1>1, PadInvariance, PTL DEF Spec, OneStepPerPress

\* With an index no other pad is ever read.
ByIndex == selector # AnyPad

OnlySelected ==
  activeId \in {None, selector} /\ lastRead \in {None, selector} /\ (eastCounted => lastRead # None)

LEMMA OnlySelectedInit == Init => OnlySelected
BY DEF Init, OnlySelected

LEMMA OnlySelectedStep ==
  ASSUME ByIndex, PadInvariant, OnlySelected, [Next]_vars
  PROVE  ByIndex' /\ OnlySelected'
<1>1. selector' = selector
  BY DEF Next, PadEvent, Plug, Unplug, MoveStick, Press, Release, Sample, vars, padVars
<1>2. CASE Sample
  <2> DEFINE id == ResolveActiveId
  <2>1. id \in {None, selector}
    <3> DEFINE candidates == {p \in plugged : MatchesSelector(p)}
    <3>1. candidates \subseteq {selector} /\ candidates \subseteq Nat
      BY GamepadAssumption DEF GamepadAssumption, PadInvariant, TypeOK, MatchesSelector, ByIndex
    <3>2. candidates # {} => Min(candidates) \in candidates
      BY <3>1, LeastOfNaturals
    <3> QED  BY <3>1, <3>2 DEF ResolveActiveId, OnlySelected
  <2>2. CASE id = None
    BY <1>1, <1>2, <2>2 DEF Sample, ghostVars, OnlySelected, ByIndex
  <2>3. CASE id # None
    <3>1. activeId' = id /\ lastRead' = id
      BY <1>2, <2>3 DEF Sample, Remember
    <3> QED  BY <1>1, <2>1, <2>3, <3>1 DEF OnlySelected, ByIndex
  <2> QED  BY <2>2, <2>3
<1>3. CASE PadEvent
  <2>1. PICK changed \in Pads : \E event : UpdateActiveId(changed, event)
    BY <1>3 DEF PadEvent, Plug, Unplug, MoveStick, Press, Release
  <2>2. activeId' \in {None, selector}
    BY <2>1 DEF UpdateActiveId, MatchesSelector, OnlySelected, ByIndex
  <2>3. lastRead' = lastRead /\ (eastCounted' => eastCounted)
    <3>1. PICK p \in Pads : \/ Plug(p) \/ Unplug(p) \/ MoveStick(p)
                            \/ \E b \in Buttons : Press(p, b) \/ Release(p, b)
      BY <1>3 DEF PadEvent
    <3>2. CASE Plug(p) \/ Unplug(p) \/ MoveStick(p)
      BY <3>2 DEF Plug, Unplug, MoveStick, ghostVars
    <3>3. ASSUME NEW b \in Buttons, Press(p, b)
          PROVE  lastRead' = lastRead /\ (eastCounted' => eastCounted)
      <4>1. lastRead' = lastRead /\ eastCounted' = (eastCounted /\ ~(p = lastRead /\ b = "east"))
        BY <3>3 DEF Press
      <4> QED  BY <4>1, Zenon
    <3>4. ASSUME NEW b \in Buttons, Release(p, b)
          PROVE  lastRead' = lastRead /\ (eastCounted' => eastCounted)
      BY <3>4 DEF Release
    <3> QED  BY <3>1, <3>2, <3>3, <3>4
  <2> QED  BY <1>1, <2>2, <2>3 DEF OnlySelected, ByIndex
<1>4. CASE UNCHANGED vars
  BY <1>1, <1>4 DEF vars, ghostVars, OnlySelected, ByIndex
<1> QED  BY <1>2, <1>3, <1>4 DEF Next

\* With an index, what the README says of East/B holds without a restriction: no
\* press toggles twice, whatever is plugged and pressed.
THEOREM IndexTogglesOnce ==
  Spec /\ ByIndex => [][controlsEnabled' # controlsEnabled => ~eastCounted]_vars
<1>1. ASSUME PadInvariant, OnlySelected, ByIndex, OnlySelected', [Next]_vars,
             [controlsEnabled' # controlsEnabled /\ eastCounted => lastRead # activeId']_vars
      PROVE  [controlsEnabled' # controlsEnabled => ~eastCounted]_vars
  <2> SUFFICES ASSUME controlsEnabled' # controlsEnabled, eastCounted
               PROVE  FALSE
    OBVIOUS
  <2>1. Sample /\ activeId' # None
    <3>1. Sample
      BY <1>1, OnlySamples DEF stateVars
    <3> QED  BY <3>1 DEF Sample, stateVars
  <2>2. selector' = selector
    BY <2>1 DEF Sample, padVars
  <2>3. activeId' = selector /\ lastRead = selector
    BY <1>1, <2>1, <2>2 DEF OnlySelected
  <2>4. lastRead # activeId'
    BY <1>1 DEF vars, stateVars
  <2> QED  BY <2>3, <2>4
<1>2. Spec /\ ByIndex => [](ByIndex /\ OnlySelected)
  BY PadInvariance, OnlySelectedInit, OnlySelectedStep, PTL DEF Spec
<1> QED  BY <1>1, <1>2, PadInvariance, TogglesOnce, PTL DEF Spec, OneTogglePerPress

-----------------------------------------------------------------------------
(***************************************************************************)
(* ExecutionProvider: the chain of providers has behind it only what does not *)
(* register, and always the CPU before it.                                 *)
(***************************************************************************)

\* What the chain has behind it: every provider it tried and did not keep fails
\* to register, and everything before the one it kept has been tried.
ChainInvariant ==
  Chained =>
    /\ provider # "error" /\ tried \subseteq Chain
    /\ \A p \in tried : p # provider => ~Registers(p)
    /\ provider \in Providers => Chain \cap Before(provider) \subseteq tried

ProviderInvariant ==
  /\ broken \subseteq Providers \ {"CPU"}
  /\ ChainInvariant
  /\ ~Chained => provider \in {"none", "error", Strict}

\* On a Jetson the CPU registers whatever else is broken or missing.
LEMMA CpuRegisters ==
  ASSUME Chained, broken \subseteq Providers \ {"CPU"}
  PROVE  Registers("CPU") /\ "CPU" \in Chain
BY DEF Chained, Registers, CompiledIn, Chain

\* A provider the chain leaves out has no libraries to register with.
LEMMA OutsideChain ==
  ASSUME Chained, NEW p \in {"TensorRT", "CUDA"} \ Chain
  PROVE  ~Registers(p)
BY DEF Chained, Chain, Registers

\* Only the two accelerators come before another provider of the chain.
LEMMA BeforeFacts ==
  ASSUME NEW p \in Providers
  PROVE  Before(p) \subseteq {"TensorRT", "CUDA"} /\ p \notin Before(p)
BY DEF Before, Providers

\* Nothing has been tried yet.
LEMMA ProviderStart == ProviderInit => ProviderInvariant
BY DEF ProviderInit, ProviderInvariant, ChainInvariant, Providers

\* Every step of the choice keeps the invariant.
LEMMA ProviderStep == ProviderInvariant /\ [ProviderNext]_providerVars => ProviderInvariant'
<1> SUFFICES ASSUME ProviderInvariant, [ProviderNext]_providerVars PROVE ProviderInvariant'
  OBVIOUS
<1>1. /\ UNCHANGED <<target, setting, installed, broken>>
      /\ UNCHANGED <<Chained, Chain, Strict>>
      /\ \A p : Registers(p)' = Registers(p)
  BY DEF ProviderNext, TryAuto, TryStrict, Commit, providerVars, Chained, Chain, Strict,
         Default, Registers, CompiledIn, CudaStack, TensorRtStack
<1>2. CASE TryAuto
  <2>1. PICK p \in Chain \ tried :
          /\ Chain \cap Before(p) \subseteq tried
          /\ tried' = tried \cup {p}
          /\ IF Registers(p) THEN provider' = p ELSE TriesNext(p)
    BY <1>2 DEF TryAuto
  <2>2. Chained /\ provider = "none"
    BY <1>2 DEF TryAuto, Unsettled
  <2>3. p \in Providers /\ "none" \notin Providers /\ "error" \notin Providers
    BY DEF Chain, Providers
  <2>4. CASE Registers(p)
    <3>1. provider' = p
      BY <2>1, <2>4
    <3>2. \A x \in tried : ~Registers(x)
      <4>1. \A x \in tried : x # "none"
        BY <2>2 DEF ProviderInvariant, ChainInvariant, Chain
      <4> QED  BY <2>2, <4>1 DEF ProviderInvariant, ChainInvariant
    <3> QED  BY <1>1, <2>1, <2>2, <2>3, <3>1, <3>2 DEF ProviderInvariant, ChainInvariant
  <2>5. CASE ~Registers(p)
    <3>1. provider' = "none"
      BY <2>1, <2>2, <2>5 DEF TriesNext
    <3> QED  BY <1>1, <2>1, <2>2, <2>3, <2>5, <3>1 DEF ProviderInvariant, ChainInvariant
  <2> QED  BY <2>4, <2>5
<1>3. CASE TryStrict
  <2>1. ~Chained /\ provider' \in {"error", Strict}
    BY <1>3 DEF TryStrict
  <2> QED  BY <1>1, <2>1 DEF ProviderInvariant, ChainInvariant
<1>4. CASE Commit \/ UNCHANGED providerVars
  <2>1. UNCHANGED <<tried, provider>>
    BY <1>4 DEF Commit, providerVars
  <2>2. UNCHANGED Before(provider)
    BY <2>1 DEF Before
  <2> QED  BY <1>1, <2>1, <2>2 DEF ProviderInvariant, ChainInvariant
<1> QED  BY <1>2, <1>3, <1>4 DEF ProviderNext

\* What the chain has behind it does not register, whatever is installed or broken.
LEMMA ProviderInvariance == ProviderSpec => []ProviderInvariant
BY ProviderStart, ProviderStep, PTL DEF ProviderSpec

\* configure_auto_session_builder: the provider a session gets is the first of the
\* chain that registers, whatever is installed or broken.
THEOREM BestIsKept == ProviderSpec => []BestThatRegisters
<1>1. ProviderInvariant => BestThatRegisters
  <2> SUFFICES ASSUME ProviderInvariant PROVE BestThatRegisters
    OBVIOUS
  <2>1. ASSUME Chained, provider \in Providers, NEW p \in Before(provider)
        PROVE  ~Registers(p)
    <3>1. p \in {"TensorRT", "CUDA"} /\ p # provider
      BY <2>1, BeforeFacts
    <3>2. CASE p \in Chain
      BY <2>1, <3>1, <3>2 DEF ProviderInvariant, ChainInvariant
    <3>3. CASE p \notin Chain
      BY <2>1, <3>1, <3>3, OutsideChain
    <3> QED  BY <3>2, <3>3
  <2>2. ~Chained /\ provider \in Providers => provider = Strict
    BY DEF ProviderInvariant, Providers
  <2>3. Chained => provider # "error"
    BY DEF ProviderInvariant, ChainInvariant
  <2> QED  BY <2>1, <2>2, <2>3 DEF BestThatRegisters
<1> QED  BY <1>1, ProviderInvariance, PTL

\* While nothing has registered the chain still has the CPU to try.
THEOREM ChainNeverRunsOut ==
  ProviderSpec => [](Chained /\ Unsettled => "CPU" \in Chain \ tried)
<1>1. ProviderInvariant => (Chained /\ Unsettled => "CPU" \in Chain \ tried)
  <2> SUFFICES ASSUME ProviderInvariant, Chained, Unsettled PROVE "CPU" \in Chain \ tried
    OBVIOUS
  <2>1. Registers("CPU") /\ "CPU" \in Chain /\ "CPU" # provider
    BY CpuRegisters DEF ProviderInvariant, Unsettled
  <2> QED  BY <2>1 DEF ProviderInvariant, ChainInvariant
<1> QED  BY <1>1, ProviderInvariance, PTL

-----------------------------------------------------------------------------
(***************************************************************************)
(* PolicyIo: bad values in the policy's memory are always marked as a memory in *)
(* use, so that the hold that follows clears them.                         *)
(***************************************************************************)

\* A memory that went bad is known to be in use.
PoisonIsMarked == poisoned => ~policyMemoryClean

MemoryFlags == policyMemoryClean \in BOOLEAN /\ poisoned \in BOOLEAN

IoInvariant ==
  /\ MemoryFlags /\ PoisonIsMarked
  /\ OnlyBadHoldsAreRefused /\ HoldForgetsPoison /\ NonfiniteIsFlagged

\* Something a step was shown, or the command, was not finite.
Tainted(r, command) ==
  \/ ~IsFinite(r.motion) \/ r.gravity # "finite" \/ ~IsFinite(r.pos)
  \/ ~IsFinite(command)

\* finite_array and projected_gravity_clean between them miss nothing.
LEMMA FlagsAreTaints ==
  ASSUME NEW r, NEW command
  PROVE  Flagged(Observation(r, command)) = Tainted(r, command)
<1> DEFINE obs == Observation(r, command)
<1>1. /\ Shown(r.motion).bad = ~IsFinite(r.motion)
      /\ ShownGravity(r.gravity).bad = (r.gravity # "finite")
      /\ Shown(r.pos).bad = ~IsFinite(r.pos)
      /\ Shown(command).bad = ~IsFinite(command)
  BY DEF Shown, ShownGravity
<1>2. \A part : part \in obs <=> \/ part = Shown(r.motion) \/ part = ShownGravity(r.gravity)
                                 \/ part = Shown(r.pos) \/ part = Shown(command)
  BY DEF Observation
<1> HIDE DEF obs
<1>3. CASE Tainted(r, command)
  <2>1. \E part \in obs : part.bad
    BY <1>1, <1>2, <1>3 DEF Tainted
  <2>2. Flagged(obs) = TRUE /\ Tainted(r, command) = TRUE
    BY <1>3, <2>1 DEF Flagged, Tainted
  <2> QED  BY <2>2 DEF obs
<1>4. CASE ~Tainted(r, command)
  <2>1. ~\E part \in obs : part.bad
    BY <1>1, <1>2, <1>4 DEF Tainted
  <2>2. Flagged(obs) = FALSE /\ Tainted(r, command) = FALSE
    BY <1>4, <2>1 DEF Flagged, Tainted
  <2> QED  BY <2>2 DEF obs
<1> QED  BY <1>3, <1>4

\* A report says what it was given.
LEMMA ReportFacts ==
  ASSUME NEW r, NEW reason, NEW flagged, NEW tainted, NEW outcome,
         Report(r, reason, flagged, tainted, outcome)
  PROVE  /\ report'.reason = reason /\ report'.outcome = outcome /\ report'.pos = r.pos
         /\ report'.flagged = flagged /\ report'.tainted = tainted
BY DEF Report

\* Whatever an axis reads, the command made of it is finite.
LEMMA CommandIsFinite == \A axis : Validated(axis) = "finite"
BY DEF Validated, IsFinite

\* Whatever the policy answers, the target made of it is finite.
LEMMA AnswerIsFinite ==
  \A action : Decoded(Cleaned(action), "finite") = "finite"
BY DEF Decoded, Cleaned, IsFinite

\* A step that is refused or sent says so of its own reason and positions.
LEMMA QuietReport ==
  ASSUME MemoryFlags, PoisonIsMarked, NEW r, NEW reason, NEW flagged, NEW tainted, NEW outcome,
         Report(r, reason, flagged, tainted, outcome),
         outcome \notin {"sent", "refused"}
  PROVE  (OnlyBadHoldsAreRefused /\ HoldForgetsPoison /\ NonfiniteIsFlagged)'
BY ReportFacts DEF OnlyBadHoldsAreRefused, HoldForgetsPoison, NonfiniteIsFlagged

\* The invariant and a step that lets the policy act.
LEMMA ActKeeps ==
  ASSUME IoInvariant, NEW r, PolicyActs(r, "finite")
  PROVE  IoInvariant'
<1>1. PICK action \in Values, spoils \in BOOLEAN :
        /\ policyMemoryClean' = (policyMemoryClean /\ ~MarksMemory(action))
        /\ poisoned' = (poisoned \/ spoils)
        /\ Report(r, "act", Flagged(Observation(r, "finite")) \/ ~IsFinite(action),
                  \/ ~IsFinite(r.motion) \/ r.gravity # "finite" \/ ~IsFinite(r.pos)
                  \/ ~IsFinite("finite") \/ ~IsFinite(action),
                  IF ~(dryRun \/ (Packs("finite") /\ Packs(Decoded(Cleaned(action), "finite"))))
                  THEN "refused" ELSE IF SampleFails THEN "telemetry" ELSE "sent")
  BY DEF PolicyActs
<1>2. policyMemoryClean' = FALSE /\ poisoned' \in BOOLEAN
  BY <1>1 DEF MarksMemory, IoInvariant, MemoryFlags
<1>3. dryRun \/ (Packs("finite") /\ Packs(Decoded(Cleaned(action), "finite")))
  BY AnswerIsFinite DEF Packs, IsFinite
<1>4. /\ report'.reason = "act"
      /\ report'.outcome = IF SampleFails THEN "telemetry" ELSE "sent"
      /\ report'.flagged = (Flagged(Observation(r, "finite")) \/ ~IsFinite(action))
      /\ report'.tainted = (\/ ~IsFinite(r.motion) \/ r.gravity # "finite" \/ ~IsFinite(r.pos)
                            \/ ~IsFinite("finite") \/ ~IsFinite(action))
  BY <1>1, <1>3, ReportFacts
<1>5. report'.flagged = report'.tainted
  <2>1. report'.tainted = (Tainted(r, "finite") \/ ~IsFinite(action))
    BY <1>4 DEF Tainted
  <2>2. Flagged(Observation(r, "finite")) = Tainted(r, "finite")
    BY FlagsAreTaints
  <2>3. report'.flagged = (Flagged(Observation(r, "finite")) \/ ~IsFinite(action))
    BY <1>4
  <2>4. (Flagged(Observation(r, "finite")) \/ ~IsFinite(action))
          = (Tainted(r, "finite") \/ ~IsFinite(action))
    <3>1. CASE Tainted(r, "finite")
      <4>1. Flagged(Observation(r, "finite"))
        BY <2>2, <3>1
      <4> QED  BY <3>1, <4>1
    <3>2. CASE ~Tainted(r, "finite")
      <4>1. ~Flagged(Observation(r, "finite"))
        BY <2>2, <3>2
      <4> QED  BY <3>2, <4>1
    <3> QED  BY <3>1, <3>2
  <2> QED  BY <2>1, <2>3, <2>4
<1> QED  BY <1>2, <1>4, <1>5
         DEF IoInvariant, MemoryFlags, PoisonIsMarked, OnlyBadHoldsAreRefused,
             HoldForgetsPoison, NonfiniteIsFlagged

\* The invariant and a step that holds.
LEMMA HoldKeeps ==
  ASSUME IoInvariant, NEW r, NEW reason \in Reasons \ {"act"},
         PolicyHolds(r, "finite", reason)
  PROVE  IoInvariant'
<1> DEFINE sent == dryRun \/ (Packs("finite") /\ Packs(HoldTarget(r)))
<1>1. /\ ResetPolicyMemory(FALSE)
      /\ poisoned' = (poisoned /\ policyMemoryClean)
      /\ Report(r, reason, Flagged(Observation(r, "finite")),
                \/ ~IsFinite(r.motion) \/ r.gravity # "finite" \/ ~IsFinite(r.pos)
                \/ ~IsFinite("finite"),
                IF ResetFails(reason) THEN "telemetry"
                ELSE IF ~sent THEN "refused"
                ELSE IF SampleFails THEN "telemetry" ELSE "sent")
  BY DEF PolicyHolds
<1>2. poisoned' = FALSE
  BY <1>1 DEF IoInvariant, MemoryFlags, PoisonIsMarked
<1>3. policyMemoryClean' \in BOOLEAN
  BY <1>1 DEF ResetPolicyMemory, IoInvariant, MemoryFlags
<1>4. /\ report'.reason = reason /\ report'.pos = r.pos
      /\ report'.outcome = IF ResetFails(reason) THEN "telemetry"
                           ELSE IF ~sent THEN "refused"
                           ELSE IF SampleFails THEN "telemetry" ELSE "sent"
      /\ report'.flagged = Flagged(Observation(r, "finite"))
      /\ report'.tainted = (\/ ~IsFinite(r.motion) \/ r.gravity # "finite" \/ ~IsFinite(r.pos)
                            \/ ~IsFinite("finite"))
  BY <1>1, ReportFacts
<1>5. report'.flagged = report'.tainted
  <2>1. report'.tainted = Tainted(r, "finite")
    BY <1>4 DEF Tainted
  <2> QED  BY <1>4, <2>1, FlagsAreTaints
<1>6. report'.outcome = "refused" => ~IsFinite(report'.pos)
  <2> SUFFICES ASSUME report'.outcome = "refused" PROVE ~IsFinite(r.pos)
    BY <1>4
  <2>1. ~sent
    BY <1>4
  <2> QED  BY <2>1 DEF Packs, HoldTarget, IsFinite
<1> QED  BY <1>2, <1>3, <1>4, <1>5, <1>6
         DEF IoInvariant, MemoryFlags, PoisonIsMarked, OnlyBadHoldsAreRefused,
             HoldForgetsPoison, NonfiniteIsFlagged

\* The memory starts clean.
LEMMA IoInit == PolicyIoInit => IoInvariant
<1> SUFFICES ASSUME PolicyIoInit PROVE IoInvariant
  OBVIOUS
<1>1. report.outcome = "none" /\ policyMemoryClean = TRUE /\ poisoned = FALSE
  BY DEF PolicyIoInit, PolicyInit, NoReport
<1> QED  BY <1>1 DEF IoInvariant, MemoryFlags, PoisonIsMarked, OnlyBadHoldsAreRefused,
                     HoldForgetsPoison, NonfiniteIsFlagged

\* Every step keeps the invariant.
LEMMA IoStep == IoInvariant /\ [PolicyIoNext]_ioVars => IoInvariant'
<1> SUFFICES ASSUME IoInvariant, [PolicyIoNext]_ioVars PROVE IoInvariant'
  OBVIOUS
<1>1. CASE Step
  <2>1. PICK r \in Offered, active \in BOOLEAN, axis \in Values :
          LET reason == StepReason(active, r.age, r.enabled)
          IN IF ~ShapeMatches
             THEN /\ Report(r, reason, FALSE, FALSE, "shape")
                  /\ UNCHANGED <<policyVars, poisoned>>
             ELSE IF reason # "act"
             THEN PolicyHolds(r, Validated(axis), reason)
             ELSE PolicyActs(r, Validated(axis)) \/ InferenceFails(r)
    BY <1>1 DEF Step
  <2> DEFINE reason == StepReason(active, r.age, r.enabled)
  <2>2. reason \in Reasons
    BY DEF StepReason, Reasons
  <2>3. Validated(axis) = "finite"
    BY CommandIsFinite
  <2> HIDE DEF reason
  <2>4. ASSUME NEW why, NEW outcome \in {"shape", "inference"},
               Report(r, why, FALSE, FALSE, outcome), UNCHANGED <<policyMemoryClean, poisoned>>
        PROVE  IoInvariant'
    <3>1. (OnlyBadHoldsAreRefused /\ HoldForgetsPoison /\ NonfiniteIsFlagged)'
      BY <2>4, QuietReport DEF IoInvariant
    <3> QED  BY <2>4, <3>1 DEF IoInvariant, MemoryFlags, PoisonIsMarked
  <2>5. CASE PolicyHolds(r, "finite", reason) /\ reason # "act"
    BY <2>2, <2>5, HoldKeeps
  <2>6. CASE PolicyActs(r, "finite")
    BY <2>6, ActKeeps
  <2> QED  BY <2>1, <2>3, <2>4, <2>5, <2>6 DEF reason, InferenceFails, policyVars
<1>2. CASE Load \/ DiskFills \/ Stopped \/ UNCHANGED ioVars
  <2>1. UNCHANGED <<policyMemoryClean, poisoned, report>>
    BY <1>2 DEF Load, DiskFills, Stopped, ioVars, policyVars
  <2> QED  BY <2>1 DEF IoInvariant, MemoryFlags, PoisonIsMarked, OnlyBadHoldsAreRefused,
                       HoldForgetsPoison, NonfiniteIsFlagged
<1> QED  BY <1>1, <1>2 DEF PolicyIoNext

\* A memory with bad values is never thought clean, for any input of a step.
LEMMA IoInvariance == PolicyIoSpec => []IoInvariant
BY IoInit, IoStep, PTL DEF PolicyIoSpec

\* run_step: a step that lets the policy act is never refused by the encoder; only a
\* hold with joint positions that are not finite is.
THEOREM OnlyHoldsAreRefused == PolicyIoSpec => []OnlyBadHoldsAreRefused
<1>1. IoInvariant => OnlyBadHoldsAreRefused
  BY DEF IoInvariant
<1> QED  BY <1>1, IoInvariance, PTL

\* reset_policy_memory: whatever the memory held, the first hold forgets it.
THEOREM PoisonIsForgotten == PolicyIoSpec => []HoldForgetsPoison
<1>1. IoInvariant => HoldForgetsPoison
  BY DEF IoInvariant
<1> QED  BY <1>1, IoInvariance, PTL

\* finite_array and projected_gravity: the NONFINITE flag of a step is right.
THEOREM FlagsTellTheTruth == PolicyIoSpec => []NonfiniteIsFlagged
<1>1. IoInvariant => NonfiniteIsFlagged
  BY DEF IoInvariant
<1> QED  BY <1>1, IoInvariance, PTL

-----------------------------------------------------------------------------
(***************************************************************************)
(* LocomotionSim: what the runtime sends is made from a state or numbered 0, *)
(* and the simulator takes a target for valid only when it is not numbered 0. *)
(***************************************************************************)

\* What the runtime sends: a target is made from a state, or is numbered 0.
SafeDatagrams ==
  [type : {"target"}, seq : Seqs, from : {"state"}, path : {"client"}]
    \cup [type : {"target"}, seq : {0}, from : {"default pose"}, path : {"client"}]
    \cup [type : {"command"}, seq : Seqs, from : {"command"}, path : {"client"}]

SafeTargets == {d \in SafeDatagrams : d.type = "target"} \cup {InitialTarget}

HandshakeInvariant ==
  /\ actionSeq \in Seqs
  /\ pc = "start" => actionSeq = 0
  /\ pc \in {"command", "target"} => output \in Outputs
  /\ toSim \in Seq(SafeDatagrams)
  /\ latestTarget \in SafeTargets
  /\ HandshakeDrivesNothing

\* Sequence numbers wrap within their modulus.
LEMMA Numbers ==
  /\ 0 \in Seqs
  /\ \A n \in Seqs : Succ(n) \in Seqs /\ Pred(n) \in Seqs
BY PolicyAssumption DEF PolicyAssumption, Seqs, Succ, Pred

\* What a step makes for one reason is an output.
LEMMA OutputType ==
  ASSUME actionSeq \in Seqs, NEW reason \in Reasons
  PROVE  MakeOutput(reason) \in Outputs
BY Numbers DEF MakeOutput, Outputs

\* A step is made for one of the reasons.
LEMMA ReasonType ==
  ASSUME NEW active, NEW a, NEW enabled
  PROVE  StepReason(active, a, enabled) \in Reasons
BY DEF StepReason, Reasons

\* What run_sim sends is one of the safe datagrams.
LEMMA SentFacts ==
  /\ \A n \in Seqs : Command(n) \in SafeDatagrams /\ Target(n, "state") \in SafeDatagrams
  /\ Target(0, "default pose") \in SafeDatagrams
BY DEF Command, Target, SafeDatagrams

\* A target that the simulator finds valid was made from a state.
LEMMA ValidIsFromState ==
  ASSUME NEW goal \in SafeTargets, NEW elapsed, TargetValid(goal, elapsed)
  PROVE  goal.from = "state"
<1>1. CASE goal = InitialTarget
  <2>1. goal.seq = 0
    BY <1>1 DEF InitialTarget, Target
  <2> QED  BY <2>1 DEF TargetValid
<1>2. CASE goal \in SafeDatagrams /\ goal.type = "target"
  BY <1>2 DEF SafeDatagrams, TargetValid
<1> QED  BY <1>1, <1>2 DEF SafeTargets

\* A socket's queue holds what was put into it.
LEMMA QueueFacts ==
  ASSUME NEW S, NEW q \in Seq(S)
  PROVE  /\ \A d \in S : Append(q, d) \in Seq(S)
         /\ q # <<>> => Head(q) \in S /\ Tail(q) \in Seq(S)
BY AppendProperties, HeadTailProperties

\* Neither process has sent anything yet.
LEMMA HandshakeInit == SimInit => HandshakeInvariant
<1> SUFFICES ASSUME SimInit PROVE HandshakeInvariant
  OBVIOUS
<1>1. actionSeq = 0 /\ pc = "start" /\ toSim = <<>> /\ latestTarget = InitialTarget
      /\ driving = Nothing
  BY DEF SimInit, PolicyInit
<1>2. <<>> \in Seq(SafeDatagrams)
  OBVIOUS
<1> QED  BY <1>1, <1>2, Numbers DEF HandshakeInvariant, SafeTargets, HandshakeDrivesNothing

\* Every step of the runtime, the simulator and the sockets keeps the invariant.
LEMMA HandshakeStep == HandshakeInvariant /\ [SimNext]_linkVars => HandshakeInvariant'
<1> SUFFICES ASSUME HandshakeInvariant, [SimNext]_linkVars PROVE HandshakeInvariant'
  OBVIOUS
<1> USE DEF HandshakeInvariant
<1>1. CASE Start
  <2>1. pc = "start" /\ actionSeq = 0
    BY <1>1 DEF Start
  <2>2. UNCHANGED <<latestTarget, driving>> /\ pc' \in {"turn", "ended"}
    BY <1>1 DEF Start, Ended, simVars
  <2>3. CASE Simulating
    <3>1. toSim' = Append(toSim, Target(0, "default pose")) /\ actionSeq' = Succ(actionSeq)
      BY <1>1, <2>1, <2>3 DEF Start
    <3>2. toSim' \in Seq(SafeDatagrams)
      BY <3>1, SentFacts, QueueFacts
    <3> QED  BY <2>2, <3>1, <3>2, Numbers DEF HandshakeDrivesNothing
  <2>4. CASE ~Simulating
    <3>1. UNCHANGED <<toSim, actionSeq>>
      BY <1>1, <2>4 DEF Start
    <3> QED  BY <2>2, <3>1 DEF HandshakeDrivesNothing
  <2> QED  BY <2>3, <2>4
<1>2. CASE PolicyStep
  <2>1. PICK active \in BOOLEAN :
          /\ StepFromState(StepReason(active, age, TRUE))
          /\ output' = MakeOutput(StepReason(active, age, TRUE))
    BY <1>2 DEF PolicyStep
  <2>2. actionSeq' = Succ(actionSeq)
    BY <2>1 DEF StepFromState
  <2>3. output' \in Outputs
    BY <2>1, OutputType, ReasonType
  <2>4. pc' = "command" /\ UNCHANGED <<toSim, latestTarget, driving>>
    BY <1>2 DEF PolicyStep, simVars
  <2> QED  BY <2>2, <2>3, <2>4, Numbers DEF HandshakeDrivesNothing
<1>3. CASE SendCommand
  <2>1. /\ pc = "command" /\ pc' = "target" /\ toSim' = Append(toSim, Command(output.command))
        /\ UNCHANGED <<actionSeq, output, latestTarget, driving>>
    BY <1>3 DEF SendCommand, simVars, policyVars
  <2>2. output.command \in Seqs
    BY <2>1 DEF Outputs
  <2>3. toSim' \in Seq(SafeDatagrams)
    BY <2>1, <2>2, SentFacts, QueueFacts
  <2> QED  BY <2>1, <2>3 DEF HandshakeDrivesNothing
<1>4. CASE SendTarget
  <2>1. /\ pc = "target" /\ pc' = "turn" /\ toSim' = Append(toSim, Target(output.seq, "state"))
        /\ UNCHANGED <<actionSeq, latestTarget, driving>>
    BY <1>4 DEF SendTarget, simVars
  <2>2. output.seq \in Seqs
    BY <2>1 DEF Outputs
  <2>3. toSim' \in Seq(SafeDatagrams)
    BY <2>1, <2>2, SentFacts, QueueFacts
  <2> QED  BY <2>1, <2>3 DEF HandshakeDrivesNothing
<1>5. CASE SendFails \/ Stop
  <2>1. pc' = "ended" /\ UNCHANGED <<actionSeq, toSim, latestTarget, driving>>
    BY <1>5 DEF SendFails, Stop, Ended, simVars, policyVars
  <2> QED  BY <2>1 DEF HandshakeDrivesNothing
<1>6. CASE RunAgain
  <2>1. pc' = "start" /\ actionSeq' = 0 /\ UNCHANGED <<toSim, latestTarget, driving>>
    BY <1>6 DEF RunAgain, simVars
  <2> QED  BY <2>1, Numbers DEF HandshakeDrivesNothing
<1>7. CASE SimReceive
  <2>1. /\ toSim # <<>> /\ toSim' = Tail(toSim)
        /\ latestTarget' = latestTarget \/ (latestTarget' = Head(toSim) /\ Head(toSim).type = "target")
        /\ UNCHANGED <<pc, actionSeq, output, driving>>
    BY <1>7 DEF SimReceive, runtimeVars, policyVars
  <2>2. Head(toSim) \in SafeDatagrams /\ toSim' \in Seq(SafeDatagrams)
    BY <2>1, QueueFacts
  <2>3. latestTarget' \in SafeTargets
    BY <2>1, <2>2 DEF SafeTargets
  <2> QED  BY <2>1, <2>2, <2>3 DEF HandshakeDrivesNothing
<1>8. CASE SimStep
  <2>1. UNCHANGED <<pc, actionSeq, output, toSim, latestTarget>>
    BY <1>8 DEF SimStep, runtimeVars, policyVars
  <2>2. driving' \in {"state", Nothing}
    BY <1>8, ValidIsFromState DEF SimStep
  <2> QED  BY <2>1, <2>2 DEF HandshakeDrivesNothing
<1>9. CASE SimStop
  <2>1. UNCHANGED <<pc, actionSeq, output, latestTarget>> /\ toSim' = <<>> /\ driving' = Nothing
    BY <1>9 DEF SimStop, runtimeVars, policyVars
  <2>2. <<>> \in Seq(SafeDatagrams)
    OBVIOUS
  <2> QED  BY <2>1, <2>2 DEF HandshakeDrivesNothing
<1>10. CASE \/ StepWithoutState \/ Receive \/ SimSend \/ SimSendFails \/ Tick
            \/ UNCHANGED linkVars
  <2>1. UNCHANGED <<pc, actionSeq, output, toSim, latestTarget, driving>>
    BY <1>10 DEF StepWithoutState, Receive, SimSend, SimSendFails, Tick, linkVars,
                 runtimeVars, policyVars, simVars
  <2> QED  BY <2>1 DEF HandshakeDrivesNothing
<1> QED  BY <1>1, <1>2, <1>3, <1>4, <1>5, <1>6, <1>7, <1>8, <1>9, <1>10
         DEF SimNext, Runtime, SimLoop

\* The default pose with which run_sim begins never moves the simulated robot: only
\* targets made from a state are valid to it, however the datagrams are delayed.
THEOREM HandshakeNeverDrives == SimSpec => []HandshakeDrivesNothing
<1>1. HandshakeInvariant => HandshakeDrivesNothing
  BY DEF HandshakeInvariant
<1> QED  BY <1>1, HandshakeInit, HandshakeStep, PTL DEF SimSpec

-----------------------------------------------------------------------------
(***************************************************************************)
(* LocomotionSim as a link of PolicyLink.  The invariant says of what a run *)
(* has sent what LocomotionCdcProofs says of the wire: between two steps the *)
(* policy mirrors it, and a step that is being sent is next to it.          *)
(***************************************************************************)

Sending == {"command", "target"}

ToldTyped ==
  told \in [command : Seqs \cup {Nothing}, seq : Seqs \cup {Nothing},
            action : Seqs \cup {Zero}, run : 0 .. MaxMemory]

\* Between two steps the policy mirrors what has been told.
TurnMirrors ==
  pc = "turn" =>
    /\ memory = told.run /\ lastAction = told.action
    /\ policyMemoryClean = (told.run = 0)
    /\ Succ(told.seq) = actionSeq

\* The step that is being sent is the next one, one inference or one reset ahead.
SendIsNext ==
  pc \in Sending =>
    /\ output \in Outputs
    /\ output.command = output.seq
    /\ Succ(told.seq) = output.seq /\ Succ(output.seq) = actionSeq
    /\ output.reason = "act" =>
         memory = Count(told.run) /\ policyMemoryClean = FALSE /\ output.action # Zero
    /\ output.reason # "act" =>
         /\ memory = 0 /\ policyMemoryClean = TRUE /\ lastAction = Zero
         /\ output.action = Zero

RunInvariant ==
  /\ actionSeq \in Seqs
  /\ policyMemoryClean \in BOOLEAN
  /\ ToldTyped
  /\ told.run = 0 => told.action = Zero
  /\ TurnMirrors
  /\ SendIsNext
  /\ pc = "target" => told.command = output.seq

\* The count of inferences stays within its bound and is not 0 after one.
LEMMA CountStays ==
  /\ 0 \in 0 .. MaxMemory
  /\ \A n \in 0 .. MaxMemory : Count(n) \in 0 .. MaxMemory /\ Count(n) # 0
BY PolicyAssumption DEF PolicyAssumption, Count

\* wrapping_sub undoes wrapping_add, and no number is the action of a hold.
LEMMA BackAgain ==
  ASSUME NEW n \in Seqs
  PROVE  Pred(Succ(n)) = n /\ n # Zero
<1>1. SeqModulus \in Nat \ {0} /\ Zero \notin Nat /\ n \in 0 .. SeqModulus - 1
  BY PolicyAssumption DEF PolicyAssumption, Seqs
<1>2. n # Zero
  BY <1>1
<1>3. Pred(Succ(n)) = n
  BY <1>1 DEF Succ, Pred
<1> QED  BY <1>2, <1>3

\* No run has told anything.
LEMMA RunInit == SimInit => RunInvariant
<1> SUFFICES ASSUME SimInit PROVE RunInvariant
  OBVIOUS
<1>1. pc = "start" /\ told = NothingTold /\ actionSeq = 0 /\ policyMemoryClean = TRUE
  BY DEF SimInit, PolicyInit
<1>2. ToldTyped
  BY <1>1, CountStays DEF ToldTyped, NothingTold
<1> QED  BY <1>1, <1>2, Numbers
         DEF RunInvariant, TurnMirrors, SendIsNext, Sending, NothingTold

\* What a step of the loop, from a state, leaves to be sent.
LEMMA StepMakes ==
  ASSUME RunInvariant, PolicyStep
  PROVE  \E reason \in Reasons :
           /\ output' = MakeOutput(reason)
           /\ output'.seq = actionSeq /\ output'.command = actionSeq
           /\ output'.reason = reason
           /\ actionSeq' = Succ(actionSeq)
           /\ reason = "act" => /\ output'.action = actionSeq
                                /\ memory' = Count(memory) /\ policyMemoryClean' = FALSE
                                /\ lastAction' = lastAction
           /\ reason # "act" => /\ output'.action = Zero
                                /\ memory' = 0 /\ policyMemoryClean' = TRUE
                                /\ lastAction' = Zero
<1>1. PICK active \in BOOLEAN :
        /\ StepFromState(StepReason(active, age, TRUE))
        /\ output' = MakeOutput(StepReason(active, age, TRUE))
  BY DEF PolicyStep
<1>2. PICK reason \in Reasons : StepFromState(reason) /\ output' = MakeOutput(reason)
  BY <1>1, ReasonType
<1>3. actionSeq \in Seqs /\ Pred(Succ(actionSeq)) = actionSeq
  BY BackAgain DEF RunInvariant
<1>4. /\ output'.seq = actionSeq /\ output'.command = actionSeq /\ output'.reason = reason
      /\ actionSeq' = Succ(actionSeq)
  BY <1>2, <1>3 DEF MakeOutput, StepFromState
<1>5. CASE reason = "act"
  BY <1>2, <1>4, <1>5 DEF MakeOutput, StepFromState, ActFromState
<1>6. CASE reason # "act"
  <2>1. policyMemoryClean = TRUE => memory = 0 /\ lastAction = Zero
    BY DEF PolicyStep, RunInvariant, TurnMirrors
  <2>2. memory' = 0 /\ policyMemoryClean' = TRUE /\ lastAction' = Zero
    BY <1>2, <1>6, <2>1 DEF StepFromState, ResetPolicyMemory, RunInvariant
  <2>3. output'.action = Zero
    BY <1>2, <1>6 DEF MakeOutput
  <2> QED  BY <1>2, <1>4, <1>6, <2>2, <2>3
<1> QED  BY <1>5, <1>6

\* Every step of the two processes keeps it: the simulator has no part in it, and
\* a run that ends takes what it had not sent with it.
LEMMA RunStep == RunInvariant /\ [SimNext]_linkVars => RunInvariant'
<1> SUFFICES ASSUME RunInvariant, [SimNext]_linkVars PROVE RunInvariant'
  OBVIOUS
<1>1. CASE Start
  <2>1. actionSeq' \in Seqs /\ policyMemoryClean' = TRUE /\ memory' = 0 /\ lastAction' = Zero
    BY <1>1, Numbers DEF Start, ResetPolicyMemory, RunInvariant
  <2>2. CASE Simulating
    <3>1. /\ pc' = "turn" /\ told' = [NothingTold EXCEPT !.seq = actionSeq]
          /\ actionSeq' = Succ(actionSeq)
      BY <1>1, <2>2 DEF Start
    <3>2. /\ told' = [command |-> Nothing, seq |-> actionSeq, action |-> Zero, run |-> 0]
          /\ told'.run = 0 /\ told'.action = Zero /\ told'.seq = actionSeq
      BY <3>1 DEF NothingTold
    <3>3. ToldTyped'
      BY <3>2, CountStays DEF ToldTyped, RunInvariant
    <3> QED  BY <2>1, <3>1, <3>2, <3>3 DEF RunInvariant, TurnMirrors, SendIsNext, Sending
  <2>3. CASE ~Simulating
    <3>1. pc' = "ended" /\ told' = told
      BY <1>1, <2>3 DEF Start, Ended
    <3> QED  BY <2>1, <3>1 DEF RunInvariant, ToldTyped, TurnMirrors, SendIsNext, Sending
  <2> QED  BY <2>2, <2>3
<1>2. CASE PolicyStep
  <2>1. PICK reason \in Reasons :
           /\ output' = MakeOutput(reason)
           /\ output'.seq = actionSeq /\ output'.command = actionSeq
           /\ output'.reason = reason
           /\ actionSeq' = Succ(actionSeq)
           /\ reason = "act" => /\ output'.action = actionSeq
                                /\ memory' = Count(memory) /\ policyMemoryClean' = FALSE
                                /\ lastAction' = lastAction
           /\ reason # "act" => /\ output'.action = Zero
                                /\ memory' = 0 /\ policyMemoryClean' = TRUE
                                /\ lastAction' = Zero
    BY <1>2, StepMakes
  <2>2. pc = "turn" /\ pc' = "command" /\ told' = told
    BY <1>2 DEF PolicyStep
  <2>3. output' \in Outputs /\ actionSeq # Zero
    BY <2>1, OutputType, BackAgain DEF RunInvariant
  <2>4. SendIsNext'
    BY <2>1, <2>2, <2>3 DEF SendIsNext, RunInvariant, TurnMirrors
  <2>5. policyMemoryClean' \in BOOLEAN
    BY <2>1
  <2> QED  BY <2>1, <2>2, <2>4, <2>5, Numbers DEF RunInvariant, ToldTyped, TurnMirrors
<1>3. CASE SendCommand
  <2>1. /\ pc = "command" /\ pc' = "target" /\ told' = [told EXCEPT !.command = output.command]
        /\ UNCHANGED <<policyVars, output>>
    BY <1>3 DEF SendCommand
  <2>2. output \in Outputs /\ output.command = output.seq
    BY <2>1 DEF RunInvariant, SendIsNext, Sending
  <2>3. /\ ToldTyped'
        /\ told'.command = output.seq /\ told'.run = told.run /\ told'.seq = told.seq
        /\ told'.action = told.action
    BY <2>1, <2>2 DEF RunInvariant, ToldTyped, Outputs
  <2> QED  BY <2>1, <2>3 DEF RunInvariant, TurnMirrors, SendIsNext, Sending, policyVars
<1>4. CASE SendTarget
  <2>1. /\ pc = "target" /\ pc' = "turn" /\ lastAction' = output.action
        /\ told' = [told EXCEPT !.seq = output.seq, !.action = output.action,
                                !.run = IF output.reason = "act" THEN Count(@) ELSE 0]
        /\ UNCHANGED <<memory, policyMemoryClean, actionSeq>>
    BY <1>4 DEF SendTarget, RecordAction
  <2>2. output \in Outputs /\ told.run \in 0 .. MaxMemory
    BY <2>1 DEF RunInvariant, SendIsNext, Sending, ToldTyped
  <2>3. (IF output.reason = "act" THEN Count(told.run) ELSE 0) \in 0 .. MaxMemory
    BY <2>2, CountStays
  <2>4. /\ ToldTyped'
        /\ told'.seq = output.seq /\ told'.action = output.action
        /\ told'.run = IF output.reason = "act" THEN Count(told.run) ELSE 0
    BY <2>1, <2>2, <2>3 DEF RunInvariant, ToldTyped, Outputs
  <2>5. /\ output.reason = "act" => told'.run # 0
        /\ output.reason # "act" => told'.run = 0
    BY <2>2, <2>4, CountStays
  <2>6. TurnMirrors' /\ (told'.run = 0 => told'.action = Zero)
    BY <2>1, <2>4, <2>5 DEF RunInvariant, TurnMirrors, SendIsNext, Sending
  <2> QED  BY <2>1, <2>4, <2>6 DEF RunInvariant, SendIsNext, Sending
<1>5. CASE SendFails \/ Stop
  <2>1. pc' = "ended" /\ UNCHANGED <<policyVars, told>>
    BY <1>5 DEF SendFails, Stop, Ended
  <2> QED  BY <2>1 DEF RunInvariant, ToldTyped, TurnMirrors, SendIsNext, Sending, policyVars
<1>6. CASE RunAgain
  <2>1. pc' = "start" /\ actionSeq' = 0 /\ policyMemoryClean' = TRUE /\ told' = told
    BY <1>6 DEF RunAgain
  <2> QED  BY <2>1, Numbers DEF RunInvariant, ToldTyped, TurnMirrors, SendIsNext, Sending
<1>7. CASE \/ StepWithoutState \/ Receive \/ SimReceive \/ SimLoop \/ SimStop \/ Tick
           \/ UNCHANGED linkVars
  <2>1. UNCHANGED <<policyVars, pc, output, told>>
    BY <1>7 DEF StepWithoutState, Receive, SimReceive, SimLoop, SimStep, SimSend, SimSendFails,
                SimStop, Tick, linkVars, runtimeVars
  <2> QED  BY <2>1 DEF RunInvariant, ToldTyped, TurnMirrors, SendIsNext, policyVars
<1> QED  BY <1>1, <1>2, <1>3, <1>4, <1>5, <1>6, <1>7 DEF SimNext, Runtime

\* What PolicyLink sees of a run, variable by variable.
Told == IF Listening THEN told ELSE NothingTold
Pending == IF pc \in {"command", "target"}
           THEN [number |-> output.seq, action |-> output.action] ELSE Nothing
Memory == IF Listening THEN memory ELSE 0
Observed == IF Listening THEN lastAction ELSE Zero

Seen == <<Listening, Told, Pending, Memory, Observed>>

LEMMA SeenIsOwed == UNCHANGED Seen => UNCHANGED Owed!linkVars
BY DEF Seen, Owed!linkVars, Told, Pending, Memory, Observed

\* The two modules count and number alike.
LEMMA SameArithmetic ==
  /\ \A n : Owed!NumberAfter(n) = Succ(n) /\ Owed!OneMore(n) = Count(n)
  /\ Owed!Numbers = Seqs /\ Owed!Silence = NothingTold
BY DEF Owed!NumberAfter, Succ, Owed!OneMore, Count, Owed!Numbers, Seqs, Owed!Silence, NothingTold

\* A runtime that does not listen has nothing to be seen.
Quiet == ~Listening /\ Told = NothingTold /\ Pending = Nothing /\ Memory = 0 /\ Observed = Zero

LEMMA Unheard == ~Listening => Quiet
BY DEF Listening, Quiet, Told, Pending, Memory, Observed

\* The first run begins without a link.
LEMMA OwedInit == SimInit => Owed!LinkInit
BY SameArithmetic DEF SimInit, Listening, Owed!LinkInit

\* A step after which the runtime does not listen is the end of the link, or a
\* stutter where there was none.
LEMMA LeavingEnds ==
  ASSUME ~Listening'
  PROVE  Owed!LinkNext \/ UNCHANGED Seen
<1>1. Quiet'
  BY DEF Listening, Quiet, Told, Pending, Memory, Observed
<1>2. CASE Listening
  <2>1. Owed!End
    BY <1>1, <1>2, SameArithmetic DEF Owed!End, Quiet, Told, Pending, Memory, Observed
  <2> QED  BY <2>1 DEF Owed!LinkNext
<1>3. CASE ~Listening
  <2>1. Quiet
    BY <1>3, Unheard
  <2>2. Listening' = Listening
    BY <1>3 DEF Listening
  <2> QED  BY <1>1, <2>1, <2>2 DEF Quiet, Seen
<1> QED  BY <1>2, <1>3

\* The handshake begins a link, greeted with the first number.
LEMMA StartBegins ==
  ASSUME RunInvariant, Start, Listening'
  PROVE  Owed!Begin
<1>1. /\ pc = "start" /\ pc' = "turn" /\ told' = [NothingTold EXCEPT !.seq = actionSeq]
      /\ memory' = 0 /\ lastAction' = Zero
  BY DEF Start, Ended, ResetPolicyMemory, Listening
<1>2. ~Listening /\ Quiet
  BY <1>1, Unheard DEF Listening
<1>3. Told' = told' /\ Pending' = Nothing /\ Memory' = 0 /\ Observed' = Zero
  BY <1>1 DEF Told, Pending, Memory, Observed, Listening
<1>4. actionSeq \in Owed!Numbers
  BY SameArithmetic DEF RunInvariant
<1> QED  BY <1>1, <1>2, <1>3, <1>4, SameArithmetic
         DEF Owed!Begin, Quiet, Told, Pending, Memory, Observed

\* A step that is made is Act or Hold.
LEMMA StepDecides ==
  ASSUME RunInvariant, PolicyStep
  PROVE  Owed!Act \/ Owed!Hold
<1>1. PICK reason \in Reasons :
         /\ output'.seq = actionSeq
         /\ reason = "act" => /\ output'.action = actionSeq
                              /\ memory' = Count(memory) /\ lastAction' = lastAction
         /\ reason # "act" => /\ output'.action = Zero
                              /\ memory' = 0 /\ lastAction' = Zero
  BY StepMakes
<1>2. pc = "turn" /\ pc' = "command" /\ told' = told
  BY DEF PolicyStep
<1>3. /\ Listening /\ Told = told /\ Pending = Nothing /\ Memory = memory
      /\ Observed = lastAction
  BY <1>2 DEF Listening, Told, Pending, Memory, Observed
<1>4. /\ Listening' /\ Told' = told /\ Memory' = memory' /\ Observed' = lastAction'
      /\ Pending' = [number |-> output'.seq, action |-> output'.action]
  BY <1>2 DEF Listening, Told, Pending, Memory, Observed
<1>5. /\ memory = told.run /\ lastAction = told.action
      /\ Succ(told.seq) = actionSeq /\ actionSeq \in Seqs
  BY <1>2 DEF RunInvariant, TurnMirrors
<1>6. actionSeq \in Owed!Numbers /\ Owed!InTurn(actionSeq)
  BY <1>3, <1>5, SameArithmetic DEF Owed!InTurn, Told
<1>7. CASE reason = "act"
  <2>1. Pending' = [number |-> actionSeq, action |-> actionSeq]
    BY <1>1, <1>4, <1>7
  <2>2. Owed!Act
    BY <1>1, <1>3, <1>4, <1>5, <1>6, <1>7, <2>1, SameArithmetic
       DEF Owed!Act, Told, Pending, Memory, Observed, Listening
  <2> QED  BY <2>2
<1>8. CASE reason # "act"
  <2>1. Pending' = [number |-> actionSeq, action |-> Zero]
    BY <1>1, <1>4, <1>8
  <2>2. Owed!Hold
    BY <1>1, <1>3, <1>4, <1>6, <1>8, <2>1
       DEF Owed!Hold, Told, Pending, Memory, Observed, Listening
  <2> QED  BY <2>2
<1> QED  BY <1>7, <1>8

\* What is being sent is a step of PolicyLink.
LEMMA SendingIsAStep ==
  ASSUME RunInvariant, pc \in Sending
  PROVE  Pending \in Owed!Steps
<1>1. output \in Outputs
  BY DEF RunInvariant, SendIsNext
<1>2. Pending = [number |-> output.seq, action |-> output.action]
  BY DEF Pending, Sending
<1> QED  BY <1>1, <1>2, SameArithmetic DEF Outputs, Owed!Steps

\* The command datagram announces it.
LEMMA CommandAnnounces ==
  ASSUME RunInvariant, SendCommand
  PROVE  Owed!Announce
<1>1. /\ pc = "command" /\ pc' = "target" /\ UNCHANGED <<output, memory, lastAction>>
      /\ told' = [told EXCEPT !.command = output.command]
      /\ output.command = output.seq
  BY DEF SendCommand, policyVars, RunInvariant, SendIsNext, Sending
<1>2. Listening /\ Listening' /\ Told = told /\ Told' = told'
  BY <1>1 DEF Listening, Told
<1>3. /\ Pending = [number |-> output.seq, action |-> output.action]
      /\ UNCHANGED <<Pending, Memory, Observed>>
  BY <1>1, <1>2 DEF Pending, Memory, Observed
<1>4. Pending \in Owed!Steps
  BY <1>1, SendingIsAStep DEF Sending
<1> QED  BY <1>1, <1>2, <1>3, <1>4 DEF Owed!Announce, Told, Pending, Memory, Observed

\* The target datagram delivers it, under the number that was announced.
LEMMA TargetDelivers ==
  ASSUME RunInvariant, SendTarget
  PROVE  Owed!Deliver
<1>1. /\ pc = "target" /\ pc' = "turn" /\ UNCHANGED memory
      /\ lastAction' = output.action
      /\ told' = [told EXCEPT !.seq = output.seq, !.action = output.action,
                              !.run = IF output.reason = "act" THEN Count(@) ELSE 0]
      /\ told.command = output.seq
  BY DEF SendTarget, RecordAction, RunInvariant
<1>2. /\ Listening /\ Listening' /\ Told = told /\ Told' = told'
      /\ Pending = [number |-> output.seq, action |-> output.action] /\ Pending' = Nothing
      /\ Memory = memory /\ Memory' = memory' /\ Observed' = lastAction'
  BY <1>1 DEF Listening, Told, Pending, Memory, Observed
<1>3. Pending \in Owed!Steps
  BY <1>1, SendingIsAStep DEF Sending
<1>4. output.reason = "act" <=> output.action # Zero
  BY <1>1 DEF RunInvariant, SendIsNext, Sending
<1>5. told' = [told EXCEPT !.seq = Pending.number, !.action = Pending.action,
                           !.run = IF Pending.action = Zero THEN 0 ELSE Owed!OneMore(@)]
  BY <1>1, <1>2, <1>4, SameArithmetic
<1> QED  BY <1>1, <1>2, <1>3, <1>5 DEF Owed!Deliver, Told, Pending, Memory, Observed

\* Every step of either process is one of PolicyLink, or a stutter of it.
LEMMA OwedStep ==
  RunInvariant /\ [SimNext]_linkVars => [Owed!LinkNext]_(Owed!linkVars)
<1> SUFFICES ASSUME RunInvariant, [SimNext]_linkVars
             PROVE  Owed!LinkNext \/ UNCHANGED Seen
  <2> HAVE RunInvariant /\ [SimNext]_linkVars
  <2> QED  BY SeenIsOwed
<1>1. CASE ~Listening'
  BY <1>1, LeavingEnds
<1>2. CASE Listening' /\ Start
  BY <1>2, StartBegins DEF Owed!LinkNext
<1>3. CASE PolicyStep
  BY <1>3, StepDecides DEF Owed!LinkNext
<1>4. CASE SendCommand
  BY <1>4, CommandAnnounces DEF Owed!LinkNext
<1>5. CASE SendTarget
  BY <1>5, TargetDelivers DEF Owed!LinkNext
<1>6. CASE Listening' /\ (SendFails \/ Stop \/ RunAgain)
  BY <1>6 DEF SendFails, Stop, RunAgain, Ended, Listening
<1>7. CASE \/ StepWithoutState \/ Receive \/ SimReceive \/ SimLoop \/ SimStop \/ Tick
           \/ UNCHANGED linkVars
  <2>1. UNCHANGED <<policyVars, pc, output, told>>
    BY <1>7 DEF StepWithoutState, Receive, SimReceive, SimLoop, SimStep, SimSend, SimSendFails,
                SimStop, Tick, linkVars, runtimeVars
  <2> QED  BY <2>1 DEF Seen, Told, Pending, Memory, Observed, Listening, policyVars
<1> QED  BY <1>1, <1>2, <1>3, <1>4, <1>5, <1>6, <1>7 DEF SimNext, Runtime

\* For every modulus, timeout and length of a queue, and whenever either process
\* ends, what a run sends to the simulator is a link that begins with its handshake
\* and on which an inference continues exactly from what this run has sent (run_sim,
\* step_from_state, reset_policy_memory, record_action).
THEOREM EveryRunIsAPolicyLink == SimSpec => RunsArePolicyLinks
<1>1. SimInit => RunInvariant
  BY RunInit
<1>2. RunInvariant /\ [SimNext]_linkVars => RunInvariant'
  BY RunStep
<1>3. SimInit => Owed!LinkInit
  BY OwedInit
<1>4. RunInvariant /\ [SimNext]_linkVars => [Owed!LinkNext]_(Owed!linkVars)
  BY OwedStep
<1> QED  BY <1>1, <1>2, <1>3, <1>4, PTL
         DEF SimSpec, RunsArePolicyLinks, Owed!LinkSpec

-----------------------------------------------------------------------------
(***************************************************************************)
(* CdcPort: the bytes a connection has carried are whole frames, each of them *)
(* one that was handed over and later than the one before, and at most one *)
(* piece of a frame at the end.                                            *)
(***************************************************************************)

PortTyped ==
  /\ loop \in {"reconnecting", "running", "ended"}
  /\ frame \in Nat
  /\ writing \in BOOLEAN
  /\ offset \in 0 .. FrameLength
  /\ accepted \in Seq(Nat \X Nat)

OnlyOnLine == loop # "running" => accepted = <<>> /\ ~writing

\* After the first `start` bytes come the first m of frame n.
Follow(s, start, n, m) == \A j \in 1 .. m : s[start + j] = <<n, j>>

Begun == IF writing THEN offset ELSE 0

\* The bytes of q frames.
BytesOf(q) == q * FrameLength

\* Whole frames, and what there is of the one being written.
InFrames ==
  \E q \in Nat :
    /\ Len(accepted) = BytesOf(q) + Begun
    /\ writing => Follow(accepted, BytesOf(q), frame, offset)

PortInvariant ==
  /\ PortTyped /\ OnlyOnLine /\ InFrames
  /\ writing => offset < FrameLength

Link == CASE loop = "reconnecting" -> "closed"
          [] loop = "running"      -> "open"
          [] OTHER                 -> "ended"

Crossed == [k \in 1 .. Len(accepted) \div FrameLength |-> FrameAt(k)]

\* Whole frames are counted by dividing; what there is of the next does not count.
LEMMA Quotient ==
  ASSUME NEW q \in Nat, NEW r \in 0 .. FrameLength - 1
  PROVE  (BytesOf(q) + r) \div FrameLength = q
BY CdcPortAssumption DEF BytesOf

\* One more frame is FrameLength more bytes.
LEMMA OneMore ==
  ASSUME NEW q \in Nat
  PROVE  BytesOf(q) \in Nat /\ BytesOf(q + 1) = BytesOf(q) + FrameLength
BY CdcPortAssumption DEF BytesOf

\* The k-th of q frames lies within their bytes.
LEMMA Multiples ==
  ASSUME NEW q \in Nat, NEW k \in 1 .. q, NEW length \in Nat, BytesOf(q) <= length
  PROVE  /\ BytesOf(k - 1) + 1 \in Nat \ {0}
         /\ BytesOf(k) \in Nat
         /\ BytesOf(k) <= length
<1>1. FrameLength \in Nat /\ k \in Nat /\ k - 1 \in Nat /\ q - k \in Nat
  BY CdcPortAssumption
<1>2. /\ BytesOf(k - 1) \in Nat /\ BytesOf(k) \in Nat
      /\ BytesOf(q) \in Nat /\ BytesOf(q - k) \in Nat
  BY <1>1, OneMore
<1>3. BytesOf(q) = BytesOf(k) + BytesOf(q - k)
  BY <1>1 DEF BytesOf
<1> QED  BY <1>2, <1>3

\* What a piece of a frame is made of.
LEMMA PieceFacts ==
  ASSUME NEW n \in Nat, NEW from \in Nat, NEW to \in Nat, from <= to
  PROVE  /\ Bytes(n, from, to) \in Seq(Nat \X Nat)
         /\ Len(Bytes(n, from, to)) = to - from
         /\ \A k \in 1 .. to - from : Bytes(n, from, to)[k] = <<n, from + k>>
<1>1. to - from \in Nat
  OBVIOUS
<1>2. \A k \in 1 .. to - from : <<n, from + k>> \in Nat \X Nat
  OBVIOUS
<1> QED  BY <1>1, <1>2 DEF Bytes

\* What a whole frame is made of.
LEMMA WholeFacts ==
  ASSUME NEW n \in Nat
  PROVE  /\ Bytes(n, 0, FrameLength) \in Seq(Nat \X Nat)
         /\ Len(Bytes(n, 0, FrameLength)) = FrameLength
         /\ \A j \in 1 .. FrameLength : Bytes(n, 0, FrameLength)[j] = <<n, j>>
<1>1. FrameLength \in Nat /\ 0 \in Nat /\ 0 <= FrameLength /\ FrameLength - 0 = FrameLength
  BY CdcPortAssumption
<1>2. /\ Bytes(n, 0, FrameLength) \in Seq(Nat \X Nat)
      /\ Len(Bytes(n, 0, FrameLength)) = FrameLength - 0
      /\ \A j \in 1 .. FrameLength - 0 : Bytes(n, 0, FrameLength)[j] = <<n, 0 + j>>
  BY <1>1, PieceFacts
<1>3. \A j \in 1 .. FrameLength : 0 + j = j
  BY <1>1
<1> QED  BY <1>1, <1>2, <1>3

\* Nothing has crossed a connection that has carried no byte.
LEMMA EmptyCrossed ==
  ASSUME accepted = <<>>
  PROVE  Crossed = <<>>
<1>1. Len(accepted) \div FrameLength = 0
  BY CdcPortAssumption
<1>2. Crossed = [k \in 1 .. 0 |-> FrameAt(k)]
  BY <1>1 DEF Crossed
<1> QED  BY <1>2

\* The same after a step.
LEMMA EmptyCrossedNext ==
  ASSUME accepted' = <<>>
  PROVE  Crossed' = <<>>
<1>1. Len(accepted') \div FrameLength = 0
  BY CdcPortAssumption
<1>2. Crossed' = [k \in 1 .. 0 |-> FrameAt(k)']
  BY <1>1 DEF Crossed
<1> QED  BY <1>2

\* Two sequences that agree on a range have the same piece there.
LEMMA SamePiece ==
  ASSUME NEW S, NEW s \in Seq(S), NEW t \in Seq(S), NEW m \in Nat \ {0}, NEW n \in Nat,
         n <= Len(s), n <= Len(t), \A i \in m .. n : s[i] = t[i]
  PROVE  SubSeq(s, m, n) = SubSeq(t, m, n)
<1>1. Len(s) \in Nat /\ Len(t) \in Nat
  OBVIOUS
<1>2. \A i \in m .. n : s[i] \in S /\ t[i] \in S
  <2> SUFFICES ASSUME NEW i \in m .. n PROVE s[i] \in S /\ t[i] \in S
    OBVIOUS
  <2>1. i \in 1 .. Len(s) /\ i \in 1 .. Len(t)
    BY <1>1
  <2> QED  BY <2>1
<1>3. m \in Int /\ n \in Int
  OBVIOUS
<1>4. /\ SubSeq(s, m, n) \in Seq(S)
      /\ Len(SubSeq(s, m, n)) = IF m <= n THEN n - m + 1 ELSE 0
      /\ \A i \in 1 .. n - m + 1 : SubSeq(s, m, n)[i] = s[m + i - 1]
  BY <1>2, <1>3, SubSeqProperties
<1>5. /\ SubSeq(t, m, n) \in Seq(S)
      /\ Len(SubSeq(t, m, n)) = IF m <= n THEN n - m + 1 ELSE 0
      /\ \A i \in 1 .. n - m + 1 : SubSeq(t, m, n)[i] = t[m + i - 1]
  BY <1>2, <1>3, SubSeqProperties
<1>6. \A i \in 1 .. n - m + 1 : m + i - 1 \in m .. n
  OBVIOUS
<1>7. \A i \in 1 .. Len(SubSeq(s, m, n)) : SubSeq(s, m, n)[i] = SubSeq(t, m, n)[i]
  BY <1>4, <1>5, <1>6
<1>8. Len(SubSeq(s, m, n)) = Len(SubSeq(t, m, n))
  BY <1>4, <1>5
<1> QED  BY <1>4, <1>5, <1>7, <1>8, SeqEqual

\* What has crossed is not changed by what is written after it.
LEMMA SameFrames ==
  ASSUME accepted \in Seq(Nat \X Nat), accepted' \in Seq(Nat \X Nat),
         Len(accepted) <= Len(accepted'),
         \A i \in 1 .. Len(accepted) : accepted'[i] = accepted[i],
         NEW q \in Nat, BytesOf(q) <= Len(accepted), NEW k \in 1 .. q
  PROVE  FrameAt(k)' = FrameAt(k)
<1>1. Len(accepted) \in Nat /\ Len(accepted') \in Nat
  OBVIOUS
<1>2. BytesOf(k - 1) + 1 \in Nat \ {0} /\ BytesOf(k) \in Nat /\ BytesOf(k) <= Len(accepted)
  BY <1>1, Multiples
<1>3. BytesOf(k) <= Len(accepted')
      /\ \A i \in BytesOf(k - 1) + 1 .. BytesOf(k) : i \in 1 .. Len(accepted)
  BY <1>1, <1>2
<1>4. SubSeq(accepted', BytesOf(k - 1) + 1, BytesOf(k))
        = SubSeq(accepted, BytesOf(k - 1) + 1, BytesOf(k))
  BY <1>2, <1>3, SamePiece
<1> QED  BY <1>4 DEF FrameAt, BytesOf

\* A frame that follows the first bytes to the end is the last piece of them.
LEMMA LastPiece ==
  ASSUME NEW s \in Seq(Nat \X Nat), NEW start \in Nat, NEW n \in Nat,
         Len(s) = start + FrameLength,
         Follow(s, start, n, FrameLength)
  PROVE  /\ SubSeq(s, start + 1, start + FrameLength) = Bytes(n, 0, FrameLength)
         /\ Head(SubSeq(s, start + 1, start + FrameLength))[1] = n
<1> DEFINE begin == start + 1
           last == start + FrameLength
           piece == SubSeq(s, begin, last)
<1>a. FrameLength \in Nat /\ 1 <= FrameLength
  BY CdcPortAssumption
<1>b. \A j \in 1 .. FrameLength : s[start + j] = <<n, j>>
  BY Zenon DEF Follow
<1>0. /\ FrameLength \in Nat /\ 1 <= FrameLength
      /\ \A j \in 1 .. FrameLength : s[start + j] = <<n, j>>
  BY <1>a, <1>b
<1>1. \A i \in begin .. last : s[i] \in Nat \X Nat
  <2> SUFFICES ASSUME NEW i \in start + 1 .. start + FrameLength PROVE s[i] \in Nat \X Nat
    OBVIOUS
  <2>1. i \in 1 .. Len(s)
    BY <1>0
  <2> QED  BY <2>1
<1>3. /\ begin \in Int /\ last \in Int /\ begin <= last
      /\ last - begin + 1 = FrameLength
      /\ \A j \in 1 .. FrameLength : begin + j - 1 = start + j
  BY <1>a
<1> HIDE DEF begin, last
<1>2. /\ piece \in Seq(Nat \X Nat)
      /\ Len(piece) = IF begin <= last THEN last - begin + 1 ELSE 0
      /\ \A j \in 1 .. last - begin + 1 : piece[j] = s[begin + j - 1]
  <2>1. begin \in Int /\ last \in Int
    BY <1>3
  <2> QED  BY ONLY <1>1, <2>1, SubSeqProperties DEF piece
<1> HIDE DEF piece
<1>4. Len(piece) = FrameLength
  BY <1>0, <1>2, <1>3
<1>5. \A j \in 1 .. FrameLength : piece[j] = <<n, j>>
  <2> SUFFICES ASSUME NEW j \in 1 .. FrameLength PROVE piece[j] = <<n, j>>
    OBVIOUS
  <2>1. piece[j] = s[begin + j - 1] /\ begin + j - 1 = start + j
    BY <1>2, <1>3
  <2> QED  BY <1>0, <2>1
<1>7. /\ Bytes(n, 0, FrameLength) \in Seq(Nat \X Nat)
      /\ Len(Bytes(n, 0, FrameLength)) = FrameLength
      /\ \A j \in 1 .. FrameLength : Bytes(n, 0, FrameLength)[j] = <<n, j>>
  BY <1>0, WholeFacts
<1>8. piece = Bytes(n, 0, FrameLength)
  BY <1>2, <1>4, <1>5, <1>7, SeqEqual
<1>9. piece[1] = <<n, 1>> /\ Head(piece) = piece[1]
  <2>1. 1 \in 1 .. FrameLength
    BY <1>a
  <2>2. piece[1] = <<n, 1>>
    BY <1>5, <2>1, Zenon
  <2>3. Head(piece) = piece[1]
    BY <1>2, <1>4, <1>a
  <2> QED  BY <2>2, <2>3
<1>10. <<n, 1>>[1] = n
  OBVIOUS
<1>11. Head(piece)[1] = n
  BY <1>9, <1>10
<1> QED  BY <1>8, <1>11 DEF piece, begin, last

\* The frame that the last bytes make up is the one that was handed over.
LEMMA LastFrame ==
  ASSUME accepted' \in Seq(Nat \X Nat), NEW q \in Nat, NEW n \in Nat,
         Len(accepted') = BytesOf(q) + FrameLength,
         Follow(accepted', BytesOf(q), n, FrameLength)
  PROVE  FrameAt(q + 1)' = n
<1>1. BytesOf(q) \in Nat /\ BytesOf(q + 1) = BytesOf(q) + FrameLength /\ (q + 1) - 1 = q
  BY OneMore
<1>2. /\ SubSeq(accepted', BytesOf(q) + 1, BytesOf(q) + FrameLength) = Bytes(n, 0, FrameLength)
      /\ Head(SubSeq(accepted', BytesOf(q) + 1, BytesOf(q) + FrameLength))[1] = n
  BY <1>1, LastPiece
<1>3. /\ SubSeq(accepted', BytesOf((q + 1) - 1) + 1, BytesOf(q + 1)) = Bytes(n, 0, FrameLength)
      /\ Head(SubSeq(accepted', BytesOf((q + 1) - 1) + 1, BytesOf(q + 1)))[1] = n
  BY <1>1, <1>2
<1> QED  BY <1>3 DEF FrameAt, BytesOf

-----------------------------------------------------------------------------
(* The invariant *)

\* No connection, no bytes.
LEMMA PortStart == CdcPortInit => PortInvariant
<1> SUFFICES ASSUME CdcPortInit PROVE PortInvariant
  OBVIOUS
<1>1. writing = FALSE /\ accepted = <<>> /\ loop = "reconnecting" /\ frame = 0 /\ offset = 0
  BY DEF CdcPortInit
<1>2. PortTyped
  <2>1. <<>> \in Seq(Nat \X Nat) /\ 0 \in Nat /\ 0 \in 0 .. FrameLength
    BY CdcPortAssumption
  <2> QED  BY <1>1, <2>1 DEF PortTyped
<1>3. OnlyOnLine
  BY <1>1 DEF OnlyOnLine
<1>4. InFrames
  <2>1. 0 \in Nat /\ Len(accepted) = 0 /\ Begun = 0
    BY <1>1 DEF Begun
  <2>2. BytesOf(0) = 0
    BY CdcPortAssumption DEF BytesOf
  <2> QED  BY <1>1, <2>1, <2>2 DEF InFrames
<1> QED  BY <1>1, <1>2, <1>3, <1>4 DEF PortInvariant

\* A connection that begins or is lost holds no bytes.
LEMMA NoBytes ==
  ASSUME PortInvariant, accepted' = <<>>, writing' = FALSE,
         UNCHANGED <<frame, offset>>, loop' \in {"reconnecting", "running", "ended"}
  PROVE  PortInvariant'
<1>1. PortTyped'
  <2>1. <<>> \in Seq(Nat \X Nat) /\ FALSE \in BOOLEAN
    OBVIOUS
  <2>2. frame' \in Nat /\ offset' \in 0 .. FrameLength
    BY DEF PortInvariant, PortTyped
  <2> QED  BY <2>1, <2>2 DEF PortTyped
<1>2. OnlyOnLine'
  BY DEF OnlyOnLine
<1>3. InFrames'
  <2>1. 0 \in Nat /\ Len(accepted') = 0 /\ Begun' = 0
    BY DEF Begun
  <2>2. BytesOf(0) = 0
    BY CdcPortAssumption DEF BytesOf
  <2> QED  BY <2>1, <2>2 DEF InFrames
<1> QED  BY <1>1, <1>2, <1>3 DEF PortInvariant

\* An error drops the port, and with it what the connection has carried.
LEMMA RaiseDrops ==
  ASSUME NEW error, Raise(error)
  PROVE  /\ writing' = FALSE /\ accepted' = <<>> /\ UNCHANGED <<frame, offset>>
         /\ loop' \in {"reconnecting", "ended"}
<1>1. DropsPort(error) = TRUE
  BY DEF DropsPort
<1>2. loop' \in {"reconnecting", "ended"}
  <2>1. CASE Recovers(error)
    BY <1>1, <2>1 DEF Raise
  <2>2. CASE ~Recovers(error)
    BY <1>1, <2>2 DEF Raise
  <2> QED  BY <2>1, <2>2
<1> QED  BY <1>1, <1>2 DEF Raise

\* What the kernel takes of the frame comes behind what it took before.
LEMMA WrittenOn ==
  ASSUME PortInvariant, NEW q \in Nat, writing,
         Len(accepted) = BytesOf(q) + offset, Follow(accepted, BytesOf(q), frame, offset),
         NEW to \in offset + 1 .. FrameLength,
         accepted' = accepted \o Bytes(frame, offset, to)
  PROVE  /\ accepted' \in Seq(Nat \X Nat)
         /\ Len(accepted') = BytesOf(q) + to
         /\ Follow(accepted', BytesOf(q), frame, to)
         /\ \A i \in 1 .. Len(accepted) : accepted'[i] = accepted[i]
<1> DEFINE piece == Bytes(frame, offset, to)
<1>1. /\ frame \in Nat /\ offset \in Nat /\ to \in Nat /\ offset <= to
      /\ accepted \in Seq(Nat \X Nat) /\ Len(accepted) \in Nat /\ BytesOf(q) \in Nat
  BY CdcPortAssumption, OneMore DEF PortInvariant, PortTyped
<1>0. frame \in Nat /\ offset \in Nat /\ to \in Nat /\ offset <= to
  BY <1>1
<1>2. /\ piece \in Seq(Nat \X Nat) /\ Len(piece) = to - offset
      /\ \A k \in 1 .. to - offset : piece[k] = <<frame, offset + k>>
  BY <1>0, PieceFacts, Zenon
<1>3. accepted' = accepted \o piece
  OBVIOUS
<1> HIDE DEF piece
<1>4. /\ accepted \o piece \in Seq(Nat \X Nat)
      /\ Len(accepted \o piece) = Len(accepted) + Len(piece)
      /\ \A i \in 1 .. Len(accepted) + Len(piece) : (accepted \o piece)[i] =
            IF i <= Len(accepted) THEN accepted[i] ELSE piece[i - Len(accepted)]
  BY <1>1, <1>2, ConcatProperties
<1>5. Len(accepted) + Len(piece) = BytesOf(q) + to
  BY <1>1, <1>2
<1>6. \A i \in 1 .. Len(accepted) : accepted'[i] = accepted[i]
  BY <1>1, <1>2, <1>3, <1>4, <1>5
<1>7. \A i \in 1 .. Len(accepted) + Len(piece) : ~(i <= Len(accepted)) =>
        (accepted \o piece)[i] = piece[i - Len(accepted)]
  BY <1>4
<1>8. Follow(accepted', BytesOf(q), frame, to)
  <2> SUFFICES ASSUME NEW j \in 1 .. to PROVE accepted'[BytesOf(q) + j] = <<frame, j>>
    BY DEF Follow
  <2>1. CASE j <= offset
    <3> DEFINE before == BytesOf(q)
    <3>0. before \in Nat /\ Len(accepted) = before + offset
      BY <1>1
    <3> HIDE DEF before
    <3>1. before + j \in 1 .. Len(accepted) /\ j \in 1 .. offset
      BY <1>0, <2>1, <3>0
    <3>2. accepted[before + j] = <<frame, j>>
      BY <3>1 DEF Follow, before
    <3> QED  BY <1>6, <3>1, <3>2 DEF before
  <2>2. CASE ~(j <= offset)
    <3> DEFINE before == BytesOf(q)
               i == before + j
    <3>0. before \in Nat /\ Len(accepted) = before + offset /\ Len(accepted) + Len(piece) = before + to
      BY <1>1, <1>5
    <3> HIDE DEF before
    <3>a. i \in 1 .. before + to
      BY <1>0, <3>0
    <3>b. ~(i <= before + offset)
      BY <1>0, <2>2, <3>0
    <3>c. /\ i - (before + offset) = j - offset
          /\ j - offset \in 1 .. to - offset /\ offset + (j - offset) = j
      BY <1>0, <2>2, <3>0
    <3>1. /\ i \in 1 .. Len(accepted) + Len(piece)
          /\ ~(i <= Len(accepted))
          /\ i - Len(accepted) = j - offset
          /\ j - offset \in 1 .. to - offset /\ offset + (j - offset) = j
      <4> HIDE DEF i
      <4> QED  BY <3>0, <3>a, <3>b, <3>c, Zenon
    <3>2. piece[j - offset] = <<frame, j>>
      BY <1>2, <3>1
    <3> HIDE DEF i
    <3>3. (accepted \o piece)[i] = piece[i - Len(accepted)]
      BY <1>7, <3>1
    <3>4. accepted'[i] = <<frame, j>>
      BY <1>3, <3>1, <3>2, <3>3
    <3> QED  BY <3>4 DEF i, before
  <2> QED  BY <2>1, <2>2
<1> QED  BY <1>3, <1>4, <1>5, <1>6, <1>8

\* The invariant and a write that the kernel takes, all of it or in part.
LEMMA WriteSomeKeeps ==
  ASSUME PortInvariant, WriteSome
  PROVE  PortInvariant'
<1>1. PICK q \in Nat :
        /\ Len(accepted) = BytesOf(q) + Begun
        /\ writing => Follow(accepted, BytesOf(q), frame, offset)
  BY DEF PortInvariant, InFrames
<1>2. writing /\ UNCHANGED <<loop, frame>> /\ frame \in Nat
      /\ loop \in {"reconnecting", "running", "ended"}
  BY DEF WriteSome, PortInvariant, PortTyped
<1>3. PICK to \in offset + 1 .. FrameLength :
        /\ offset' = to
        /\ accepted' = accepted \o Bytes(frame, offset, to)
        /\ writing' = (to < FrameLength)
  BY DEF WriteSome
<1>4. Len(accepted) = BytesOf(q) + offset /\ Follow(accepted, BytesOf(q), frame, offset)
  <2>1. writing = TRUE
    BY <1>2 DEF PortInvariant, PortTyped
  <2>2. Begun = offset
    BY <2>1 DEF Begun
  <2>3. Follow(accepted, BytesOf(q), frame, offset)
    BY <1>1, <1>2, Zenon
  <2>4. Len(accepted) = BytesOf(q) + offset
    BY <1>1, <2>2
  <2> QED  BY <2>3, <2>4
<1>5. /\ accepted' \in Seq(Nat \X Nat)
      /\ Len(accepted') = BytesOf(q) + to
      /\ Follow(accepted', BytesOf(q), frame, to)
  BY <1>2, <1>3, <1>4, WrittenOn
<1>6. to \in 0 .. FrameLength /\ offset \in 0 .. FrameLength
  BY CdcPortAssumption DEF PortInvariant, PortTyped
<1>7. PortTyped' /\ (writing' => offset' < FrameLength)
  <2>1. (to < FrameLength) \in BOOLEAN
    OBVIOUS
  <2> QED  BY <1>2, <1>3, <1>5, <1>6, <2>1 DEF PortTyped
<1>8. OnlyOnLine'
  BY <1>2 DEF PortInvariant, OnlyOnLine
<1>9. InFrames'
  <2>1. CASE to < FrameLength
    <3>1. writing' /\ Begun' = to
      BY <1>3, <2>1 DEF Begun
    <3> QED  BY <1>2, <1>3, <1>5, <3>1 DEF InFrames
  <2>2. CASE ~(to < FrameLength)
    <3>1. writing' = FALSE /\ Begun' = 0 /\ to = FrameLength
      <4>1. writing' = FALSE
        <5>1. (to < FrameLength) = FALSE
          BY <2>2
        <5> QED  BY <1>3, <5>1, Zenon
      <4>2. to = FrameLength
        BY <1>6, <2>2, CdcPortAssumption
      <4> QED  BY <4>1, <4>2 DEF Begun
    <3>2. q + 1 \in Nat /\ BytesOf(q + 1) \in Nat /\ BytesOf(q + 1) = BytesOf(q) + FrameLength
      BY OneMore
    <3>3. Len(accepted') = BytesOf(q + 1) + Begun'
      BY <1>5, <3>1, <3>2
    <3> QED  BY <3>1, <3>2, <3>3 DEF InFrames
  <2> QED  BY <2>1, <2>2
<1> QED  BY <1>7, <1>8, <1>9 DEF PortInvariant

\* The invariant and steps that do not touch the bytes.
LEMMA RestKeeps ==
  ASSUME PortInvariant, UNCHANGED <<loop, frame, writing, offset, accepted>>
  PROVE  PortInvariant'
BY DEF PortInvariant, PortTyped, OnlyOnLine, InFrames, Begun, Follow

\* The invariant and an error.
LEMMA RaiseKeeps ==
  ASSUME PortInvariant, NEW error, Raise(error)
  PROVE  PortInvariant'
BY RaiseDrops, NoBytes

\* Opening fails, or begins a connection that has carried nothing.
LEMMA OpenSplits ==
  ASSUME Open
  PROVE  /\ loop = "reconnecting"
         /\ \/ \E error : Raise(error)
            \/ /\ accepted' = <<>> /\ loop' = "running"
               /\ UNCHANGED <<node, frame, writing, offset, spent>>
<1>1. loop = "reconnecting"
  BY DEF Open
<1>2. CASE node = "absent"
  BY <1>1, <1>2 DEF Open
<1>3. CASE node = "refused"
  BY <1>1, <1>3 DEF Open
<1>4. CASE node \notin {"absent", "refused"}
  BY <1>1, <1>4 DEF Open
<1> QED  BY <1>2, <1>3, <1>4

\* Every step keeps the invariant.
LEMMA PortStep == PortInvariant /\ [CdcPortNext]_cdcPortVars => PortInvariant'
<1> SUFFICES ASSUME PortInvariant, [CdcPortNext]_cdcPortVars PROVE PortInvariant'
  OBVIOUS
<1>1. CASE Open
  <2>1. CASE \E error : Raise(error)
    BY <2>1, RaiseKeeps
  <2>2. CASE /\ accepted' = <<>> /\ loop' = "running"
             /\ UNCHANGED <<node, frame, writing, offset, spent>>
    <3>1. writing = FALSE
      BY <1>1, OpenSplits DEF PortInvariant, PortTyped, OnlyOnLine
    <3> QED  BY <2>2, <3>1, NoBytes
  <2> QED  BY <1>1, <2>1, <2>2, OpenSplits
<1>2. CASE WriteAll
  <2>1. /\ writing = FALSE /\ writing' = TRUE /\ loop = "running" /\ offset' = 0 /\ frame' = frame + 1
        /\ UNCHANGED <<loop, accepted>> /\ frame \in Nat
    BY <1>2 DEF WriteAll, PortInvariant, PortTyped
  <2>2. PortTyped' /\ OnlyOnLine' /\ offset' < FrameLength
    BY <2>1, CdcPortAssumption DEF PortInvariant, PortTyped, OnlyOnLine
  <2>3. PICK q \in Nat : Len(accepted) = BytesOf(q) + Begun
    BY DEF PortInvariant, InFrames
  <2>4. Len(accepted') = BytesOf(q) + Begun'
    BY <2>1, <2>3 DEF Begun
  <2>5. Follow(accepted', BytesOf(q), frame', offset')
    BY <2>1 DEF Follow
  <2> QED  BY <2>2, <2>4, <2>5 DEF PortInvariant, InFrames
<1>3. CASE WriteSome
  BY <1>3, WriteSomeKeeps
<1>4. CASE WriteFull
  <2>1. \/ Raise("WriteTimeout")
        \/ UNCHANGED <<loop, frame, writing, offset, accepted>>
    BY <1>4 DEF WriteFull
  <2> QED  BY <2>1, RaiseKeeps, RestKeeps
<1>5. CASE CallFails \/ SeesNodeGone
  <2>1. \E error : Raise(error)
    BY <1>5 DEF CallFails, SeesNodeGone
  <2> QED  BY <2>1, RaiseKeeps
<1>6. CASE DeviceLeaves \/ DeviceReturns \/ UNCHANGED cdcPortVars
  <2>1. UNCHANGED <<loop, frame, writing, offset, accepted>>
    BY <1>6 DEF DeviceLeaves, DeviceReturns, cdcPortVars
  <2> QED  BY <2>1, RestKeeps
<1> QED  BY <1>1, <1>2, <1>3, <1>4, <1>5, <1>6 DEF CdcPortNext

-----------------------------------------------------------------------------
(* The refinement *)

\* As many frames have crossed as there are whole ones in the bytes.
LEMMA CrossedCount ==
  ASSUME NEW q \in Nat, NEW r \in 0 .. FrameLength - 1,
         Len(accepted) = BytesOf(q) + r
  PROVE  Crossed = [k \in 1 .. q |-> FrameAt(k)]
<1>1. Len(accepted) \div FrameLength = q
  BY Quotient
<1> QED  BY <1>1 DEF Crossed

\* The same after a step.
LEMMA CrossedCountNext ==
  ASSUME NEW q \in Nat, NEW r \in 0 .. FrameLength - 1,
         Len(accepted') = BytesOf(q) + r
  PROVE  Crossed' = [k \in 1 .. q |-> FrameAt(k)']
<1>1. Len(accepted') \div FrameLength = q
  BY Quotient
<1> QED  BY <1>1 DEF Crossed

\* A sequence that is one longer, and otherwise the same, is one with an element appended.
LEMMA OneAppended ==
  ASSUME NEW q \in Nat, NEW n \in Nat, NEW S, NEW f \in [1 .. q -> S], NEW g,
         g = [k \in 1 .. q + 1 |-> g[k]],
         \A k \in 1 .. q : g[k] = f[k], g[q + 1] = n
  PROVE  g = Append(f, n)
<1>1. f \in Seq(S \cup Nat) /\ Len(f) = q
  OBVIOUS
<1>2. /\ Append(f, n) \in Seq(S \cup Nat)
      /\ Len(Append(f, n)) = q + 1
      /\ \A i \in 1 .. q : Append(f, n)[i] = f[i]
      /\ Append(f, n)[q + 1] = n
  BY <1>1, AppendProperties
<1>3. \A k \in 1 .. q + 1 : g[k] \in S \cup Nat
  <2> SUFFICES ASSUME NEW k \in 1 .. q + 1 PROVE g[k] \in S \cup Nat
    OBVIOUS
  <2>1. k \in 1 .. q \/ k = q + 1
    OBVIOUS
  <2> QED  BY <2>1
<1>4. g \in Seq(S \cup Nat) /\ Len(g) = q + 1
  BY <1>3
<1>5. \A k \in 1 .. q + 1 : g[k] = Append(f, n)[k]
  <2> SUFFICES ASSUME NEW k \in 1 .. q + 1 PROVE g[k] = Append(f, n)[k]
    OBVIOUS
  <2>1. k \in 1 .. q \/ k = q + 1
    OBVIOUS
  <2> QED  BY <1>2, <2>1
<1> QED  BY <1>2, <1>4, <1>5, SeqEqual

\* The last piece of a frame carries it across; the pieces before do not show.
LEMMA WriteSomeMaps ==
  ASSUME PortInvariant, WriteSome
  PROVE  \/ Crossed' = Append(Crossed, frame) /\ writing' = FALSE
         \/ UNCHANGED <<Crossed, writing>>
<1>1. PICK q \in Nat :
        /\ Len(accepted) = BytesOf(q) + Begun
        /\ writing => Follow(accepted, BytesOf(q), frame, offset)
  BY DEF PortInvariant, InFrames
<1>2. writing /\ writing = TRUE /\ offset < FrameLength
      /\ offset \in 0 .. FrameLength /\ frame \in Nat
  BY DEF WriteSome, PortInvariant, PortTyped
<1>3. PICK to \in offset + 1 .. FrameLength :
        /\ offset' = to
        /\ accepted' = accepted \o Bytes(frame, offset, to)
        /\ writing' = (to < FrameLength)
  BY DEF WriteSome
<1>4. Len(accepted) = BytesOf(q) + offset /\ Follow(accepted, BytesOf(q), frame, offset)
  BY <1>1, <1>2 DEF Begun
<1>5. /\ accepted \in Seq(Nat \X Nat) /\ accepted' \in Seq(Nat \X Nat)
      /\ Len(accepted') = BytesOf(q) + to
      /\ Follow(accepted', BytesOf(q), frame, to)
      /\ \A i \in 1 .. Len(accepted) : accepted'[i] = accepted[i]
  BY <1>2, <1>3, <1>4, WrittenOn DEF PortInvariant, PortTyped
<1>6. /\ offset \in 0 .. FrameLength - 1 /\ to \in 0 .. FrameLength
      /\ BytesOf(q) <= Len(accepted) /\ Len(accepted) <= Len(accepted')
      /\ BytesOf(q) \in Nat
  <2>1. FrameLength \in Nat /\ BytesOf(q) \in Nat
    BY OneMore, CdcPortAssumption
  <2>2. offset \in Nat /\ to \in Nat /\ offset < to /\ to <= FrameLength
    BY <1>2, <2>1
  <2> QED  BY <1>2, <1>4, <1>5, <2>1, <2>2
<1>7. \A k \in 1 .. q : FrameAt(k)' = FrameAt(k)
  BY <1>5, <1>6, SameFrames
<1>8. Crossed = [k \in 1 .. q |-> FrameAt(k)]
  BY <1>4, <1>6, CrossedCount
<1>9. CASE to < FrameLength
  <2>1. to \in 0 .. FrameLength - 1
    BY <1>6, <1>9, CdcPortAssumption
  <2>2. Crossed' = [k \in 1 .. q |-> FrameAt(k)']
    BY <1>5, <2>1, CrossedCountNext
  <2>3. Crossed' = Crossed
    BY <1>7, <1>8, <2>2
  <2>4. (to < FrameLength) = TRUE
    BY <1>9
  <2> QED  BY <1>2, <1>3, <2>3, <2>4, Zenon
<1>10. CASE ~(to < FrameLength)
  <2>1. to = FrameLength
    BY <1>6, <1>10, CdcPortAssumption
  <2>2. (to < FrameLength) = FALSE
    BY <1>10
  <2>3. FrameAt(q + 1)' = frame
    BY <1>2, <1>5, <2>1, LastFrame
  <2>4. Crossed' = [k \in 1 .. q + 1 |-> FrameAt(k)']
    <3>1. q + 1 \in Nat /\ 0 \in 0 .. FrameLength - 1 /\ Len(accepted') = BytesOf(q + 1) + 0
      <4>1. q + 1 \in Nat /\ BytesOf(q + 1) = BytesOf(q) + FrameLength /\ BytesOf(q) \in Nat
        BY <1>5, OneMore
      <4>2. FrameLength \in Nat /\ 1 <= FrameLength
        BY CdcPortAssumption
      <4>3. Len(accepted') = BytesOf(q) + FrameLength
        BY <1>5, <2>1
      <4>4. BytesOf(q + 1) + 0 = BytesOf(q) + FrameLength
        BY <4>1, <4>2
      <4> QED  BY <4>1, <4>2, <4>3, <4>4
    <3> QED  BY <3>1, CrossedCountNext
  <2>5. Crossed' = Append(Crossed, frame)
    <3> DEFINE S == {FrameAt(k) : k \in 1 .. q}
    <3>1. Crossed \in [1 .. q -> S]
      BY <1>8
    <3>2. Crossed' = [k \in 1 .. q + 1 |-> Crossed'[k]]
      BY <2>4
    <3>3. \A k \in 1 .. q : Crossed'[k] = Crossed[k]
      BY <1>7, <1>8, <2>4
    <3>4. Crossed'[q + 1] = frame
      BY <2>3, <2>4
    <3> HIDE DEF S
    <3> QED  BY <1>2, <3>1, <3>2, <3>3, <3>4, OneAppended
  <2> QED  BY <1>3, <2>2, <2>5, Zenon
<1> QED  BY <1>9, <1>10

\* An error is the loss of the connection.
LEMMA LoseMaps ==
  ASSUME PortInvariant, loop # "ended", NEW error, Raise(error)
  PROVE  Promised!Lose
<1>1. Link # "ended"
  BY DEF Link, PortInvariant, PortTyped
<1>2. Link' \in {"closed", "ended"}
  BY RaiseDrops DEF Link
<1>3. writing' = FALSE /\ Crossed' = <<>> /\ UNCHANGED frame
  BY RaiseDrops, EmptyCrossedNext
<1> QED  BY <1>1, <1>2, <1>3 DEF Promised!Lose, Link, Crossed

\* A step that touches neither bytes nor connection is a stutter.
LEMMA RestMaps ==
  ASSUME UNCHANGED <<loop, frame, writing, accepted>>
  PROVE  UNCHANGED Promised!portVars
BY DEF Promised!portVars, FrameAt

\* Every step is one of FramePort, or a stutter of it.
LEMMA StepMaps ==
  PortInvariant /\ [CdcPortNext]_cdcPortVars => [Promised!PortNext]_(Promised!portVars)
<1> SUFFICES ASSUME PortInvariant, [CdcPortNext]_cdcPortVars
             PROVE  Promised!PortNext \/ UNCHANGED Promised!portVars
  OBVIOUS
<1>1. CASE Open
  <2>1. CASE \E error : Raise(error)
    BY <1>1, <2>1, OpenSplits, LoseMaps DEF Promised!PortNext
  <2>2. CASE /\ accepted' = <<>> /\ loop' = "running"
             /\ UNCHANGED <<node, frame, writing, offset, spent>>
    <3>1. loop = "reconnecting" /\ accepted = <<>>
      BY <1>1, OpenSplits DEF PortInvariant, OnlyOnLine
    <3>2. Link = "closed" /\ Link' = "open" /\ UNCHANGED <<Crossed, frame, writing>>
      BY <2>2, <3>1, EmptyCrossed, EmptyCrossedNext DEF Link
    <3>3. Promised!Connect
      BY <3>2 DEF Promised!Connect, Link, Crossed
    <3> QED  BY <3>3 DEF Promised!PortNext
  <2> QED  BY <1>1, <2>1, <2>2, OpenSplits
<1>2. CASE WriteAll
  <2>1. /\ Link = "open" /\ ~writing
        /\ frame' = frame + 1 /\ writing' = TRUE
    BY <1>2 DEF WriteAll, Link
  <2>2. UNCHANGED <<Link, Crossed>>
    BY <1>2 DEF WriteAll, Link, Crossed, FrameAt
  <2>3. Promised!HandOver
    BY <2>1, <2>2 DEF Promised!HandOver, Link, Crossed
  <2> QED  BY <2>3 DEF Promised!PortNext
<1>3. CASE WriteSome
  <2>1. writing /\ UNCHANGED <<Link, frame>>
    BY <1>3 DEF WriteSome, Link
  <2>2. CASE Crossed' = Append(Crossed, frame) /\ writing' = FALSE
    <3>1. Promised!Carry
      BY <2>1, <2>2 DEF Promised!Carry, Link, Crossed
    <3> QED  BY <3>1 DEF Promised!PortNext
  <2>3. CASE UNCHANGED <<Crossed, writing>>
    <3>1. UNCHANGED Promised!portVars
      BY <2>1, <2>3 DEF Promised!portVars, Link, Crossed
    <3> QED  BY <3>1
  <2> QED  BY <1>3, <2>2, <2>3, WriteSomeMaps
<1>4. CASE WriteFull
  <2>1. CASE Raise("WriteTimeout")
    <3>1. loop # "ended"
      BY <1>4 DEF WriteFull, PortInvariant, OnlyOnLine
    <3> QED  BY <2>1, <3>1, LoseMaps DEF Promised!PortNext
  <2>2. CASE UNCHANGED <<loop, frame, writing, accepted>>
    BY <2>2, RestMaps
  <2> QED  BY <1>4, <2>1, <2>2 DEF WriteFull
<1>5. CASE CallFails \/ SeesNodeGone
  <2>1. loop # "ended" /\ \E error : Raise(error)
    BY <1>5 DEF CallFails, SeesNodeGone
  <2> QED  BY <2>1, LoseMaps DEF Promised!PortNext
<1>6. CASE DeviceLeaves \/ DeviceReturns \/ UNCHANGED cdcPortVars
  <2>1. UNCHANGED <<loop, frame, writing, accepted>>
    BY <1>6 DEF DeviceLeaves, DeviceReturns, cdcPortVars
  <2> QED  BY <2>1, RestMaps
<1> QED  BY <1>1, <1>2, <1>3, <1>4, <1>5, <1>6 DEF CdcPortNext

\* The port begins as FramePort does.
LEMMA InitMaps == CdcPortInit => Promised!PortInit
<1> SUFFICES ASSUME CdcPortInit PROVE Promised!PortInit
  OBVIOUS
<1>1. Link = "closed" /\ frame = 0 /\ writing = FALSE /\ Crossed = <<>>
  BY EmptyCrossed DEF CdcPortInit, Link
<1> QED  BY <1>1 DEF Promised!PortInit, Link, Crossed

\* The bytes of a connection are whole frames and one piece, for every length of a frame.
LEMMA PortInvariance == CdcPortSpec => []PortInvariant
BY PortStart, PortStep, PTL DEF CdcPortSpec

\* write_all and the reconnections of run_cdc, byte by byte, are a port that carries
\* whole frames: no receiver sees half a frame followed by another on one connection.
THEOREM PortKeepsItsPromise == CdcPortSpec => ImplementsFramePort
<1>1. CdcPortSpec => []PortInvariant
  BY PortInvariance
<1> QED  BY <1>1, InitMaps, StepMaps, PTL
     DEF CdcPortSpec, ImplementsFramePort, Promised!PortSpec

-----------------------------------------------------------------------------
(***************************************************************************)
(* StreamParser: the scan, for every stream, every way to read it, every     *)
(* greatest payload and every check sum.  A frame is defined by what         *)
(* pack_message makes, and FrameRead shows that the reading of feed is its    *)
(* inverse; the rest is that nothing is dropped which begins a frame.         *)
(***************************************************************************)

\* A frame stands at a place when its bytes read so, one after another.
ReadsAsFrame(s, i, n) ==
  /\ <<s[i], s[i + 1]>> = Sof
  /\ s[i + 2] = Version /\ s[i + 3] = n
  /\ s[i + HeaderSize + n] = Crc(SubSeq(s, i, i + HeaderSize + n - 1))

\* The bytes of a packed frame, each at its place.
LEMMA PackedBytes ==
  ASSUME NEW p \in Seq(Nat),
         NEW body, body = Sof \o <<Version, Len(p)>> \o p
  PROVE  /\ body \in Seq(Nat) /\ Len(body) = HeaderSize + Len(p)
         /\ body[1] = Sof[1] /\ body[2] = Sof[2]
         /\ body[3] = Version /\ body[4] = Len(p)
         /\ \A j \in 1 .. Len(p) : body[HeaderSize + j] = p[j]
         /\ Packed(p) = Append(body, Crc(body))
<1>1. /\ Sof \in Seq(Nat) /\ Len(Sof) = 2 /\ Version \in Nat
  BY StreamAssumption DEF StreamAssumption
<1>2. Len(p) \in Nat
  OBVIOUS
<1> DEFINE head == <<Version, Len(p)>>
<1>3. head \in Seq(Nat) /\ Len(head) = 2 /\ head[1] = Version /\ head[2] = Len(p)
  BY <1>1, <1>2
<1> HIDE DEF head
<1> DEFINE header == Sof \o head
<1>4. /\ header \in Seq(Nat) /\ Len(header) = 4
      /\ \A j \in 1 .. 4 : header[j] = IF j <= 2 THEN Sof[j] ELSE head[j - 2]
  <2>1. /\ Sof \o head \in Seq(Nat)
        /\ Len(Sof \o head) = Len(Sof) + Len(head)
        /\ \A j \in 1 .. Len(Sof) + Len(head) :
             (Sof \o head)[j] = IF j <= Len(Sof) THEN Sof[j] ELSE head[j - Len(Sof)]
    <3>1. Sof \in Seq(Nat) /\ head \in Seq(Nat)
      BY <1>1, <1>3
    <3> QED  BY ONLY <3>1, ConcatProperties
  <2> QED  BY <2>1, <1>1, <1>3
<1> HIDE DEF header
<1>5. header[1] = Sof[1] /\ header[2] = Sof[2] /\ header[3] = head[1] /\ header[4] = head[2]
  <2>1. 1 \in 1 .. 4 /\ 2 \in 1 .. 4 /\ 3 \in 1 .. 4 /\ 4 \in 1 .. 4
    OBVIOUS
  <2>2. header[1] = Sof[1] /\ header[2] = Sof[2] /\ header[3] = head[3 - 2]
        /\ header[4] = head[4 - 2]
    BY <1>4, <2>1
  <2> QED  BY <2>2
<1>6. body = header \o p
  BY DEF header, head
<1>7. /\ body \in Seq(Nat) /\ Len(body) = 4 + Len(p)
      /\ \A j \in 1 .. 4 + Len(p) : body[j] = IF j <= 4 THEN header[j] ELSE p[j - 4]
  <2>1. /\ header \o p \in Seq(Nat)
        /\ Len(header \o p) = Len(header) + Len(p)
        /\ \A j \in 1 .. Len(header) + Len(p) :
             (header \o p)[j] = IF j <= Len(header) THEN header[j] ELSE p[j - Len(header)]
    BY ONLY <1>4, p \in Seq(Nat), ConcatProperties
  <2> QED  BY <2>1, <1>4, <1>6
<1>8. \A j \in 1 .. 4 : body[j] = header[j]
  BY <1>2, <1>7
<1>9. \A j \in 1 .. Len(p) : body[4 + j] = p[j]
  BY <1>2, <1>7
<1> QED  BY <1>3, <1>5, <1>7, <1>8, <1>9 DEF HeaderSize, Packed

\* A part of a stream, byte by byte.
LEMMA Window ==
  ASSUME NEW s \in Seq(Nat), NEW a \in Nat, NEW b \in Int,
         1 <= a, a <= b + 1, b <= Len(s)
  PROVE  /\ SubSeq(s, a, b) \in Seq(Nat) /\ Len(SubSeq(s, a, b)) = b - a + 1
         /\ \A j \in 1 .. b - a + 1 : SubSeq(s, a, b)[j] = s[a + j - 1]
BY SubSeqProperties

\* The part of a stream that is the payload of a frame at i.
LEMMA PayloadWindow ==
  ASSUME NEW s \in Seq(Nat), NEW i \in Nat, NEW n \in Nat, i + 4 + n <= Len(s)
  PROVE  /\ SubSeq(s, i + 4, i + 4 + n - 1) \in Seq(Nat)
         /\ Len(SubSeq(s, i + 4, i + 4 + n - 1)) = n
         /\ \A j \in 1 .. n : SubSeq(s, i + 4, i + 4 + n - 1)[j] = s[i + 4 + j - 1]
<1>1. /\ i + 4 \in Nat /\ i + 4 + n - 1 \in Int /\ 1 <= i + 4
      /\ i + 4 <= i + 4 + n - 1 + 1 /\ i + 4 + n - 1 <= Len(s)
      /\ i + 4 + n - 1 - (i + 4) + 1 = n
  OBVIOUS
<1> QED  BY <1>1, Window

\* pack_message and the reading of feed agree on what a frame is.
LEMMA FrameRead ==
  ASSUME NEW s \in Seq(Nat), NEW i \in Nat, NEW n \in Nat,
         1 <= i, i + FrameLen(n) - 1 <= Len(s)
  PROVE  SubSeq(s, i, i + FrameLen(n) - 1)
           = Packed(SubSeq(s, i + HeaderSize, i + HeaderSize + n - 1))
         <=> ReadsAsFrame(s, i, n)
<1>1. i + 4 + n <= Len(s) /\ i + FrameLen(n) - 1 = i + 4 + n
  BY DEF FrameLen, HeaderSize, CrcSize
<1> DEFINE p == SubSeq(s, i + 4, i + 4 + n - 1)
           whole == SubSeq(s, i, i + 4 + n)
           covered == SubSeq(s, i, i + 4 + n - 1)
           body == Sof \o <<Version, Len(p)>> \o p
           packed == Append(body, Crc(body))
<1>2. /\ p \in Seq(Nat) /\ Len(p) = n
      /\ \A j \in 1 .. n : p[j] = s[i + 4 + j - 1]
  BY <1>1, PayloadWindow
<1>3. /\ whole \in Seq(Nat) /\ Len(whole) = 5 + n
      /\ \A j \in 1 .. 5 + n : whole[j] = s[i + j - 1]
  <2>1. /\ i + 4 + n \in Int /\ i <= i + 4 + n + 1
        /\ i + 4 + n - i + 1 = 5 + n
    BY <1>1
  <2> QED  BY <1>1, <2>1, Window
<1>4. /\ covered \in Seq(Nat) /\ Len(covered) = 4 + n
      /\ \A j \in 1 .. 4 + n : covered[j] = s[i + j - 1]
  <2>1. /\ i + 4 + n - 1 \in Int /\ i <= i + 4 + n - 1 + 1 /\ i + 4 + n - 1 <= Len(s)
        /\ i + 4 + n - 1 - i + 1 = 4 + n
    BY <1>1
  <2> QED  BY <2>1, Window
<1> HIDE DEF p, whole, covered
<1>5. /\ body \in Seq(Nat) /\ Len(body) = 4 + n
      /\ body[1] = Sof[1] /\ body[2] = Sof[2]
      /\ body[3] = Version /\ body[4] = n
      /\ \A j \in 1 .. n : body[4 + j] = p[j]
      /\ Packed(p) = packed
  BY <1>2, PackedBytes DEF HeaderSize
<1> HIDE DEF body
<1>6. /\ packed \in Seq(Nat \cup {Crc(body)}) /\ Len(packed) = 5 + n
      /\ packed[5 + n] = Crc(body)
      /\ \A j \in 1 .. 4 + n : packed[j] = body[j]
  <2>1. body \in Seq(Nat \cup {Crc(body)})
    BY <1>5, SeqMonotonic, Nat \subseteq Nat \cup {Crc(body)}
  <2> QED  BY <2>1, <1>5, AppendProperties
<1> HIDE DEF packed
<1>7. Sof = <<Sof[1], Sof[2]>>
  BY StreamAssumption DEF StreamAssumption
<1>8. whole = packed => ReadsAsFrame(s, i, n)
  <2> SUFFICES ASSUME whole = packed PROVE ReadsAsFrame(s, i, n)
    OBVIOUS
  <2>1. \A j \in 1 .. 4 + n : s[i + j - 1] = body[j]
    BY <1>3, <1>6
  <2>2. covered = body
    BY <2>1, <1>4, <1>5, SeqEqual
  <2>3. s[i + 4 + n] = Crc(body)
    BY <1>3, <1>6
  <2>4. s[i] = body[1] /\ s[i + 1] = body[2] /\ s[i + 2] = body[3] /\ s[i + 3] = body[4]
    <3>1. 1 \in 1 .. 4 + n /\ 2 \in 1 .. 4 + n /\ 3 \in 1 .. 4 + n /\ 4 \in 1 .. 4 + n
      OBVIOUS
    <3> QED  BY <2>1, <3>1
  <2> QED  BY <2>2, <2>3, <2>4, <1>5, <1>7 DEF ReadsAsFrame, HeaderSize, covered
<1>9. ReadsAsFrame(s, i, n) => whole = packed
  <2> SUFFICES ASSUME ReadsAsFrame(s, i, n) PROVE whole = packed
    OBVIOUS
  <2>1. /\ s[i] = Sof[1] /\ s[i + 1] = Sof[2] /\ s[i + 2] = Version /\ s[i + 3] = n
        /\ s[i + 4 + n] = Crc(covered)
    BY <1>7 DEF ReadsAsFrame, HeaderSize, covered
  <2>2. \A j \in 1 .. 4 + n : covered[j] = body[j]
    <3> SUFFICES ASSUME NEW j \in 1 .. 4 + n PROVE covered[j] = body[j]
      OBVIOUS
    <3>1. CASE j \in 1 .. 4
      <4>1. covered[j] = s[i + j - 1]
        BY <1>4
      <4>2. j = 1 \/ j = 2 \/ j = 3 \/ j = 4
        BY <3>1
      <4>3. s[i + j - 1] = body[j]
        <5>1. CASE j = 1  BY <5>1, <2>1, <1>5
        <5>2. CASE j = 2  BY <5>2, <2>1, <1>5
        <5>3. CASE j = 3  BY <5>3, <2>1, <1>5
        <5>4. CASE j = 4  BY <5>4, <2>1, <1>5
        <5> QED  BY <4>2, <5>1, <5>2, <5>3, <5>4
      <4> QED  BY <4>1, <4>3
    <3>2. CASE j > 4
      <4>1. j - 4 \in 1 .. n /\ 4 + (j - 4) = j
        BY <3>2
      <4>2. body[j] = p[j - 4]
        BY <4>1, <1>5
      <4>3. p[j - 4] = s[i + j - 1]
        BY <4>1, <1>2
      <4> QED  BY <4>2, <4>3, <1>4
    <3> QED  BY <3>1, <3>2
  <2>3. covered = body
    BY <2>2, <1>4, <1>5, SeqEqual
  <2>4. \A j \in 1 .. 5 + n : whole[j] = packed[j]
    <3> SUFFICES ASSUME NEW j \in 1 .. 5 + n PROVE whole[j] = packed[j]
      OBVIOUS
    <3>1. CASE j \in 1 .. 4 + n
      BY <3>1, <2>2, <1>3, <1>4, <1>6
    <3>2. CASE j = 5 + n
      <4>1. whole[j] = s[i + 4 + n] /\ packed[j] = Crc(body)
        BY <3>2, <1>3, <1>6
      <4> QED  BY <4>1, <2>1, <2>3
    <3> QED  BY <3>1, <3>2
  <2>5. whole \in Seq(Nat \cup {Crc(body)})
    BY <1>3, SeqMonotonic, Nat \subseteq Nat \cup {Crc(body)}
  <2> QED  BY <2>4, <2>5, <1>3, <1>6, SeqEqual
<1> QED  BY <1>1, <1>5, <1>8, <1>9 DEF HeaderSize, p, whole, packed

Messages == [at : Nat \ {0}, payload : Seq(Nat)]

StreamTypes ==
  /\ stream \in Seq(Nat)
  /\ fed \in 0 .. Len(stream) /\ first \in 1 .. fed + 1
  /\ feeding \in BOOLEAN
  /\ messages \in Seq(Messages)

\* What was returned stands in the dropped part, in order and disjoint.
Taken ==
  \A k \in DOMAIN messages :
    /\ FrameStands(messages[k].at, Len(messages[k].payload))
    /\ messages[k].payload = Payload(messages[k].at, Len(messages[k].payload))
    /\ Len(messages[k].payload) <= MaxPayload
    /\ EndOf(messages[k]) <= first
    /\ \A j \in 1 .. k - 1 : EndOf(messages[j]) <= messages[k].at

\* No frame is dropped but with the bytes of one that was returned.
Scanned ==
  \A i \in 1 .. first - 1, n \in 0 .. MaxPayload : FrameStands(i, n) => Returned(i)

\* Between two calls a frame in the buffer has a start before it.
Rests ==
  ~feeding => \A i \in first .. fed, n \in 0 .. MaxPayload :
    FrameStands(i, n) /\ i + FrameLen(n) - 1 <= fed => Behind(i)

StreamInvariant == StreamTypes /\ Taken /\ Scanned /\ Rests

\* The sizes as numbers.
LEMMA Sizes ==
  /\ MaxPayload \in Nat /\ Len(Sof) = 2
  /\ \A n \in Nat : FrameLen(n) = n + 5 /\ FrameLen(n) \in Nat
  /\ LongestFrame = MaxPayload + 5
BY StreamAssumption
   DEF StreamAssumption, FrameLen, LongestFrame, HeaderSize, CrcSize

\* What a message is made of.
LEMMA MessageFacts ==
  ASSUME NEW m \in Messages
  PROVE  /\ m.at \in Nat /\ 1 <= m.at /\ m.payload \in Seq(Nat) /\ Len(m.payload) \in Nat
         /\ m = [at |-> m.at, payload |-> m.payload]
<1>1. m.at \in Nat \ {0} /\ m.payload \in Seq(Nat)
  BY DEF Messages
<1>2. m = [at |-> m.at, payload |-> m.payload]
  BY DEF Messages
<1> QED  BY <1>1, <1>2

\* Where the frame of a message ends.
LEMMA Ends ==
  ASSUME NEW m \in Messages
  PROVE  EndOf(m) \in Nat /\ EndOf(m) = m.at + Len(m.payload) + 5 /\ m.at < EndOf(m)
<1>1. m.at \in Nat /\ m.payload \in Seq(Nat)
  BY DEF Messages
<1>2. Len(m.payload) \in Nat
  BY <1>1
<1>3. FrameLen(Len(m.payload)) = Len(m.payload) + 5
  BY <1>2, Sizes
<1>4. EndOf(m) = m.at + (Len(m.payload) + 5)
  BY <1>3 DEF EndOf
<1> QED  BY <1>1, <1>2, <1>4

\* A frame of the stream, read byte by byte.
LEMMA StandsReads ==
  ASSUME StreamTypes, NEW i \in Nat, 1 <= i, NEW n \in Nat
  PROVE  FrameStands(i, n)
         <=> i + FrameLen(n) - 1 <= Len(stream) /\ ReadsAsFrame(stream, i, n)
<1>1. stream \in Seq(Nat)
  BY DEF StreamTypes
<1> QED  BY <1>1, FrameRead DEF FrameStands, Payload

\* A frame in the buffer begins with a start that find_sof sees.
LEMMA FrameHasStart ==
  ASSUME StreamTypes, NEW i \in first .. fed - 1, NEW n \in Nat, FrameStands(i, n)
  PROVE  i \in SofPlaces
<1>1. i \in Nat /\ 1 <= i
  BY DEF StreamTypes
<1>2. <<stream[i], stream[i + 1]>> = Sof
  BY <1>1, StandsReads DEF ReadsAsFrame
<1> QED  BY <1>2 DEF SofPlaces

\* A start find_sof sees is within the buffer.
LEMMA PlaceFacts ==
  ASSUME StreamTypes, NEW i \in SofPlaces
  PROVE  /\ i \in Nat /\ 1 <= i /\ first <= i /\ i + 1 <= fed
         /\ fed \in Nat /\ fed <= Len(stream) /\ Len(stream) \in Nat
BY DEF StreamTypes, SofPlaces

\* The header of a place, once read, is that of any frame that stands there.
LEMMA LengthIsRead ==
  ASSUME StreamTypes, NEW i \in SofPlaces, InBuffer(i) >= HeaderSize
  PROVE  /\ LengthAt(i) \in Nat
         /\ \A n \in 0 .. MaxPayload : FrameStands(i, n) =>
              HeaderFits(i) /\ LengthAt(i) = n /\ CrcFits(i)
<1>1. /\ i \in Nat /\ 1 <= i /\ i + 3 <= fed /\ fed \in Nat /\ fed <= Len(stream)
      /\ stream \in Seq(Nat) /\ Len(stream) \in Nat
  BY PlaceFacts DEF StreamTypes, InBuffer, HeaderSize
<1>2. LengthAt(i) = stream[i + 3] /\ stream[i + 3] \in Nat
  <2>1. i + 3 \in 1 .. Len(stream) /\ i + HeaderSize - 1 = i + 3
    BY <1>1 DEF HeaderSize
  <2> QED  BY <2>1, <1>1, ElementOfSeq DEF LengthAt
<1>3. ASSUME NEW n \in 0 .. MaxPayload, FrameStands(i, n)
      PROVE  HeaderFits(i) /\ LengthAt(i) = n /\ CrcFits(i)
  <2>1. n \in Nat /\ n <= MaxPayload
    BY Sizes
  <2>2. /\ stream[i + 2] = Version /\ stream[i + 3] = n
        /\ stream[i + HeaderSize + n] = Crc(SubSeq(stream, i, i + HeaderSize + n - 1))
    BY <1>1, <1>3, <2>1, StandsReads DEF ReadsAsFrame
  <2>3. LengthAt(i) = n
    BY <1>2, <2>2
  <2>4. /\ i + (HeaderSize + n) = i + HeaderSize + n
        /\ i + (HeaderSize + n) - 1 = i + HeaderSize + n - 1
    BY <1>1, <2>1 DEF HeaderSize
  <2>5. CrcFits(i)
    BY <2>2, <2>3, <2>4 DEF CrcFits
  <2> QED  BY <2>1, <2>2, <2>3, <2>5 DEF HeaderFits
<1> QED  BY <1>2, <1>3

\* What TakeFrame takes stands in the stream.
LEMMA TakenStands ==
  ASSUME StreamTypes, NEW i \in SofPlaces, Whole(i), CrcFits(i),
         NEW n, n = LengthAt(i)
  PROVE  /\ FrameStands(i, n)
         /\ n \in 0 .. MaxPayload /\ FrameLen(n) = n + 5
         /\ i + n + 5 <= fed + 1
         /\ PayloadAt(i) = Payload(i, n)
         /\ PayloadAt(i) \in Seq(Nat) /\ Len(PayloadAt(i)) = n
<1>1. n \in Nat /\ n <= MaxPayload /\ stream[i + 2] = Version
  BY LengthIsRead, Sizes DEF Whole, HeaderFits
<1>2. /\ i \in Nat /\ 1 <= i /\ fed \in Nat /\ fed <= Len(stream)
      /\ stream \in Seq(Nat) /\ Len(stream) \in Nat
  BY PlaceFacts DEF StreamTypes
<1>3. stream[i + 3] = n
  BY <1>2 DEF LengthAt, HeaderSize
<1>4. <<stream[i], stream[i + 1]>> = Sof
  BY DEF SofPlaces
<1>5. stream[i + HeaderSize + n] = Crc(SubSeq(stream, i, i + HeaderSize + n - 1))
  <2>1. stream[i + (HeaderSize + n)] = Crc(SubSeq(stream, i, i + (HeaderSize + n) - 1))
    BY DEF CrcFits
  <2>2. /\ i + (HeaderSize + n) = i + HeaderSize + n
        /\ i + (HeaderSize + n) - 1 = i + HeaderSize + n - 1
    BY <1>1, <1>2 DEF HeaderSize
  <2> QED  BY <2>1, <2>2
<1>5a. FrameLen(n) = n + 5
  BY <1>1, Sizes
<1>6. i + n + 5 <= fed + 1
  <2>1. fed - i + 1 >= FrameLen(n)
    BY DEF Whole, InBuffer
  <2> QED  BY <2>1, <1>1, <1>2, <1>5a
<1>7. i + FrameLen(n) - 1 <= Len(stream)
  BY <1>1, <1>2, <1>5a, <1>6
<1>8. FrameStands(i, n)
  BY <1>1, <1>2, <1>3, <1>4, <1>5, <1>7, StandsReads DEF ReadsAsFrame
<1>9. Payload(i, n) \in Seq(Nat) /\ Len(Payload(i, n)) = n
  <2>1. i + 4 + n <= Len(stream)
    BY <1>1, <1>2, <1>5a, <1>7
  <2> QED  BY <2>1, <1>1, <1>2, PayloadWindow DEF Payload, HeaderSize
<1>10. PayloadAt(i) = Payload(i, n)
  BY DEF PayloadAt, Payload
<1> QED  BY <1>1, <1>5a, <1>6, <1>8, <1>9, <1>10

\* Up to the first start nothing is lost.
LEMMA NothingBefore ==
  ASSUME StreamTypes, Scanned, NEW i \in SofPlaces, \A k \in SofPlaces : i <= k
  PROVE  \A j \in 1 .. i - 1, n \in 0 .. MaxPayload : FrameStands(j, n) => Returned(j)
<1> SUFFICES ASSUME NEW j \in 1 .. i - 1, NEW n \in 0 .. MaxPayload, FrameStands(j, n)
             PROVE  Returned(j)
  OBVIOUS
<1>1. i \in Nat /\ first <= i /\ i + 1 <= fed /\ first \in Nat /\ fed \in Nat /\ n \in Nat
  BY PlaceFacts, Sizes DEF StreamTypes
<1>2. CASE j < first
  <2>1. j \in 1 .. first - 1
    BY <1>1, <1>2
  <2> QED  BY <2>1 DEF Scanned
<1>3. CASE j >= first
  <2>1. j \in first .. fed - 1 /\ j < i
    BY <1>1, <1>3
  <2>2. j \in SofPlaces
    BY <1>1, <2>1, FrameHasStart
  <2> QED  BY <2>1, <2>2, <1>1
<1> QED  BY <1>1, <1>2, <1>3

\* The stream alone decides where frames stand.
LEMMA SameStream ==
  ASSUME stream' = stream
  PROVE  \A i, n : /\ FrameStands(i, n)' <=> FrameStands(i, n)
                   /\ Payload(i, n)' = Payload(i, n)
BY DEF FrameStands, Payload

\* A step that returns nothing and drops only what it may.
LEMMA MovesOn ==
  ASSUME StreamInvariant, stream' = stream, messages' = messages, feeding' \in BOOLEAN,
         NEW nextFed \in Nat, fed' = nextFed, fed <= nextFed, nextFed <= Len(stream),
         NEW nextFirst \in Nat, first' = nextFirst,
         first <= nextFirst, nextFirst <= nextFed + 1,
         \A i \in 1 .. nextFirst - 1, n \in 0 .. MaxPayload : FrameStands(i, n) => Returned(i)
  PROVE  StreamTypes' /\ Taken' /\ Scanned'
<1>1. /\ first \in Nat /\ 1 <= first /\ fed \in Nat /\ messages \in Seq(Messages)
      /\ stream \in Seq(Nat) /\ Len(stream) \in Nat
  BY DEF StreamInvariant, StreamTypes
<1>2. StreamTypes'
  <2>2. first' \in 1 .. fed' + 1 /\ fed' \in 0 .. Len(stream)
    BY <1>1
  <2> QED  BY <2>2, <1>1 DEF StreamTypes
<1>3. Taken'
  <2> SUFFICES ASSUME NEW k \in DOMAIN messages
               PROVE  /\ FrameStands(messages[k].at, Len(messages[k].payload))'
                      /\ messages[k].payload
                           = Payload(messages[k].at, Len(messages[k].payload))'
                      /\ Len(messages[k].payload) <= MaxPayload
                      /\ EndOf(messages[k]) <= first'
                      /\ \A j \in 1 .. k - 1 : EndOf(messages[j]) <= messages[k].at
    BY DEF Taken, EndOf
  <2>1. /\ FrameStands(messages[k].at, Len(messages[k].payload))
        /\ messages[k].payload = Payload(messages[k].at, Len(messages[k].payload))
        /\ Len(messages[k].payload) <= MaxPayload
        /\ EndOf(messages[k]) <= first
        /\ \A j \in 1 .. k - 1 : EndOf(messages[j]) <= messages[k].at
    BY DEF StreamInvariant, Taken
  <2>2. messages[k] \in Messages
    BY <1>1, ElementOfSeq
  <2>3. EndOf(messages[k]) \in Nat
    BY <2>2, Ends
  <2>4. EndOf(messages[k]) <= first'
    BY <2>1, <2>3, <1>1
  <2> QED  BY <2>1, <2>4 DEF FrameStands, Payload
<1>4. Scanned'
  <2>1. \A i : Returned(i)' <=> Returned(i)
    BY DEF Returned
  <2> QED  BY <2>1 DEF Scanned, FrameStands, Payload
<1> QED  BY <1>2, <1>3, <1>4

\* A read only adds to the buffer.
LEMMA FeedKeeps ==
  ASSUME StreamInvariant, Feed
  PROVE  StreamInvariant'
<1>1. /\ stream' = stream /\ first' = first /\ messages' = messages /\ feeding' = TRUE
      /\ \E more \in fed .. Len(stream) : fed' = more
  BY DEF Feed
<1>2. /\ fed \in Nat /\ Len(stream) \in Nat /\ first \in Nat /\ first <= fed + 1
  BY DEF StreamInvariant, StreamTypes
<1>3. PICK more \in fed .. Len(stream) : fed' = more
  BY <1>1
<1>4. StreamTypes' /\ Taken' /\ Scanned'
  <2>1. more \in Nat /\ fed <= more /\ more <= Len(stream) /\ first <= more + 1
    BY <1>2, <1>3
  <2>2. \A i \in 1 .. first - 1, n \in 0 .. MaxPayload : FrameStands(i, n) => Returned(i)
    BY DEF StreamInvariant, Scanned
  <2>3. first <= first
    BY <1>2
  <2> QED  BY <2>1, <2>2, <2>3, <1>1, <1>2, <1>3, MovesOn
<1>5. Rests'
  BY <1>1 DEF Rests
<1> QED  BY <1>4, <1>5 DEF StreamInvariant

\* drop_noise leaves no frame out: what it drops has no start.
LEMMA NoStartKeeps ==
  ASSUME StreamInvariant, NoStart
  PROVE  StreamInvariant'
<1>1. /\ stream' = stream /\ fed' = fed /\ messages' = messages /\ feeding' = FALSE
      /\ SofPlaces = {}
  BY DEF NoStart, EndsLoop
<1>2. /\ first \in Nat /\ 1 <= first /\ first <= fed + 1 /\ fed \in Nat
      /\ fed <= Len(stream) /\ Len(stream) \in Nat
  BY DEF StreamInvariant, StreamTypes
<1>3. PICK next \in {first, fed} :
        /\ first' = next
        /\ (fed > first /\ next = fed) \/ (fed <= first /\ next = first)
  <2>1. first' = IF fed - first + 1 > 2 - 1 THEN fed ELSE first
    BY Sizes DEF NoStart, InBuffer
  <2> QED  BY <2>1, <1>2
<1>4. \A i \in 1 .. next - 1, n \in 0 .. MaxPayload : FrameStands(i, n) => Returned(i)
  <2> SUFFICES ASSUME NEW i \in 1 .. next - 1, NEW n \in 0 .. MaxPayload,
                      FrameStands(i, n)
               PROVE  Returned(i)
    OBVIOUS
  <2>1. CASE i < first
    <3>1. i \in 1 .. first - 1
      BY <2>1, <1>2
    <3> QED  BY <3>1 DEF StreamInvariant, Scanned
  <2>2. CASE i >= first
    <3>1. i \in first .. fed - 1 /\ n \in Nat
      <4>1. i \in first .. fed - 1
        BY <2>2, <1>2, <1>3
      <4> QED  BY <4>1, Sizes
    <3>2. i \in SofPlaces
      BY <3>1, FrameHasStart DEF StreamInvariant
    <3> QED  BY <3>2, <1>1
  <2> QED  BY <2>1, <2>2, <1>2
<1>5. StreamTypes' /\ Taken' /\ Scanned'
  <2>1. /\ fed <= fed
        /\ next \in Nat /\ first <= next /\ next <= fed + 1
    BY <1>1, <1>2, <1>3
  <2> QED  BY <2>1, <1>1, <1>2, <1>3, <1>4, MovesOn
<1>6. Rests'
  <2> SUFFICES ASSUME NEW i \in first' .. fed', NEW n \in 0 .. MaxPayload,
                      i + FrameLen(n) - 1 <= fed'
               PROVE  FALSE
    BY DEF Rests
  <2>1. n \in Nat /\ FrameLen(n) = n + 5
    BY Sizes
  <2> QED  BY <2>1, <1>1, <1>2, <1>3
<1> QED  BY <1>5, <1>6 DEF StreamInvariant

\* i is the place find_sof returns.
Begins(i) == i \in SofPlaces /\ \A k \in SofPlaces : i <= k

\* A turn that waits keeps the start it waits for.
LEMMA IncompleteKeeps ==
  ASSUME StreamInvariant, NEW i, Begins(i), Incomplete(i)
  PROVE  StreamInvariant'
<1>1. /\ stream' = stream /\ fed' = fed /\ messages' = messages /\ feeding' = FALSE
      /\ first' = i
  BY DEF Incomplete, EndsLoop
<1>2. /\ i \in SofPlaces /\ StreamTypes
      /\ i \in Nat /\ 1 <= i /\ first <= i /\ i + 1 <= fed /\ fed \in Nat
      /\ fed <= Len(stream) /\ Len(stream) \in Nat /\ first \in Nat /\ 1 <= first
  BY PlaceFacts DEF StreamInvariant, Begins, StreamTypes
<1>3. \A j \in 1 .. i - 1, n \in 0 .. MaxPayload : FrameStands(j, n) => Returned(j)
  BY NothingBefore DEF StreamInvariant, Begins
<1>4. StreamTypes' /\ Taken' /\ Scanned'
  <2>1. /\ fed <= fed
        /\ i \in Nat /\ first <= i /\ i <= fed + 1
    BY <1>1, <1>2
  <2> QED  BY <2>1, <1>1, <1>2, <1>3, MovesOn
<1>5. i \in SofPlaces'
  BY <1>1, <1>2 DEF SofPlaces
<1>6. InBuffer(i) < LongestFrame
  <2>1. CASE InBuffer(i) < HeaderSize
    BY <2>1, <1>2, Sizes DEF InBuffer, HeaderSize
  <2>2. CASE InBuffer(i) >= HeaderSize /\ HeaderFits(i) /\ InBuffer(i) < FrameLen(LengthAt(i))
    <3>1. LengthAt(i) \in Nat /\ LengthAt(i) <= MaxPayload
      BY <2>2, <1>2, LengthIsRead DEF HeaderFits
    <3>2. FrameLen(LengthAt(i)) = LengthAt(i) + 5
      BY <3>1, Sizes
    <3>3. InBuffer(i) \in Int
      BY <1>2 DEF InBuffer
    <3> QED  BY <2>2, <3>1, <3>2, <3>3, Sizes
  <2> QED  BY <2>1, <2>2 DEF Incomplete
<1>7. Rests'
  <2> SUFFICES ASSUME NEW j \in i .. fed, NEW n \in 0 .. MaxPayload,
                      FrameStands(j, n), j + FrameLen(n) - 1 <= fed
               PROVE  Behind(j)'
    BY <1>1, SameStream DEF Rests
  <2>1. n \in Nat /\ FrameLen(n) = n + 5
    BY Sizes
  <2>2. j # i
    <3> SUFFICES ASSUME j = i PROVE FALSE
      OBVIOUS
    <3>1. InBuffer(i) >= n + 5
      BY <2>1, <1>2 DEF InBuffer
    <3>2. InBuffer(i) >= HeaderSize /\ ~(InBuffer(i) < HeaderSize)
      BY <3>1, <2>1, <1>2 DEF InBuffer, HeaderSize
    <3>3. LengthAt(i) = n
      BY <3>2, <1>2, LengthIsRead
    <3>4. InBuffer(i) < n + 5
      BY <3>2, <3>3, <2>1 DEF Incomplete
    <3> QED  BY <3>1, <3>4, <2>1, <1>2 DEF InBuffer
  <2>3. i < j
    BY <2>2, <1>2
  <2>4. InBuffer(i)' = InBuffer(i)
    BY <1>1 DEF InBuffer
  <2>5. first' < j /\ (first \in SofPlaces)' /\ InBuffer(first)' < LongestFrame
    BY <2>3, <2>4, <1>1, <1>5, <1>6 DEF InBuffer
  <2> QED  BY <2>5 DEF Behind, LongestFrame, FrameLen, HeaderSize, CrcSize
<1> QED  BY <1>4, <1>7 DEF StreamInvariant

\* One byte is dropped, of a start that is no frame.
LEMMA StepOverKeeps ==
  ASSUME StreamInvariant, NEW i, Begins(i), RefuseHeader(i) \/ Mismatch(i), feeding
  PROVE  StreamInvariant'
<1>1. /\ stream' = stream /\ fed' = fed /\ messages' = messages /\ feeding' = TRUE
      /\ first' = i + 1
  BY DEF RefuseHeader, Mismatch, AfterBadCrc, StreamInvariant, StreamTypes
<1>2. /\ i \in SofPlaces /\ StreamTypes
      /\ i \in Nat /\ 1 <= i /\ first <= i /\ i + 1 <= fed /\ fed \in Nat
      /\ fed <= Len(stream) /\ Len(stream) \in Nat /\ first \in Nat /\ 1 <= first
  BY PlaceFacts DEF StreamInvariant, Begins, StreamTypes
<1>3. \A j \in 1 .. i - 1, n \in 0 .. MaxPayload : FrameStands(j, n) => Returned(j)
  BY NothingBefore DEF StreamInvariant, Begins
<1>4. \A n \in 0 .. MaxPayload : ~FrameStands(i, n)
  <2>1. InBuffer(i) >= HeaderSize /\ ~(HeaderFits(i) /\ CrcFits(i))
    BY DEF RefuseHeader, Mismatch, Whole
  <2> QED  BY <2>1, <1>2, LengthIsRead
<1>5. \A j \in 1 .. i + 1 - 1, n \in 0 .. MaxPayload : FrameStands(j, n) => Returned(j)
  <2> SUFFICES ASSUME NEW j \in 1 .. i + 1 - 1, NEW n \in 0 .. MaxPayload,
                      FrameStands(j, n)
               PROVE  Returned(j)
    OBVIOUS
  <2>1. j \in 1 .. i - 1
    <3>1. j # i
      BY <1>4
    <3> QED  BY <3>1, <1>1, <1>2
  <2> QED  BY <2>1, <1>3
<1>6. StreamTypes' /\ Taken' /\ Scanned'
  <2>1. /\ fed <= fed
        /\ i + 1 \in Nat /\ first <= i + 1 /\ i + 1 <= fed + 1
    BY <1>1, <1>2
  <2> QED  BY <2>1, <1>1, <1>2, <1>5, MovesOn
<1> QED  BY <1>1, <1>6 DEF StreamInvariant, Rests

\* A frame that is taken covers all that is dropped from its start on.
LEMMA TakeFrameKeeps ==
  ASSUME StreamInvariant, NEW i, Begins(i), TakeFrame(i), feeding
  PROVE  StreamInvariant'
<1> DEFINE new == [at |-> i, payload |-> PayloadAt(i)]
<1>1. /\ i \in SofPlaces /\ StreamTypes
      /\ i \in Nat /\ 1 <= i /\ first <= i /\ i + 1 <= fed /\ fed \in Nat
      /\ fed <= Len(stream) /\ Len(stream) \in Nat /\ first \in Nat /\ 1 <= first
      /\ messages \in Seq(Messages) /\ stream \in Seq(Nat)
  BY PlaceFacts DEF StreamInvariant, Begins, StreamTypes
<1>2. PICK n : n = LengthAt(i)
  OBVIOUS
<1>3. /\ FrameStands(i, n) /\ n \in 0 .. MaxPayload /\ FrameLen(n) = n + 5
      /\ i + n + 5 <= fed + 1
      /\ PayloadAt(i) = Payload(i, n)
      /\ PayloadAt(i) \in Seq(Nat) /\ Len(PayloadAt(i)) = n
  BY <1>1, <1>2, TakenStands DEF TakeFrame
<1>4. /\ stream' = stream /\ fed' = fed /\ feeding' = TRUE
      /\ first' = i + n + 5
      /\ messages' = Append(messages, new)
  BY <1>1, <1>2, <1>3, Sizes DEF TakeFrame
<1>5. /\ new \in Messages /\ new.at = i /\ new.payload = PayloadAt(i)
      /\ EndOf(new) = i + n + 5
  <2>1. new.at = i /\ new.payload = PayloadAt(i) /\ new \in Messages
    BY <1>1, <1>3 DEF Messages
  <2>2. EndOf(new) = i + FrameLen(n)
    BY <2>1, <1>3 DEF EndOf
  <2> QED  BY <2>1, <2>2, <1>1, <1>3, Sizes
<1> HIDE DEF new
<1>6. /\ messages' \in Seq(Messages) /\ Len(messages) \in Nat
      /\ Len(messages') = Len(messages) + 1
      /\ DOMAIN messages = 1 .. Len(messages)
      /\ DOMAIN messages' = 1 .. Len(messages) + 1
      /\ messages'[Len(messages) + 1] = new
      /\ \A k \in 1 .. Len(messages) : messages'[k] = messages[k]
  BY <1>1, <1>4, <1>5, AppendProperties
<1>7. MaxPayload \in Nat /\ n \in Nat
  BY <1>3, Sizes
<1>8. StreamTypes'
  <2>1. i + n + 5 \in 1 .. fed + 1 /\ fed \in 0 .. Len(stream)
    BY <1>1, <1>3, <1>7
  <2> QED  BY <2>1, <1>1, <1>4, <1>6 DEF StreamTypes
<1>9. \A k \in 1 .. Len(messages) :
        /\ messages[k] \in Messages /\ EndOf(messages[k]) \in Nat
        /\ EndOf(messages[k]) <= first
  <2> SUFFICES ASSUME NEW k \in 1 .. Len(messages)
               PROVE  /\ messages[k] \in Messages /\ EndOf(messages[k]) \in Nat
                      /\ EndOf(messages[k]) <= first
    OBVIOUS
  <2>1. messages[k] \in Messages
    BY <1>1, ElementOfSeq
  <2>2. EndOf(messages[k]) \in Nat
    BY <2>1, Ends
  <2> QED  BY <2>1, <2>2, <1>6 DEF StreamInvariant, Taken
<1>10. Taken'
  <2> SUFFICES ASSUME NEW k \in DOMAIN messages'
               PROVE  /\ FrameStands(messages'[k].at, Len(messages'[k].payload))
                      /\ messages'[k].payload
                           = Payload(messages'[k].at, Len(messages'[k].payload))
                      /\ Len(messages'[k].payload) <= MaxPayload
                      /\ EndOf(messages'[k]) <= first'
                      /\ \A j \in 1 .. k - 1 : EndOf(messages'[j]) <= messages'[k].at
    BY <1>4 DEF Taken, EndOf, FrameStands, Payload
  <2>1. CASE k = Len(messages) + 1
    <3>1. messages'[k] = new
      BY <2>1, <1>6
    <3>2. ASSUME NEW j \in 1 .. k - 1 PROVE EndOf(messages'[j]) <= i
      <4>1. j \in 1 .. Len(messages)
        BY <2>1, <1>6
      <4>2. messages'[j] = messages[j]
        BY <4>1, <1>6
      <4> QED  BY <4>1, <4>2, <1>9, <1>1
    <3>3. FrameStands(new.at, Len(new.payload)) /\ Len(new.payload) <= MaxPayload
      BY <1>3, <1>5, <1>7
    <3>4. new.payload = Payload(new.at, Len(new.payload))
      BY <1>3, <1>5
    <3>5. EndOf(new) <= first'
      BY <1>1, <1>4, <1>5, <1>7
    <3> QED  BY <3>1, <3>2, <3>3, <3>4, <3>5, <1>5
  <2>2. CASE k \in 1 .. Len(messages)
    <3>1. messages'[k] = messages[k]
      BY <2>2, <1>6
    <3>2. /\ FrameStands(messages[k].at, Len(messages[k].payload))
          /\ messages[k].payload = Payload(messages[k].at, Len(messages[k].payload))
          /\ Len(messages[k].payload) <= MaxPayload
          /\ EndOf(messages[k]) <= first
          /\ \A j \in 1 .. k - 1 : EndOf(messages[j]) <= messages[k].at
      BY <2>2, <1>6 DEF StreamInvariant, Taken
    <3>3. ASSUME NEW j \in 1 .. k - 1 PROVE messages'[j] = messages[j]
      <4>1. j \in 1 .. Len(messages)
        BY <2>2, <1>6
      <4> QED  BY <4>1, <1>6
    <3>4. EndOf(messages[k]) <= first'
      BY <2>2, <1>1, <1>4, <1>7, <1>9
    <3> QED  BY <3>1, <3>2, <3>3, <3>4
  <2> QED  BY <2>1, <2>2, <1>6
<1>11. Scanned'
  <2> SUFFICES ASSUME NEW j \in 1 .. first' - 1, NEW m \in 0 .. MaxPayload,
                      FrameStands(j, m)
               PROVE  \E k \in DOMAIN messages' :
                        messages'[k].at <= j /\ j < EndOf(messages'[k])
    BY <1>4 DEF Scanned, Returned, EndOf, FrameStands, Payload
  <2>1. CASE j < i
    <3>1. j \in 1 .. i - 1
      BY <2>1, <1>1
    <3>2. Returned(j)
      BY <3>1, NothingBefore DEF StreamInvariant, Begins
    <3>3. PICK k \in DOMAIN messages : messages[k].at <= j /\ j < EndOf(messages[k])
      BY <3>2 DEF Returned
    <3>4. k \in 1 .. Len(messages) + 1 /\ messages'[k] = messages[k]
      BY <1>6
    <3> QED  BY <3>3, <3>4, <1>6
  <2>2. CASE j >= i
    <3>1. Len(messages) + 1 \in DOMAIN messages'
      BY <1>6
    <3>2. new.at <= j /\ j < EndOf(new)
      BY <2>2, <1>1, <1>4, <1>5, <1>7
    <3> QED  BY <3>1, <3>2, <1>6
  <2> QED  BY <2>1, <2>2, <1>1
<1> QED  BY <1>4, <1>8, <1>10, <1>11 DEF StreamInvariant, Rests

\* A new parser has dropped nothing.
LEMMA StreamStart == ParserInit => StreamInvariant
<1> SUFFICES ASSUME ParserInit PROVE StreamInvariant
  OBVIOUS
<1>1. /\ stream \in Seq(Nat) /\ Len(stream) \in Nat /\ first = 1 /\ fed = 0
      /\ feeding = FALSE /\ messages = <<>>
  BY StreamAssumption DEF ParserInit, StreamAssumption
<1>2. messages \in Seq(Messages) /\ DOMAIN messages = {}
  BY <1>1
<1>3. StreamTypes
  <2>1. fed \in 0 .. Len(stream) /\ first \in 1 .. fed + 1
    BY <1>1
  <2> QED  BY <2>1, <1>1, <1>2 DEF StreamTypes
<1>4. Taken
  BY <1>2 DEF Taken
<1>5. Scanned
  BY <1>1 DEF Scanned
<1>6. Rests
  BY <1>1 DEF Rests
<1> QED  BY <1>3, <1>4, <1>5, <1>6 DEF StreamInvariant

\* Every turn of the loop keeps the invariant.
LEMMA StreamStep == StreamInvariant /\ [ParserNext]_parserVars => StreamInvariant'
<1> SUFFICES ASSUME StreamInvariant, [ParserNext]_parserVars PROVE StreamInvariant'
  OBVIOUS
<1>1. CASE Feed
  BY <1>1, FeedKeeps
<1>2. CASE Turn
  <2>1. CASE NoStart
    BY <2>1, NoStartKeeps
  <2>2. ASSUME NEW i \in SofPlaces, \A k \in SofPlaces : i <= k,
               Incomplete(i) \/ RefuseHeader(i) \/ Mismatch(i) \/ TakeFrame(i)
        PROVE  StreamInvariant'
    <3>1. Begins(i) /\ feeding
      BY <1>2, <2>2 DEF Begins, Turn
    <3> QED  BY <2>2, <3>1, IncompleteKeeps, StepOverKeeps, TakeFrameKeeps
  <2> QED  BY <1>2, <2>1, <2>2 DEF Turn
<1>3. CASE UNCHANGED parserVars
  BY <1>3 DEF parserVars, StreamInvariant, StreamTypes, Taken, Scanned, Rests, Returned,
    Behind, EndOf, FrameStands, Payload, SofPlaces, InBuffer
<1> QED  BY <1>1, <1>2, <1>3 DEF ParserNext

\* The invariant of the parser.
LEMMA StreamInvariance == ParserSpec => []StreamInvariant
BY StreamStart, StreamStep, PTL DEF ParserSpec

\* Whatever the check sum, the noise and the reads: every frame that stands in the stream
\* comes out, or gives its bytes to one whose check sum fits, and nothing else comes out.
THEOREM EveryFrameComesOut == ParserSpec => []FramesComeOut
<1>1. StreamInvariant => FramesComeOut
  <2> SUFFICES ASSUME StreamInvariant PROVE FramesComeOut
    OBVIOUS
  <2>1. /\ first \in Nat /\ first <= fed + 1 /\ fed \in Nat /\ messages \in Seq(Messages)
    BY DEF StreamInvariant, StreamTypes
  <2>2. ASSUME NEW k \in DOMAIN messages
        PROVE  /\ FrameStands(messages[k].at, Len(messages[k].payload))
               /\ messages[k].payload = Payload(messages[k].at, Len(messages[k].payload))
               /\ EndOf(messages[k]) <= fed + 1
               /\ \A j \in 1 .. k - 1 : EndOf(messages[j]) <= messages[k].at
    <3>1. messages[k] \in Messages
      BY <2>1, ElementOfSeq
    <3>2. EndOf(messages[k]) \in Nat
      BY <3>1, Ends
    <3>3. EndOf(messages[k]) <= first
      BY DEF StreamInvariant, Taken
    <3> QED  BY <2>1, <3>2, <3>3 DEF StreamInvariant, Taken
  <2>3. ASSUME ~feeding, NEW i \in 1 .. fed, NEW n \in 0 .. MaxPayload,
               FrameStands(i, n), i + FrameLen(n) - 1 <= fed
        PROVE  Returned(i) \/ Behind(i)
    <3>1. CASE i < first
      <4>1. i \in 1 .. first - 1
        BY <3>1, <2>1
      <4> QED  BY <4>1, <2>3 DEF StreamInvariant, Scanned
    <3>2. CASE i >= first
      <4>1. i \in first .. fed
        BY <3>2, <2>1
      <4> QED  BY <4>1, <2>3 DEF StreamInvariant, Rests
    <3> QED  BY <3>1, <3>2, <2>1
  <2> QED  BY <2>2, <2>3 DEF FramesComeOut
<1> QED  BY <1>1, StreamInvariance, PTL
\* A set of numbers that has 0 and every successor has them all.
LEMMA Counting ==
  ASSUME NEW S, 0 \in S, \A n \in Nat : n \in S => n + 1 \in S
  PROVE  Nat \subseteq S
<1> SUFFICES ASSUME Nat \ S # {} PROVE FALSE
  OBVIOUS
<1>1. IsWellFoundedOn(OpToRel(<, Nat), Nat)
  BY NatLessThanWellFounded, Zenon
<1>2. Nat \ S \subseteq Nat
  OBVIOUS
<1>3. \E x \in Nat \ S : \A y \in Nat \ S : ~(<<y, x>> \in OpToRel(<, Nat))
  BY <1>1, <1>2, WFMin
<1>4. PICK x \in Nat \ S : \A y \in Nat \ S : ~(<<y, x>> \in OpToRel(<, Nat))
  BY <1>3
<1>5. x # 0 /\ x - 1 \in Nat /\ (x - 1) + 1 = x
  OBVIOUS
<1>6. x - 1 \notin S
  BY <1>5
<1>7. <<x - 1, x>> \in OpToRel(<, Nat)
  BY <1>5 DEF OpToRel
<1> QED  BY <1>4, <1>5, <1>6, <1>7


\* feed's loop ends: a turn that is not the last drops at least one byte.
THEOREM TurnsEnd ==
  ParserSpec => [][feeding /\ feeding' => fed' = fed /\ first < first']_parserVars
<1>1. ASSUME StreamInvariant, [ParserNext]_parserVars
      PROVE  [feeding /\ feeding' => fed' = fed /\ first < first']_parserVars
  <2> SUFFICES ASSUME feeding = TRUE, feeding' = TRUE, ParserNext
               PROVE  fed' = fed /\ first < first'
    BY <1>1 DEF StreamInvariant, StreamTypes
  <2>1. PICK i : Begins(i) /\ (RefuseHeader(i) \/ Mismatch(i) \/ TakeFrame(i))
    BY DEF ParserNext, Feed, Turn, NoStart, Incomplete, EndsLoop, Begins
  <2>2. /\ i \in Nat /\ first <= i /\ first \in Nat /\ i \in SofPlaces
    BY <1>1, <2>1, PlaceFacts DEF Begins, StreamInvariant, StreamTypes
  <2>3. CASE RefuseHeader(i) \/ Mismatch(i)
    <3>1. fed' = fed /\ first' = i + 1
      BY <2>3 DEF RefuseHeader, Mismatch, AfterBadCrc
    <3>2. first < i + 1
      BY <2>2
    <3> QED  BY <3>1, <3>2
  <2>4. CASE TakeFrame(i)
    <3>1. PICK n : n = LengthAt(i)
      OBVIOUS
    <3>2. n \in Nat /\ FrameLen(n) = n + 5
      BY <1>1, <2>2, <2>4, <3>1, TakenStands, Sizes DEF TakeFrame, StreamInvariant
    <3>3. fed' = fed /\ first' = i + (n + 5)
      BY <2>4, <3>1, <3>2 DEF TakeFrame
    <3>4. first < i + (n + 5)
      BY <2>2, <3>2
    <3> QED  BY <3>3, <3>4
  <2> QED  BY <2>1, <2>3, <2>4
<1> QED  BY <1>1, StreamInvariance, PTL DEF ParserSpec

\* The scan of the whole stream from its beginning: each message is the first frame
\* that stands behind the one before.
After(out, k) == IF k = 1 THEN 1 ELSE EndOf(out[k - 1])
ScanOfStream(out) ==
  \A k \in DOMAIN out :
    /\ FrameStands(out[k].at, Len(out[k].payload))
    /\ out[k].payload = Payload(out[k].at, Len(out[k].payload))
    /\ Len(out[k].payload) <= MaxPayload
    /\ After(out, k) <= out[k].at
    /\ \A i \in After(out, k) .. out[k].at - 1, n \in 0 .. MaxPayload : ~FrameStands(i, n)

\* What was returned is the scan of the stream, as far as it got.
LEMMA ScansSo == StreamInvariant => ScanOfStream(messages)
<1> SUFFICES ASSUME StreamInvariant, NEW k \in DOMAIN messages
             PROVE  /\ FrameStands(messages[k].at, Len(messages[k].payload))
                    /\ messages[k].payload = Payload(messages[k].at, Len(messages[k].payload))
                    /\ Len(messages[k].payload) <= MaxPayload
                    /\ After(messages, k) <= messages[k].at
                    /\ \A i \in After(messages, k) .. messages[k].at - 1, n \in 0 .. MaxPayload :
                         ~FrameStands(i, n)
  BY DEF ScanOfStream
<1>1. /\ messages \in Seq(Messages) /\ Len(messages) \in Nat
      /\ DOMAIN messages = 1 .. Len(messages) /\ first \in Nat
  BY DEF StreamInvariant, StreamTypes
<1>2. \A l \in DOMAIN messages :
        /\ messages[l] \in Messages /\ messages[l].at \in Nat /\ 1 <= messages[l].at
        /\ EndOf(messages[l]) \in Nat /\ messages[l].at < EndOf(messages[l])
        /\ EndOf(messages[l]) <= first
        /\ \A j \in 1 .. l - 1 : EndOf(messages[j]) <= messages[l].at
  <2> SUFFICES ASSUME NEW l \in DOMAIN messages
               PROVE  /\ messages[l] \in Messages /\ messages[l].at \in Nat
                      /\ 1 <= messages[l].at
                      /\ EndOf(messages[l]) \in Nat /\ messages[l].at < EndOf(messages[l])
    BY DEF StreamInvariant, Taken
  <2>1. messages[l] \in Messages
    BY <1>1, ElementOfSeq
  <2>2. messages[l].at \in Nat \ {0}
    BY <2>1 DEF Messages
  <2> QED  BY <2>1, <2>2, Ends
<1>3. k \in 1 .. Len(messages) /\ k \in Nat
  BY <1>1
<1>4. /\ k = 1 => After(messages, k) = 1
      /\ k # 1 => After(messages, k) = EndOf(messages[k - 1]) /\ k - 1 \in DOMAIN messages
                  /\ k - 1 \in 1 .. k - 1
  BY <1>1, <1>3 DEF After
<1>5. After(messages, k) \in Nat /\ 1 <= After(messages, k)
      /\ After(messages, k) <= messages[k].at
  <2>1. CASE k = 1
    BY <2>1, <1>2, <1>4
  <2>2. CASE k # 1
    <3>1. /\ After(messages, k) \in Nat /\ 1 <= After(messages, k)
      BY <2>2, <1>2, <1>4
    <3>2. EndOf(messages[k - 1]) <= messages[k].at
      BY <2>2, <1>2, <1>4
    <3> QED  BY <2>2, <3>1, <3>2, <1>4
  <2> QED  BY <2>1, <2>2
<1>6. ASSUME NEW i \in After(messages, k) .. messages[k].at - 1, NEW n \in 0 .. MaxPayload,
             FrameStands(i, n)
      PROVE  FALSE
  <2>1. i \in Nat /\ 1 <= i /\ After(messages, k) <= i /\ i < messages[k].at
    BY <1>2, <1>5
  <2>2. i \in 1 .. first - 1
    <3>1. messages[k].at < first
      BY <1>1, <1>2
    <3> QED  BY <2>1, <3>1, <1>1, <1>2
  <2>3. PICK l \in DOMAIN messages : messages[l].at <= i /\ i < EndOf(messages[l])
    BY <2>2, <1>6 DEF StreamInvariant, Scanned, Returned
  <2>4. l \in Nat /\ 1 <= l
    BY <1>1, <2>3
  <2>5. CASE l >= k
    <3>1. l # k
      BY <2>1, <2>3, <1>2
    <3>2. k \in 1 .. l - 1
      BY <2>4, <2>5, <3>1, <1>3
    <3>3. EndOf(messages[k]) <= messages[l].at
      BY <3>2, <1>2
    <3> QED  BY <2>1, <2>3, <3>3, <1>2
  <2>6. CASE l < k
    <3>1. k # 1
      BY <2>4, <2>6, <1>3
    <3>2. EndOf(messages[k - 1]) <= i
      BY <3>1, <2>1, <1>4
    <3>3. l # k - 1
      BY <2>3, <3>1, <3>2, <1>2, <2>1, <1>4
    <3>4. l \in 1 .. k - 1 - 1
      BY <2>4, <2>6, <3>3, <1>3
    <3>5. EndOf(messages[l]) <= messages[k - 1].at
      BY <3>1, <3>4, <1>2, <1>4
    <3>6. messages[k - 1].at < EndOf(messages[k - 1]) /\ messages[k - 1].at \in Nat
          /\ EndOf(messages[k - 1]) \in Nat
      BY <3>1, <1>2, <1>4
    <3> QED  BY <2>1, <2>3, <3>2, <3>5, <3>6, <1>2
  <2> QED  BY <2>4, <2>5, <2>6, <1>3
<1> QED  BY <1>5, <1>6 DEF StreamInvariant, Taken

\* At one place stands at most one frame.
LEMMA OneLength ==
  ASSUME StreamTypes, NEW i \in Nat, 1 <= i, NEW n \in Nat, NEW m \in Nat,
         FrameStands(i, n), FrameStands(i, m)
  PROVE  n = m
<1>1. stream[i + 3] = n
  BY StandsReads DEF ReadsAsFrame
<1>2. stream[i + 3] = m
  BY StandsReads DEF ReadsAsFrame
<1> QED  BY <1>1, <1>2

\* There is only one scan of a stream.
LEMMA OneScan ==
  ASSUME StreamTypes, NEW a \in Seq(Messages), NEW b \in Seq(Messages),
         ScanOfStream(a), ScanOfStream(b)
  PROVE  \A k \in DOMAIN a \cap DOMAIN b : a[k] = b[k]
<1> DEFINE Same == {n \in Nat : \A k \in DOMAIN a \cap DOMAIN b : k <= n => a[k] = b[k]}
<1>1. /\ DOMAIN a = 1 .. Len(a) /\ Len(a) \in Nat
      /\ DOMAIN b = 1 .. Len(b) /\ Len(b) \in Nat
  OBVIOUS
<1>2. 0 \in Same
  BY <1>1
<1>3. ASSUME NEW n \in Nat, n \in Same PROVE n + 1 \in Same
  <2> SUFFICES ASSUME NEW k \in DOMAIN a \cap DOMAIN b, k <= n + 1 PROVE a[k] = b[k]
    OBVIOUS
  <2>1. k \in Nat /\ 1 <= k /\ k \in DOMAIN a /\ k \in DOMAIN b
    BY <1>1
  <2>2. CASE k <= n
    BY <2>2, <1>3
  <2>3. CASE k = n + 1
    <3>1. /\ a[k] \in Messages /\ b[k] \in Messages
      BY <2>1, ElementOfSeq
    <3>2. /\ a[k].at \in Nat /\ 1 <= a[k].at /\ a[k].payload \in Seq(Nat)
          /\ b[k].at \in Nat /\ 1 <= b[k].at /\ b[k].payload \in Seq(Nat)
      BY <3>1, MessageFacts
    <3>3. /\ Len(a[k].payload) \in Nat /\ Len(b[k].payload) \in Nat
      BY <3>2
    <3>4. After(a, k) = After(b, k) /\ After(a, k) \in Nat
      <4>1. CASE k = 1
        BY <4>1 DEF After
      <4>2. CASE k # 1
        <5>1. k - 1 \in DOMAIN a \cap DOMAIN b /\ k - 1 <= n
          BY <4>2, <2>1, <2>3, <1>1
        <5>2. a[k - 1] = b[k - 1] /\ a[k - 1] \in Messages
          BY <5>1, <1>3, ElementOfSeq, <1>1
        <5> QED  BY <4>2, <5>2, Ends DEF After
      <4> QED  BY <4>1, <4>2
    <3>5. /\ FrameStands(a[k].at, Len(a[k].payload)) /\ Len(a[k].payload) <= MaxPayload
          /\ a[k].payload = Payload(a[k].at, Len(a[k].payload))
          /\ After(a, k) <= a[k].at
          /\ \A i \in After(a, k) .. a[k].at - 1, m \in 0 .. MaxPayload : ~FrameStands(i, m)
      BY <2>1 DEF ScanOfStream
    <3>6. /\ FrameStands(b[k].at, Len(b[k].payload)) /\ Len(b[k].payload) <= MaxPayload
          /\ b[k].payload = Payload(b[k].at, Len(b[k].payload))
          /\ After(b, k) <= b[k].at
          /\ \A i \in After(b, k) .. b[k].at - 1, m \in 0 .. MaxPayload : ~FrameStands(i, m)
      BY <2>1 DEF ScanOfStream
    <3>7. MaxPayload \in Nat
      BY Sizes
    <3>8. ~(a[k].at < b[k].at)
      <4> SUFFICES ASSUME a[k].at < b[k].at PROVE FALSE
        OBVIOUS
      <4>1. a[k].at \in After(b, k) .. b[k].at - 1 /\ Len(a[k].payload) \in 0 .. MaxPayload
        BY <3>2, <3>3, <3>4, <3>5, <3>7
      <4> QED  BY <4>1, <3>5, <3>6
    <3>9. ~(b[k].at < a[k].at)
      <4> SUFFICES ASSUME b[k].at < a[k].at PROVE FALSE
        OBVIOUS
      <4>1. b[k].at \in After(a, k) .. a[k].at - 1 /\ Len(b[k].payload) \in 0 .. MaxPayload
        BY <3>2, <3>3, <3>4, <3>6, <3>7
      <4> QED  BY <4>1, <3>5, <3>6
    <3>10. a[k].at = b[k].at
      BY <3>2, <3>8, <3>9
    <3>11. Len(a[k].payload) = Len(b[k].payload)
      BY <3>2, <3>3, <3>5, <3>6, <3>10, OneLength
    <3>12. a[k].payload = b[k].payload
      BY <3>5, <3>6, <3>10, <3>11
    <3> QED
      <4>1. /\ a[k] = [at |-> a[k].at, payload |-> a[k].payload]
            /\ b[k] = [at |-> b[k].at, payload |-> b[k].payload]
        BY <3>1, MessageFacts
      <4> QED  BY <4>1, <3>10, <3>12
  <2> QED  BY <2>1, <2>2, <2>3
<1>4. Nat \subseteq Same
  <2> HIDE DEF Same
  <2> QED  BY <1>2, <1>3, Counting
<1> QED
  <2> SUFFICES ASSUME NEW k \in DOMAIN a \cap DOMAIN b PROVE a[k] = b[k]
    OBVIOUS
  <2>1. k \in Nat /\ k <= k
    BY <1>1
  <2>2. k \in Same
    BY <2>1, <1>4
  <2> QED  BY <2>1, <2>2

\* What comes out does not depend on how the reads divide the stream: it is the
\* beginning of one and the same scan.
THEOREM ReadsDoNotMatter ==
  ParserSpec => [](/\ ScanOfStream(messages)
                   /\ \A other \in Seq(Messages) : ScanOfStream(other) =>
                        \A k \in DOMAIN other \cap DOMAIN messages : other[k] = messages[k])
<1>1. StreamInvariant =>
        /\ ScanOfStream(messages)
        /\ \A other \in Seq(Messages) : ScanOfStream(other) =>
             \A k \in DOMAIN other \cap DOMAIN messages : other[k] = messages[k]
  <2> SUFFICES ASSUME StreamInvariant, NEW other \in Seq(Messages), ScanOfStream(other)
               PROVE  \A k \in DOMAIN other \cap DOMAIN messages : other[k] = messages[k]
    BY ScansSo
  <2>1. StreamTypes /\ messages \in Seq(Messages) /\ ScanOfStream(messages)
    BY ScansSo DEF StreamInvariant, StreamTypes
  <2> QED  BY <2>1, OneScan
<1> QED  BY <1>1, StreamInvariance, PTL

\* Where no two frames of the stream share a byte, each of them comes out itself.
Apart ==
  \A i, j \in 1 .. Len(stream), n, m \in 0 .. MaxPayload :
    FrameStands(i, n) /\ FrameStands(j, m) /\ i < j => i + FrameLen(n) <= j

THEOREM ApartNoneIsLost ==
  ParserSpec => [](Apart /\ ~feeding =>
    \A i \in 1 .. fed, n \in 0 .. MaxPayload :
      FrameStands(i, n) /\ i + FrameLen(n) - 1 <= fed =>
        \/ \E k \in DOMAIN messages : messages[k] = [at |-> i, payload |-> Payload(i, n)]
        \/ Behind(i))
<1>1. ASSUME StreamInvariant, FramesComeOut, Apart, ~feeding,
             NEW i \in 1 .. fed, NEW n \in 0 .. MaxPayload,
             FrameStands(i, n), i + FrameLen(n) - 1 <= fed, ~Behind(i)
      PROVE  \E k \in DOMAIN messages : messages[k] = [at |-> i, payload |-> Payload(i, n)]
  <2>1. PICK k \in DOMAIN messages : messages[k].at <= i /\ i < EndOf(messages[k])
    BY <1>1 DEF FramesComeOut, Returned
  <2>2. /\ FrameStands(messages[k].at, Len(messages[k].payload))
        /\ messages[k].payload = Payload(messages[k].at, Len(messages[k].payload))
        /\ Len(messages[k].payload) <= MaxPayload
    BY <1>1 DEF StreamInvariant, Taken
  <2>3. /\ messages \in Seq(Messages) /\ StreamTypes /\ Len(stream) \in Nat
        /\ fed \in Nat /\ fed <= Len(stream) /\ i \in Nat /\ 1 <= i
    BY <1>1 DEF StreamInvariant, StreamTypes
  <2>4. messages[k] \in Messages
    BY <2>3, ElementOfSeq
  <2>5. messages[k].at \in Nat /\ 1 <= messages[k].at /\ messages[k].payload \in Seq(Nat)
    BY <2>4 DEF Messages
  <2>6. Len(messages[k].payload) \in Nat /\ n \in Nat /\ MaxPayload \in Nat
    <3>1. MaxPayload \in Nat
      BY Sizes
    <3> QED  BY <2>5, <3>1
  <2>7. messages[k].at = i
    <3> SUFFICES ASSUME messages[k].at < i PROVE FALSE
      BY <2>1, <2>3, <2>5
    <3>1. /\ messages[k].at \in 1 .. Len(stream) /\ i \in 1 .. Len(stream)
          /\ Len(messages[k].payload) \in 0 .. MaxPayload
      BY <2>1, <2>2, <2>3, <2>5, <2>6
    <3>2. EndOf(messages[k]) <= i
      BY <1>1, <2>2, <3>1 DEF Apart, EndOf
    <3> QED  BY <2>1, <2>3, <2>4, <3>2, Ends
  <2>8. Len(messages[k].payload) = n
    BY <1>1, <2>2, <2>3, <2>6, <2>7, OneLength
  <2> QED  BY <2>2, <2>4, <2>7, <2>8 DEF Messages
<1>2. StreamInvariant /\ FramesComeOut => (Apart /\ ~feeding =>
        \A i \in 1 .. fed, n \in 0 .. MaxPayload :
          FrameStands(i, n) /\ i + FrameLen(n) - 1 <= fed =>
            \/ \E k \in DOMAIN messages : messages[k] = [at |-> i, payload |-> Payload(i, n)]
            \/ Behind(i))
  BY <1>1
<1> QED  BY <1>2, StreamInvariance, EveryFrameComesOut, PTL
==============================================================================
