-------------------------- MODULE LocomotionCdcProofs --------------------------
(***************************************************************************)
(* What the loop over the serial port keeps for every timeout, modulus,     *)
(* bound and choice of frames.  One inductive invariant, CdcInvariant,      *)
(* carries the types, the mirror between policy memory and wire, the        *)
(* numbering and the freshness of what is being written.                    *)
(***************************************************************************)
EXTENDS LocomotionCdc, TLAPS

Reading == {"read", "check", "step"}
Writing == {"command", "target"}

\* While there is a connection the state in hand was read on it, and the loop
\* has not made its last step.
Connected ==
  pc \in Reading \cup Writing =>
    /\ latestState # None => latestState.connection = connection
    /\ Unlimited \/ steps < MaxSteps

StepIsDue == pc \in {"step"} => lag >= 0

MoreToCome == pc \in {"connect", "backoff"} => Unlimited \/ steps < MaxSteps

\* Before the write the policy is one inference, or one reset, ahead of the wire.
MemoryAhead ==
  pc \in Writing =>
    /\ output \in Outputs
    /\ output.reason = "act" =>
         memory = Count(wire.run) /\ policyMemoryClean = FALSE /\ output.action # Zero
    /\ output.reason # "act" =>
         /\ memory = 0 /\ policyMemoryClean = TRUE /\ lastAction = Zero
         /\ output.action = Zero

Mirror ==
  /\ wire.run = 0 => wire.action = Zero
  /\ PolicyMirrorsWire
  /\ MemoryAhead

\* The numbers: what is written carries the number before action_seq, and the
\* target written last the one before that.
Numbering ==
  /\ pc \in Reading \cup {"done"} => (wire.seq # None => Succ(wire.seq) = actionSeq)
  /\ pc \in Writing =>
       /\ output.command = output.seq
       /\ actionSeq = Succ(output.seq)
       /\ wire.seq # None => Succ(wire.seq) = output.seq
  /\ pc = "target" => wire.command = output.seq

\* The state a policy target was computed from is in hand until it is written.
FreshOutput ==
  pc \in Writing /\ output.reason = "act" =>
    /\ latestState # None
    /\ latestState.kind # "disabled"
    /\ age <= StateTimeout + MaxInference + (IF pc = "target" THEN 1 ELSE 0)

CdcInvariant ==
  /\ TypeOK
  /\ Connected /\ StepIsDue /\ MoreToCome
  /\ Mirror /\ Numbering /\ FreshOutput

-----------------------------------------------------------------------------
(* Lemmas *)

\* wrapping_sub undoes wrapping_add, and both stay within the numbers.
LEMMA Numbers ==
  \A n \in Seqs : Succ(n) \in Seqs /\ Pred(n) \in Seqs /\ Pred(Succ(n)) = n
BY PolicyAssumption DEF PolicyAssumption, Seqs, Succ, Pred

\* The ghost count stays within its bound and is never 0 after an inference.
LEMMA Counting ==
  \A n \in 0 .. MaxMemory : Count(n) \in 1 .. MaxMemory
BY PolicyAssumption DEF PolicyAssumption, Count

\* The bounds are numbers.
LEMMA Limits ==
  /\ MaxSteps \in Nat /\ MaxLag \in Nat /\ RxCapacity \in Nat /\ MaxReconnects \in Nat
  /\ StateTimeout \in Nat /\ MaxInference \in Nat
  /\ MaxAge \in Nat /\ MaxAge > StateTimeout + MaxInference + 2
BY PolicyAssumption, CdcAssumption DEF PolicyAssumption, CdcAssumption, MaxAge

\* The policy's variables keep their types whatever a step does with them.
LEMMA PolicyTypes ==
  ASSUME PolicyTypeOK
  PROVE  /\ \A force \in BOOLEAN : ResetPolicyMemory(force) /\ actionSeq' = actionSeq
                                     => PolicyTypeOK'
         /\ \A reason \in Reasons : StepFromState(reason) => PolicyTypeOK'
         /\ \A reason \in Reasons : MakeOutput(reason) \in Outputs
<1>1. 0 \in 0 .. MaxMemory /\ Count(memory) \in 0 .. MaxMemory
  BY PolicyAssumption, Counting DEF PolicyAssumption, PolicyTypeOK
<1>2. ASSUME NEW force \in BOOLEAN, ResetPolicyMemory(force)
      PROVE  /\ memory' \in 0 .. MaxMemory
             /\ policyMemoryClean' \in BOOLEAN
             /\ lastAction' \in Seqs \cup {Zero}
  BY <1>1, <1>2 DEF PolicyTypeOK, ResetPolicyMemory
<1>3. ASSUME NEW reason \in Reasons, StepFromState(reason)
      PROVE  PolicyTypeOK'
  <2>1. CASE reason = "act"
    BY <1>1, <1>3, <2>1, Numbers DEF PolicyTypeOK, StepFromState, ActFromState
  <2>2. CASE reason # "act"
    BY <1>2, <1>3, <2>2, Numbers DEF PolicyTypeOK, StepFromState
  <2> QED  BY <2>1, <2>2
<1>4. ASSUME NEW reason \in Reasons
      PROVE  MakeOutput(reason) \in Outputs
  BY Numbers DEF PolicyTypeOK, MakeOutput, Outputs
<1> QED  BY <1>2, <1>3, <1>4 DEF PolicyTypeOK

-----------------------------------------------------------------------------
(* The invariant *)

LEMMA InvariantInit == Init => CdcInvariant
<1> SUFFICES ASSUME Init PROVE CdcInvariant
  OBVIOUS
<1>1. TypeOK
  <2>1. PolicyTypeOK
    BY PolicyAssumption DEF Init, PolicyInit, PolicyTypeOK, PolicyAssumption, Seqs
  <2>2. rx \in Seq(FrameKinds)
    BY DEF Init
  <2>3. wire \in [command : Seqs \cup {None}, seq : Seqs \cup {None},
                  action : Seqs \cup {Zero}, run : 0 .. MaxMemory]
    BY PolicyAssumption DEF Init, NoWire, PolicyAssumption
  <2>4. /\ age \in 0 .. MaxAge /\ lag \in -1 .. MaxLag /\ steps \in 0 .. MaxSteps
        /\ connection \in 0 .. MaxReconnects
    BY Limits DEF Init
  <2>5. /\ pc = "connect" /\ {portPresent, openable, silent} \subseteq BOOLEAN /\ fd = "closed"
        /\ latestState = None /\ output = None
    BY DEF Init
  <2> QED  BY <2>1, <2>2, <2>3, <2>4, <2>5 DEF TypeOK
<1>2. Connected /\ StepIsDue /\ MoreToCome /\ FreshOutput
  BY CdcAssumption DEF Init, Connected, StepIsDue, MoreToCome, FreshOutput, Reading, Writing,
     CdcAssumption, Unlimited
<1>3. Mirror /\ Numbering
  BY DEF Init, Mirror, PolicyMirrorsWire, MemoryAhead, Numbering, Reading, Writing, NoWire
<1> QED  BY <1>1, <1>2, <1>3 DEF CdcInvariant

\* Losing the connection resets the policy and forgets what was to be written.
LEMMA LostConnection ==
  ASSUME CdcInvariant, Disconnected,
         pc \in Reading \cup Writing \cup {"connect"},
         actionSeq' = actionSeq, UNCHANGED envVars,
         steps' = steps,
         latestState' \in {latestState, None}, age' \in {age, 0}, lag' \in {lag, 0},
         wire' \in {wire, NoWire}
  PROVE  CdcInvariant'
<1>1. PolicyTypeOK'
  BY PolicyTypes DEF CdcInvariant, TypeOK, Disconnected
<1>2. TypeOK'
  <2>1. NoWire \in [command : Seqs \cup {None}, seq : Seqs \cup {None},
                    action : Seqs \cup {Zero}, run : 0 .. MaxMemory]
    BY PolicyAssumption DEF NoWire, PolicyAssumption
  <2> QED  BY <1>1, <2>1, Limits DEF CdcInvariant, TypeOK, envVars, Disconnected
<1>3. Connected' /\ StepIsDue' /\ MoreToCome' /\ FreshOutput'
  BY DEF CdcInvariant, Disconnected, Connected, StepIsDue, MoreToCome, FreshOutput,
     Reading, Writing, Unlimited
<1>4. Mirror' /\ Numbering'
  BY DEF CdcInvariant, Disconnected, Mirror, PolicyMirrorsWire, MemoryAhead, Numbering,
     Reading, Writing, NoWire
<1> QED  BY <1>2, <1>3, <1>4 DEF CdcInvariant

\* Time passes by at most a period and within the bounds.
LEMMA Passing ==
  ASSUME TypeOK, NEW d \in 0 .. 1, Pass(d)
  PROVE  /\ age' \in 0 .. MaxAge /\ age' <= age + d
         /\ lag' \in -1 .. MaxLag
BY Limits DEF TypeOK, Pass, Older

LEMMA InvariantStep == CdcInvariant /\ [Next]_vars => CdcInvariant'
<1> SUFFICES ASSUME CdcInvariant, [Next]_vars PROVE CdcInvariant'
  OBVIOUS
<1>1. CASE ReceiveFrame
  <2>1. rx' \in Seq(FrameKinds)
    BY <1>1 DEF ReceiveFrame, CdcInvariant, TypeOK
  <2> QED  BY <1>1, <2>1
           DEF ReceiveFrame, policyVars, loopVars, envVars, CdcInvariant, TypeOK, PolicyTypeOK, Connected,
               StepIsDue, MoreToCome, FreshOutput, Mirror, PolicyMirrorsWire, MemoryAhead,
               Numbering, Unlimited
<1>2. CASE GoSilent \/ Unplug \/ Replug
  <2>1. /\ UNCHANGED <<policyVars, loopVars, connection, wire>>
        /\ rx' \in {rx, <<>>}
    BY <1>2 DEF GoSilent, Unplug, Replug
  <2>2. rx' \in Seq(FrameKinds)
    <3>1. rx \in Seq(FrameKinds) /\ <<>> \in Seq(FrameKinds)
      BY DEF CdcInvariant, TypeOK
    <3> QED  BY <2>1, <3>1
  <2>3. {portPresent', openable', silent'} \subseteq BOOLEAN /\ fd' \in {"closed", "open", "dead"}
    BY <1>2 DEF GoSilent, Unplug, Replug, CdcInvariant, TypeOK
  <2> QED  BY <2>1, <2>2, <2>3
           DEF policyVars, loopVars, CdcInvariant, TypeOK, PolicyTypeOK, Connected, StepIsDue,
               MoreToCome, FreshOutput, Mirror, PolicyMirrorsWire, MemoryAhead, Numbering, Unlimited
<1>3. CASE Connect
  <2>1. CASE Disconnected
    BY <1>3, <2>1, LostConnection DEF Connect
  <2>2. CASE ~Disconnected
    <3>1. ResetPolicyMemory(TRUE) /\ pc' \in {"read", "failed"}
      BY <1>3, <2>2 DEF Connect
    <3>2. PolicyTypeOK'
      BY <1>3, <3>1, PolicyTypes DEF Connect, CdcInvariant, TypeOK
    <3>3. NoWire \in [command : Seqs \cup {None}, seq : Seqs \cup {None},
                      action : Seqs \cup {Zero}, run : 0 .. MaxMemory]
      BY PolicyAssumption DEF NoWire, PolicyAssumption
    <3>4. TypeOK'
      <4>1. /\ pc' \in {"read", "failed"} /\ latestState' = None /\ age' = 0 /\ lag' = 0
            /\ wire' = NoWire /\ fd' \in {fd, "open"}
            /\ UNCHANGED <<envVars, steps, rx, output, connection>>
        BY <1>3, <2>2, <3>1 DEF Connect
      <4> QED  BY <3>2, <3>3, <4>1, Limits DEF CdcInvariant, TypeOK, envVars
    <3>5. Connected' /\ StepIsDue' /\ MoreToCome' /\ FreshOutput'
      BY <1>3, <3>1 DEF Connect, CdcInvariant, Connected, StepIsDue, MoreToCome, FreshOutput,
         Reading, Writing, Unlimited
    <3>6. Mirror' /\ Numbering'
      BY <1>3, <3>1 DEF Connect, ResetPolicyMemory, Mirror, PolicyMirrorsWire, MemoryAhead,
         Numbering, Reading, Writing, NoWire
    <3> QED  BY <3>4, <3>5, <3>6 DEF CdcInvariant
  <2> QED  BY <2>1, <2>2
<1>4. CASE Backoff
  BY <1>4 DEF Backoff, policyVars, portVars, envVars, CdcInvariant, TypeOK, PolicyTypeOK, Connected,
     StepIsDue, MoreToCome, FreshOutput, Mirror, PolicyMirrorsWire, MemoryAhead, Numbering,
     Reading, Writing, Unlimited
<1>5. CASE Wait
  <2>1. /\ Pass(1)
        /\ UNCHANGED <<memory, policyMemoryClean, lastAction, actionSeq, wire, latestState,
                       connection, steps, output>>
        /\ pc' = "check" /\ pc = "read"
    BY <1>5 DEF Wait, policyVars, portVars
  <2>2. TypeOK'
    BY <1>5, <2>1, Passing DEF Wait, policyVars, portVars, envVars, CdcInvariant, TypeOK, PolicyTypeOK
  <2> QED  BY <2>1, <2>2 DEF CdcInvariant, Connected, StepIsDue, MoreToCome, FreshOutput, Mirror,
              PolicyMirrorsWire, MemoryAhead, Numbering, Reading, Writing, Unlimited
<1>6. CASE ReadStates
  <2>1. /\ UNCHANGED <<memory, policyMemoryClean, lastAction, actionSeq, wire, connection, steps,
                       output, lag>>
        /\ pc = "read" /\ pc' \in {"check", "failed"}
    BY <1>6 DEF ReadStates, policyVars
  <2>2. /\ age' \in 0 .. MaxAge
        /\ latestState' \in States \cup {None}
        /\ latestState' # None => latestState'.connection = connection
    <3>1. CASE UNCHANGED <<latestState, age>>
      BY <2>1, <3>1 DEF CdcInvariant, TypeOK, Connected, Reading
    <3>2. CASE ~UNCHANGED <<latestState, age>>
      <4>1. PICK last \in 1 .. Len(rx) :
              /\ rx[last] \in StateFrames
              /\ latestState' = [kind |-> rx[last], connection |-> connection]
        BY <1>6, <3>2 DEF ReadStates
      <4>2. age' = 0
        BY <1>6, <3>2 DEF ReadStates
      <4> QED  BY <4>1, <4>2, Limits DEF CdcInvariant, TypeOK, States
    <3> QED  BY <3>1, <3>2
  <2>3. TypeOK'
    BY <1>6, <2>1, <2>2 DEF ReadStates, envVars, policyVars, CdcInvariant, TypeOK, PolicyTypeOK
  <2> QED  BY <2>1, <2>2, <2>3 DEF CdcInvariant, Connected, StepIsDue, MoreToCome, FreshOutput,
              Mirror, PolicyMirrorsWire, MemoryAhead, Numbering, Reading, Writing, Unlimited
<1>7. CASE ReadError \/ WriteError
  BY <1>7, LostConnection DEF ReadError, WriteError, Reading, Writing
<1>8. CASE CheckPort
  <2>1. CASE portPresent
    BY <1>8, <2>1 DEF CheckPort, StepDue, envVars, policyVars, CdcInvariant, TypeOK, PolicyTypeOK, Connected,
       StepIsDue, MoreToCome, FreshOutput, Mirror, PolicyMirrorsWire, MemoryAhead, Numbering,
       Reading, Writing, Unlimited
  <2>2. CASE ~portPresent
    BY <1>8, <2>2, LostConnection DEF CheckPort, Reading
  <2> QED  BY <2>1, <2>2
<1>9. CASE StepWithoutState
  <2>1. /\ steps' \in 0 .. MaxSteps
        /\ pc' \in {"read", "done"}
        /\ pc' = "read" => Unlimited \/ steps' < MaxSteps
    BY <1>9, Limits DEF StepWithoutState, StepMade, LoopHead, Unlimited, CdcInvariant, TypeOK,
       Connected, Reading
  <2>2. lag' \in -1 .. MaxLag
    BY <1>9, Limits DEF StepWithoutState, CdcInvariant, TypeOK, StepIsDue
  <2>3. TypeOK'
    BY <1>9, <2>1, <2>2
       DEF StepWithoutState, policyVars, portVars, envVars, CdcInvariant, TypeOK, PolicyTypeOK
  <2> QED  BY <1>9, <2>1, <2>3
           DEF StepWithoutState, policyVars, portVars, envVars, CdcInvariant, Connected, StepIsDue,
               MoreToCome, FreshOutput, Mirror, PolicyMirrorsWire, MemoryAhead, Numbering,
               Reading, Writing, Unlimited
<1>10. CASE PolicyStep
  <2> PICK active \in BOOLEAN, d \in 0 .. MaxInference :
        LET reason == StepReason(active, age, latestState.kind # "disabled") IN
        /\ lag - 1 + d <= MaxLag
        /\ lag' = lag - 1 + d
        /\ age' = Older(d)
        /\ StepFromState(reason)
        /\ IF reason # "act" /\ latestState.kind = "nan"
           THEN pc' = "failed" /\ output' = None
           ELSE pc' = "command" /\ output' = MakeOutput(reason)
    BY <1>10 DEF PolicyStep
  <2> DEFINE reason == StepReason(active, age, latestState.kind # "disabled")
  <2>1. /\ pc = "step" /\ latestState # None
        /\ UNCHANGED <<portVars, latestState, steps, wire>>
        /\ pc' \in {"failed", "command"}
        /\ pc' = "command" => output' = MakeOutput(reason)
        /\ pc' = "failed" => output' = None
        /\ StepFromState(reason)
    BY <1>10 DEF PolicyStep
  <2>2. reason \in Reasons
    BY DEF StepReason, Reasons
  <2>3. reason = "act" => age <= StateTimeout /\ latestState.kind # "disabled"
    <3>1. reason = "act" => ~(age > StateTimeout) /\ latestState.kind # "disabled"
      BY DEF StepReason
    <3>2. age \in Nat /\ StateTimeout \in Nat
      BY Limits DEF CdcInvariant, TypeOK
    <3> HIDE DEF reason
    <3> QED  BY <3>1, <3>2
  <2>4. PolicyTypeOK' /\ MakeOutput(reason) \in Outputs
    BY <2>1, <2>2, PolicyTypes DEF CdcInvariant, TypeOK
  <2> HIDE DEF reason
  <2>5. /\ lag' \in -1 .. MaxLag
        /\ age' \in 0 .. MaxAge /\ age' <= age + MaxInference
    BY <2>1, Limits DEF CdcInvariant, TypeOK, StepIsDue, Older
  <2>10. TypeOK'
    BY <2>1, <2>4, <2>5, Limits DEF portVars, envVars, CdcInvariant, TypeOK
  <2>6. Connected' /\ StepIsDue' /\ MoreToCome'
    BY <2>1 DEF portVars, envVars, CdcInvariant, Connected, StepIsDue, MoreToCome, Reading, Writing,
       Unlimited
  <2>7. FreshOutput'
    <3>1. pc' = "command" => output'.reason = reason
      BY <2>1 DEF MakeOutput
    <3>2. reason = "act" => age' <= StateTimeout + MaxInference
      BY <2>3, <2>5, Limits DEF CdcInvariant, TypeOK
    <3> QED  BY <2>1, <2>3, <3>1, <3>2, Limits DEF FreshOutput, Writing
  <2>8. Mirror'
    <3>1. memory = wire.run /\ lastAction = wire.action /\ policyMemoryClean = (wire.run = 0)
      BY <2>1 DEF CdcInvariant, Mirror, PolicyMirrorsWire
    <3>2. CASE reason = "act"
      <4>1. actionSeq # Zero
        BY PolicyAssumption DEF PolicyAssumption, CdcInvariant, TypeOK, PolicyTypeOK, Seqs
      <4> QED  BY <2>1, <2>4, <3>1, <3>2, <4>1
               DEF StepFromState, ActFromState, MakeOutput, CdcInvariant, Mirror,
                   PolicyMirrorsWire, MemoryAhead, Writing
    <3>3. CASE reason # "act"
      <4>1. memory' = 0 /\ policyMemoryClean' = TRUE /\ lastAction' = Zero
        BY <2>1, <3>1, <3>3
           DEF StepFromState, ResetPolicyMemory, CdcInvariant, Mirror, TypeOK, PolicyTypeOK
      <4>2. MakeOutput(reason).reason = reason /\ MakeOutput(reason).action = Zero
        BY <3>3 DEF MakeOutput
      <4>3. (wire.run = 0 => wire.action = Zero) /\ wire' = wire
        BY <2>1 DEF CdcInvariant, Mirror
      <4> QED  BY <2>1, <2>4, <3>3, <4>1, <4>2, <4>3
               DEF Mirror, PolicyMirrorsWire, MemoryAhead, Writing
    <3> QED  BY <3>2, <3>3
  <2>9. Numbering'
    BY <2>1, Numbers DEF StepFromState, MakeOutput, CdcInvariant, TypeOK, PolicyTypeOK, Numbering,
       Reading, Writing
  <2> QED  BY <2>6, <2>7, <2>8, <2>9, <2>10 DEF CdcInvariant
<1>11. CASE WriteCommand
  <2> PICK d \in 0 .. 1 : Pass(d)
    BY <1>11 DEF WriteCommand
  <2>1. /\ pc = "command" /\ pc' = "target"
        /\ wire' = [wire EXCEPT !.command = output.command]
        /\ UNCHANGED <<memory, policyMemoryClean, lastAction, actionSeq, portVars, latestState,
                       output, steps>>
    BY <1>11 DEF WriteCommand, policyVars
  <2>2. /\ output \in Outputs
        /\ wire \in [command : Seqs \cup {None}, seq : Seqs \cup {None},
                     action : Seqs \cup {Zero}, run : 0 .. MaxMemory]
    BY <2>1 DEF CdcInvariant, TypeOK, Mirror, MemoryAhead, Writing
  <2>3. /\ wire' \in [command : Seqs \cup {None}, seq : Seqs \cup {None},
                      action : Seqs \cup {Zero}, run : 0 .. MaxMemory]
        /\ wire'.seq = wire.seq /\ wire'.action = wire.action /\ wire'.run = wire.run
        /\ wire'.command = output.command
    BY <2>1, <2>2 DEF Outputs
  <2>4. TypeOK'
    BY <2>1, <2>3, Passing DEF portVars, envVars, CdcInvariant, TypeOK, PolicyTypeOK
  <2>5. FreshOutput'
    <3>1. TypeOK /\ age \in Nat
      BY Limits DEF CdcInvariant, TypeOK
    <3>2. age' \in Nat /\ age' <= age + 1
      BY <3>1, Passing, Limits
    <3> QED  BY <2>1, <3>1, <3>2, Limits DEF CdcInvariant, FreshOutput, Writing
  <2> QED  BY <2>1, <2>3, <2>4, <2>5
           DEF portVars, envVars, CdcInvariant, Connected, StepIsDue, MoreToCome, Mirror, PolicyMirrorsWire,
               MemoryAhead, Numbering, Reading, Writing, Unlimited
<1>12. CASE WriteTarget
  <2> PICK d \in 0 .. 1 : Pass(d)
    BY <1>12 DEF WriteTarget
  <2>1. /\ pc = "target"
        /\ wire' = [wire EXCEPT !.seq = output.seq, !.action = output.action,
                                !.run = IF output.reason = "act" THEN Count(@) ELSE 0]
        /\ lastAction' = output.action
        /\ output' = None
        /\ UNCHANGED <<memory, policyMemoryClean, actionSeq, portVars, latestState>>
    BY <1>12 DEF WriteTarget, RecordAction
  <2>2. /\ output \in Outputs
        /\ wire \in [command : Seqs \cup {None}, seq : Seqs \cup {None},
                     action : Seqs \cup {Zero}, run : 0 .. MaxMemory]
    BY <2>1 DEF CdcInvariant, TypeOK, Mirror, MemoryAhead, Writing
  <2>3. /\ wire' \in [command : Seqs \cup {None}, seq : Seqs \cup {None},
                      action : Seqs \cup {Zero}, run : 0 .. MaxMemory]
        /\ wire'.seq = output.seq /\ wire'.action = output.action
        /\ wire'.run = IF output.reason = "act" THEN Count(wire.run) ELSE 0
        /\ Count(wire.run) # 0
    <3>1. Count(wire.run) \in 1 .. MaxMemory /\ 0 \in 0 .. MaxMemory
      BY <2>2, Counting, PolicyAssumption DEF PolicyAssumption
    <3>2. output.seq \in Seqs /\ output.action \in Seqs \cup {Zero}
      BY <2>2 DEF Outputs
    <3> HIDE DEF Count
    <3>3. wire' = [command |-> wire.command, seq |-> output.seq, action |-> output.action,
                   run |-> IF output.reason = "act" THEN Count(wire.run) ELSE 0]
      BY <2>1, <2>2
    <3> QED  BY <2>2, <3>1, <3>2, <3>3
  <2>4. /\ steps' \in 0 .. MaxSteps
        /\ pc' \in {"read", "done"}
        /\ pc' = "read" => Unlimited \/ steps' < MaxSteps
    <3>1. steps \in 0 .. MaxSteps /\ (Unlimited \/ steps < MaxSteps)
      BY <2>1 DEF CdcInvariant, TypeOK, Connected, Writing
    <3>2. steps' = StepMade /\ pc' = LoopHead(steps')
      BY <1>12 DEF WriteTarget
    <3> QED  BY <3>1, <3>2, Limits DEF StepMade, LoopHead, Unlimited
  <2>5. TypeOK'
    BY <2>1, <2>2, <2>3, <2>4, Passing DEF portVars, envVars, CdcInvariant, TypeOK, PolicyTypeOK, Outputs
  <2>6. Mirror'
    BY <2>1, <2>2, <2>3, <2>4
       DEF CdcInvariant, Mirror, PolicyMirrorsWire, MemoryAhead, Writing, Outputs
  <2>7. Numbering' /\ FreshOutput'
    BY <2>1, <2>3, <2>4 DEF CdcInvariant, Numbering, FreshOutput, Reading, Writing
  <2> QED  BY <2>1, <2>4, <2>5, <2>6, <2>7
           DEF portVars, envVars, CdcInvariant, Connected, StepIsDue, MoreToCome, Reading, Writing, Unlimited
<1>13. CASE Finished \/ UNCHANGED vars
  BY <1>13 DEF Finished, vars, policyVars, loopVars, portVars, envVars, CdcInvariant, TypeOK, PolicyTypeOK,
     Connected, StepIsDue, MoreToCome, FreshOutput, Mirror, PolicyMirrorsWire, MemoryAhead,
     Numbering, Unlimited
<1> QED  BY <1>1, <1>2, <1>3, <1>4, <1>5, <1>6, <1>7, <1>8, <1>9, <1>10, <1>11, <1>12, <1>13
         DEF Next, Runtime

THEOREM CdcInvariance == Spec => []CdcInvariant
<1>1. Init => CdcInvariant
  BY InvariantInit
<1>2. CdcInvariant /\ [Next]_vars => CdcInvariant'
  BY InvariantStep
<1> QED  BY <1>1, <1>2, PTL DEF Spec

-----------------------------------------------------------------------------
(* Theorems *)

\* Every variable of the loop and of the policy keeps its type: in particular
\* no more than max_steps steps are made, and the loop never makes a step that
\* is not due (the guards of run_cdc).
THEOREM TypeCorrect == Spec => []TypeOK
<1>1. CdcInvariant => TypeOK
  BY DEF CdcInvariant
<1> QED  BY <1>1, CdcInvariance, PTL

\* Whatever fails in between, the policy's memory and the previous action it
\* observes are those of the targets sent on this connection (record_action,
\* reset_policy_memory).
THEOREM MemoryMirrorsWire == Spec => []PolicyMirrorsWire
<1>1. CdcInvariant => PolicyMirrorsWire
  BY DEF CdcInvariant, Mirror
<1> QED  BY <1>1, CdcInvariance, PTL

\* For every modulus, a connection carries its targets in the order of their
\* numbers, each after the command frame of the same number
\* (make_command_packet, write_step_output_packets).
THEOREM TargetsAreNumbered == Spec => FramesInOrder
<1>1. CdcInvariant /\ [Next]_vars =>
        [wire'.seq # wire.seq /\ wire'.seq # None =>
           /\ wire'.seq = wire.command
           /\ wire.seq # None => wire'.seq = Succ(wire.seq)]_vars
  <2> SUFFICES ASSUME CdcInvariant, Next, wire'.seq # wire.seq, wire'.seq # None
               PROVE  wire'.seq = wire.command /\ (wire.seq # None => wire'.seq = Succ(wire.seq))
    OBVIOUS
  <2>1. wire \in [command : Seqs \cup {None}, seq : Seqs \cup {None},
                  action : Seqs \cup {Zero}, run : 0 .. MaxMemory]
    BY DEF CdcInvariant, TypeOK
  <2>2. wire' # NoWire
    BY DEF NoWire
  <2>3. pc = "target" /\ wire'.seq = output.seq
    BY <2>1, <2>2 DEF Next, Runtime, ReceiveFrame, GoSilent, Unplug, Replug, Connect, Backoff, Wait,
       ReadStates, ReadError, CheckPort, StepWithoutState, PolicyStep, WriteCommand, WriteTarget,
       WriteError, Finished, vars
  <2> QED  BY <2>3 DEF CdcInvariant, Numbering, Writing
<1> QED  BY <1>1, CdcInvariance, PTL DEF Spec, FramesInOrder

\* For every timeout and however long an inference takes, a policy target that
\* reaches the port was computed from an enabled state of this connection, no
\* older than the timeout, the inference and the two write budgets together
\* (step_from_state, act_from_state, run_cdc).
THEOREM TargetsAreFresh == Spec => PolicyTargetsAreFresh
<1>1. CdcInvariant /\ [Next]_vars =>
        [pc = "target" /\ pc' # "backoff" /\ output # None /\ output.reason = "act" =>
           /\ latestState.connection = connection
           /\ latestState.kind # "disabled"
           /\ age' <= StateTimeout + MaxInference + 2]_<<pc, output>>
  <2> SUFFICES ASSUME CdcInvariant, [Next]_vars, <<pc, output>>' # <<pc, output>>,
                      pc = "target", pc' # "backoff", output.reason = "act"
               PROVE  /\ latestState.connection = connection
                      /\ latestState.kind # "disabled"
                      /\ age' <= StateTimeout + MaxInference + 2
    OBVIOUS
  <2>1. WriteTarget
    BY DEF Next, Runtime, ReceiveFrame, GoSilent, Unplug, Replug, Connect, Backoff, Wait, ReadStates,
       ReadError, CheckPort, StepWithoutState, PolicyStep, WriteCommand, WriteError, Disconnected,
       Finished, vars, loopVars
  <2>2. PICK d \in 0 .. 1 : Pass(d)
    BY <2>1 DEF WriteTarget
  <2>3. TypeOK /\ age \in Nat
    BY Limits DEF CdcInvariant, TypeOK
  <2>4. age' \in Nat /\ age' <= age + 1
    BY <2>2, <2>3, Passing, Limits
  <2> QED  BY <2>4, <2>3, Limits DEF CdcInvariant, Connected, FreshOutput, Writing
<1> QED  BY <1>1, CdcInvariance, PTL DEF Spec, PolicyTargetsAreFresh

-----------------------------------------------------------------------------
(***************************************************************************)
(* The refinement of PolicyLink.  The mapping forgets everything while there *)
(* is no connection; on one, the invariant supplies what PolicyLink asks of *)
(* a step: the mirror for Act, the numbering for Announce and Deliver.      *)
(***************************************************************************)

\* What PolicyLink sees, variable by variable.
Told == IF Linked THEN wire ELSE NoWire
Pending == IF pc \in {"command", "target"}
           THEN [number |-> output.seq, action |-> output.action] ELSE None
Memory == IF Linked THEN memory ELSE 0
Observed == IF Linked THEN lastAction ELSE Zero

Seen == <<Linked, Told, Pending, Memory, Observed>>

LEMMA SeenIsOwed == UNCHANGED Seen => UNCHANGED Owed!linkVars
BY DEF Seen, Owed!linkVars, Told, Pending, Memory, Observed

\* The two modules count and number alike.
LEMMA SameArithmetic ==
  /\ \A n : Owed!NumberAfter(n) = Succ(n) /\ Owed!OneMore(n) = Count(n)
  /\ Owed!Numbers = Seqs /\ Owed!Silence = NoWire
BY DEF Owed!NumberAfter, Succ, Owed!OneMore, Count, Owed!Numbers, Seqs, Owed!Silence, NoWire

\* Off the link there is nothing to see.
Quiet == ~Linked /\ Told = NoWire /\ Pending = None /\ Memory = 0 /\ Observed = Zero

LEMMA Unlinked == ~Linked => Quiet
BY DEF Linked, Quiet, Told, Pending, Memory, Observed

\* run_cdc begins without a connection.
LEMMA OwedInit == Init => Owed!LinkInit
BY SameArithmetic DEF Init, Linked, Owed!LinkInit

\* A step that leaves the link, whatever else it does, is its end, and one that
\* stays off it is a stutter.
LEMMA LeavingEnds ==
  ASSUME ~Linked'
  PROVE  Owed!LinkNext \/ UNCHANGED Seen
<1>1. Quiet'
  BY DEF Linked, Quiet, Told, Pending, Memory, Observed
<1>2. CASE Linked
  <2>1. Owed!End
    BY <1>1, <1>2, SameArithmetic DEF Owed!End, Quiet, Told, Pending, Memory, Observed
  <2> QED  BY <2>1 DEF Owed!LinkNext
<1>3. CASE ~Linked
  <2>1. Quiet
    BY <1>3, Unlinked
  <2>2. Linked' = Linked
    BY <1>3 DEF Linked
  <2> QED  BY <1>1, <2>1, <2>2 DEF Quiet, Seen
<1> QED  BY <1>2, <1>3

\* A step on the link that neither decides nor writes is a stutter.
LEMMA RestingStutters ==
  ASSUME Linked, Linked',
         pc \notin {"command", "target"}, pc' \notin {"command", "target"},
         UNCHANGED <<wire, memory, lastAction>>
  PROVE  UNCHANGED Seen
BY DEF Seen, Told, Pending, Memory, Observed

\* What the robot has been told so far is a number, or nothing.
LEMMA WireTyped ==
  CdcInvariant => wire \in [command : Seqs \cup {None}, seq : Seqs \cup {None},
                            action : Seqs \cup {Zero}, run : 0 .. MaxMemory]
BY DEF CdcInvariant, TypeOK

\* Opening the port begins a link that has been told nothing.
LEMMA ConnectBegins ==
  ASSUME CdcInvariant, Connect, Linked'
  PROVE  Owed!Begin
<1>1. pc = "connect" /\ pc' = "read" /\ wire' = NoWire /\ memory' = 0 /\ lastAction' = Zero
  BY DEF Connect, Disconnected, ResetPolicyMemory, Linked
<1>2. ~Linked /\ Quiet
  BY <1>1, Unlinked DEF Linked
<1>3. Told' = NoWire /\ Pending' = None /\ Memory' = 0 /\ Observed' = Zero
  BY <1>1 DEF Told, Pending, Memory, Observed, Linked
<1>4. NoWire = [Owed!Silence EXCEPT !.seq = None]
  BY SameArithmetic DEF NoWire
<1> QED  BY <1>2, <1>3, <1>4 DEF Owed!Begin, Quiet, Told, Pending, Memory, Observed

\* A step that is made is Act or Hold: the mirror gives what Act continues from.
LEMMA StepDecides ==
  ASSUME CdcInvariant, PolicyStep, Linked'
  PROVE  Owed!Act \/ Owed!Hold
<1>1. PICK active \in BOOLEAN, d \in 0 .. MaxInference :
        LET reason == StepReason(active, age, latestState.kind # "disabled") IN
        StepFromState(reason) /\ output' = MakeOutput(reason)
  BY DEF PolicyStep, Linked
<1> DEFINE reason == StepReason(active, age, latestState.kind # "disabled")
<1>2. StepFromState(reason) /\ output' = MakeOutput(reason)
  BY <1>1
<1> HIDE DEF reason
<1>3. pc = "step" /\ pc' = "command" /\ wire' = wire
  BY DEF PolicyStep, Linked, portVars
<1>4. Linked /\ Told = wire /\ Pending = None /\ Memory = memory /\ Observed = lastAction
  BY <1>3 DEF Linked, Told, Pending, Memory, Observed
<1>5. /\ Told' = wire /\ Memory' = memory' /\ Observed' = lastAction'
      /\ Pending' = [number |-> output'.seq, action |-> output'.action]
  BY <1>3 DEF Linked, Told, Pending, Memory, Observed
<1>6. /\ memory = wire.run /\ lastAction = wire.action /\ policyMemoryClean = (wire.run = 0)
      /\ wire.run = 0 => wire.action = Zero
      /\ wire.seq # None => Succ(wire.seq) = actionSeq
      /\ actionSeq \in Seqs
  BY <1>3 DEF CdcInvariant, Mirror, PolicyMirrorsWire, Numbering, Reading, TypeOK, PolicyTypeOK
<1>7. actionSeq \in Owed!Numbers /\ Owed!InTurn(actionSeq)
  BY <1>4, <1>6, SameArithmetic DEF Owed!InTurn, Told
<1>8. CASE reason = "act"
  <2>1. /\ output'.seq = actionSeq /\ output'.action = actionSeq
        /\ memory' = Count(memory) /\ lastAction' = lastAction
    BY <1>2, <1>8 DEF MakeOutput, StepFromState, ActFromState
  <2>2. Pending' = [number |-> actionSeq, action |-> actionSeq]
    BY <1>5, <2>1
  <2>3. Owed!Act
    BY <1>3, <1>4, <1>5, <1>6, <1>7, <2>1, <2>2, SameArithmetic
       DEF Owed!Act, Told, Pending, Memory, Observed, Linked
  <2> QED  BY <2>3
<1>9. CASE reason # "act"
  <2>1. /\ output'.seq = actionSeq /\ output'.action = Zero
        /\ memory' = 0 /\ lastAction' = Zero
    BY <1>2, <1>6, <1>9 DEF MakeOutput, StepFromState, ResetPolicyMemory
  <2>2. Pending' = [number |-> actionSeq, action |-> Zero]
    BY <1>5, <2>1
  <2>3. Owed!Hold
    BY <1>3, <1>4, <1>5, <1>7, <2>1, <2>2
       DEF Owed!Hold, Told, Pending, Memory, Observed, Linked
  <2> QED  BY <2>3
<1> QED  BY <1>8, <1>9

\* What is being written is a step of PolicyLink.
LEMMA WritingIsAStep ==
  ASSUME CdcInvariant, pc \in Writing
  PROVE  Pending \in Owed!Steps
<1>1. output \in Outputs
  BY DEF CdcInvariant, Mirror, MemoryAhead
<1>2. Pending = [number |-> output.seq, action |-> output.action]
  BY DEF Pending, Writing
<1> QED  BY <1>1, <1>2, SameArithmetic DEF Outputs, Owed!Steps

\* The command frame announces the step.
LEMMA CommandAnnounces ==
  ASSUME CdcInvariant, WriteCommand
  PROVE  Owed!Announce
<1>1. /\ pc = "command" /\ pc' = "target" /\ UNCHANGED <<output, memory, lastAction>>
      /\ wire' = [wire EXCEPT !.command = output.command]
      /\ output.command = output.seq
  BY DEF WriteCommand, policyVars, CdcInvariant, Numbering, Writing
<1>2. Linked /\ Linked' /\ Told = wire /\ Told' = wire'
  BY <1>1 DEF Linked, Told
<1>3. /\ Pending = [number |-> output.seq, action |-> output.action]
      /\ UNCHANGED <<Pending, Memory, Observed>>
  BY <1>1, <1>2 DEF Pending, Memory, Observed
<1>4. Pending \in Owed!Steps
  BY <1>1, WritingIsAStep DEF Writing
<1> QED  BY <1>1, <1>2, <1>3, <1>4 DEF Owed!Announce, Told, Pending, Memory, Observed

\* The target frame delivers it, under the number that was announced.
LEMMA TargetDelivers ==
  ASSUME CdcInvariant, WriteTarget
  PROVE  Owed!Deliver
<1>1. /\ pc = "target" /\ pc' \in {"read", "done"} /\ UNCHANGED memory
      /\ lastAction' = output.action
      /\ wire' = [wire EXCEPT !.seq = output.seq, !.action = output.action,
                              !.run = IF output.reason = "act" THEN Count(@) ELSE 0]
      /\ wire.command = output.seq
  BY DEF WriteTarget, RecordAction, LoopHead, CdcInvariant, Numbering, Writing
<1>2. /\ Linked /\ Linked' /\ Told = wire /\ Told' = wire'
      /\ Pending = [number |-> output.seq, action |-> output.action] /\ Pending' = None
      /\ Memory = memory /\ Memory' = memory' /\ Observed' = lastAction'
  BY <1>1 DEF Linked, Told, Pending, Memory, Observed
<1>3. Pending \in Owed!Steps
  BY <1>1, WritingIsAStep DEF Writing
<1>4. output.reason = "act" <=> output.action # Zero
  BY <1>1 DEF CdcInvariant, Mirror, MemoryAhead, Writing
<1>5. wire' = [wire EXCEPT !.seq = Pending.number, !.action = Pending.action,
                           !.run = IF Pending.action = Zero THEN 0 ELSE Owed!OneMore(@)]
  BY <1>1, <1>2, <1>4, SameArithmetic
<1> QED  BY <1>1, <1>2, <1>3, <1>5 DEF Owed!Deliver, Told, Pending, Memory, Observed

\* Every step is one of PolicyLink, or a stutter of it.
LEMMA OwedStep ==
  CdcInvariant /\ [Next]_vars => [Owed!LinkNext]_(Owed!linkVars)
<1> SUFFICES ASSUME CdcInvariant, [Next]_vars
             PROVE  Owed!LinkNext \/ UNCHANGED Seen
  <2> HAVE CdcInvariant /\ [Next]_vars
  <2> QED  BY SeenIsOwed
<1>1. CASE ~Linked'
  BY <1>1, LeavingEnds
<1>2. CASE Linked' /\ Connect
  BY <1>2, ConnectBegins DEF Owed!LinkNext
<1>3. CASE Linked' /\ PolicyStep
  BY <1>3, StepDecides DEF Owed!LinkNext
<1>4. CASE WriteCommand
  BY <1>4, CommandAnnounces DEF Owed!LinkNext
<1>5. CASE WriteTarget
  BY <1>5, TargetDelivers DEF Owed!LinkNext
<1>6. CASE Linked' /\ (Wait \/ ReadStates \/ CheckPort \/ StepWithoutState)
  <2>1. /\ pc \in Reading /\ pc' \in Reading \cup {"done"}
        /\ UNCHANGED <<wire, memory, lastAction>>
    BY <1>6 DEF Wait, ReadStates, CheckPort, StepWithoutState, Disconnected, LoopHead, Linked,
       Reading, policyVars
  <2> QED  BY <2>1, RestingStutters DEF Linked, Reading
<1>7. CASE Linked' /\ (Backoff \/ ReadError \/ WriteError)
  BY <1>7 DEF Backoff, ReadError, WriteError, Disconnected, Linked
<1>8. CASE ReceiveFrame \/ GoSilent \/ Unplug \/ Replug \/ Finished \/ UNCHANGED vars
  <2>1. UNCHANGED <<pc, wire, output, memory, lastAction>>
    BY <1>8 DEF ReceiveFrame, GoSilent, Unplug, Replug, Finished, vars, policyVars, loopVars
  <2> QED  BY <2>1 DEF Seen, Told, Pending, Memory, Observed, Linked
<1> QED  BY <1>1, <1>2, <1>3, <1>4, <1>5, <1>6, <1>7, <1>8 DEF Next, Runtime

\* For every modulus, timeout and bound, and whatever becomes of the port, each
\* connection of run_cdc is a link that starts from nothing and on which an
\* inference continues exactly from what this connection has carried
\* (step_from_state, reset_policy_memory, record_action, run_cdc).
THEOREM ConnectionsArePolicyLinks == Spec => ImplementsPolicyLink
<1>1. Init => Owed!LinkInit
  BY OwedInit
<1>2. CdcInvariant /\ [Next]_vars => [Owed!LinkNext]_(Owed!linkVars)
  BY OwedStep
<1> QED  BY <1>1, <1>2, CdcInvariance, PTL DEF Spec, ImplementsPolicyLink, Owed!LinkSpec
=============================================================================
