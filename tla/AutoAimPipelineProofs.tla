------------------------ MODULE AutoAimPipelineProofs ------------------------
(***************************************************************************)
(* Proofs about AutoAimPipeline for every number of frames and of route     *)
(* transitions, every set of task modes and every set of faults.            *)
(***************************************************************************)
EXTENDS AutoAimPipeline, TLAPS

\* A task that has a frame in hand, and a router it has looked at.
Carriers ==
  {t \in TaskStates : /\ t.pc \in {"admit", "work", "push"} => t.item \in Items
                      /\ t.pc = "work" => t.seen \in RouterStates}

\* TypeOK, with what the tasks carry.
Typed ==
  /\ running \in BOOLEAN
  /\ router \in RouterStates /\ router.transition_seq <= MaxTransitions
  /\ queue \in [Pipelines -> [Queues -> Slots]]
  /\ done \subseteq Flags
  /\ pre \in PreStates /\ (pre.pc = "push" => pre.item \in Items)
  /\ task \in [Pipelines -> [Stages -> Carriers]]
  /\ ctl \in CtlStates
  /\ snapshot \in [Pipelines -> Items \cup {None}]
  /\ controlTx \in BOOLEAN
  /\ can \in {"loop", "stopped"}
  /\ escaped \subseteq 1 .. MaxFrames

-----------------------------------------------------------------------------
(* Lemmas on the helpers *)

LEMMA Names ==
  /\ \A p \in Pipelines : <<p, "source">> \in Flags
  /\ \A p \in Pipelines, s \in Stages : <<p, s>> \in Flags
  /\ \A s \in Stages : InputOf[s] \in Queues /\ OutputOf[s] \in Queues
  /\ "infer" \in Stages /\ "post" \in Stages /\ "estimate" \in Stages
  /\ "pre_infer" \in Queues /\ "solved" \in Queues /\ "track" \in Queues
  /\ "armor" \in Pipelines /\ "energy" \in Pipelines
  BY DEF Flags, Stages, Pipelines, Queues, InputOf, OutputOf

\* The clear visits every queue, and nothing else.
LEMMA ClearCovers ==
  /\ Len(ClearOrder) = 8
  /\ \A i \in 1 .. 8 : ClearOrder[i][1] \in Pipelines /\ ClearOrder[i][2] \in Queues
                       /\ ClearOrder[i] = <<ClearOrder[i][1], ClearOrder[i][2]>>
  /\ \A p \in Pipelines, q \in Queues : \E i \in 1 .. 8 : ClearOrder[i] = <<p, q>>
<1>1. /\ Len(ClearOrder) = 8
      /\ ClearOrder[1] = <<"armor", "pre_infer">> /\ ClearOrder[2] = <<"armor", "infer_post">>
      /\ ClearOrder[3] = <<"armor", "solved">> /\ ClearOrder[4] = <<"armor", "track">>
      /\ ClearOrder[5] = <<"energy", "pre_infer">> /\ ClearOrder[6] = <<"energy", "infer_post">>
      /\ ClearOrder[7] = <<"energy", "solved">> /\ ClearOrder[8] = <<"energy", "track">>
  BY DEF ClearOrder
<1>2. \A i \in 1 .. 8 : i = 1 \/ i = 2 \/ i = 3 \/ i = 4 \/ i = 5 \/ i = 6 \/ i = 7 \/ i = 8
  OBVIOUS
<1>3. /\ 1 \in 1 .. 8 /\ 2 \in 1 .. 8 /\ 3 \in 1 .. 8 /\ 4 \in 1 .. 8
      /\ 5 \in 1 .. 8 /\ 6 \in 1 .. 8 /\ 7 \in 1 .. 8 /\ 8 \in 1 .. 8
  OBVIOUS
<1>4. \A i \in 1 .. 8 : ClearOrder[i][1] \in Pipelines /\ ClearOrder[i][2] \in Queues
                        /\ ClearOrder[i] = <<ClearOrder[i][1], ClearOrder[i][2]>>
  BY <1>1, <1>2 DEF Pipelines, Queues
<1>5. \A p \in Pipelines, q \in Queues : \E i \in 1 .. 8 : ClearOrder[i] = <<p, q>>
  BY <1>1, <1>3 DEF Pipelines, Queues
<1> QED BY <1>1, <1>4, <1>5

LEMMA RouterSteps ==
  /\ NewRouter("AutoShot") \in RouterStates /\ NewRouter("AutoShot").transition_seq = 0
  /\ \A r \in RouterStates, mode \in TaskModes :
       /\ ApplyFeedback(r, mode) \in RouterStates
       /\ ApplyFeedback(r, mode).transition_seq >= r.transition_seq
<1>1. \A mode \in TaskModes : RouteOf(mode) \in ModeRoutes
  BY DEF RouteOf, TaskModes, ModeRoutes
<1>2. "AutoShot" \in TaskModes
  BY DEF TaskModes
<1>3. NewRouter("AutoShot") \in RouterStates /\ NewRouter("AutoShot").transition_seq = 0
  BY <1>1, <1>2 DEF NewRouter, RouterStates
<1>4. ASSUME NEW r \in RouterStates, NEW mode \in TaskModes
      PROVE  /\ ApplyFeedback(r, mode) \in RouterStates
             /\ ApplyFeedback(r, mode).transition_seq >= r.transition_seq
  <2>1. RouteOf(mode) \in ModeRoutes /\ r.transition_seq \in Nat
    BY <1>1 DEF RouterStates
  <2> QED BY <2>1 DEF ApplyFeedback, RouterStates
<1> QED BY <1>3, <1>4

\* A task's new state, and nobody else's.
LEMMA BecomeFacts ==
  ASSUME NEW S, task \in [Pipelines -> [Stages -> S]],
         NEW p \in Pipelines, NEW s \in Stages, NEW state \in S, Become(p, s, state)
  PROVE  /\ task' \in [Pipelines -> [Stages -> S]]
         /\ task'[p][s] = state
         /\ \A x \in Pipelines, y \in Stages : ~(x = p /\ y = s) => task'[x][y] = task[x][y]
  BY DEF Become

LEMMA TopState == StageTask("top") \in Carriers /\ StageTask("ending") \in Carriers
                  /\ StageTask("broken") \in Carriers
  BY DEF StageTask, Carriers, TaskStates

LEMMA CarryOn ==
  ASSUME NEW t \in TaskStates, NEW item, NEW r
  PROVE  /\ [t EXCEPT !.pc = "admit", !.item = item].pc = "admit"
         /\ [t EXCEPT !.pc = "work", !.seen = r].pc = "work"
         /\ [t EXCEPT !.pc = "push"].pc = "push"
         /\ [t EXCEPT !.pc = "push", !.item = item].pc = "push"
         /\ [t EXCEPT !.seen = r, !.pc = "take"].pc = "take"
  BY DEF TaskStates

\* A queue's new content, and no other's.
LEMMA SlotFacts ==
  ASSUME queue \in [Pipelines -> [Queues -> Slots]],
         NEW p \in Pipelines, NEW q \in Queues, NEW slot \in Slots,
         queue' = [queue EXCEPT ![p][q] = slot]
  PROVE  /\ queue' \in [Pipelines -> [Queues -> Slots]]
         /\ queue'[p][q] = slot
         /\ \A x \in Pipelines, y \in Queues : ~(x = p /\ y = q) => queue'[x][y] = queue[x][y]
  OBVIOUS

LEMMA SlotItems ==
  /\ <<>> \in Slots
  /\ \A item \in Items : <<item>> \in Slots /\ <<item>> # <<>> /\ <<item>>[1] = item
  /\ \A slot \in Slots : slot # <<>> => slot[1] \in Items /\ slot = <<slot[1]>>
  BY DEF Slots

-----------------------------------------------------------------------------
(* Types *)

LEMMA TypedInit == Init => Typed
<1> SUFFICES ASSUME Init PROVE Typed
  OBVIOUS
<1>1. running \in BOOLEAN /\ controlTx \in BOOLEAN /\ can \in {"loop", "stopped"}
      /\ done \subseteq Flags /\ escaped \subseteq 1 .. MaxFrames
  BY DEF Init
<1>2. router \in RouterStates /\ router.transition_seq <= MaxTransitions
  BY RouterSteps, PipelineAssumption DEF Init
<1>3. queue \in [Pipelines -> [Queues -> Slots]]
  BY SlotItems DEF Init
<1>4. pre \in PreStates /\ (pre.pc = "push" => pre.item \in Items)
  BY PipelineAssumption DEF Init, PreStates
<1>5. task \in [Pipelines -> [Stages -> Carriers]]
  BY TopState DEF Init
<1>6. ctl \in CtlStates
  BY PipelineAssumption DEF Init, CtlStates
<1>7. snapshot \in [Pipelines -> Items \cup {None}]
  BY DEF Init
<1> QED BY <1>1, <1>2, <1>3, <1>4, <1>5, <1>6, <1>7 DEF Typed


LEMMA TypedIsTypeOK == Typed => TypeOK
<1>1. Carriers \subseteq TaskStates
  BY DEF Carriers
<1>2. task \in [Pipelines -> [Stages -> Carriers]]
        => task \in [Pipelines -> [Stages -> TaskStates]]
  BY <1>1
<1> QED BY <1>2 DEF Typed, TypeOK

\* pre_process: a frame in hand is an item of the route that was read.
LEMMA TypedPre == Typed /\ Pre => Typed'
<1> SUFFICES ASSUME Typed, Pre PROVE Typed'
  OBVIOUS
<1>0. /\ pre \in PreStates /\ router \in RouterStates
      /\ router.transition_seq \in 0 .. MaxTransitions /\ router.task_mode \in TaskModes
      /\ pre.frames \in 0 .. MaxFrames
  BY DEF Typed, PreStates, RouterStates
<1>1. CASE PreRead
  <2> DEFINE item == [id |-> pre.frames + 1, seq |-> router.transition_seq,
                      mode |-> router.task_mode]
  <2>1. pre' = [pc |-> "push", frames |-> pre.frames + 1, item |-> item]
        /\ pre.frames + 1 \in 1 .. MaxFrames
    BY <1>0, <1>1, PipelineAssumption DEF PreRead
  <2>2. item \in Items
    BY <1>0, <2>1 DEF Items
  <2> HIDE DEF item
  <2>3. pre' \in PreStates /\ (pre'.pc = "push" => pre'.item \in Items)
    BY <2>1, <2>2 DEF PreStates
  <2> QED BY <1>1, <2>3 DEF Typed, PreRead
<1>2. CASE PrePush
  <2>1. pre.item \in Items /\ pre' = [pre EXCEPT !.pc = "read", !.item = None]
    BY <1>2 DEF Typed, PrePush
  <2>2. pre' \in PreStates /\ pre'.pc # "push"
    BY <1>0, <2>1 DEF PreStates
  <2>3. \E p \in Pipelines, q \in Queues : queue' = [queue EXCEPT ![p][q] = <<pre.item>>]
    BY <1>2, Names DEF PrePush, PushLatest
  <2>4. queue' \in [Pipelines -> [Queues -> Slots]]
    BY <2>1, <2>3, SlotItems, SlotFacts DEF Typed
  <2> QED BY <1>2, <2>2, <2>4 DEF Typed, PrePush
<1>3. CASE PreLook \/ PreEnd \/ PreError
  <2>1. pre' \in PreStates /\ pre'.pc # "push" /\ running' \in BOOLEAN
    BY <1>0, <1>3 DEF Typed, PreLook, PreEnd, PreError, PreStates
  <2> QED BY <1>3, <2>1 DEF Typed, PreLook, PreEnd, PreError
<1>4. CASE PreDone
  <2>1. pre' \in PreStates /\ pre'.pc # "push"
    BY <1>0, <1>4 DEF PreDone, PreStates
  <2>2. done' \subseteq Flags
    BY <1>4, Names DEF Typed, PreDone
  <2> QED BY <1>4, <2>1, <2>2 DEF Typed, PreDone
<1> QED BY <1>1, <1>2, <1>3, <1>4 DEF Pre

\* The three stages of a pipeline.
Stage(p) == Infer(p) \/ Post(p) \/ Estimate(p)

LEMMA TypedStage == ASSUME Typed, NEW p \in Pipelines, Stage(p) PROVE Typed'
<1>a. task \in [Pipelines -> [Stages -> Carriers]]
      /\ queue \in [Pipelines -> [Queues -> Slots]]
      /\ router \in RouterStates /\ done \subseteq Flags
  BY DEF Typed
<1>b. \A s \in Stages : task[p][s] \in Carriers /\ InputOf[s] \in Queues /\ OutputOf[s] \in Queues
  BY <1>a, Names
<1>c. \A s \in Stages, state \in Carriers :
        Become(p, s, state) => task' \in [Pipelines -> [Stages -> Carriers]]
  BY <1>a, BecomeFacts
<1>1. ASSUME NEW s \in Stages, StageStop(p, s) PROVE Typed'
  <2>1. [task[p][s] EXCEPT !.pc = "stopped"] \in Carriers
    BY <1>b DEF Carriers, TaskStates
  <2>2. task' \in [Pipelines -> [Stages -> Carriers]]
    BY <1>1, <1>c, <2>1 DEF StageStop
  <2>3. done' \subseteq Flags
    BY <1>1, <1>a, Names DEF StageStop
  <2> QED BY <1>1, <2>2, <2>3 DEF Typed, StageStop
<1>2. ASSUME NEW s \in Stages, WorkerTake(p, s) PROVE Typed'
  <2> DEFINE item == queue[p][InputOf[s]][1]
  <2>1. item \in Items
    BY <1>2, <1>a, <1>b, SlotItems DEF WorkerTake
  <2>2. [task[p][s] EXCEPT !.pc = "admit", !.item = item] \in Carriers
    BY <1>b, <2>1 DEF Carriers, TaskStates
  <2>3. task' \in [Pipelines -> [Stages -> Carriers]]
    BY <1>2, <1>c, <2>2 DEF WorkerTake
  <2>4. queue' \in [Pipelines -> [Queues -> Slots]]
    BY <1>2, <1>a, <1>b, SlotItems, SlotFacts DEF WorkerTake
  <2>5. item.id \in 1 .. MaxFrames
    BY <2>1 DEF Items
  <2>6. escaped' \subseteq 1 .. MaxFrames
    BY <1>2, <2>5 DEF Typed, WorkerTake, HandOver
  <2> QED BY <1>2, <2>3, <2>4, <2>6 DEF Typed, WorkerTake
<1>3. ASSUME NEW s \in Stages, WorkerAdmit(p, s) \/ WorkerFinish(p, s) PROVE Typed'
  <2>1. /\ task[p][s].pc = "admit" => [task[p][s] EXCEPT !.pc = "work", !.seen = router] \in Carriers
        /\ task[p][s].pc = "work" => [task[p][s] EXCEPT !.pc = "push"] \in Carriers
    BY <1>a, <1>b DEF Carriers, TaskStates
  <2>2. \E state \in Carriers : Become(p, s, state)
    BY <1>3, <2>1, TopState DEF WorkerAdmit, WorkerFinish, Release, Become
  <2>3. task' \in [Pipelines -> [Stages -> Carriers]]
    BY <1>c, <2>2
  <2> QED BY <1>3, <2>3 DEF Typed, WorkerAdmit, WorkerFinish
<1>4. ASSUME NEW s \in Stages,
             \/ WorkerPush(p, s)
             \/ s = "estimate" /\ EstimatePush(p)
      PROVE  Typed'
  <2>1. task[p][s].item \in Items
    BY <1>4, <1>b DEF WorkerPush, EstimatePush, Carriers
  <2>2. \E q \in Queues : queue' = [queue EXCEPT ![p][q] = <<task[p][s].item>>]
    BY <1>4, <1>b, Names DEF WorkerPush, EstimatePush, PushLatest
  <2>3. queue' \in [Pipelines -> [Queues -> Slots]]
    BY <1>a, <2>1, <2>2, SlotItems, SlotFacts
  <2>4. task' \in [Pipelines -> [Stages -> Carriers]]
    BY <1>4, <1>c, TopState DEF WorkerPush, EstimatePush, Release, Become
  <2> QED BY <1>4, <2>3, <2>4 DEF Typed, WorkerPush, EstimatePush
<1>5. CASE InferFail(p)
  <2>1. task' \in [Pipelines -> [Stages -> Carriers]]
    BY <1>5, <1>c, Names, TopState DEF InferFail
  <2> QED BY <1>5, <2>1 DEF Typed, InferFail
<1>6. CASE InferDone(p)
  <2>1. [task[p]["infer"] EXCEPT !.pc = "stopped"] \in Carriers
    BY <1>b, Names DEF Carriers, TaskStates
  <2>2. task' \in [Pipelines -> [Stages -> Carriers]]
    BY <1>6, <1>c, <2>1, Names DEF InferDone
  <2>3. done' \subseteq Flags
    BY <1>6, <1>a, Names DEF InferDone
  <2> QED BY <1>6, <2>2, <2>3 DEF Typed, InferDone
<1>7. CASE PostFail(p) \/ EstimateTimeout(p)
  <2>1. task' \in [Pipelines -> [Stages -> Carriers]]
    BY <1>7, <1>c, Names, TopState DEF PostFail, EstimateTimeout, Release, Become
  <2> QED BY <1>7, <2>1 DEF Typed, PostFail, EstimateTimeout
<1>8. CASE EstimateLook(p)
  <2>1. [task[p]["estimate"] EXCEPT !.seen = router, !.pc = "take"] \in Carriers
    BY <1>a, <1>b, Names DEF Carriers, TaskStates
  <2>2. task' \in [Pipelines -> [Stages -> Carriers]]
    BY <1>8, <1>c, <2>1, Names DEF EstimateLook
  <2> QED BY <1>8, <2>2 DEF Typed, EstimateLook
<1>9. CASE EstimateTake(p)
  <2> DEFINE item == queue[p]["solved"][1]
  <2>1. item \in Items
    BY <1>9, <1>a, Names, SlotItems DEF EstimateTake
  <2>2. [task[p]["estimate"] EXCEPT !.pc = "push", !.item = item] \in Carriers
    BY <1>b, <2>1, Names DEF Carriers, TaskStates
  <2>3. \E state \in Carriers : Become(p, "estimate", state)
    BY <1>9, <2>2, TopState DEF EstimateTake
  <2>4. task' \in [Pipelines -> [Stages -> Carriers]]
    BY <1>c, <2>3, Names
  <2>5. queue' \in [Pipelines -> [Queues -> Slots]]
    BY <1>9, <1>a, Names, SlotItems, SlotFacts DEF EstimateTake
  <2>6. item.id \in 1 .. MaxFrames
    BY <2>1 DEF Items
  <2>7. escaped' \subseteq 1 .. MaxFrames
    BY <1>9, <2>6 DEF Typed, EstimateTake, HandOver
  <2> QED BY <1>9, <2>4, <2>5, <2>7 DEF Typed, EstimateTake
<1> QED
  BY <1>1, <1>2, <1>3, <1>4, <1>5, <1>6, <1>7, <1>8, <1>9, Names
  DEF Stage, Infer, Post, Estimate, Worker


\* The two consumers at the end of the pipelines.
LEMMA TypedEnd == Typed /\ (Control \/ Can) => Typed'
<1> SUFFICES ASSUME Typed, Control \/ Can PROVE Typed'
  OBVIOUS
<1>a. ctl \in CtlStates /\ router \in RouterStates
      /\ router.transition_seq \in 0 .. MaxTransitions
      /\ queue \in [Pipelines -> [Queues -> Slots]]
  BY DEF Typed, RouterStates
<1>1. CASE CtlBroken \/ CtlTick \/ CtlStop
  <2>1. ctl' \in CtlStates /\ running' \in BOOLEAN
    BY <1>a, <1>1 DEF Typed, CtlBroken, CtlTick, CtlStop, CtlStates
  <2> QED BY <1>1, <2>1 DEF Typed, CtlBroken, CtlTick, CtlStop
<1>2. CASE CtlPop
  <2>1. ctl' \in CtlStates
    <3>1. [ctl EXCEPT !.pc = "clear", !.empty = FALSE, !.cleared = 0] \in CtlStates
          /\ [ctl EXCEPT !.pc = "tick", !.empty = FALSE] \in CtlStates
      <4>1. 0 \in 0 .. 8
        OBVIOUS
      <4>2. [ctl EXCEPT !.pc = "tick", !.empty = FALSE] \in CtlStates
        BY <1>a DEF CtlStates
      <4>3. [ctl EXCEPT !.pc = "clear", !.empty = FALSE, !.cleared = 0] \in CtlStates
        BY <1>a, <4>1, Zenon DEF CtlStates
      <4> QED BY <4>2, <4>3
    <3>2. \/ ctl' = [ctl EXCEPT !.pc = "clear", !.empty = FALSE, !.cleared = 0]
          \/ ctl' = [ctl EXCEPT !.pc = "tick", !.empty = FALSE]
      BY <1>2 DEF CtlPop
    <3> QED BY <3>1, <3>2
  <2>2. router' \in RouterStates /\ router'.transition_seq <= MaxTransitions
    BY <1>a, <1>2, RouterSteps, PipelineAssumption DEF CtlPop
  <2>3. queue' \in [Pipelines -> [Queues -> Slots]]
    <3>1. \A p \in Pipelines : [queue[p] EXCEPT !["track"] = <<>>] \in [Queues -> Slots]
      BY <1>a, SlotItems
    <3> QED BY <1>2, <3>1 DEF CtlPop
  <2>4. snapshot' \in [Pipelines -> Items \cup {None}]
    <3>1. \A p \in Pipelines : queue[p]["track"] # <<>> => queue[p]["track"][1] \in Items
      BY <1>a, Names, SlotItems
    <3> QED BY <1>2, <3>1 DEF Typed, CtlPop
  <2>5. controlTx' \in BOOLEAN
    BY <1>2 DEF Typed, CtlPop
  <2>6. escaped' \subseteq 1 .. MaxFrames
    <3>1. pre.item = None \/ pre.item.id \in 1 .. MaxFrames
      BY DEF Typed, PreStates, Items
    <3>2. \A p \in Pipelines, t \in Stages :
            task[p][t].item = None \/ task[p][t].item.id \in 1 .. MaxFrames
      BY DEF Typed, Carriers, TaskStates, Items
    <3>3. \A x \in Pipelines \X Stages : x[1] \in Pipelines /\ x[2] \in Stages
      OBVIOUS
    <3>4. InPassing \subseteq 1 .. MaxFrames
      BY <3>1, <3>2, <3>3 DEF InPassing
    <3> QED BY <1>2, <3>4 DEF Typed, CtlPop
  <2> QED BY <1>2, <2>1, <2>2, <2>3, <2>4, <2>5, <2>6 DEF Typed, CtlPop
<1>3. CASE CtlClear
  <2>1. ctl.cleared + 1 \in 1 .. 8 /\ ctl' \in CtlStates
    BY <1>a, <1>3, ClearCovers DEF CtlClear, CtlStates
  <2>2. \E p \in Pipelines, q \in Queues : queue' = [queue EXCEPT ![p][q] = <<>>]
    BY <1>3, <2>1, ClearCovers DEF CtlClear
  <2>3. queue' \in [Pipelines -> [Queues -> Slots]]
    BY <1>a, <2>2, SlotItems, SlotFacts
  <2> QED BY <1>3, <2>1, <2>3 DEF Typed, CtlClear
<1>4. CASE CtlReset
  <2>1. ctl' = [ctl EXCEPT !.pc = "tick", !.cleared = 0, !.lastSeq = router.transition_seq]
    BY <1>4 DEF CtlReset
  <2>3. ctl' \in CtlStates
    <3>1. 0 \in 0 .. 8
      OBVIOUS
    <3> QED BY <1>a, <2>1, <3>1, Zenon DEF CtlStates
  <2>2. snapshot' \in [Pipelines -> Items \cup {None}]
    BY <1>4 DEF CtlReset
  <2> QED BY <1>4, <2>2, <2>3 DEF Typed, CtlReset
<1>5. CASE Can
  BY <1>5 DEF Typed, Can, CanSend, CanFail, CanStop
<1> QED BY <1>1, <1>2, <1>3, <1>4, <1>5 DEF Control

LEMMA TypedStep == Typed /\ [Next]_vars => Typed'
<1> SUFFICES ASSUME Typed, [Next]_vars PROVE Typed'
  OBVIOUS
<1>1. CASE \E p \in Pipelines : Stage(p)
  BY <1>1, TypedStage
<1>2. CASE Joined \/ UNCHANGED vars
  BY <1>2 DEF Joined, vars, Typed
<1> QED BY <1>1, <1>2, TypedPre, TypedEnd DEF Next, Stage

LEMMA AlwaysTyped == Spec => []Typed
  BY TypedInit, TypedStep, PTL DEF Spec

(* Every variable keeps its type; in particular a queue never holds more     *)
(* than one frame, and what is pushed is always a frame.                     *)
THEOREM TypeCorrect == Spec => []TypeOK
  BY AlwaysTyped, TypedIsTypeOK, PTL

-----------------------------------------------------------------------------
(***************************************************************************)
(* Termination.  A flag is set by a task that stops, and a stopped task     *)
(* pushes nothing more, so the queue it fed stays empty once its consumer   *)
(* found it so.  IS_RUNNING is false from before the first flag: the task   *)
(* about to set one has stored it already.                                  *)
(***************************************************************************)

FlagMeansStopped ==
  /\ \A p \in Pipelines :
       /\ <<p, "source">> \in done => pre.pc = "stopped"
       /\ \A s \in Stages : <<p, s>> \in done => task[p][s].pc = "stopped"

StoppingMeansNotRunning ==
  /\ pre.pc \in {"ending", "stopped"} => ~running
  /\ \A p \in Pipelines : task[p]["infer"].pc = "ending" => ~running
  /\ done # {} => ~running

TermInv == FlagMeansStopped /\ StoppingMeansNotRunning /\ DrainedBeforeDone


\* Which flags a step sets: pre_process both of the source's, a stage its own.
LEMMA TermPre == Typed /\ TermInv /\ Pre => TermInv'
<1> SUFFICES ASSUME Typed, TermInv, Pre PROVE TermInv'
  OBVIOUS
<1> USE DEF TermInv, FlagMeansStopped, StoppingMeansNotRunning, DrainedBeforeDone
<1>1. CASE PreLook \/ PreRead \/ PreEnd \/ PreError
  <2>1. pre.pc # "stopped" /\ UNCHANGED <<done, task, queue>>
        /\ (running' = running \/ running' = FALSE)
        /\ (pre'.pc \in {"ending", "stopped"} => running' = FALSE)
    BY <1>1 DEF Typed, PreLook, PreRead, PreEnd, PreError, PreStates
  <2>2. \A p \in Pipelines : <<p, "source">> \notin done
    BY <2>1
  <2> QED BY <2>1, <2>2
<1>2. CASE PrePush
  <2>1. pre.pc = "push" /\ pre'.pc = "read" /\ UNCHANGED <<done, task, running>>
    BY <1>2 DEF Typed, PrePush, PreStates
  <2>2. \A p \in Pipelines, s \in {"post", "estimate"} :
          queue'[p][InputOf[s]] = queue[p][InputOf[s]]
    BY <1>2 DEF Typed, PrePush, PushLatest, InputOf, Queues
  <2> QED BY <2>1, <2>2
<1>3. CASE PreDone
  <2>1. pre.pc = "ending" /\ pre'.pc = "stopped" /\ UNCHANGED <<running, queue, task>>
        /\ done' = done \cup {<<p, "source">> : p \in Pipelines}
    BY <1>3 DEF Typed, PreDone, PreStates
  <2>2. \A p \in Pipelines, s \in Stages : <<p, s>> \in done' => <<p, s>> \in done
    BY <2>1 DEF Stages
  <2>3. \A s \in {"post", "estimate"} : s \in Stages
    BY DEF Stages
  <2> QED BY <2>1, <2>2, <2>3
<1> QED BY <1>1, <1>2, <1>3 DEF Pre

\* A step of a stage that sets no flag leaves the stopped tasks alone, and
\* fills only the queue behind a task that has not stopped.
LEMMA TermWork ==
  ASSUME Typed, TermInv, NEW p \in Pipelines, NEW s \in Stages,
         task[p][s].pc # "stopped",
         done' = done, pre' = pre, running' = running \/ running' = FALSE,
         \A x \in Pipelines, y \in Stages : ~(x = p /\ y = s) => task'[x][y] = task[x][y],
         task'[p][s].pc = "ending" => task[p][s].pc = "ending" \/ running' = FALSE,
         \A x \in Pipelines, y \in {"post", "estimate"} :
           queue[x][InputOf[y]] = <<>> /\ queue'[x][InputOf[y]] # <<>> =>
             x = p /\ Upstream[y] = s
  PROVE  TermInv'
<1> USE DEF TermInv, FlagMeansStopped, StoppingMeansNotRunning, DrainedBeforeDone
<1>1. <<p, s>> \notin done
  OBVIOUS
<1>2. FlagMeansStopped'
  BY <1>1
<1>3. StoppingMeansNotRunning'
  BY Names
<1>4. DrainedBeforeDone'
  BY <1>1
<1> QED BY <1>2, <1>3, <1>4

LEMMA TermStage == ASSUME Typed, TermInv, NEW p \in Pipelines, Stage(p) PROVE TermInv'
<1>a. task \in [Pipelines -> [Stages -> Carriers]]
      /\ queue \in [Pipelines -> [Queues -> Slots]]
  BY DEF Typed
<1>b. \A s \in Stages : \A state :
        Become(p, s, state) =>
          /\ task'[p][s] = state
          /\ \A x \in Pipelines, y \in Stages :
               ~(x = p /\ y = s) => task'[x][y] = task[x][y]
  BY <1>a DEF Become
<1>1. ASSUME NEW s \in Stages, StageStop(p, s) PROVE TermInv'
  <2>1. /\ task'[p][s].pc = "stopped" /\ task[p][s].pc = "top"
        /\ \A x \in Pipelines, y \in Stages : ~(x = p /\ y = s) => task'[x][y] = task[x][y]
    BY <1>1, <1>a, <1>b DEF StageStop, Carriers, TaskStates
  <2>2. /\ done' = done \cup {<<p, s>>} /\ UNCHANGED <<running, pre, queue>>
        /\ <<p, Upstream[s]>> \in done /\ queue[p][InputOf[s]] = <<>>
    BY <1>1 DEF StageStop, MayStop
  <2>3. FlagMeansStopped'
    BY <2>1, <2>2 DEF TermInv, FlagMeansStopped, Stages
  <2>4. StoppingMeansNotRunning'
    BY <2>1, <2>2, Names DEF TermInv, StoppingMeansNotRunning
  <2>5. DrainedBeforeDone'
    BY <2>2 DEF TermInv, DrainedBeforeDone
  <2> QED BY <2>3, <2>4, <2>5 DEF TermInv
<1>2. CASE InferDone(p)
  <2>1. /\ task'[p]["infer"].pc = "stopped" /\ task[p]["infer"].pc = "ending"
        /\ \A x \in Pipelines, y \in Stages : ~(x = p /\ y = "infer") => task'[x][y] = task[x][y]
    BY <1>2, <1>a, <1>b, Names DEF InferDone, Carriers, TaskStates
  <2>2. done' = done \cup {<<p, "infer">>} /\ UNCHANGED <<running, pre, queue>>
    BY <1>2 DEF InferDone
  <2>3. FlagMeansStopped'
    BY <2>1, <2>2 DEF TermInv, FlagMeansStopped, Stages
  <2>4. StoppingMeansNotRunning'
    BY <2>1, <2>2, Names DEF TermInv, StoppingMeansNotRunning
  <2>5. DrainedBeforeDone'
    BY <2>2 DEF TermInv, DrainedBeforeDone
  <2> QED BY <2>3, <2>4, <2>5 DEF TermInv
<1>3. ASSUME NEW s \in Stages,
             \/ WorkerTake(p, s) \/ WorkerAdmit(p, s) \/ WorkerFinish(p, s)
             \/ s = "post" /\ PostFail(p)
             \/ s = "infer" /\ InferFail(p)
             \/ s = "estimate" /\ (EstimateLook(p) \/ EstimateTake(p) \/ EstimateTimeout(p))
      PROVE  TermInv'
  <2>0. task[p][s] \in TaskStates
    BY <1>a DEF Carriers
  <2>1. task'[p][s].pc = "ending" => running' = FALSE
    <3>1. StageTask("top").pc = "top"
      BY DEF StageTask
    <3>3. CASE s = "infer" /\ InferFail(p)
      BY <3>3 DEF InferFail
    <3>4. CASE (s = "post" /\ PostFail(p)) \/ (s = "estimate" /\ EstimateTimeout(p))
      BY <1>a, <3>1, <3>4 DEF PostFail, EstimateTimeout, Release
    <3>5. CASE WorkerTake(p, s)
      <4>1. task'[p][s] = [task[p][s] EXCEPT !.pc = "admit", !.item = queue[p][InputOf[s]][1]]
        BY <1>b, <3>5 DEF WorkerTake
      <4> QED BY <2>0, <4>1, CarryOn
    <3>6. CASE WorkerAdmit(p, s) \/ WorkerFinish(p, s)
      <4>1. \/ task'[p][s] = StageTask("top")
            \/ task'[p][s] = [task[p][s] EXCEPT !.pc = "work", !.seen = router]
            \/ task'[p][s] = [task[p][s] EXCEPT !.pc = "push"]
        BY <1>a, <3>6 DEF WorkerAdmit, WorkerFinish, Release, Become
      <4>2. /\ [task[p][s] EXCEPT !.pc = "work", !.seen = router].pc = "work"
            /\ [task[p][s] EXCEPT !.pc = "push"].pc = "push"
        BY <2>0, CarryOn
      <4> QED BY <3>1, <4>1, <4>2
    <3>7. CASE s = "estimate" /\ EstimateLook(p)
      <4>1. task'[p][s] = [task[p][s] EXCEPT !.seen = router, !.pc = "take"]
        BY <1>b, <3>7 DEF EstimateLook
      <4> QED BY <2>0, <4>1, CarryOn
    <3>8. CASE s = "estimate" /\ EstimateTake(p)
      <4>1. \/ task'[p][s] = StageTask("top")
            \/ task'[p][s] = [task[p][s] EXCEPT !.pc = "push", !.item = queue[p]["solved"][1]]
        BY <1>a, <3>8 DEF EstimateTake, Become
      <4>2. [task[p][s] EXCEPT !.pc = "push", !.item = queue[p]["solved"][1]].pc = "push"
        BY <2>0, CarryOn
      <4> QED BY <3>1, <4>1, <4>2
    <3> QED BY <1>3, <3>3, <3>4, <3>5, <3>6, <3>7, <3>8
  <2>2. /\ task[p][s].pc # "stopped" /\ done' = done /\ pre' = pre
        /\ running' = running \/ running' = FALSE
    BY <1>3 DEF WorkerTake, WorkerAdmit, WorkerFinish, PostFail, InferFail,
                EstimateLook, EstimateTake, EstimateTimeout
  <2>3. \A x \in Pipelines, y \in Queues :
          queue'[x][y] = queue[x][y] \/ queue'[x][y] = <<>>
    BY <1>3, <1>a, Names DEF WorkerTake, WorkerAdmit, WorkerFinish, PostFail, InferFail,
                      EstimateLook, EstimateTake, EstimateTimeout
  <2>4. \A y \in {"post", "estimate"} : y \in Stages /\ InputOf[y] \in Queues
    BY Names DEF Stages
  <2>5. \A x \in Pipelines, y \in Stages : ~(x = p /\ y = s) => task'[x][y] = task[x][y]
    BY <1>3, <1>a DEF WorkerTake, WorkerAdmit, WorkerFinish, PostFail, InferFail,
                      EstimateLook, EstimateTake, EstimateTimeout, Release, Become
  <2>6. \A x \in Pipelines, y \in {"post", "estimate"} :
          queue[x][InputOf[y]] = <<>> /\ queue'[x][InputOf[y]] # <<>> =>
            x = p /\ Upstream[y] = s
    BY <2>3, <2>4
  <2>7. /\ task[p][s].pc # "stopped" /\ done' = done /\ pre' = pre
        /\ running' = running \/ running' = FALSE
        /\ task'[p][s].pc = "ending" => task[p][s].pc = "ending" \/ running' = FALSE
    BY <2>1, <2>2
  <2> QED BY <2>5, <2>6, <2>7, TermWork
<1>4. ASSUME NEW s \in Stages,
             \/ s \in {"infer", "post"} /\ WorkerPush(p, s)
             \/ s = "estimate" /\ EstimatePush(p)
      PROVE  TermInv'
  <2>1. /\ task[p][s].pc = "push" /\ UNCHANGED <<done, pre, running>>
        /\ Become(p, s, StageTask("top"))
        /\ queue' = [queue EXCEPT ![p][OutputOf[s]] = <<task[p][s].item>>]
    BY <1>4 DEF WorkerPush, EstimatePush, PushLatest, Release, Become, OutputOf
  <2>2. StageTask("top").pc = "top"
    BY DEF StageTask
  <2>3. \A x \in Pipelines, y \in Queues :
          queue'[x][y] = queue[x][y] \/ (x = p /\ y = OutputOf[s])
    BY <1>a, <2>1
  <2>4. \A y \in {"post", "estimate"} : InputOf[y] \in Queues
          /\ (InputOf[y] = OutputOf[s] => Upstream[y] = s)
    BY DEF InputOf, OutputOf, Upstream, Queues, Stages
  <2>5. /\ task'[p][s].pc = "top"
        /\ \A x \in Pipelines, y \in Stages : ~(x = p /\ y = s) => task'[x][y] = task[x][y]
    BY <1>b, <2>1, <2>2
  <2>6. \A x \in Pipelines, y \in {"post", "estimate"} :
          queue[x][InputOf[y]] = <<>> /\ queue'[x][InputOf[y]] # <<>> =>
            x = p /\ Upstream[y] = s
    BY <2>3, <2>4
  <2>7. task[p][s].pc # "stopped" /\ done' = done /\ pre' = pre /\ running' = running
    BY <2>1
  <2> QED BY <2>5, <2>6, <2>7, TermWork
<1> QED
  BY <1>1, <1>2, <1>3, <1>4, Names DEF Stage, Infer, Post, Estimate, Worker

LEMMA TermEnd == Typed /\ TermInv /\ (Control \/ Can) => TermInv'
<1> SUFFICES ASSUME Typed, TermInv, Control \/ Can PROVE TermInv'
  OBVIOUS
<1>1. UNCHANGED <<done, pre, task>> /\ (running' = running \/ running' = FALSE)
  BY DEF Control, Can, CtlBroken, CtlTick, CtlStop, CtlPop, CtlClear, CtlReset,
         CanSend, CanFail, CanStop
<1>2. \A x \in Pipelines, y \in Queues : queue[x][y] = <<>> => queue'[x][y] = <<>>
  <2>1. queue \in [Pipelines -> [Queues -> Slots]]
    BY DEF Typed
  <2>2. CASE CtlPop
    BY <2>1, <2>2 DEF CtlPop
  <2>3. CASE CtlClear
    BY <2>1, <2>3 DEF CtlClear
  <2>4. CASE ~CtlPop /\ ~CtlClear
    BY <2>4 DEF Control, Can, CtlBroken, CtlTick, CtlStop, CtlReset,
                CanSend, CanFail, CanStop
  <2> QED BY <2>2, <2>3, <2>4
<1>3. \A y \in {"post", "estimate"} : InputOf[y] \in Queues
  BY DEF InputOf, Queues
<1> QED
  BY <1>1, <1>2, <1>3 DEF TermInv, FlagMeansStopped, StoppingMeansNotRunning, DrainedBeforeDone

LEMMA TermAlways == Spec => []TermInv
<1>1. Init => TermInv
  BY DEF Init, TermInv, FlagMeansStopped, StoppingMeansNotRunning, DrainedBeforeDone,
         StageTask, Stages
<1>2. Typed /\ TermInv /\ [Next]_vars => TermInv'
  <2> SUFFICES ASSUME Typed, TermInv, [Next]_vars PROVE TermInv'
    OBVIOUS
  <2>1. CASE \E p \in Pipelines : Stage(p)
    BY <2>1, TermStage
  <2>2. CASE Joined \/ UNCHANGED vars
    BY <2>2 DEF Joined, vars, TermInv, FlagMeansStopped, StoppingMeansNotRunning,
                DrainedBeforeDone
  <2> QED BY <2>1, <2>2, TermPre, TermEnd DEF Next, Stage
<1> QED BY <1>1, <1>2, AlwaysTyped, PTL DEF Spec

(* A completion flag tells the truth, whatever fails and however routes      *)
(* change: IS_RUNNING is false, the stage before it is done and the queue    *)
(* between them is empty.                                                    *)
THEOREM FlagsAreTrue == Spec => []FlagsAreTruthful
<1>1. TermInv => FlagsAreTruthful
  BY DEF TermInv, StoppingMeansNotRunning, IsRunningGoesFirst, FlagsAreTruthful
<1> QED BY <1>1, TermAlways, PTL


-----------------------------------------------------------------------------
(***************************************************************************)
(* Route transitions.  The clear cannot reach a frame in the hands of a     *)
(* task, so that is where frames of an earlier route come from: every       *)
(* variable that can hold one is followed to the next one it moves to.      *)
(***************************************************************************)

\* A frame of an earlier route escaped the last clear.
Accounted(item) == item.seq < router.transition_seq => item.id \in escaped

LastSeqFollows == ctl.pc # "clear" => ctl.lastSeq = router.transition_seq

\* What is being passed on was in passing at the last transition, or was taken
\* from a queue during or after the clear ...
PassedOn ==
  /\ pre.item # None => Accounted(pre.item)
  /\ \A p \in Pipelines, s \in Stages :
       task[p][s].item # None /\ task[p][s].pc # "work" => Accounted(task[p][s].item)

\* ... what is being computed may also be of an earlier route, and then the
\* second look at the router will tell ...
Computed ==
  \A p \in Pipelines, s \in Stages :
    task[p][s].pc = "work" =>
      /\ task[p][s].seen.transition_seq <= router.transition_seq
      /\ \/ Accounted(task[p][s].item)
         \/ task[p][s].seen.transition_seq < router.transition_seq

\* ... and the clear has passed over the queues before `cleared`.
Queued ==
  \A p \in Pipelines, q \in Queues :
    /\ queue[p][q] # <<>>
    /\ ctl.pc = "clear" => \E i \in 1 .. ctl.cleared : ClearOrder[i] = <<p, q>>
    => Accounted(queue[p][q][1])

Kept ==
  ctl.pc # "clear" =>
    \A p \in Pipelines : snapshot[p] # None => Accounted(snapshot[p])

StaleInv == LastSeqFollows /\ PassedOn /\ Computed /\ Queued /\ Kept



\* Steps of pre_process: what it pushes, and nothing else, is new in a queue.
LEMMA StalePre == Typed /\ StaleInv /\ Pre => StaleInv'
<1> SUFFICES ASSUME Typed, StaleInv, Pre PROVE StaleInv'
  OBVIOUS
<1>1. UNCHANGED <<router, ctl, task, snapshot, escaped>>
  BY DEF Pre, PreLook, PreRead, PrePush, PreEnd, PreError, PreDone
<1>2. LastSeqFollows' /\ Computed' /\ Kept'
  BY <1>1 DEF StaleInv, LastSeqFollows, Computed, Kept, Accounted
<1>3. PassedOn'
  <2>1. pre'.item # None => Accounted(pre.item)'
    <3>0. pre \in PreStates /\ router.transition_seq \in Nat
      BY DEF Typed, RouterStates
    <3>1. CASE PreRead
      <4>1. pre'.item.seq = router.transition_seq
        BY <3>1 DEF PreRead
      <4> QED BY <1>1, <3>0, <4>1 DEF Accounted
    <3>2. CASE PrePush \/ PreError
      <4>1. pre'.item = None
        BY <3>0, <3>2 DEF PrePush, PreError, PreStates
      <4> QED BY <4>1
    <3>3. CASE PreLook \/ PreEnd \/ PreDone
      <4>1. pre'.item = pre.item
        BY <3>0, <3>3 DEF PreLook, PreEnd, PreDone, PreStates
      <4> QED BY <1>1, <4>1 DEF StaleInv, PassedOn, Accounted
    <3> QED BY <3>1, <3>2, <3>3 DEF Pre
  <2> QED BY <1>1, <2>1 DEF StaleInv, PassedOn, Accounted
<1>4. Queued'
  <2>1. CASE PrePush
    <3>1. pre.item \in Items /\ pre.item # None /\ Accounted(pre.item)
      BY <2>1, PipelineAssumption DEF Typed, PrePush, StaleInv, PassedOn
    <3>2. PICK p \in Pipelines, q \in Queues : queue' = [queue EXCEPT ![p][q] = <<pre.item>>]
      BY <2>1, Names DEF PrePush, PushLatest
    <3>3. \A x \in Pipelines, y \in Queues :
            queue'[x][y] = queue[x][y] \/ queue'[x][y] = <<pre.item>>
      BY <3>2 DEF Typed
    <3>4. <<pre.item>>[1] = pre.item
      OBVIOUS
    <3> QED BY <1>1, <3>1, <3>3, <3>4 DEF StaleInv, Queued, Accounted
  <2>2. CASE ~PrePush
    <3>1. queue' = queue
      BY <2>2 DEF Pre, PreLook, PreRead, PreEnd, PreError, PreDone
    <3> QED BY <1>1, <3>1 DEF StaleInv, Queued, Accounted
  <2> QED BY <2>1, <2>2
<1> QED BY <1>2, <1>3, <1>4 DEF StaleInv

\* Steps of one task: enough to know what it carries next and what it leaves
\* in the queues.
LEMMA StaleTask ==
  ASSUME Typed, StaleInv, NEW p \in Pipelines, NEW s \in Stages,
         UNCHANGED <<router, ctl, pre, snapshot>>, escaped \subseteq escaped',
         \A x \in Pipelines, y \in Stages : ~(x = p /\ y = s) => task'[x][y] = task[x][y],
         task'[p][s].pc # "work" => task'[p][s].item = None \/ Accounted(task[p][s].item)',
         task'[p][s].pc = "work" =>
           /\ task'[p][s].seen.transition_seq <= router.transition_seq
           /\ Accounted(task[p][s].item)',
         \A x \in Pipelines, y \in Queues :
           \/ queue'[x][y] = queue[x][y] \/ queue'[x][y] = <<>>
           \/ Accounted(queue[x][y][1])'
  PROVE  StaleInv'
<1>1. LastSeqFollows' /\ Kept'
  BY DEF StaleInv, LastSeqFollows, Kept, Accounted
<1>2. PassedOn'
  BY DEF StaleInv, PassedOn, Accounted
<1>3. Computed'
  BY DEF StaleInv, Computed, Accounted
<1>4. Queued'
  BY DEF StaleInv, Queued, Accounted
<1> QED BY <1>1, <1>2, <1>3, <1>4 DEF StaleInv

\* A frame just taken is accounted for, by the clear that is under way if not
\* by the last one.
LEMMA StaleTaken ==
  ASSUME Typed, StaleInv, NEW p \in Pipelines, NEW q \in Queues, queue[p][q] # <<>>,
         HandOver(queue[p][q][1]), router' = router, queue[p][q][1] \in Items
  PROVE  /\ escaped \subseteq escaped'
         /\ \A item : item = queue[p][q][1] =>
              (item.seq < router'.transition_seq => item.id \in escaped')
  BY DEF StaleInv, Queued, Accounted, HandOver


LEMMA StaleStage == ASSUME Typed, StaleInv, NEW p \in Pipelines, Stage(p) PROVE StaleInv'
<1>a. task \in [Pipelines -> [Stages -> Carriers]]
      /\ queue \in [Pipelines -> [Queues -> Slots]]
      /\ router \in RouterStates /\ router.transition_seq \in Nat
  BY DEF Typed, RouterStates
<1>b. \A s \in Stages : \A state :
        Become(p, s, state) =>
          /\ task'[p][s] = state
          /\ \A x \in Pipelines, y \in Stages :
               ~(x = p /\ y = s) => task'[x][y] = task[x][y]
  BY <1>a DEF Become
<1>c. StageTask("top").pc = "top" /\ StageTask("top").item = None
      /\ StageTask("ending").pc = "ending" /\ StageTask("ending").item = None
  BY DEF StageTask
<1>1. ASSUME NEW s \in Stages, UNCHANGED <<router, ctl, pre, snapshot, escaped, queue>>,
             \/ Become(p, s, StageTask("top"))
             \/ Become(p, s, StageTask("ending"))
      PROVE  StaleInv'
  <2>1. /\ task'[p][s].pc # "work" /\ task'[p][s].item = None
        /\ \A x \in Pipelines, y \in Stages : ~(x = p /\ y = s) => task'[x][y] = task[x][y]
    BY <1>1, <1>b, <1>c
  <2> QED BY <1>1, <2>1, StaleTask
<1>2. ASSUME NEW s \in Stages, UNCHANGED <<router, ctl, pre, snapshot, escaped, queue>>,
             task[p][s].pc # "work",
             task'[p][s].item = task[p][s].item, task'[p][s].pc # "work",
             \A x \in Pipelines, y \in Stages : ~(x = p /\ y = s) => task'[x][y] = task[x][y]
      PROVE  StaleInv'
  <2>1. task'[p][s].item = None \/ Accounted(task[p][s].item)'
    BY <1>2 DEF StaleInv, PassedOn, Accounted
  <2> QED BY <1>2, <2>1, StaleTask
<1>3. ASSUME NEW s \in Stages, StageStop(p, s) \/ (s = "infer" /\ InferDone(p))
      PROVE  StaleInv'
  <2>1. task[p][s].pc # "work" /\ UNCHANGED <<router, ctl, pre, snapshot, escaped, queue>>
    BY <1>3 DEF StageStop, InferDone
  <2>2. Become(p, s, [task[p][s] EXCEPT !.pc = "stopped"])
    BY <1>3 DEF StageStop, InferDone
  <2>3. /\ [task[p][s] EXCEPT !.pc = "stopped"].pc = "stopped"
        /\ [task[p][s] EXCEPT !.pc = "stopped"].item = task[p][s].item
    BY <1>a DEF Carriers, TaskStates
  <2> QED BY <1>2, <1>b, <2>1, <2>2, <2>3
<1>4. CASE EstimateLook(p)
  <2>1. task[p]["estimate"].pc = "top"
        /\ UNCHANGED <<router, ctl, pre, snapshot, escaped, queue>>
    BY <1>4 DEF EstimateLook
  <2>2. Become(p, "estimate", [task[p]["estimate"] EXCEPT !.seen = router, !.pc = "take"])
    BY <1>4 DEF EstimateLook
  <2>3. /\ [task[p]["estimate"] EXCEPT !.seen = router, !.pc = "take"].pc = "take"
        /\ [task[p]["estimate"] EXCEPT !.seen = router, !.pc = "take"].item
             = task[p]["estimate"].item
    BY <1>a, Names DEF Carriers, TaskStates
  <2>4. "estimate" \in Stages
    BY Names
  <2>5. /\ task'[p]["estimate"].pc = "take"
        /\ task'[p]["estimate"].item = task[p]["estimate"].item
        /\ \A x \in Pipelines, y \in Stages :
             ~(x = p /\ y = "estimate") => task'[x][y] = task[x][y]
    BY <1>b, <2>2, <2>3, <2>4
  <2> QED BY <1>2, <2>1, <2>4, <2>5
<1>5. CASE InferFail(p) \/ PostFail(p) \/ EstimateTimeout(p)
  <2>1. UNCHANGED <<router, ctl, pre, snapshot, escaped, queue>>
    BY <1>5 DEF InferFail, PostFail, EstimateTimeout
  <2>2. CASE InferFail(p)
    BY <1>1, <2>1, <2>2, Names DEF InferFail
  <2>3. CASE PostFail(p)
    <3>1. Become(p, "post", StageTask("top"))
      BY <2>3 DEF PostFail, Release, Become
    <3> QED BY <1>1, <2>1, <3>1, Names
  <2>4. CASE EstimateTimeout(p)
    <3>1. Become(p, "estimate", StageTask("top"))
      BY <2>4 DEF EstimateTimeout, Release, Become
    <3> QED BY <1>1, <2>1, <3>1, Names
  <2> QED BY <1>5, <2>2, <2>3, <2>4
<1>6. ASSUME NEW s \in Stages, WorkerTake(p, s) PROVE StaleInv'
  <2> DEFINE item == queue[p][InputOf[s]][1]
  <2>1. /\ item \in Items /\ queue[p][InputOf[s]] # <<>> /\ HandOver(item)
        /\ UNCHANGED <<router, ctl, pre, snapshot>>
    BY <1>6, <1>a, Names, SlotItems DEF WorkerTake
  <2>2. /\ escaped \subseteq escaped'
        /\ item.seq < router'.transition_seq => item.id \in escaped'
    BY <2>1, Names, StaleTaken
  <2>3. /\ [task[p][s] EXCEPT !.pc = "admit", !.item = item].pc = "admit"
        /\ [task[p][s] EXCEPT !.pc = "admit", !.item = item].item = item
    BY <1>a DEF Carriers, TaskStates
  <2>4. Become(p, s, [task[p][s] EXCEPT !.pc = "admit", !.item = item])
    BY <1>6 DEF WorkerTake
  <2>5. /\ task'[p][s].pc = "admit" /\ task'[p][s].item = item
        /\ \A x \in Pipelines, y \in Stages : ~(x = p /\ y = s) => task'[x][y] = task[x][y]
    BY <1>b, <2>3, <2>4
  <2>6. \A x \in Pipelines, y \in Queues : queue'[x][y] = queue[x][y] \/ queue'[x][y] = <<>>
    BY <1>6, <1>a DEF WorkerTake
  <2>7. Accounted(task[p][s].item)'
    BY <2>2, <2>5 DEF Accounted
  <2> QED BY <2>1, <2>2, <2>5, <2>6, <2>7, StaleTask
<1>7. ASSUME NEW s \in Stages, WorkerAdmit(p, s) PROVE StaleInv'
  <2>1. CASE Active(p)
    <3>1. /\ task[p][s].pc = "admit" /\ UNCHANGED <<router, ctl, pre, snapshot, escaped, queue>>
          /\ Become(p, s, [task[p][s] EXCEPT !.pc = "work", !.seen = router])
      BY <1>7, <2>1 DEF WorkerAdmit
    <3>2. /\ [task[p][s] EXCEPT !.pc = "work", !.seen = router].pc = "work"
          /\ [task[p][s] EXCEPT !.pc = "work", !.seen = router].seen = router
          /\ [task[p][s] EXCEPT !.pc = "work", !.seen = router].item = task[p][s].item
      BY <1>a DEF Carriers, TaskStates
    <3>3. /\ task'[p][s].pc = "work" /\ task'[p][s].seen = router
          /\ task'[p][s].item = task[p][s].item
          /\ \A x \in Pipelines, y \in Stages : ~(x = p /\ y = s) => task'[x][y] = task[x][y]
      BY <1>b, <3>1, <3>2
    <3>4. task[p][s].item \in Items /\ task[p][s].item # None
      BY <1>a, <3>1, PipelineAssumption DEF Carriers
    <3>5. Accounted(task[p][s].item)'
      BY <3>1, <3>3, <3>4 DEF StaleInv, PassedOn, Accounted
    <3>6. task'[p][s].seen.transition_seq <= router.transition_seq
      BY <1>a, <3>3
    <3> QED BY <3>1, <3>3, <3>5, <3>6, StaleTask
  <2>2. CASE ~Active(p)
    BY <1>1, <1>7, <2>2 DEF WorkerAdmit, Release, Become
  <2> QED BY <2>1, <2>2
<1>8. ASSUME NEW s \in Stages, WorkerFinish(p, s) PROVE StaleInv'
  <2>1. CASE Superseded(p, s)
    BY <1>1, <1>8, <2>1 DEF WorkerFinish, Release, Become
  <2>2. CASE ~Superseded(p, s)
    <3>1. /\ task[p][s].pc = "work" /\ UNCHANGED <<router, ctl, pre, snapshot, escaped, queue>>
          /\ Become(p, s, [task[p][s] EXCEPT !.pc = "push"])
          /\ task[p][s].seen.transition_seq = router.transition_seq
      BY <1>8, <2>2 DEF WorkerFinish, Superseded
    <3>2. /\ [task[p][s] EXCEPT !.pc = "push"].pc = "push"
          /\ [task[p][s] EXCEPT !.pc = "push"].item = task[p][s].item
      BY <1>a DEF Carriers, TaskStates
    <3>3. /\ task'[p][s].pc = "push" /\ task'[p][s].item = task[p][s].item
          /\ \A x \in Pipelines, y \in Stages : ~(x = p /\ y = s) => task'[x][y] = task[x][y]
      BY <1>b, <3>1, <3>2
    <3>4. Accounted(task[p][s].item)
      BY <1>a, <3>1 DEF StaleInv, Computed
    <3>5. Accounted(task[p][s].item)'
      BY <3>1, <3>3, <3>4 DEF Accounted
    <3> QED BY <3>1, <3>3, <3>5, StaleTask
  <2> QED BY <2>1, <2>2
<1>9. ASSUME NEW s \in Stages, WorkerPush(p, s) \/ (s = "estimate" /\ EstimatePush(p))
      PROVE  StaleInv'
  <2>1. /\ task[p][s].pc = "push" /\ UNCHANGED <<router, ctl, pre, snapshot, escaped>>
        /\ Become(p, s, StageTask("top"))
    BY <1>9 DEF WorkerPush, EstimatePush, Release, Become
  <2>2. task[p][s].item \in Items /\ task[p][s].item # None
    BY <1>a, <2>1, PipelineAssumption DEF Carriers
  <2>3. Accounted(task[p][s].item)
    BY <2>1, <2>2 DEF StaleInv, PassedOn
  <2>4. PICK q \in Queues : queue' = [queue EXCEPT ![p][q] = <<task[p][s].item>>]
    BY <1>9, Names DEF WorkerPush, EstimatePush, PushLatest
  <2>5. \A x \in Pipelines, y \in Queues :
          queue'[x][y] = queue[x][y] \/ queue'[x][y] = <<task[p][s].item>>
    BY <1>a, <2>4
  <2>6. <<task[p][s].item>>[1] = task[p][s].item
    OBVIOUS
  <2>7. \A x \in Pipelines, y \in Queues :
          queue'[x][y] = queue[x][y] \/ Accounted(queue[x][y][1])'
    BY <2>1, <2>3, <2>5, <2>6 DEF Accounted
  <2>8. /\ task'[p][s].pc # "work" /\ task'[p][s].item = None
        /\ \A x \in Pipelines, y \in Stages : ~(x = p /\ y = s) => task'[x][y] = task[x][y]
    BY <1>b, <1>c, <2>1
  <2> QED BY <2>1, <2>7, <2>8, StaleTask
<1>10. CASE EstimateTake(p)
  <2> DEFINE item == queue[p]["solved"][1]
             next == [task[p]["estimate"] EXCEPT !.pc = "push", !.item = item]
  <2>1. /\ item \in Items /\ queue[p]["solved"] # <<>> /\ HandOver(item)
        /\ UNCHANGED <<router, ctl, pre, snapshot>>
    BY <1>10, <1>a, Names, SlotItems DEF EstimateTake
  <2>2. /\ escaped \subseteq escaped'
        /\ item.seq < router'.transition_seq => item.id \in escaped'
    BY <2>1, Names, StaleTaken
  <2>3. next.pc = "push" /\ next.item = item
    BY <1>a, Names DEF Carriers, TaskStates
  <2>4. Become(p, "estimate", next) \/ Become(p, "estimate", StageTask("top"))
    BY <1>10 DEF EstimateTake
  <2>5. /\ task'[p]["estimate"].pc # "work"
        /\ task'[p]["estimate"].item \in {item, None}
        /\ \A x \in Pipelines, y \in Stages :
             ~(x = p /\ y = "estimate") => task'[x][y] = task[x][y]
    BY <1>b, <1>c, <2>3, <2>4, Names
  <2>6. \A x \in Pipelines, y \in Queues : queue'[x][y] = queue[x][y] \/ queue'[x][y] = <<>>
    BY <1>10, <1>a DEF EstimateTake
  <2>7. task'[p]["estimate"].item = None \/ Accounted(task[p]["estimate"].item)'
    BY <2>2, <2>5 DEF Accounted
  <2>8. "estimate" \in Stages
    BY Names
  <2> HIDE DEF item, next
  <2> QED BY <2>1, <2>2, <2>5, <2>6, <2>7, <2>8, StaleTask
<1> QED
  BY <1>3, <1>4, <1>5, <1>6, <1>7, <1>8, <1>9, <1>10, Names
  DEF Stage, Infer, Post, Estimate, Worker

LEMMA StaleEnd == Typed /\ StaleInv /\ (Control \/ Can) => StaleInv'
<1> SUFFICES ASSUME Typed, StaleInv, Control \/ Can PROVE StaleInv'
  OBVIOUS
<1>a. ctl \in CtlStates /\ router \in RouterStates /\ router.transition_seq \in Nat
      /\ queue \in [Pipelines -> [Queues -> Slots]]
  BY DEF Typed, RouterStates
<1>b. UNCHANGED <<pre, task>>
  BY DEF Control, Can, CtlBroken, CtlTick, CtlStop, CtlPop, CtlClear, CtlReset,
         CanSend, CanFail, CanStop
<1>1. CASE Can \/ CtlBroken \/ CtlTick \/ CtlStop
  <2>1. UNCHANGED <<router, escaped, queue, snapshot>>
    BY <1>1 DEF Can, CtlBroken, CtlTick, CtlStop, CanSend, CanFail, CanStop
  <2>2. /\ ctl'.pc = "clear" <=> ctl.pc = "clear"
        /\ ctl'.lastSeq = ctl.lastSeq /\ ctl'.cleared = ctl.cleared
    BY <1>1, <1>a DEF Can, CtlBroken, CtlTick, CtlStop, CanSend, CanFail, CanStop, CtlStates
  <2> QED BY <1>b, <2>1, <2>2 DEF StaleInv, LastSeqFollows, PassedOn, Computed, Queued,
                                  Kept, Accounted
<1>2. CASE CtlPop
  <2>0. ctl.pc = "test" /\ ctl.lastSeq = router.transition_seq
    BY <1>2 DEF CtlPop, StaleInv, LastSeqFollows
  <2>1. router'.transition_seq >= router.transition_seq /\ router'.transition_seq \in Nat
    BY <1>2, <1>a, RouterSteps, PipelineAssumption DEF CtlPop, RouterStates
  <2>2. CASE router'.transition_seq = router.transition_seq
    <3>1. /\ ctl'.pc = "tick" /\ ctl'.lastSeq = ctl.lastSeq /\ escaped' = escaped
      BY <1>2, <1>a, <2>0, <2>2 DEF CtlPop, CtlStates
    <3>2. LastSeqFollows' /\ PassedOn' /\ Computed'
      BY <1>b, <2>0, <2>2, <3>1 DEF StaleInv, LastSeqFollows, PassedOn, Computed, Accounted
    <3>3. \A x \in Pipelines, y \in Queues : queue'[x][y] = queue[x][y] \/ queue'[x][y] = <<>>
      BY <1>2, <1>a DEF CtlPop
    <3>4. Queued'
      BY <2>0, <2>2, <3>1, <3>3 DEF StaleInv, Queued, Accounted
    <3>5. \A p \in Pipelines :
            \/ snapshot'[p] = snapshot[p]
            \/ queue[p]["track"] # <<>> /\ snapshot'[p] = queue[p]["track"][1]
      BY <1>2 DEF CtlPop
    <3>6. Kept'
      BY <2>0, <2>2, <3>1, <3>5, Names DEF StaleInv, Queued, Kept, Accounted
    <3> QED BY <3>2, <3>4, <3>6 DEF StaleInv
  <2>3. CASE router'.transition_seq # router.transition_seq
    <3>1. /\ ctl'.pc = "clear" /\ ctl'.cleared = 0 /\ escaped' = InPassing
      BY <1>2, <1>a, <2>0, <2>3 DEF CtlPop, CtlStates
    <3>2. LastSeqFollows' /\ Kept'
      BY <3>1 DEF LastSeqFollows, Kept
    <3>3. PassedOn'
      <4>1. pre'.item # None => pre'.item.id \in escaped'
        BY <1>b, <3>1 DEF InPassing
      <4>2. \A p \in Pipelines, s \in Stages :
              task'[p][s].item # None /\ task'[p][s].pc # "work"
                => task'[p][s].item.id \in escaped'
        <5> SUFFICES ASSUME NEW p \in Pipelines, NEW s \in Stages,
                            task[p][s].item # None, task[p][s].pc # "work"
                     PROVE  task[p][s].item.id \in InPassing
          BY <1>b, <3>1
        <5>1. /\ <<p, s>> \in {x \in Pipelines \X Stages :
                                 /\ task[x[1]][x[2]].item # None
                                 /\ task[x[1]][x[2]].pc # "work"}
              /\ <<p, s>>[1] = p /\ <<p, s>>[2] = s
          OBVIOUS
        <5> QED BY <5>1 DEF InPassing
      <4> QED BY <4>1, <4>2 DEF PassedOn, Accounted
    <3>4. Computed'
      <4> SUFFICES ASSUME NEW p \in Pipelines, NEW s \in Stages, task[p][s].pc = "work"
                   PROVE  task[p][s].seen.transition_seq < router'.transition_seq
        BY <1>b, <2>1 DEF Computed, Typed, Carriers, RouterStates
      <4>1. task[p][s].seen.transition_seq \in Nat
        BY DEF Typed, Carriers, RouterStates
      <4>2. task[p][s].seen.transition_seq <= router.transition_seq
        BY DEF StaleInv, Computed
      <4> QED BY <1>a, <2>1, <2>3, <4>1, <4>2
    <3>5. Queued'
      <4>1. 1 .. ctl'.cleared = {}
        BY <3>1
      <4> QED BY <3>1, <4>1 DEF Queued
    <3> QED BY <3>2, <3>3, <3>4, <3>5 DEF StaleInv
  <2> QED BY <2>2, <2>3
<1>3. CASE CtlClear
  <2> DEFINE next == ctl.cleared + 1
  <2>1. /\ ctl.pc = "clear" /\ UNCHANGED <<router, escaped, snapshot>>
        /\ ctl' = [ctl EXCEPT !.cleared = ctl.cleared + 1]
        /\ ctl.cleared < 8 /\ ctl.cleared \in 0 .. 8
    BY <1>3, <1>a, ClearCovers DEF CtlClear, CtlStates
  <2>2. ctl'.pc = "clear" /\ ctl'.cleared = next /\ next \in 1 .. 8
    BY <1>a, <2>1 DEF CtlStates
  <2>3. queue' = [queue EXCEPT ![ClearOrder[next][1]][ClearOrder[next][2]] = <<>>]
    BY <1>3 DEF CtlClear
  <2>4. ASSUME NEW x \in Pipelines, NEW y \in Queues, queue'[x][y] # <<>>,
               NEW i \in 1 .. next, ClearOrder[i] = <<x, y>>
        PROVE  queue'[x][y] = queue[x][y] /\ i \in 1 .. ctl.cleared
    <3>1. ClearOrder[next][1] \in Pipelines /\ ClearOrder[next][2] \in Queues
          /\ ClearOrder[next] = <<ClearOrder[next][1], ClearOrder[next][2]>>
      BY <2>2, ClearCovers
    <3>2. ClearOrder[next] # <<x, y>>
      BY <1>a, <2>3, <2>4, <3>1
    <3>3. i # next
      BY <2>4, <3>2
    <3>4. i \in 1 .. ctl.cleared
      BY <2>1, <3>3
    <3>5. queue'[x][y] = queue[x][y]
      BY <1>a, <2>3, <2>4, <3>1
    <3> QED BY <3>4, <3>5
  <2>5. Queued'
    BY <2>1, <2>2, <2>4 DEF StaleInv, Queued, Accounted
  <2> QED BY <1>b, <2>1, <2>2, <2>5 DEF StaleInv, LastSeqFollows, PassedOn, Computed,
                                        Kept, Accounted
<1>4. CASE CtlReset
  <2>1. /\ ctl.pc = "clear" /\ ctl.cleared = 8 /\ UNCHANGED <<router, escaped, queue>>
        /\ \A p \in Pipelines : snapshot'[p] = None
    BY <1>4, ClearCovers DEF CtlReset
  <2>2. ctl'.pc = "tick" /\ ctl'.lastSeq = router.transition_seq
    BY <1>4, <1>a DEF CtlReset, CtlStates
  <2>3. Queued'
    BY <2>1, <2>2, ClearCovers DEF StaleInv, Queued, Accounted
  <2>4. Kept'
    BY <2>1 DEF Kept
  <2>5. LastSeqFollows' /\ PassedOn' /\ Computed'
    BY <1>b, <2>1, <2>2 DEF StaleInv, LastSeqFollows, PassedOn, Computed, Accounted
  <2> QED BY <2>3, <2>4, <2>5 DEF StaleInv
<1> QED BY <1>1, <1>2, <1>3, <1>4 DEF Control

LEMMA StaleAlways == Spec => []StaleInv
<1>1. Init => StaleInv
  BY RouterSteps DEF Init, StaleInv, LastSeqFollows, PassedOn, Computed, Queued, Kept,
                     StageTask
<1>2. Typed /\ StaleInv /\ [Next]_vars => StaleInv'
  <2> SUFFICES ASSUME Typed, StaleInv, [Next]_vars PROVE StaleInv'
    OBVIOUS
  <2>1. CASE \E p \in Pipelines : Stage(p)
    BY <2>1, StaleStage
  <2>2. CASE Joined \/ UNCHANGED vars
    BY <2>2 DEF Joined, vars, StaleInv, LastSeqFollows, PassedOn, Computed, Queued, Kept,
                Accounted
  <2> QED BY <2>1, <2>2, StalePre, StaleEnd DEF Next, Stage
<1> QED BY <1>1, <1>2, AlwaysTyped, PTL DEF Spec

(* Whatever the modes, the faults and the interleaving: between two route    *)
(* transitions a frame of an earlier route is in a queue or in the           *)
(* controller's hands only if some task was passing it on while the queues   *)
(* were cleared.                                                             *)
THEOREM OnlyEscapedWorkIsStale == Spec => []StaleWorkEscapedTheClear
<1>1. StaleInv => StaleWorkEscapedTheClear
  <2> SUFFICES ASSUME StaleInv, ctl.pc # "clear", NEW item \in Stored
               PROVE  Accounted(item)
    BY DEF StaleWorkEscapedTheClear, Accounted
  <2>1. CASE \E p \in Pipelines, q \in Queues :
               queue[p][q] # <<>> /\ item = queue[p][q][1]
    BY <2>1 DEF StaleInv, Queued
  <2>2. CASE \E p \in Pipelines : snapshot[p] # None /\ item = snapshot[p]
    BY <2>2 DEF StaleInv, Kept
  <2> QED BY <2>1, <2>2 DEF Stored
<1> QED BY <1>1, StaleAlways, PTL

=============================================================================
