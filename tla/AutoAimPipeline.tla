--------------------------- MODULE AutoAimPipeline ---------------------------
(***************************************************************************)
(* The nine tasks of apps/auto_aim/src/rbt_threads.rs around the shared     *)
(* RuntimeRouter, the queues of capacity one between them, the completion   *)
(* flags and IS_RUNNING.                                                    *)
(*                                                                         *)
(*   pre_process > pre_infer > infer > infer_post > post > solved           *)
(*       > estimate > track > control_loop_250hz > control_tx > can_io        *)
(*                                                                         *)
(* once for armor and once for the energy mechanism, with pre_process,      *)
(* control and can shared.  A frame carries its task mode and two ghosts,   *)
(* an id and the router's transition number when pre_process read it; what  *)
(* is computed from a frame keeps all three.  A queue takes one latest-wins *)
(* step per push and per take, which is what LatestQueue shows of           *)
(* rbt_queue_async.rs.  What feedback a tick pops is FeedbackPath's         *)
(* subject: here it is any of the modes of SampleModes, or nothing new.     *)
(***************************************************************************)
EXTENDS Integers, Sequences, FiniteSets, RuntimeRouter

CONSTANTS
  SampleModes,     \* task modes the feedback may carry
  Faults,          \* what may fail: see FaultKinds
  MaxFrames,       \* bound: frames the video source delivers
  MaxTransitions,  \* bound: route transitions
  None             \* the None of an Option

\* No output in an infer session, no fire controller, CAN disabled (all three at
\* the start); an error of the preprocessing, the inference, the solver, CAN.
FaultKinds == {"session", "controller", "can_disabled",
               "preprocess", "model", "solver", "can"}

Items == [id : 1 .. MaxFrames, seq : 0 .. MaxTransitions, mode : TaskModes]

ASSUME PipelineAssumption ==
  /\ SampleModes \subseteq TaskModes
  /\ Faults \subseteq FaultKinds
  /\ MaxFrames \in Nat
  /\ MaxTransitions \in Nat
  /\ None \notin Items

VARIABLES
  running,    \* IS_RUNNING
  router,     \* the shared RuntimeRouter
  queue,      \* queue[p][q]: what RuntimePipelineQueues holds
  done,       \* the flags of RuntimePipelineCompletion that are set
  pre,        \* pre_process: [pc, item, frames]
  task,       \* task[p][s]: infer, post and estimate tasks: [pc, item, seen]
  ctl,        \* control_loop_250hz: [pc, empty, cleared, lastSeq]
  snapshot,   \* its latest_snapshot and latest_energy_snapshot
  controlTx,  \* control_tx_queue holds a command
  can,        \* can_io_process: "loop" or "stopped"
  escaped     \* ghost: frames some task held while the queues were cleared

vars == <<running, router, queue, done, pre, task, ctl, snapshot, controlTx, can,
          escaped>>

Pipelines == {"armor", "energy"}
Queues == {"pre_infer", "infer_post", "solved", "track"}
Stages == {"infer", "post", "estimate"}

InputOf == [infer |-> "pre_infer", post |-> "infer_post", estimate |-> "solved"]
OutputOf == [infer |-> "infer_post", post |-> "solved", estimate |-> "track"]
Upstream == [infer |-> "source", post |-> "infer", estimate |-> "post"]

\* source_done is one flag in the code, and both of its copies are set at once.
Flags == Pipelines \X ({"source"} \cup Stages)

Slots == {<<>>} \cup {<<i>> : i \in Items}
PreStates ==
  [pc : {"read", "fetch", "push", "ending", "stopped"}, item : Items \cup {None},
   frames : 0 .. MaxFrames]
TaskStates ==
  [pc : {"broken", "top", "take", "admit", "work", "push", "ending", "stopped"},
   item : Items \cup {None}, seen : RouterStates \cup {None}]
CtlStates ==
  [pc : {"broken", "tick", "test", "clear", "stopped"}, empty : BOOLEAN,
   cleared : 0 .. 8, lastSeq : 0 .. MaxTransitions]

Active(p) == IF p = "armor" THEN ArmorPipelineActive(router)
                            ELSE EnergyMechanismActive(router)

\* clear_for_route_transition: every queue of the armor pipeline, then of the other.
ClearOrder ==
  << <<"armor", "pre_infer">>, <<"armor", "infer_post">>, <<"armor", "solved">>,
     <<"armor", "track">>, <<"energy", "pre_infer">>, <<"energy", "infer_post">>,
     <<"energy", "solved">>, <<"energy", "track">> >>

StageTask(start) == [pc |-> start, item |-> None, seen |-> None]

\* An infer session may turn out to have no output, the fire controller may not
\* build, and CAN may be disabled.
Init ==
  /\ running = TRUE
  /\ router = NewRouter("AutoShot")
  /\ queue = [p \in Pipelines |-> [q \in Queues |-> <<>>]]
  /\ done = {}
  /\ pre = [pc |-> "read", item |-> None, frames |-> 0]
  /\ \E broken \in SUBSET Pipelines :
       /\ broken # {} => "session" \in Faults
       /\ task = [p \in Pipelines |-> [s \in Stages |->
                   StageTask(IF s = "infer" /\ p \in broken THEN "broken" ELSE "top")]]
  /\ \E start \in {"tick", "broken"} :
       /\ start = "broken" => "controller" \in Faults
       /\ ctl = [pc |-> start, empty |-> FALSE, cleared |-> 0, lastSeq |-> 0]
  /\ snapshot = [p \in Pipelines |-> None]
  /\ controlTx = FALSE
  /\ can \in {"loop", "stopped"}
  /\ can = "stopped" => "can_disabled" \in Faults
  /\ escaped = {}

PushLatest(p, q, item) == queue' = [queue EXCEPT ![p][q] = <<item>>]
Release(p, s) == task' = [task EXCEPT ![p][s] = StageTask("top")]
Become(p, s, state) == task' = [task EXCEPT ![p][s] = state]

\* Frames in the hands of a task that will not look at the router again before
\* it pushes them, or has not looked yet.
InPassing ==
  (IF pre.item = None THEN {} ELSE {pre.item.id}) \cup
  {task[ps[1]][ps[2]].item.id :
     ps \in {x \in Pipelines \X Stages : /\ task[x[1]][x[2]].item # None
                                         /\ task[x[1]][x[2]].pc # "work"}}

\* Ghost: a frame taken while the queues are being cleared escapes the clear.
HandOver(item) ==
  escaped' = IF ctl.pc = "clear" THEN escaped \cup {item.id} ELSE escaped

-----------------------------------------------------------------------------
(* pre_process, and run_video_preprocess_loop in its blocking thread *)

\* IS_RUNNING is looked at before a frame is read ...
PreLook ==
  /\ pre.pc = "read"
  /\ running
  /\ pre' = [pre EXCEPT !.pc = "fetch"]
  /\ UNCHANGED <<running, router, queue, done, task, ctl, snapshot, controlTx,
                 can, escaped>>

\* ... and the router after that.
PreRead ==
  /\ pre.pc = "fetch"
  /\ pre.frames < MaxFrames
  /\ pre' = [pc |-> "push", frames |-> pre.frames + 1,
             item |-> [id |-> pre.frames + 1, seq |-> router.transition_seq,
                       mode |-> router.task_mode]]
  /\ UNCHANGED <<running, router, queue, done, task, ctl, snapshot, controlTx,
                 can, escaped>>

\* After the resize, the frame goes to the pipeline of the route it read.
PrePush ==
  /\ pre.pc = "push"
  /\ PushLatest(IF RouteOf(pre.item.mode) = "EnergyMechanism" THEN "energy" ELSE "armor",
                "pre_infer", pre.item)
  /\ pre' = [pre EXCEPT !.pc = "read", !.item = None]
  /\ UNCHANGED <<running, router, done, task, ctl, snapshot, controlTx, can,
                 escaped>>

\* End of the video, an error of the reader or of the worker thread, or
\* IS_RUNNING is false: in every case IS_RUNNING goes first ...
PreEnd ==
  /\ pre.pc = "fetch" \/ (pre.pc = "read" /\ ~running)
  /\ pre' = [pre EXCEPT !.pc = "ending"]
  /\ running' = FALSE
  /\ UNCHANGED <<router, queue, done, task, ctl, snapshot, controlTx, can, escaped>>

\* (an error or a panic of the preprocessing also loses the frame in hand) ...
PreError ==
  /\ "preprocess" \in Faults
  /\ pre.pc = "push"
  /\ pre' = [pre EXCEPT !.pc = "ending", !.item = None]
  /\ running' = FALSE
  /\ UNCHANGED <<router, queue, done, task, ctl, snapshot, controlTx, can, escaped>>

\* ... and mark_source_done second.
PreDone ==
  /\ pre.pc = "ending"
  /\ pre' = [pre EXCEPT !.pc = "stopped"]
  /\ done' = done \cup {<<p, "source">> : p \in Pipelines}
  /\ UNCHANGED <<running, router, queue, task, ctl, snapshot, controlTx, can,
                 escaped>>

-----------------------------------------------------------------------------
(* infer, post_process and their energy mechanism counterparts *)

\* Mutant: a task that stops as soon as its queue is empty after IS_RUNNING
\* went false, without asking whether the stage before it is done.
StopWhenEmpty(p, s) == ~running /\ queue[p][InputOf[s]] = <<>>

\* The test at the top of every stage's loop.
MayStop(p, s) == <<p, Upstream[s]>> \in done /\ queue[p][InputOf[s]] = <<>>

\* `break`, and mark_..._done after the loop.  A task that waits in
\* pop_latest_until_running comes back to the test a timeout after IS_RUNNING
\* went false; IsRunningGoesFirst says that no flag is set before that.
StageStop(p, s) ==
  /\ task[p][s].pc = "top"
  /\ MayStop(p, s)
  /\ Become(p, s, [task[p][s] EXCEPT !.pc = "stopped"])
  /\ done' = done \cup {<<p, s>>}
  /\ UNCHANGED <<running, router, queue, pre, ctl, snapshot, controlTx, can,
                 escaped>>

\* pop_latest_until_running finds a frame.
WorkerTake(p, s) ==
  /\ task[p][s].pc = "top"
  /\ queue[p][InputOf[s]] # <<>>
  /\ Become(p, s, [task[p][s] EXCEPT !.pc = "admit", !.item = queue[p][InputOf[s]][1]])
  /\ queue' = [queue EXCEPT ![p][InputOf[s]] = <<>>]
  /\ HandOver(queue[p][InputOf[s]][1])
  /\ UNCHANGED <<running, router, done, pre, ctl, snapshot, controlTx, can>>

\* With the frame in hand the task looks at the router, and drops the frame if
\* its pipeline is off.
WorkerAdmit(p, s) ==
  /\ task[p][s].pc = "admit"
  /\ IF Active(p)
       THEN Become(p, s, [task[p][s] EXCEPT !.pc = "work", !.seen = router])
       ELSE Release(p, s)
  /\ UNCHANGED <<running, router, queue, done, pre, ctl, snapshot, controlTx,
                 can, escaped>>

\* Mutant: the result is pushed whatever became of the route meanwhile.
NeverSuperseded(p, s) == FALSE

\* The second look, when spawn_blocking returns.
Superseded(p, s) ==
  task[p][s].seen.transition_seq # router.transition_seq \/ ~Active(p)

WorkerFinish(p, s) ==
  /\ task[p][s].pc = "work"
  /\ IF Superseded(p, s)
       THEN Release(p, s)
       ELSE Become(p, s, [task[p][s] EXCEPT !.pc = "push"])
  /\ UNCHANGED <<running, router, queue, done, pre, ctl, snapshot, controlTx,
                 can, escaped>>

WorkerPush(p, s) ==
  /\ task[p][s].pc = "push"
  /\ PushLatest(p, OutputOf[s], task[p][s].item)
  /\ Release(p, s)
  /\ UNCHANGED <<running, router, done, pre, ctl, snapshot, controlTx, can,
                 escaped>>

\* The model fails, or has no output to begin with: IS_RUNNING ...
InferFail(p) ==
  /\ \/ task[p]["infer"].pc = "broken"
     \/ task[p]["infer"].pc = "work" /\ "model" \in Faults
  /\ Become(p, "infer", StageTask("ending"))
  /\ running' = FALSE
  /\ UNCHANGED <<router, queue, done, pre, ctl, snapshot, controlTx, can, escaped>>

\* Mutant: the early return forgets the completion flag.
InferGone(p) ==
  /\ task[p]["infer"].pc = "ending"
  /\ Become(p, "infer", [task[p]["infer"] EXCEPT !.pc = "stopped"])
  /\ UNCHANGED <<running, router, queue, done, pre, ctl, snapshot, controlTx,
                 can, escaped>>

\* ... then the flag.
InferDone(p) ==
  /\ task[p]["infer"].pc = "ending"
  /\ Become(p, "infer", [task[p]["infer"] EXCEPT !.pc = "stopped"])
  /\ done' = done \cup {<<p, "infer">>}
  /\ UNCHANGED <<running, router, queue, pre, ctl, snapshot, controlTx, can,
                 escaped>>

\* A frame that cannot be solved is logged and lost; the task goes on.
PostFail(p) ==
  /\ "solver" \in Faults
  /\ task[p]["post"].pc = "work"
  /\ Release(p, "post")
  /\ UNCHANGED <<running, router, queue, done, pre, ctl, snapshot, controlTx,
                 can, escaped>>

-----------------------------------------------------------------------------
(* estimate_process and energy_mechanism_estimate_process *)

\* Not done yet: a look at the router, and the wait for a result.  (A new
\* transition number also resets the tracker, whose state is not modelled.  A
\* task that finds its pipeline off sleeps and comes back to the test.)
EstimateLook(p) ==
  /\ task[p]["estimate"].pc = "top"
  /\ ~MayStop(p, "estimate")
  /\ Active(p)
  /\ Become(p, "estimate", [task[p]["estimate"] EXCEPT !.seen = router, !.pc = "take"])
  /\ UNCHANGED <<running, router, queue, done, pre, ctl, snapshot, controlTx,
                 can, escaped>>

\* A result for the other buff than the one the task saw selected is dropped.
Wanted(p, item) == p = "energy" => item.mode = task[p]["estimate"].seen.task_mode

EstimateTake(p) ==
  /\ task[p]["estimate"].pc = "take"
  /\ queue[p]["solved"] # <<>>
  /\ LET item == queue[p]["solved"][1] IN
       Become(p, "estimate", IF Wanted(p, item)
         THEN [task[p]["estimate"] EXCEPT !.pc = "push", !.item = item]
         ELSE StageTask("top"))
  /\ queue' = [queue EXCEPT ![p]["solved"] = <<>>]
  /\ HandOver(queue[p]["solved"][1])
  /\ UNCHANGED <<running, router, done, pre, ctl, snapshot, controlTx, can>>

\* pop_latest_with_timeout.
EstimateTimeout(p) ==
  /\ task[p]["estimate"].pc = "take"
  /\ queue[p]["solved"] = <<>>
  /\ Release(p, "estimate")
  /\ UNCHANGED <<running, router, queue, done, pre, ctl, snapshot, controlTx,
                 can, escaped>>

EstimatePush(p) ==
  /\ task[p]["estimate"].pc = "push"
  /\ PushLatest(p, "track", task[p]["estimate"].item)
  /\ Release(p, "estimate")
  /\ UNCHANGED <<running, router, done, pre, ctl, snapshot, controlTx, can,
                 escaped>>

-----------------------------------------------------------------------------
(* control_loop_250hz *)

\* FireControlController::new() fails.
CtlBroken ==
  /\ ctl.pc = "broken"
  /\ ctl' = [ctl EXCEPT !.pc = "stopped"]
  /\ running' = FALSE
  /\ UNCHANGED <<router, queue, done, pre, task, snapshot, controlTx, can, escaped>>

\* A tick looks at the two track queues first and at the flags afterwards.
CtlTick ==
  /\ ctl.pc = "tick"
  /\ ctl' = [ctl EXCEPT !.pc = "test",
                        !.empty = \A p \in Pipelines : queue[p]["track"] = <<>>]
  /\ UNCHANGED <<running, router, queue, done, pre, task, snapshot, controlTx,
                 can, escaped>>

CtlMayStop == ctl.empty /\ \A p \in Pipelines : <<p, "estimate">> \in done

CtlStop ==
  /\ ctl.pc = "test"
  /\ CtlMayStop
  /\ ctl' = [ctl EXCEPT !.pc = "stopped", !.empty = FALSE]
  /\ UNCHANGED <<running, router, queue, done, pre, task, snapshot, controlTx,
                 can, escaped>>

\* Both track queues and the feedback are popped, and the newest feedback is
\* applied to the router.  Only this task writes the router, so with nothing
\* new (None) the application repeats the last one and changes nothing.
CtlPop ==
  /\ ctl.pc = "test"
  /\ ~CtlMayStop
  /\ snapshot' = [p \in Pipelines |-> IF queue[p]["track"] = <<>> THEN snapshot[p]
                                      ELSE queue[p]["track"][1]]
  /\ queue' = [p \in Pipelines |-> [queue[p] EXCEPT !["track"] = <<>>]]
  /\ \E mode \in SampleModes \cup {None} :
       router' = IF mode = None THEN router ELSE ApplyFeedback(router, mode)
  /\ router'.transition_seq <= MaxTransitions
  /\ ctl' = IF router'.transition_seq # ctl.lastSeq
            THEN [ctl EXCEPT !.pc = "clear", !.empty = FALSE, !.cleared = 0]
            ELSE [ctl EXCEPT !.pc = "tick", !.empty = FALSE]
  /\ controlTx' = (controlTx \/ ctl'.pc = "tick")
  /\ escaped' = IF ctl'.pc = "clear" THEN InPassing ELSE escaped
  /\ UNCHANGED <<running, done, pre, task, can>>

CtlClear ==
  /\ ctl.pc = "clear"
  /\ ctl.cleared < Len(ClearOrder)
  /\ LET next == ClearOrder[ctl.cleared + 1] IN
       queue' = [queue EXCEPT ![next[1]][next[2]] = <<>>]
  /\ ctl' = [ctl EXCEPT !.cleared = ctl.cleared + 1]
  /\ UNCHANGED <<running, router, done, pre, task, snapshot, controlTx, can, escaped>>

\* Both controllers are reset and both snapshots forgotten; the tick ends with
\* a push like any other.
CtlReset ==
  /\ ctl.pc = "clear"
  /\ ctl.cleared = Len(ClearOrder)
  /\ snapshot' = [p \in Pipelines |-> None]
  /\ ctl' = [ctl EXCEPT !.pc = "tick", !.cleared = 0, !.lastSeq = router.transition_seq]
  /\ controlTx' = TRUE
  /\ UNCHANGED <<running, router, queue, done, pre, task, can, escaped>>

-----------------------------------------------------------------------------
(* can_io_process, its sending half *)

CanSend ==
  /\ can = "loop"
  /\ controlTx
  /\ controlTx' = FALSE
  /\ UNCHANGED <<running, router, queue, done, pre, task, ctl, snapshot, can,
                 escaped>>

\* The interface cannot be opened, or a receive or a send fails.
CanFail ==
  /\ "can" \in Faults
  /\ can = "loop"
  /\ can' = "stopped"
  /\ running' = FALSE
  /\ controlTx' \in {controlTx, FALSE}
  /\ UNCHANGED <<router, queue, done, pre, task, ctl, snapshot, escaped>>

CanStop ==
  /\ can = "loop"
  /\ \A p \in Pipelines : <<p, "estimate">> \in done
  /\ ~controlTx
  /\ can' = "stopped"
  /\ UNCHANGED <<running, router, queue, done, pre, task, ctl, snapshot,
                 controlTx, escaped>>

-----------------------------------------------------------------------------

Pre == PreLook \/ PreRead \/ PrePush \/ PreEnd \/ PreError \/ PreDone
Worker(p, s) ==
  \/ StageStop(p, s) \/ WorkerTake(p, s) \/ WorkerAdmit(p, s)
  \/ WorkerFinish(p, s) \/ WorkerPush(p, s)
Infer(p) == Worker(p, "infer") \/ InferFail(p) \/ InferDone(p)
Post(p) == Worker(p, "post") \/ PostFail(p)
Estimate(p) ==
  \/ StageStop(p, "estimate")
  \/ EstimateLook(p) \/ EstimateTake(p) \/ EstimateTimeout(p) \/ EstimatePush(p)
Control ==
  \/ CtlBroken \/ CtlTick \/ CtlStop \/ CtlPop \/ CtlClear \/ CtlReset
Can == CanSend \/ CanFail \/ CanStop

AllStopped ==
  /\ pre.pc = "stopped"
  /\ \A p \in Pipelines, s \in Stages : task[p][s].pc = "stopped"
  /\ ctl.pc = "stopped"
  /\ can = "stopped"

\* main joined its nine tasks.
Joined ==
  /\ AllStopped
  /\ UNCHANGED vars

Next ==
  \/ Pre
  \/ \E p \in Pipelines : Infer(p) \/ Post(p) \/ Estimate(p)
  \/ Control
  \/ Can
  \/ Joined

Spec == Init /\ [][Next]_vars

\* Each task is polled again and again, every wait below it is a timeout or
\* runs out with the data it waits for, and the video has an end.  A failure is
\* never promised.
Fairness ==
  /\ WF_vars(Pre)
  /\ \A p \in Pipelines :
       /\ WF_vars(Infer(p))
       /\ WF_vars(Post(p))
       /\ WF_vars(Estimate(p))
  /\ WF_vars(Control)
  /\ WF_vars(CanSend \/ CanStop)

FairSpec == Spec /\ Fairness

-----------------------------------------------------------------------------
(* Properties *)

TypeOK ==
  /\ running \in BOOLEAN
  /\ router \in RouterStates /\ router.transition_seq <= MaxTransitions
  /\ queue \in [Pipelines -> [Queues -> Slots]]
  /\ done \subseteq Flags
  /\ pre \in PreStates
  /\ task \in [Pipelines -> [Stages -> TaskStates]]
  /\ ctl \in CtlStates
  /\ snapshot \in [Pipelines -> Items \cup {None}]
  /\ controlTx \in BOOLEAN
  /\ can \in {"loop", "stopped"}
  /\ escaped \subseteq 1 .. MaxFrames

\* The frames in the queues and in the controller's hands.
Stored ==
  {queue[pq[1]][pq[2]][1] : pq \in {x \in Pipelines \X Queues : queue[x[1]][x[2]] # <<>>}}
  \cup {snapshot[p] : p \in {x \in Pipelines : snapshot[x] # None}}

(* Between two transitions, a frame of an earlier route can only be in a      *)
(* queue or in the controller's hands if some task was passing it on while    *)
(* the queues were cleared: the clear misses no queue and no snapshot, and    *)
(* what was being computed at the transition is always discarded.             *)
StaleWorkEscapedTheClear ==
  ctl.pc # "clear" =>
    \A item \in Stored : item.seq < router.transition_seq => item.id \in escaped

(* When a stage of a pipeline reports that it is done, so did the stage       *)
(* before it, and nothing is left in between.  (An infer stage whose model    *)
(* failed leaves its own queue as it is.)                                     *)
DrainedBeforeDone ==
  \A p \in Pipelines, s \in {"post", "estimate"} :
    <<p, s>> \in done => <<p, Upstream[s]>> \in done /\ queue[p][InputOf[s]] = <<>>

(* IS_RUNNING goes false before any completion flag is set.  A stage only     *)
(* looks at its flag again after a timeout that finds IS_RUNNING false, so a  *)
(* flag that came first could leave it waiting for good.                      *)
IsRunningGoesFirst == done # {} => ~running

(* A completion flag tells the truth about everything a task that reads it    *)
(* concludes from it.                                                         *)
FlagsAreTruthful == IsRunningGoesFirst /\ DrainedBeforeDone

(* A result that slipped past a transition sits in front of an estimator that *)
(* is asleep because its pipeline is off, and nothing will take it.           *)
Stranded ==
  \E p \in Pipelines :
    <<p, "post">> \in done /\ queue[p]["solved"] # <<>> /\ ~Active(p)

(* The end of the video, and every failure that clears IS_RUNNING, lets main  *)
(* join all nine tasks; the one exception is a stranded result.               *)
ShutdownUnlessStranded == ~running ~> (AllStopped \/ []Stranded)

(* log texts of rbt_threads.rs, "Stopping processing as IS_RUNNING is false": *)
(* every task stops once IS_RUNNING is false, without exception.              *)
Shutdown == ~running ~> AllStopped

(* architecture.md: clearing the queues on a route change keeps frames,       *)
(* solutions and target snapshots of the old mode out of the new one.         *)
RouteChangeDropsOldWork ==
  ctl.pc # "clear" =>
    \A p \in Pipelines :
      Active(p) /\ snapshot[p] # None => snapshot[p].seq = router.transition_seq

=============================================================================
