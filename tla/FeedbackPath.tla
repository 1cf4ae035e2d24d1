---------------------------- MODULE FeedbackPath -----------------------------
(***************************************************************************)
(* How a sample of the MCU becomes the feedback a control tick acts on.     *)
(*                                                                         *)
(*   MCU -> CAN bus -> FeedbackPairDecoder (can_io_process)                 *)
(*       -> feedback_queue -> control_loop_250hz                            *)
(*                ^    |                                                    *)
(*                +----+ pre_process takes and pushes again, every frame    *)
(*                                                                         *)
(* A sample travels as two frames, the head with the task mode and the tail *)
(* with the fire permit; either may be lost.  feedback_queue holds one      *)
(* item and has two producers and two consumers.                            *)
(***************************************************************************)
EXTENDS Integers, Sequences, RuntimeRouter

CONSTANTS
  SampleModes,     \* task modes the MCU reports
  OfflineMode,     \* general_cfg.offline_task_mode()
  PairTimeout,     \* FEEDBACK_PAIR_TIMEOUT_MS, in units of `now`
  StaleTimeout,    \* FEEDBACK_STALE_TIMEOUT_MS, in units of `now`
  MaxSamples,      \* bound: samples the MCU sends
  MaxTime,         \* bound: the clock stops here
  None             \* the None of an Option

ASSUME FeedbackAssumption ==
  /\ SampleModes \subseteq TaskModes
  /\ OfflineMode \in TaskModes
  /\ PairTimeout \in Nat
  /\ StaleTimeout \in Nat
  /\ MaxSamples \in Nat
  /\ MaxTime \in Nat

VARIABLES
  now,          \* the monotonic clock
  sample,       \* [n, mode, permit] of the MCU's current sample
  unsent,       \* frames of it not yet on the bus: subset of {"head", "tail"}
  pendingHead,  \* FeedbackPairDecoder.pending_head, or None
  feedbackQueue,\* feedback_queue, at most one item
  prePc,        \* pre_process: "start", "take", "repush" or "stopped"
  preFeedback,  \* its local latest_feedback
  router,       \* the shared RuntimeRouter
  ctlFeedback,  \* control_loop_250hz: latest_feedback, or None
  ctlStamp,     \* the Instant stored beside it
  lastRouteSeq, \* its last_route_seq
  used,         \* the feedback the last tick acted on
  ctlTicked,    \* the control loop has run since the clock last moved
  handoff,      \* ghost: when feedback_queue last received anything
  received      \* ghost: the frames that have arrived, as <<part, sample>>

canVars == <<sample, unsent, pendingHead, received>>
preVars == <<prePc, preFeedback>>
ctlVars == <<router, ctlFeedback, ctlStamp, lastRouteSeq, used>>
vars == <<now, canVars, feedbackQueue, preVars, ctlVars, ctlTicked, handoff>>

Samples == [n : 0 .. MaxSamples, mode : TaskModes, permit : BOOLEAN]

\* A SensData: the head's sample and task mode, the tail's sample and permit,
\* and (ghost) when the tail was received.
Feedbacks == [head : 0 .. MaxSamples, tail : 0 .. MaxSamples, mode : TaskModes,
              permit : BOOLEAN, tailAt : 0 .. MaxTime]

\* default_feedback: the configured mode, and no permission to fire.
DefaultFeedback ==
  [head |-> 0, tail |-> 0, mode |-> OfflineMode, permit |-> FALSE, tailAt |-> 0]

Init ==
  /\ now = 0
  /\ sample = [n |-> 0, mode |-> OfflineMode, permit |-> FALSE]
  /\ unsent = {}
  /\ pendingHead = None
  /\ feedbackQueue = <<>>
  /\ prePc = "start"
  /\ preFeedback = DefaultFeedback
  /\ router = NewRouter("AutoShot")
  /\ ctlFeedback = None
  /\ ctlStamp = 0
  /\ lastRouteSeq = 0
  /\ used = DefaultFeedback
  /\ ctlTicked = FALSE
  /\ handoff = 0
  /\ received = {}

\* push_latest on a queue of capacity one.
PushFeedback(fb) ==
  /\ feedbackQueue' = <<fb>>
  /\ handoff' = now

-----------------------------------------------------------------------------
(* The MCU and the CAN receive half of can_io_process *)

\* External: the MCU samples its state; what was not sent of the last one never is.
McuSample ==
  /\ sample.n < MaxSamples
  /\ \E mode \in SampleModes, permit \in BOOLEAN :
       sample' = [n |-> sample.n + 1, mode |-> mode, permit |-> permit]
  /\ unsent' = {"head", "tail"}
  /\ UNCHANGED <<now, pendingHead, received, feedbackQueue, preVars, ctlVars,
                 ctlTicked, handoff>>

\* External: a frame leaves the MCU and is lost on the bus.
FrameLost ==
  /\ unsent # {}
  /\ unsent' = unsent \ {IF "head" \in unsent THEN "head" ELSE "tail"}
  /\ UNCHANGED <<now, sample, pendingHead, received, feedbackQueue, preVars,
                 ctlVars, ctlTicked, handoff>>

\* Mutant: a head that is pending is not replaced.
FirstHeadStays(head) == IF pendingHead = None THEN head ELSE pendingHead

\* A head replaces whatever was pending.
PendingAfter(head) == head

\* FeedbackPairDecoder::push of a head.
HeadArrives ==
  /\ "head" \in unsent
  /\ unsent' = unsent \ {"head"}
  /\ pendingHead' = PendingAfter([n |-> sample.n, mode |-> sample.mode, at |-> now])
  /\ received' = received \cup {<<"head", sample.n>>}
  /\ UNCHANGED <<now, sample, feedbackQueue, preVars, ctlVars, ctlTicked, handoff>>

\* Mutant: the head is copied, not taken.
PairAgain(head) == head

PairInTime(head) == now - head.at <= PairTimeout
HeadAfterPairing(head) == None

\* FeedbackPairDecoder::push of a tail, and the push_latest of a complete pair.
\* A pair that took too long is refused, and so is one deserialize_pair finds
\* corrupted; either way the head is gone.
TailArrives ==
  /\ unsent = {"tail"}
  /\ unsent' = {}
  /\ received' = received \cup {<<"tail", sample.n>>}
  /\ IF pendingHead = None
       THEN UNCHANGED <<pendingHead, feedbackQueue, handoff>>
       ELSE /\ pendingHead' = HeadAfterPairing(pendingHead)
            /\ \/ /\ PairInTime(pendingHead)
                  /\ PushFeedback([head |-> pendingHead.n, tail |-> sample.n,
                                   mode |-> pendingHead.mode,
                                   permit |-> sample.permit, tailAt |-> now])
               \/ UNCHANGED <<feedbackQueue, handoff>>
  /\ UNCHANGED <<now, sample, preVars, ctlVars, ctlTicked>>

-----------------------------------------------------------------------------
(* run_video_preprocess_loop, as far as feedback goes *)

\* Before the first frame the offline feedback goes into the queue.
PreStart ==
  /\ prePc = "start"
  /\ prePc' = "take"
  /\ PushFeedback(preFeedback)
  /\ UNCHANGED <<now, canVars, preFeedback, ctlVars, ctlTicked>>

\* A frame was read: adopt what is in the queue, if anything is.
PreTake ==
  /\ prePc = "take"
  /\ prePc' = "repush"
  /\ IF feedbackQueue = <<>>
       THEN UNCHANGED <<feedbackQueue, preFeedback>>
       ELSE /\ preFeedback' = feedbackQueue[1]
            /\ feedbackQueue' = <<>>
  /\ UNCHANGED <<now, canVars, ctlVars, ctlTicked, handoff>>

\* ... and push it again, for the control loop.
PreRepush ==
  /\ prePc = "repush"
  /\ prePc' = "take"
  /\ PushFeedback(preFeedback)
  /\ UNCHANGED <<now, canVars, preFeedback, ctlVars, ctlTicked>>

\* The video ends, or IS_RUNNING is false.
PreStop ==
  /\ prePc = "take"
  /\ prePc' = "stopped"
  /\ UNCHANGED <<now, canVars, feedbackQueue, preFeedback, ctlVars, ctlTicked, handoff>>

-----------------------------------------------------------------------------
(* control_loop_250hz, as far as feedback goes *)

\* Mutant: the gate never closes.
AlwaysFresh(stamp) == TRUE

FeedbackFresh(stamp) == now - stamp <= StaleTimeout

\* One tick: pop, stamp, route, stamp again on a transition, then the fresh gate.
ControlTick ==
  LET popped   == feedbackQueue # <<>>
      feedback == IF popped THEN feedbackQueue[1] ELSE ctlFeedback
      update   == IF feedback = None THEN router ELSE ApplyFeedback(router, feedback.mode)
      stamp    == IF popped \/ update.transition_seq # lastRouteSeq THEN now ELSE ctlStamp
      fresh    == feedback # None /\ FeedbackFresh(stamp)
  IN /\ feedbackQueue' = <<>>
     /\ ctlFeedback' = feedback
     /\ router' = update
     /\ ctlStamp' = stamp
     /\ lastRouteSeq' = update.transition_seq
     /\ used' = IF fresh THEN feedback ELSE DefaultFeedback
     /\ ctlTicked' = TRUE
     /\ UNCHANGED <<now, canVars, preVars, handoff>>

\* The clock moves; 250 Hz is fast enough for a tick in every unit of time.
Elapse ==
  /\ now < MaxTime
  /\ ctlTicked
  /\ now' = now + 1
  /\ ctlTicked' = FALSE
  /\ UNCHANGED <<canVars, feedbackQueue, preVars, ctlVars, handoff>>

Next ==
  \/ McuSample \/ FrameLost \/ HeadArrives \/ TailArrives
  \/ PreStart \/ PreTake \/ PreRepush \/ PreStop
  \/ ControlTick
  \/ Elapse

Spec == Init /\ [][Next]_vars

-----------------------------------------------------------------------------
(* Properties *)

TypeOK ==
  /\ now \in 0 .. MaxTime
  /\ sample \in Samples
  /\ unsent \subseteq {"head", "tail"}
  /\ pendingHead # None =>
       pendingHead \in [n : 0 .. MaxSamples, mode : TaskModes, at : 0 .. MaxTime]
  /\ feedbackQueue \in Seq(Feedbacks) /\ Len(feedbackQueue) <= 1
  /\ prePc \in {"start", "take", "repush", "stopped"}
  /\ preFeedback \in Feedbacks
  /\ router \in RouterStates
  /\ ctlFeedback # None => ctlFeedback \in Feedbacks
  /\ ctlStamp \in 0 .. MaxTime
  /\ lastRouteSeq \in Nat
  /\ used \in Feedbacks
  /\ ctlTicked \in BOOLEAN
  /\ handoff \in 0 .. MaxTime
  /\ received \subseteq {"head", "tail"} \X (0 .. MaxSamples)

\* The feedbacks some task could act on.
Queued == {feedbackQueue[i] : i \in 1 .. Len(feedbackQueue)}
Held == {preFeedback, used} \cup Queued \cup ({ctlFeedback} \ {None})

(* The task mode of one sample goes with the permission to fire of another    *)
(* only where the bus lost every frame in between: the tail of the one, the  *)
(* head of the other, and both of each sample they enclose.  One lost frame  *)
(* alone never mixes two samples, for the next head replaces the pending one *)
(* and the next tail takes it.                                               *)
MixedOnlyAcrossLosses ==
  \A fb \in Held :
    /\ \A n \in fb.head + 1 .. fb.tail : <<"head", n>> \notin received
    /\ \A n \in fb.head .. fb.tail - 1 : <<"tail", n>> \notin received

(* A head is used once: every pair the decoder releases carries a newer head *)
(* than the pair before it, so one lost head never revives its predecessor.  *)
HeadsAreUsedOnce ==
  [][TailArrives /\ handoff' = now /\ feedbackQueue' # feedbackQueue =>
       \A fb \in Held : feedbackQueue'[1].head > fb.head]_vars

(* Once neither CAN nor pre_process has handed anything over for longer than *)
(* the stale timeout (plus the tick in which the item was waiting), control  *)
(* acts on default_feedback: the MCU's permission to fire does not survive.  *)
SilenceRevokesPermit ==
  ctlTicked /\ used.permit => now - handoff <= StaleTimeout + 1

(* architecture.md, FreshGate: feedback of the MCU counts as stale after     *)
(* 500 ms.  One unit of slack covers the time an item waits to be popped.    *)
FreshMeansRecent ==
  ctlTicked /\ used.permit => now - used.tailAt <= StaleTimeout + 1

(* rbt_queue_async.rs, "latest sample wins": the control loop, having acted  *)
(* on one sample of the MCU, never goes back to an earlier one.  The offline *)
(* feedback that pre_process starts with is no sample.                       *)
NewestSampleWins ==
  [][ctlFeedback # None /\ ctlFeedback'.head # 0 =>
       ctlFeedback'.head >= ctlFeedback.head]_ctlFeedback

=============================================================================
