-------------------------- MODULE FeedbackPathProofs -------------------------
(***************************************************************************)
(* The feedback path for every timeout, any number of samples and any time. *)
(*                                                                         *)
(* The invariant is about the feedbacks anyone still holds and the frames   *)
(* that have arrived.  A new feedback is made only where a tail meets a     *)
(* head, so each step holds nothing new (or only the default), or one pair; *)
(* and a frame that arrives is newer than all that is held.                 *)
(***************************************************************************)
EXTENDS FeedbackPath, TLAPS

\* Since the head `h` and before the tail `t` no frame of another sample arrived.
NothingBetween(h, t) ==
  /\ \A n \in h + 1 .. t : <<"head", n>> \notin received
  /\ \A n \in h .. t - 1 : <<"tail", n>> \notin received

HeldIsUnmixed == \A fb \in Held : NothingBetween(fb.head, fb.tail)

\* What has arrived was sent, and what is unsent has not arrived; so no frame that
\* is still to come can lie between the head and the tail of what is held.
ArrivedWasSent ==
  /\ sample.n = 0 => unsent = {}
  /\ \A f \in received : f[2] <= sample.n
  /\ "head" \in unsent => <<"head", sample.n>> \notin received /\ "tail" \in unsent
  /\ "tail" \in unsent => <<"tail", sample.n>> \notin received
  /\ \A fb \in Held : fb.tail <= sample.n /\ (fb.tail = sample.n => unsent = {})
  /\ pendingHead # None =>
       /\ \A n \in pendingHead.n + 1 .. sample.n : <<"head", n>> \notin received
       /\ \A n \in pendingHead.n .. sample.n : <<"tail", n>> \notin received

\* A pending head, and one still to be sent, are newer than all that is held.
HeadsAreNew ==
  /\ \A fb \in Held : fb.head <= sample.n
  /\ pendingHead # None =>
       /\ pendingHead.n <= sample.n
       /\ pendingHead.at <= now
       /\ \A fb \in Held : fb.head < pendingHead.n
  /\ "head" \in unsent => \A fb \in Held : fb.head < sample.n

\* The stamp is at most one tick behind what was handed over, because a tick
\* that pops nothing sees no transition and stamps nothing.
StampFollowsHandoff ==
  /\ handoff <= now
  /\ ctlStamp <= handoff + 1
  /\ feedbackQueue # <<>> => now <= handoff + 1 /\ (ctlTicked => handoff = now)
  /\ lastRouteSeq = router.transition_seq
  /\ ctlFeedback # None => router.route = RouteOf(ctlFeedback.mode)
  /\ ctlTicked /\ used.permit => now - ctlStamp <= StaleTimeout

IInv == TypeOK /\ HeldIsUnmixed /\ ArrivedWasSent /\ HeadsAreNew /\ StampFollowsHandoff

-----------------------------------------------------------------------------
(* Types *)

LEMMA RouteOfType == ASSUME NEW mode \in TaskModes PROVE RouteOf(mode) \in ModeRoutes
BY DEF TaskModes, ModeRoutes, RouteOf

LEMMA ApplyFeedbackType ==
  ASSUME NEW r \in RouterStates, NEW mode \in TaskModes
  PROVE  ApplyFeedback(r, mode) \in RouterStates
BY RouteOfType DEF ApplyFeedback, RouterStates

LEMMA DefaultType == DefaultFeedback \in Feedbacks
BY FeedbackAssumption DEF DefaultFeedback, Feedbacks

\* A queue of at most one feedback, and what a push makes of it.
LEMMA OneQueued ==
  ASSUME NEW fb \in Feedbacks
  PROVE  /\ <<fb>> \in Seq(Feedbacks) /\ Len(<<fb>>) = 1 /\ <<fb>>[1] = fb
         /\ <<>> \in Seq(Feedbacks) /\ Len(<<>>) = 0 /\ <<fb>> # <<>>
OBVIOUS

LEMMA QueueFacts ==
  ASSUME TypeOK
  PROVE  /\ feedbackQueue = <<>> => Queued = {}
         /\ feedbackQueue # <<>> =>
              /\ Len(feedbackQueue) = 1 /\ feedbackQueue[1] \in Feedbacks
              /\ Queued = {feedbackQueue[1]}
<1>0. feedbackQueue \in Seq(Feedbacks) /\ Len(feedbackQueue) <= 1
  BY DEF TypeOK
<1>1. feedbackQueue \in Seq(Feedbacks) /\ Len(feedbackQueue) \in {0, 1}
  <2>1. Len(feedbackQueue) \in Nat
    BY <1>0
  <2>2. \A n \in Nat : n <= 1 => n \in {0, 1}
    OBVIOUS
  <2> QED
    BY <1>0, <2>1, <2>2
<1>2. CASE Len(feedbackQueue) = 0
  BY <1>1, <1>2 DEF Queued
<1>3. CASE Len(feedbackQueue) = 1
  <2>1. 1 .. Len(feedbackQueue) = {1} /\ feedbackQueue # <<>> /\ feedbackQueue[1] \in Feedbacks
    BY <1>1, <1>3
  <2> QED
    BY <1>3, <2>1 DEF Queued
<1> QED
  BY <1>1, <1>2, <1>3

LEMMA TypeInit == Init => TypeOK
<1> SUFFICES ASSUME Init PROVE TypeOK
  OBVIOUS
<1>1. NewRouter("AutoShot") \in RouterStates
  BY RouteOfType DEF NewRouter, RouterStates, TaskModes
<1>2. <<>> \in Seq(Feedbacks) /\ Len(<<>>) <= 1
  OBVIOUS
<1>3. [n |-> 0, mode |-> OfflineMode, permit |-> FALSE] \in Samples
  BY FeedbackAssumption DEF Samples
<1>4. feedbackQueue \in Seq(Feedbacks) /\ Len(feedbackQueue) <= 1
  BY <1>2 DEF Init
<1>5. 0 \in 0 .. MaxTime /\ 0 \in Nat
  BY FeedbackAssumption
<1> QED
  BY <1>1, <1>3, <1>4, <1>5, DefaultType DEF Init, TypeOK

LEMMA TypeNext == TypeOK /\ [Next]_vars => TypeOK'
<1> SUFFICES ASSUME TypeOK, [Next]_vars PROVE TypeOK'
  OBVIOUS
<1> USE FeedbackAssumption
<1>1. CASE McuSample
  BY <1>1 DEF TypeOK, McuSample, Samples, preVars, ctlVars
<1>2. CASE FrameLost
  BY <1>2 DEF TypeOK, FrameLost, preVars, ctlVars
<1>3. CASE HeadArrives
  BY <1>3 DEF TypeOK, HeadArrives, PendingAfter, Samples, preVars, ctlVars
<1>4. CASE TailArrives
  <2>1. ASSUME pendingHead # None
        PROVE  [head |-> pendingHead.n, tail |-> sample.n, mode |-> pendingHead.mode,
                permit |-> sample.permit, tailAt |-> now] \in Feedbacks
    BY <2>1 DEF TypeOK, Samples, Feedbacks
  <2> DEFINE pair == [head |-> pendingHead.n, tail |-> sample.n,
                      mode |-> pendingHead.mode, permit |-> sample.permit, tailAt |-> now]
  <2>2. feedbackQueue' \in Seq(Feedbacks) /\ Len(feedbackQueue') <= 1
    <3>1. CASE UNCHANGED feedbackQueue
      BY <3>1 DEF TypeOK
    <3>2. CASE pendingHead # None /\ feedbackQueue' = <<pair>>
      <4> HIDE DEF pair
      <4> QED
        BY <3>2, <2>1, OneQueued DEF pair
    <3> QED
      BY <1>4, <3>1, <3>2 DEF TailArrives, PushFeedback
  <2>3. handoff' \in 0 .. MaxTime
    BY <1>4 DEF TypeOK, TailArrives, PushFeedback
  <2>4. received' \subseteq {"head", "tail"} \X (0 .. MaxSamples)
    <3>1. sample.n \in 0 .. MaxSamples /\ received \subseteq {"head", "tail"} \X (0 .. MaxSamples)
      BY DEF TypeOK, Samples
    <3>2. received' = received \cup {<<"tail", sample.n>>}
      BY <1>4 DEF TailArrives
    <3> QED
      BY <3>1, <3>2
  <2>5. /\ unsent' = {} /\ pendingHead' \in {None, pendingHead}
        /\ UNCHANGED <<now, sample, preVars, ctlVars, ctlTicked>>
    BY <1>4 DEF TailArrives, HeadAfterPairing
  <2> QED
    BY <2>2, <2>3, <2>4, <2>5 DEF TypeOK, preVars, ctlVars
<1>5. CASE PreStart \/ PreRepush
  <2>1. preFeedback \in Feedbacks
    BY DEF TypeOK
  <2>2. feedbackQueue' \in Seq(Feedbacks) /\ Len(feedbackQueue') <= 1
    <3>1. feedbackQueue' = <<preFeedback>>
      BY <1>5 DEF PreStart, PreRepush, PushFeedback
    <3> QED
      BY <2>1, <3>1, OneQueued
  <2>3. /\ prePc' = "take" /\ handoff' = now
        /\ UNCHANGED <<now, canVars, preFeedback, ctlVars, ctlTicked>>
    BY <1>5 DEF PreStart, PreRepush, PushFeedback
  <2> QED
    BY <2>2, <2>3 DEF TypeOK, canVars, ctlVars
<1>6. CASE PreTake
  <2>1. /\ feedbackQueue' \in Seq(Feedbacks) /\ Len(feedbackQueue') <= 1
        /\ preFeedback' \in Feedbacks
    <3>1. CASE feedbackQueue = <<>>
      BY <1>6, <3>1 DEF PreTake, TypeOK
    <3>2. CASE feedbackQueue # <<>>
      BY <1>6, <3>2, QueueFacts DEF PreTake
    <3> QED
      BY <3>1, <3>2
  <2>2. prePc' = "repush" /\ UNCHANGED <<now, canVars, ctlVars, ctlTicked, handoff>>
    BY <1>6 DEF PreTake
  <2> QED
    BY <2>1, <2>2 DEF TypeOK, canVars, ctlVars
<1>7. CASE PreStop
  BY <1>7 DEF TypeOK, PreStop, canVars, ctlVars
<1>8. CASE ControlTick
  <2> DEFINE popped   == feedbackQueue # <<>>
             feedback == IF popped THEN feedbackQueue[1] ELSE ctlFeedback
             update   == IF feedback = None THEN router ELSE ApplyFeedback(router, feedback.mode)
  <2>1. feedback # None => feedback \in Feedbacks
    BY QueueFacts DEF TypeOK
  <2>2. feedback # None => feedback.mode \in TaskModes
    BY <2>1 DEF Feedbacks
  <2>3. update \in RouterStates /\ update.transition_seq \in Nat
    <3>1. update \in RouterStates
      <4> HIDE DEF feedback
      <4> QED
        BY <2>2, ApplyFeedbackType DEF TypeOK
    <3> QED
      BY <3>1 DEF RouterStates
  <2>4. ctlFeedback' = feedback /\ router' = update /\ lastRouteSeq' = update.transition_seq
    BY <1>8 DEF ControlTick
  <2>5. used' \in Feedbacks
    BY <1>8, <2>1, DefaultType DEF ControlTick
  <2>6. ctlStamp' \in 0 .. MaxTime
    BY <1>8 DEF ControlTick, TypeOK
  <2> HIDE DEF popped, feedback, update
  <2>7. feedbackQueue' = <<>> /\ ctlTicked' = TRUE /\ UNCHANGED <<now, canVars, preVars, handoff>>
    BY <1>8 DEF ControlTick
  <2> QED
    BY <2>1, <2>3, <2>4, <2>5, <2>6, <2>7, OneQueued DEF TypeOK, canVars, preVars
<1>9. CASE Elapse
  <2>1. feedbackQueue' \in Seq(Feedbacks) /\ Len(feedbackQueue') <= 1
    BY <1>9 DEF Elapse, TypeOK
  <2>2. now' \in 0 .. MaxTime
    BY <1>9 DEF Elapse, TypeOK
  <2>3. ctlTicked' = FALSE /\ UNCHANGED <<canVars, preVars, ctlVars, handoff>>
    BY <1>9 DEF Elapse
  <2> QED
    BY <2>1, <2>2, <2>3 DEF TypeOK, canVars, preVars, ctlVars
<1>10. CASE UNCHANGED vars
  BY <1>10 DEF TypeOK, vars, canVars, preVars, ctlVars
<1> QED
  BY <1>1, <1>2, <1>3, <1>4, <1>5, <1>6, <1>7, <1>8, <1>9, <1>10 DEF Next

-----------------------------------------------------------------------------
(* What each step holds *)

LEMMA HeldType == TypeOK => Held \subseteq Feedbacks
<1> SUFFICES ASSUME TypeOK PROVE Held \subseteq Feedbacks
  OBVIOUS
<1>1. Queued \subseteq Feedbacks
  BY QueueFacts
<1> QED
  BY <1>1 DEF Held, TypeOK

\* The pair a tail completes.
Pair == [head |-> pendingHead.n, tail |-> sample.n, mode |-> pendingHead.mode,
         permit |-> sample.permit, tailAt |-> now]

Releases == TailArrives /\ pendingHead # None /\ PairInTime(pendingHead)

LEMMA QueuedAfterPush ==
  ASSUME TypeOK, NEW fb, feedbackQueue' = <<fb>>
  PROVE  Queued' = {fb}
<1>1. Len(feedbackQueue') = 1 /\ feedbackQueue'[1] = fb
  OBVIOUS
<1>2. 1 .. Len(feedbackQueue') = {1}
  BY <1>1
<1> QED
  BY <1>1, <1>2 DEF Queued

LEMMA HeldNext ==
  ASSUME TypeOK, [Next]_vars
  PROVE  /\ Held' \subseteq Held \cup {Pair, DefaultFeedback}
         /\ Held' \subseteq Held \cup {DefaultFeedback} \/ Releases
<1>1. CASE McuSample \/ FrameLost \/ HeadArrives \/ Elapse \/ PreStop \/ UNCHANGED vars
  <2>1. UNCHANGED <<preFeedback, used, feedbackQueue, ctlFeedback>>
    BY <1>1 DEF McuSample, FrameLost, HeadArrives, Elapse, PreStop, vars, preVars, ctlVars
  <2> QED
    BY <2>1 DEF Held, Queued
<1>2. CASE TailArrives
  <2>1. UNCHANGED <<preFeedback, used, ctlFeedback>>
    BY <1>2 DEF TailArrives, preVars, ctlVars
  <2>2. CASE UNCHANGED feedbackQueue
    BY <2>1, <2>2 DEF Held, Queued
  <2>3. CASE pendingHead # None /\ PairInTime(pendingHead) /\ feedbackQueue' = <<Pair>>
    <3>1. Queued' = {Pair}
      BY <2>3, QueuedAfterPush
    <3> QED
      BY <1>2, <2>1, <2>3, <3>1 DEF Held, Releases
  <2> QED
    BY <1>2, <2>2, <2>3 DEF TailArrives, PushFeedback, Pair
<1>3. CASE PreStart \/ PreRepush
  <2>1. UNCHANGED <<preFeedback, used, ctlFeedback>> /\ feedbackQueue' = <<preFeedback>>
    BY <1>3 DEF PreStart, PreRepush, PushFeedback, ctlVars
  <2>2. Queued' = {preFeedback}
    BY <2>1, QueuedAfterPush
  <2> QED
    BY <2>1, <2>2 DEF Held
<1>4. CASE PreTake
  <2>1. UNCHANGED <<used, ctlFeedback>>
    BY <1>4 DEF PreTake, ctlVars
  <2>2. CASE feedbackQueue = <<>>
    BY <1>4, <2>1, <2>2 DEF PreTake, Held, Queued
  <2>3. CASE feedbackQueue # <<>>
    <3>1. preFeedback' \in Queued /\ feedbackQueue' = <<>>
      BY <1>4, <2>3, QueueFacts DEF PreTake
    <3>2. Queued' = {}
      BY <3>1 DEF Queued
    <3> QED
      BY <2>1, <3>1, <3>2 DEF Held
  <2> QED
    BY <2>2, <2>3
<1>5. CASE ControlTick
  <2>1. preFeedback' = preFeedback /\ feedbackQueue' = <<>>
    BY <1>5 DEF ControlTick, preVars
  <2>2. Queued' = {}
    BY <2>1 DEF Queued
  <2>3. ctlFeedback' \in Queued \cup {ctlFeedback}
    BY <1>5, QueueFacts DEF ControlTick
  <2>4. used' = DefaultFeedback \/ (used' = ctlFeedback' /\ ctlFeedback' # None)
    BY <1>5 DEF ControlTick
  <2> QED
    BY <2>1, <2>2, <2>3, <2>4 DEF Held
<1> QED
  BY <1>1, <1>2, <1>3, <1>4, <1>5 DEF Next

-----------------------------------------------------------------------------
(* Pairs *)

LEMMA PairsInit == Init => HeldIsUnmixed /\ ArrivedWasSent /\ HeadsAreNew
<1> SUFFICES ASSUME Init PROVE HeldIsUnmixed /\ ArrivedWasSent /\ HeadsAreNew
  OBVIOUS
<1>1. Held = {DefaultFeedback}
  BY DEF Init, Held, Queued
<1> QED
  BY <1>1, FeedbackAssumption
     DEF Init, HeldIsUnmixed, ArrivedWasSent, NothingBetween, HeadsAreNew, DefaultFeedback

LEMMA UnmixedNext ==
  ASSUME TypeOK, HeldIsUnmixed, ArrivedWasSent, HeadsAreNew, [Next]_vars
  PROVE  HeldIsUnmixed' /\ ArrivedWasSent'
<1>1. /\ sample.n \in Nat
      /\ \A fb \in Held : fb.head \in Nat /\ fb.tail \in Nat
      /\ DefaultFeedback.head = 0 /\ DefaultFeedback.tail = 0
      /\ pendingHead # None => pendingHead.n \in Nat /\ pendingHead.n <= sample.n
      /\ \A f \in received : f[2] \in Nat
  BY HeldType DEF TypeOK, Samples, Feedbacks, DefaultFeedback, HeadsAreNew
<1>2. CASE McuSample
  <2>1. /\ sample'.n = sample.n + 1 /\ unsent' = {"head", "tail"}
        /\ UNCHANGED <<pendingHead, received>> /\ Held' = Held
    BY <1>2 DEF McuSample, preVars, ctlVars, Held, Queued
  <2>2. <<"head", sample.n + 1>> \notin received /\ <<"tail", sample.n + 1>> \notin received
    BY <1>1 DEF ArrivedWasSent
  <2>3. ArrivedWasSent'
    <3>1. /\ \A f \in received : f[2] <= sample.n + 1
          /\ \A fb \in Held : fb.tail <= sample.n + 1 /\ fb.tail # sample.n + 1
      BY <1>1 DEF ArrivedWasSent
    <3>2. pendingHead # None =>
            /\ \A n \in pendingHead.n + 1 .. sample.n + 1 : <<"head", n>> \notin received
            /\ \A n \in pendingHead.n .. sample.n + 1 : <<"tail", n>> \notin received
      <4> SUFFICES ASSUME pendingHead # None
                   PROVE  /\ \A n \in pendingHead.n + 1 .. sample.n + 1 : <<"head", n>> \notin received
                          /\ \A n \in pendingHead.n .. sample.n + 1 : <<"tail", n>> \notin received
        OBVIOUS
      <4>1. \A n \in pendingHead.n + 1 .. sample.n + 1 :
              n \in pendingHead.n + 1 .. sample.n \/ n = sample.n + 1
        BY <1>1
      <4>2. \A n \in pendingHead.n .. sample.n + 1 :
              n \in pendingHead.n .. sample.n \/ n = sample.n + 1
        BY <1>1
      <4> QED
        BY <4>1, <4>2, <2>2 DEF ArrivedWasSent
    <3> QED
      BY <1>1, <2>1, <2>2, <3>1, <3>2 DEF ArrivedWasSent
  <2> QED
    BY <2>1, <2>3 DEF HeldIsUnmixed, NothingBetween
<1>3. CASE HeadArrives
  <2>1. /\ sample' = sample /\ unsent' = unsent \ {"head"} /\ "head" \in unsent
        /\ pendingHead'.n = sample.n
        /\ received' = received \cup {<<"head", sample.n>>} /\ Held' = Held
    BY <1>3 DEF HeadArrives, PendingAfter, preVars, ctlVars, Held, Queued
  <2>2. "tail" \in unsent /\ <<"tail", sample.n>> \notin received'
    BY <2>1 DEF ArrivedWasSent
  <2>3. \A fb \in Held : fb.tail < sample.n
    BY <1>1, <2>1 DEF ArrivedWasSent
  <2>4. HeldIsUnmixed'
    BY <1>1, <2>1, <2>3 DEF HeldIsUnmixed, NothingBetween
  <2>5. ArrivedWasSent'
    <3>1. \A f \in received' : f[2] <= sample.n
      BY <1>1, <2>1 DEF ArrivedWasSent
    <3>2. /\ \A n \in sample.n + 1 .. sample.n : <<"head", n>> \notin received'
          /\ \A n \in sample.n .. sample.n : <<"tail", n>> \notin received'
      BY <1>1, <2>2
    <3> QED
      BY <1>1, <2>1, <2>2, <2>3, <3>1, <3>2 DEF ArrivedWasSent
  <2> QED
    BY <2>4, <2>5
<1>4. CASE TailArrives
  <2>1. /\ sample' = sample /\ unsent = {"tail"} /\ unsent' = {} /\ pendingHead' = None
        /\ received' = received \cup {<<"tail", sample.n>>}
    BY <1>4 DEF TailArrives, HeadAfterPairing
  <2>2. \A fb \in Held : fb.tail < sample.n
    BY <1>1, <2>1 DEF ArrivedWasSent
  <2>3. \A fb \in Held : NothingBetween(fb.head, fb.tail)'
    BY <1>1, <2>1, <2>2 DEF HeldIsUnmixed, NothingBetween
  <2>4. Releases =>
          /\ \A n \in pendingHead.n + 1 .. sample.n : <<"head", n>> \notin received'
          /\ \A n \in pendingHead.n .. sample.n - 1 : <<"tail", n>> \notin received'
    <3> SUFFICES ASSUME pendingHead # None
                 PROVE  /\ \A n \in pendingHead.n + 1 .. sample.n : <<"head", n>> \notin received'
                        /\ \A n \in pendingHead.n .. sample.n - 1 : <<"tail", n>> \notin received'
      BY DEF Releases
    <3>1. \A n \in pendingHead.n .. sample.n - 1 : n \in pendingHead.n .. sample.n /\ n # sample.n
      BY <1>1
    <3>2. /\ \A n \in pendingHead.n + 1 .. sample.n : <<"head", n>> \notin received
          /\ \A n \in pendingHead.n .. sample.n : <<"tail", n>> \notin received
      BY DEF ArrivedWasSent
    <3> QED
      BY <2>1, <3>1, <3>2
  <2>5. Releases => Pair.head = pendingHead.n /\ Pair.tail = sample.n
    BY DEF Pair
  <2>6. NothingBetween(0, 0)'
    BY DEF NothingBetween
  <2>7. /\ \A fb \in Held' : fb \in Held \/ fb = DefaultFeedback \/ (fb = Pair /\ Releases)
    BY HeldNext
  <2>8. HeldIsUnmixed'
    <3>1. ASSUME NEW fb \in Held' PROVE NothingBetween(fb.head, fb.tail)'
      <4>1. CASE fb \in Held
        BY <4>1, <2>3
      <4>2. CASE fb = DefaultFeedback
        BY <4>2, <1>1, <2>6 DEF NothingBetween
      <4>3. CASE fb = Pair /\ Releases
        BY <4>3, <2>4, <2>5 DEF NothingBetween
      <4> QED
        BY <4>1, <4>2, <4>3, <2>7
    <3> QED
      BY <3>1 DEF HeldIsUnmixed, NothingBetween
  <2>9. ArrivedWasSent'
    <3>1. \A f \in received' : f[2] <= sample.n
      BY <1>1, <2>1 DEF ArrivedWasSent
    <3>2. \A fb \in Held' : fb.tail <= sample.n
      BY <1>1, <2>2, <2>5, <2>7
    <3> QED
      BY <2>1, <3>1, <3>2 DEF ArrivedWasSent
  <2> QED
    BY <2>8, <2>9
<1>5. CASE [Next]_vars /\ ~McuSample /\ ~HeadArrives /\ ~TailArrives
  <2>1. /\ sample' = sample /\ pendingHead' = pendingHead /\ received' = received
        /\ unsent' \subseteq unsent
        /\ "head" \in unsent' => unsent' = unsent
    BY <1>5 DEF Next, FrameLost, PreStart, PreTake, PreRepush, PreStop,
         ControlTick, Elapse, vars, canVars
  <2>2. \A fb \in Held' : fb \in Held \/ fb = DefaultFeedback
    BY <1>5, HeldNext DEF Releases
  <2>3. \A fb \in Held' : fb.tail <= sample.n /\ (fb.tail = sample.n => unsent' = {})
    BY <1>1, <2>1, <2>2 DEF ArrivedWasSent
  <2>4. ArrivedWasSent'
    BY <2>1, <2>3 DEF ArrivedWasSent
  <2>5. NothingBetween(0, 0)
    BY DEF NothingBetween
  <2>6. \A fb \in Held' : NothingBetween(fb.head, fb.tail)
    BY <1>1, <2>2, <2>5 DEF HeldIsUnmixed
  <2> QED
    BY <2>1, <2>4, <2>6 DEF HeldIsUnmixed, NothingBetween
<1> QED
  BY <1>2, <1>3, <1>4, <1>5

LEMMA HeadsAreNewNext ==
  ASSUME TypeOK, HeadsAreNew, [Next]_vars
  PROVE  HeadsAreNew'
<1>1. /\ sample.n \in Nat /\ now \in Nat /\ DefaultFeedback.head = 0
      /\ \A fb \in Held : fb.head \in Nat
      /\ preFeedback \in Held
      /\ pendingHead # None => pendingHead.n \in Nat /\ pendingHead.at \in Nat
  BY HeldType DEF TypeOK, Samples, Feedbacks, DefaultFeedback, Held
<1>2. CASE McuSample
  <2>1. /\ sample'.n = sample.n + 1 /\ UNCHANGED <<now, pendingHead>>
        /\ Held' = Held
    BY <1>2 DEF McuSample, preVars, ctlVars, Held, Queued
  <2> QED
    BY <1>1, <2>1 DEF HeadsAreNew
<1>3. CASE TailArrives
  <2>1. pendingHead' = None /\ unsent' = {} /\ UNCHANGED <<now, sample>>
    BY <1>3 DEF TailArrives, HeadAfterPairing
  <2>2. Releases => Pair.head <= sample.n
    BY DEF Releases, Pair, HeadsAreNew
  <2>3. \A fb \in Held' : fb.head <= sample.n
    BY <1>1, <2>2, HeldNext DEF HeadsAreNew
  <2> QED
    BY <2>1, <2>3 DEF HeadsAreNew
<1>4. CASE [Next]_vars /\ ~McuSample /\ ~TailArrives
  <2>1. Held' \subseteq Held \cup {DefaultFeedback}
    BY <1>4, HeldNext DEF Releases
  <2>2. CASE HeadArrives
    <3>1. /\ pendingHead'.n = sample.n /\ pendingHead'.at = now
          /\ "head" \in unsent /\ "head" \notin unsent' /\ UNCHANGED <<now, sample>>
      BY <2>2 DEF HeadArrives, PendingAfter
    <3> QED
      BY <1>1, <2>1, <3>1 DEF HeadsAreNew
  <2>3. CASE ~HeadArrives
    <3>1. /\ sample' = sample /\ now' \in {now, now + 1}
          /\ pendingHead' = pendingHead /\ unsent' \subseteq unsent
      BY <1>4, <2>3 DEF Next, FrameLost, PreStart, PreTake, PreRepush, PreStop,
           ControlTick, Elapse, vars, canVars
    <3>2. /\ \A fb \in Held' : fb.head <= sample.n
          /\ pendingHead # None => \A fb \in Held' : fb.head < pendingHead.n
          /\ "head" \in unsent => \A fb \in Held' : fb.head < sample.n
      <4>1. \A fb \in Held' : fb.head \in Nat /\ \E old \in Held : fb.head <= old.head
        BY <1>1, <2>1
      <4> QED
        BY <1>1, <4>1 DEF HeadsAreNew
    <3> QED
      BY <1>1, <3>1, <3>2 DEF HeadsAreNew
  <2> QED
    BY <2>2, <2>3
<1> QED
  BY <1>2, <1>3, <1>4

-----------------------------------------------------------------------------
(* Freshness *)

LEMMA StampInit == Init => StampFollowsHandoff
BY FeedbackAssumption DEF Init, StampFollowsHandoff, NewRouter, DefaultFeedback

LEMMA StampNext ==
  ASSUME TypeOK, StampFollowsHandoff, [Next]_vars
  PROVE  StampFollowsHandoff'
<1>1. now \in Nat /\ handoff \in Nat /\ ctlStamp \in Nat /\ StaleTimeout \in Nat
  BY FeedbackAssumption DEF TypeOK
<1>2. CASE McuSample \/ FrameLost \/ HeadArrives \/ PreStop \/ UNCHANGED vars
  <2>1. UNCHANGED <<now, feedbackQueue, ctlVars, ctlTicked, handoff>>
    BY <1>2 DEF McuSample, FrameLost, HeadArrives, PreStop, vars
  <2> QED
    BY <2>1 DEF StampFollowsHandoff, ctlVars
<1>3. CASE TailArrives \/ PreStart \/ PreRepush
  <2>1. /\ UNCHANGED <<now, ctlVars, ctlTicked>>
        /\ handoff' = now \/ UNCHANGED <<feedbackQueue, handoff>>
    BY <1>3 DEF TailArrives, PreStart, PreRepush, PushFeedback
  <2> QED
    BY <1>1, <2>1 DEF StampFollowsHandoff, ctlVars
<1>4. CASE PreTake
  <2>1. /\ UNCHANGED <<now, ctlVars, ctlTicked, handoff>>
        /\ feedbackQueue' = <<>> \/ UNCHANGED feedbackQueue
    BY <1>4 DEF PreTake
  <2> QED
    BY <2>1 DEF StampFollowsHandoff, ctlVars
<1>5. CASE Elapse
  <2>1. /\ now' = now + 1 /\ ctlTicked /\ ctlTicked' = FALSE
        /\ UNCHANGED <<feedbackQueue, ctlVars, handoff>>
    BY <1>5 DEF Elapse
  <2> QED
    BY <1>1, <2>1 DEF StampFollowsHandoff, ctlVars
<1>6. CASE ControlTick
  <2> DEFINE popped   == feedbackQueue # <<>>
             feedback == IF popped THEN feedbackQueue[1] ELSE ctlFeedback
             update   == IF feedback = None THEN router ELSE ApplyFeedback(router, feedback.mode)
             stamp    == IF popped \/ update.transition_seq # lastRouteSeq THEN now ELSE ctlStamp
  <2>1. /\ ctlFeedback' = feedback /\ router' = update /\ ctlStamp' = stamp
        /\ lastRouteSeq' = update.transition_seq /\ feedbackQueue' = <<>>
        /\ UNCHANGED <<now, handoff>>
    BY <1>6 DEF ControlTick
  <2>2. ~popped => update.transition_seq = lastRouteSeq
    BY DEF StampFollowsHandoff, ApplyFeedback
  <2>3. feedback # None => update.route = RouteOf(feedback.mode)
    BY DEF ApplyFeedback
  <2>4. used'.permit => now - stamp <= StaleTimeout
    <3>1. used' = DefaultFeedback \/ FeedbackFresh(stamp)
      BY <1>6 DEF ControlTick
    <3> QED
      BY <3>1 DEF DefaultFeedback, FeedbackFresh
  <2>5. stamp <= handoff + 1
    BY <1>1, <2>2 DEF StampFollowsHandoff
  <2> HIDE DEF popped, feedback, update, stamp
  <2> QED
    BY <1>1, <2>1, <2>3, <2>4, <2>5 DEF StampFollowsHandoff
<1> QED
  BY <1>2, <1>3, <1>4, <1>5, <1>6 DEF Next

-----------------------------------------------------------------------------
(* Theorems *)

\* The parts of the invariant hold together in every state a run reaches.
THEOREM Invariance == Spec => []IInv
<1>1. Init => IInv
  BY TypeInit, PairsInit, StampInit DEF IInv
<1>2. IInv /\ [Next]_vars => IInv'
  BY TypeNext, UnmixedNext, HeadsAreNewNext, StampNext DEF IInv
<1> QED
  BY <1>1, <1>2, PTL DEF Spec

\* However the bus loses frames and the two loops pass feedbacks on, every value
\* of FeedbackPath stays within its type (SensData, the router and the stamps).
THEOREM TypeCorrect == Spec => []TypeOK
<1>1. IInv => TypeOK
  BY DEF IInv
<1> QED
  BY <1>1, Invariance, PTL

\* However the bus loses frames, for any number of samples and every timeout,
\* task mode and permit of two samples are joined only if FeedbackPairDecoder got
\* neither the tail of the one nor the head of the other, nor a frame in between.
THEOREM SamplesMixOnlyAcrossLosses == Spec => []MixedOnlyAcrossLosses
<1>1. IInv => MixedOnlyAcrossLosses
  BY DEF IInv, HeldIsUnmixed, NothingBetween, MixedOnlyAcrossLosses
<1> QED
  BY <1>1, Invariance, PTL

\* For every stale timeout, the permission to fire is gone one tick after the
\* timeout has passed since the last hand-over to feedback_queue.
THEOREM SilenceAlwaysRevokes == Spec => []SilenceRevokesPermit
<1>1. IInv => SilenceRevokesPermit
  <2> SUFFICES ASSUME IInv, ctlTicked, used.permit
               PROVE  now - handoff <= StaleTimeout + 1
    BY DEF SilenceRevokesPermit
  <2>1. now \in Nat /\ handoff \in Nat /\ ctlStamp \in Nat /\ StaleTimeout \in Nat
    BY FeedbackAssumption DEF IInv, TypeOK
  <2> QED
    BY <2>1 DEF IInv, StampFollowsHandoff
<1> QED
  BY <1>1, Invariance, PTL

\* However many frames are lost, FeedbackPairDecoder pairs no head twice: what it
\* releases is newer than every feedback before it.
THEOREM HeadsArePairedOnce == Spec => HeadsAreUsedOnce
<1>1. IInv /\ [Next]_vars =>
        (TailArrives /\ handoff' = now /\ feedbackQueue' # feedbackQueue =>
           \A fb \in Held : feedbackQueue'[1].head > fb.head)
  <2> SUFFICES ASSUME IInv, TailArrives, feedbackQueue' # feedbackQueue,
                      NEW fb \in Held
               PROVE  feedbackQueue'[1].head > fb.head
    OBVIOUS
  <2>1. pendingHead # None /\ feedbackQueue' = <<Pair>>
    BY DEF TailArrives, PushFeedback, Pair
  <2>2. feedbackQueue'[1].head = pendingHead.n
    BY <2>1 DEF Pair
  <2>3. fb.head < pendingHead.n
    BY <2>1 DEF IInv, HeadsAreNew
  <2>4. fb.head \in Nat /\ pendingHead.n \in Nat
    BY <2>1, HeldType DEF IInv, TypeOK, Feedbacks
  <2> QED
    BY <2>2, <2>3, <2>4
<1> QED
  BY <1>1, Invariance, PTL DEF Spec, HeadsAreUsedOnce

=============================================================================
