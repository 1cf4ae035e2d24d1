------------------------------ MODULE YpdTracker ------------------------------
(***************************************************************************)
(* YpdAngleTracker, the filter of one enemy, as RbtEstimator drives it: when *)
(* it is started, trusted, widened and thrown away.  The Kalman algebra is   *)
(* left to its verdicts on a measurement; what is kept is all that counts    *)
(* frames: the window of bad measurements, the rejections that restart an    *)
(* outpost, the recovery of the geometry after an armor jumped, and the      *)
(* samples an outpost's heights are locked from.                             *)
(***************************************************************************)
EXTENDS Integers, Sequences, FiniteSets

CONSTANTS
  MaxObs,         \* armors of one enemy in a frame: solve_enemy_center gives up on more than two
  NisWindow,      \* NIS_WINDOW_SIZE
  MinUpdates,     \* outposts converge after so many updates
  PriorGate,      \* OUTPOST_PRIOR_GATE_MIN_UPDATES
  ReinitAfter,    \* OUTPOST_REINIT_AFTER_REJECTED_UPDATES
  JumpWindow,     \* ypd_geometry_recovery_window_frames
  Cooldown,       \* ypd_geometry_recovery_cooldown_frames
  MismatchStreak, \* ypd_geometry_recovery_mismatch_required_streak
  MinMatched,     \* ypd_geometry_recovery_min_matched_count
  IdCapacity,     \* OUTPOST_HEIGHT_PHASE_CENTER_CAPACITY
  MinIds,         \* OUTPOST_HEIGHT_PHASE_MIN_CENTER_SAMPLES
  MinPerId        \* OUTPOST_HEIGHT_PHASE_MIN_SAMPLES_PER_ID

\* Four rejections restart an outpost's filter, and two armors reach it in a frame.
ASSUME YpdAssumption ==
  /\ MaxObs \in Nat \ {0}
  /\ ReinitAfter \in Nat /\ 2 * MaxObs <= ReinitAfter
  /\ JumpWindow \in Nat
  /\ MinMatched \in Nat

VARIABLES
  isOutpost,  \* of the enemy, so of every filter started for it
  ypd,        \* the tracker
  event,      \* ghost: what became of the filter in the last frame
  since       \* ghost: frames since a measurement was taken

ypdVars == <<isOutpost, ypd, event, since>>

Ids == 0 .. 2
NoCounts == [id \in Ids |-> 0]

\* reset
Fresh ==
  [initialized |-> FALSE, converged |-> FALSE, atLimit |-> FALSE, updates |-> 0,
   rejected |-> 0, failures |-> <<FALSE>>, window |-> 0, cooldown |-> 0, streak |-> 0,
   ids |-> <<>>, counts |-> NoCounts, locked |-> FALSE]

\* init: the radius a four-armor filter starts with may already be at its limit.
Started == {[Fresh EXCEPT !.initialized = TRUE, !.atLimit = limit] :
              limit \in IF isOutpost THEN {FALSE} ELSE BOOLEAN}

Diverged(t) == t.initialized /\ t.atLimit

CountTrue(s) == Cardinality({i \in DOMAIN s : s[i]})
BadConvergence(t) ==
  t.initialized /\ Len(t.failures) >= NisWindow /\ CountTrue(t.failures) * 5 >= NisWindow * 2

\* predict.  Only here is convergence looked at, and only for outposts.
Predict(t) ==
  IF t.initialized /\ isOutpost /\ t.updates > MinUpdates /\ ~Diverged(t)
  THEN [t EXCEPT !.converged = TRUE] ELSE t

\* predict_or_reset_tracker
PredictOrReset(t) == IF Diverged(t) \/ BadConvergence(t) THEN Fresh ELSE Predict(t)

LastN(s, n) == IF Len(s) > n THEN SubSeq(s, Len(s) - n + 1, Len(s)) ELSE s
RecordNis(t, failed) == [t EXCEPT !.failures = LastN(Append(@, failed), NisWindow)]

\* note_observation_jump
NoteJump(t, jumped) ==
  CASE jumped /\ ~isOutpost -> [t EXCEPT !.window = JumpWindow]
    [] ~jumped /\ t.window = 0 -> [t EXCEPT !.streak = 0]
    [] OTHER -> t

(***************************************************************************)
(* correct_with_observation: a measurement is gated before the filter sees  *)
(* it, refused by the filter, or taken, with a bad or a good residual.       *)
(***************************************************************************)
Verdicts == {"gated", "refused", "bad", "good"}
Observations ==
  [id : IF isOutpost THEN Ids ELSE {0}, verdict : Verdicts]

Taken(o) == o.verdict \in {"bad", "good"}

Possible(t, o) == o.verdict = "gated" => isOutpost /\ t.updates >= PriorGate

\* update_outpost_height_phase, as far as its samples
AddSample(t, id) ==
  LET leaves == Len(t.ids) = IdCapacity
      grown  == [t.counts EXCEPT ![id] = @ + 1]
  IN [t EXCEPT
        !.ids = LastN(Append(@, id), IdCapacity),
        !.counts = IF leaves THEN [grown EXCEPT ![Head(t.ids)] = @ - 1] ELSE grown]

\* and as far as its lock, if one order of the heights is clearly the best, which
\* nothing but a restart takes back.
Covered(t) == Len(t.ids) >= MinIds /\ \A id \in Ids : t.counts[id] >= MinPerId
HeightPhase(t, id, clear) ==
  LET sampled == AddSample(t, id)
  IN [sampled EXCEPT !.locked = t.locked \/ (Covered(sampled) /\ clear)]

\* Mutant: a measurement taken does not end the row of rejections.
KeepsRejected(t) == [t EXCEPT !.updates = IF @ <= MinUpdates THEN @ + 1 ELSE @]

CountUpdate(t) ==
  [t EXCEPT !.updates = IF @ <= MinUpdates THEN @ + 1 ELSE @, !.rejected = 0]

CorrectWith(t, o, clear) ==
  CASE o.verdict = "gated" ->
         RecordNis([t EXCEPT !.rejected = @ + 1], TRUE)
    [] o.verdict = "refused" -> RecordNis(t, TRUE)
    [] Taken(o) ->
         LET taken == RecordNis(CountUpdate(t), o.verdict = "bad")
         IN IF isOutpost THEN HeightPhase(taken, o.id, clear) ELSE taken

(***************************************************************************)
(* update_batch, with the observations it uses.                             *)
(***************************************************************************)
Inflated(t) == [t EXCEPT !.streak = 0, !.cooldown = Cooldown, !.window = 0]

\* update_geometry_recovery
CoolDown(t) == [t EXCEPT !.cooldown = IF @ > 0 THEN @ - 1 ELSE 0]
Inspect(t, matched, mismatch) ==
  [t EXCEPT !.window = @ - 1,
            !.streak = IF matched >= MinMatched /\ mismatch THEN @ + 1 ELSE 0]
Inflates(t) == t.cooldown = 0 /\ t.streak >= MismatchStreak

Recover(t, matched, mismatch) ==
  LET cooled    == CoolDown(t)
      inspected == Inspect(cooled, matched, mismatch)
  IN CASE cooled.window = 0 -> cooled
       [] cooled.window > 0 /\ (matched < MinMatched \/ ~Inflates(inspected)) -> inspected
       [] cooled.window > 0 /\ matched >= MinMatched /\ Inflates(inspected) ->
            Inflated(inspected)

Batches == UNION {[1 .. n -> Observations] : n \in 1 .. MaxObs}

\* The tracker after each observation of a batch.
Run(t, batch, clear) ==
  LET run[i \in 0 .. Len(batch)] ==
        IF i = 0 THEN t ELSE CorrectWith(run[i - 1], batch[i], clear)
  IN run

\* Each of an outpost's observations is matched to an armor of its own.
Fits(run, batch) ==
  /\ \A i, j \in DOMAIN batch : i # j /\ isOutpost => batch[i].id # batch[j].id
  /\ \A i \in DOMAIN batch : Possible(run[i - 1], batch[i])

NoneTaken(batch) == \A i \in DOMAIN batch : ~Taken(batch[i])
Restarts(t, batch) == isOutpost /\ NoneTaken(batch) /\ t.rejected >= ReinitAfter

(***************************************************************************)
(* A frame, as RbtEstimator::update_tracker makes it.                       *)
(***************************************************************************)
Aged == IF event = "restarted" THEN 0 ELSE since

YpdInit ==
  /\ isOutpost \in BOOLEAN
  /\ ypd = Fresh
  /\ event = "none"
  /\ since = 0

\* The estimator sleeps: the tracker is reset.
FilterSleeps ==
  /\ ypd' = Fresh
  /\ event' = "none"
  /\ since' = 0
  /\ UNCHANGED isOutpost

FilterUnseen ==
  /\ ypd' = PredictOrReset(ypd)
  /\ event' = "none"
  /\ since' = Aged
  /\ UNCHANGED isOutpost

FilterStarts ==
  /\ ~PredictOrReset(ypd).initialized
  /\ ypd' \in Started
  /\ event' = "none"
  /\ since' = 0
  /\ UNCHANGED isOutpost

FilterCorrected ==
  LET predicted == PredictOrReset(ypd)
      only4     == IF isOutpost THEN {FALSE} ELSE BOOLEAN
      only3     == IF isOutpost THEN BOOLEAN ELSE {FALSE}
  IN /\ predicted.initialized
     /\ \E jumped, mismatch, limit \in only4, clear \in only3, batch \in Batches :
          LET run       == Run(NoteJump(predicted, jumped), batch, clear)
              corrected == run[Len(batch)]
              recovered == Recover(corrected, Len(batch), mismatch)
              restarts  == Restarts(corrected, batch)
          IN /\ Fits(run, batch)
             /\ limit = predicted.atLimit \/ ~NoneTaken(batch)
             /\ ypd' \in IF restarts THEN Started
                         ELSE {[recovered EXCEPT !.atLimit = limit]}
             /\ event' = IF restarts THEN "restarted" ELSE "none"
             /\ since' = IF ~NoneTaken(batch) THEN 0
                         ELSE IF Aged < ReinitAfter THEN Aged + 1 ELSE Aged
     /\ UNCHANGED isOutpost

YpdNext == FilterSleeps \/ FilterUnseen \/ FilterStarts \/ FilterCorrected

YpdSpec == YpdInit /\ [][YpdNext]_ypdVars

(***************************************************************************)
(* Properties.                                                              *)
(***************************************************************************)
\* One bad frame does not restart an outpost's filter, with everything learned
\* of its heights, however many of its armors are rejected in it: before a
\* restart no measurement was taken for two frames in a row.
RestartNeedsTwoFrames == event = "restarted" => since >= 2
=============================================================================
