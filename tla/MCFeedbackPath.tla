---------------------------- MODULE MCFeedbackPath ---------------------------
(***************************************************************************)
(* FeedbackPath with modes that share no route, and a stale timeout longer  *)
(* than the pairing timeout, as in the code (500 ms against 20 ms).         *)
(***************************************************************************)
EXTENDS FeedbackPath

MCSampleModes == {"AutoShot", "HitOutpost"}
=============================================================================
