-------------------------- MODULE MCAutoAimPipeline --------------------------
(***************************************************************************)
(* AutoAimPipeline with the modes and the faults each run allows.  Two      *)
(* transitions let a frame meet the route it came from a second time.       *)
(***************************************************************************)
EXTENDS AutoAimPipeline

MCSwitch == {"AutoShot", "HitBigBuff"}
MCHit == {"HitBigBuff"}
MCArmor == {"AutoShot", "HitOutpost"}

MCNoFaults == {}
MCFrameFaults == {"preprocess", "solver"}
MCAllFaults == FaultKinds
=============================================================================
