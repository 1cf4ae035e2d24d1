--------------------------- MODULE MCTargetTracking ---------------------------
(***************************************************************************)
(* From a network's output to a target: which candidates are kept            *)
(* (Detector), which armor is which (Matching, ArmorSearch), how the filter  *)
(* of one enemy goes on (YpdTracker), which enemy is handed over             *)
(* (EnemyEstimator) and which blade (EnergyTracker).  Each is modelled with  *)
(* the others left open, so each behaviour is one of one of them, and the    *)
(* rest stays as it began.                                                  *)
(***************************************************************************)
EXTENDS EnemyEstimator, EnergyTracker, YpdTracker, Detector, Matching, ArmorSearch, TLC

CONSTANTS infantry, sentry, outpost

MCFromCenter == (1 :> 1) @@ (2 :> 2)
MCFromOutpostAim == (1 :> 2) @@ (2 :> 1)
MCLostWait == [mode \in Modes |-> IF mode = "Large" THEN 1 ELSE 2]

\* Neighbours that overlap, and two that do not.
MCBoxes == {{1, 2}, {2, 3}, {3, 4}}
MCShapes == {<<1, 2, 3>>, <<2, 3, 2>>, <<3, 2, 2>>, <<3, 3, 1>>}

VARIABLE stageOf

trackingVars == <<estimatorVars, energyVars, ypdVars, detectorVars, matchingVars, searchVars,
                  stageOf>>

TrackingInit ==
  /\ stageOf \in {"detector", "matching", "search", "filter", "estimator", "energy"}
  /\ Init
  /\ stageOf # "estimator" => ~active
  /\ EnergyInit
  /\ stageOf # "energy" => routed = "Armor"
  /\ YpdInit
  /\ stageOf # "filter" => ~isOutpost
  /\ DetectorInit
  /\ stageOf # "detector" => network = "armor"
  /\ MatchingInit
  /\ stageOf # "matching" => cost = <<<<0, 0>>>>
  /\ SearchInit
  /\ stageOf # "search" => costs = <<<<0, 0>>>>

TrackingNext ==
  /\ UNCHANGED stageOf
  /\ \/ /\ stageOf = "estimator" /\ Next
        /\ UNCHANGED <<energyVars, ypdVars, detectorVars, matchingVars, searchVars>>
     \/ /\ stageOf = "energy" /\ EnergyNext
        /\ UNCHANGED <<estimatorVars, ypdVars, detectorVars, matchingVars, searchVars>>
     \/ /\ stageOf = "filter" /\ YpdNext
        /\ UNCHANGED <<estimatorVars, energyVars, detectorVars, matchingVars, searchVars>>
     \/ /\ stageOf = "detector" /\ DetectorNext
        /\ UNCHANGED <<estimatorVars, energyVars, ypdVars, matchingVars, searchVars>>
     \/ /\ stageOf = "matching" /\ MatchingNext
        /\ UNCHANGED <<estimatorVars, energyVars, ypdVars, detectorVars, searchVars>>
     \/ /\ stageOf = "search" /\ SearchNext
        /\ UNCHANGED <<estimatorVars, energyVars, ypdVars, detectorVars, matchingVars>>

TrackingSpec == TrackingInit /\ [][TrackingNext]_trackingVars
=============================================================================
