---------------------------- MODULE MCFireControl ----------------------------
(***************************************************************************)
(* The decisions of a control tick: when to fire (FireControl), which armor  *)
(* to aim at (YawPlanner), where the gimbal is sent (AimControl), and how    *)
(* the outcome is put into a CAN frame (CanFrames).  Each is modelled with   *)
(* the others left open, so each behaviour is one of one of them, and the    *)
(* rest stays as it began.                                                   *)
(*                                                                         *)
(* Firing takes the values FireControlController::new() uses, in            *)
(* milliseconds; only fire_gap_s is shorter than configured (200 ms).  The   *)
(* planner's unit is 5 degrees, the gimbal's a sixth of a circle, and a step *)
(* of the frames' code is four units, with angles on both sides of halfway. *)
(***************************************************************************)
EXTENDS FireControl, YawPlanner, AimControl, CanFrames, TLC

MCAdvance == -10

MCComing == (3 :> 14) @@ (4 :> 11)
MCLeaving == (3 :> 6) @@ (4 :> 4)
MCPlaneOffset == (3 :> 5) @@ (4 :> 0)
MCOmegas == {-2, 0, 1}

MCFirstSteps == {-2, 2}

MCCodeMin == -2
MCAngles == {-11, -6, -5, 0, 2, 5, 6}

VARIABLE decision

fireVars == vars
decisionVars == <<fireVars, plannerVars, aimVars, frameVars, decision>>

DecisionInit ==
  /\ decision \in {"fire", "plan", "aim", "frame"}
  /\ Init /\ PlannerInit /\ AimInit /\ CanFramesInit

DecisionNext ==
  /\ UNCHANGED decision
  /\ \/ decision = "fire" /\ Next /\ UNCHANGED <<plannerVars, aimVars, frameVars>>
     \/ decision = "plan" /\ PlannerNext /\ UNCHANGED <<fireVars, aimVars, frameVars>>
     \/ decision = "aim" /\ AimNext /\ UNCHANGED <<fireVars, plannerVars, frameVars>>
     \/ decision = "frame" /\ CanFramesNext /\ UNCHANGED <<fireVars, plannerVars, aimVars>>

DecisionSpec == DecisionInit /\ [][DecisionNext]_decisionVars
=============================================================================
