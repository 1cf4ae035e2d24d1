---------------------------- MODULE RuntimeRouter ----------------------------
(***************************************************************************)
(* rbt_mode_context.rs and rbt_runtime_router.rs: which vision route a task *)
(* mode selects, and how a feedback moves the shared route state.  A router *)
(* is a record, so that the modules which compose it hold it in a variable  *)
(* of their own; apply_feedback runs under the write lock and state() under *)
(* the read lock, hence one operator each.                                  *)
(***************************************************************************)
EXTENDS Naturals

TaskModes == {"AutoShot", "HitBigBuff", "HitSmallBuff", "HitOutpost"}
ModeRoutes == {"AutoShot", "EnergyMechanism", "Outpost"}

\* ModeRoute::from_task_mode: the two buffs share a route.
RouteOf(mode) ==
  CASE mode = "AutoShot"                        -> "AutoShot"
    [] mode \in {"HitBigBuff", "HitSmallBuff"}  -> "EnergyMechanism"
    [] mode = "HitOutpost"                      -> "Outpost"

RouterStates ==
  [route : ModeRoutes, task_mode : TaskModes, transition_seq : Nat]

\* RuntimeRouter::new
NewRouter(mode) ==
  [route |-> RouteOf(mode), task_mode |-> mode, transition_seq |-> 0]

\* RuntimeRouter::apply_feedback: the task mode always follows the feedback,
\* the transition number only when the route changes.
ApplyFeedback(router, mode) ==
  [route          |-> RouteOf(mode),
   task_mode      |-> mode,
   transition_seq |-> IF RouteOf(mode) = router.route
                      THEN router.transition_seq
                      ELSE router.transition_seq + 1]

ArmorPipelineActive(router) == router.route \in {"AutoShot", "Outpost"}
FireControlActive(router) == router.route \in {"AutoShot", "Outpost"}
EnergyMechanismActive(router) == router.route = "EnergyMechanism"

=============================================================================
