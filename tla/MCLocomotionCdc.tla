---------------------------- MODULE MCLocomotionCdc ----------------------------
(* LocomotionCdc with the constants of MCLocomotionCdc.cfg. *)
EXTENDS LocomotionCdc
=============================================================================
