---------------------------- MODULE MCLatestQueue ----------------------------
(***************************************************************************)
(* LatestQueue with two slots, the smallest capacity at which a drain can   *)
(* overlap an eviction, and five items: enough to evict twice and refill.   *)
(***************************************************************************)
EXTENDS LatestQueue
=============================================================================
