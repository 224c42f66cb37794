----------------------------- MODULE MCVhostRing -----------------------------
(* A small instance of VhostRing. *)
EXTENDS VhostRing, TLC
=============================================================================
