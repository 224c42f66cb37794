----------------------------- MODULE MCTunnels -----------------------------
(* Small instances of Tunnels. *)
EXTENDS Tunnels, TLC

ConnSym == Permutations(Conns)
=============================================================================
