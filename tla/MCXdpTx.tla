------------------------------- MODULE MCXdpTx -------------------------------
(* A small instance of XdpTx: a QUIC connection and a forward writer that share a queue. *)
EXTENDS XdpTx, TLC

CONSTANTS x, y, c1, w1

Peers == (c1 :> x) @@ (w1 :> y)
Hashes == c1 :> 3
=============================================================================
