------------------------------- MODULE MCXdpRx -------------------------------
(* A small instance of XdpRx: a NIC with two queues and one with one. *)
EXTENDS XdpRx, TLC

CONSTANTS n1, n2, f1, f2, f3, f4

Shards == (n1 :> <<1, 2>>) @@ (n2 :> <<3>>)
Hashed == (f1 :> 1) @@ (f2 :> 2) @@ (f3 :> 3) @@ (f4 :> 2)
Kinds == (f1 :> "quic") @@ (f2 :> "quic") @@ (f3 :> "quic") @@ (f4 :> "fwd")
=============================================================================
