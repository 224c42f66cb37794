----------------------------- MODULE MCNatTable -----------------------------
(* A small instance of NatTable: three flows to one destination, so that all of them *)
(* compete for its ports, and a range that one flow cannot fill by itself.           *)
EXTENDS NatTable

CONSTANTS f1, f2, f3, d1

OneDst == [f \in Flows |-> d1]
=============================================================================
