--------------------------- MODULE MCForwardReseq ---------------------------
(* A small instance of ForwardReseq. *)
EXTENDS ForwardReseq

\* A stream cut into segments of one and two bytes, and one retransmission cut another way.
Stream == {[from |-> 0, to |-> 1], [from |-> 1, to |-> 3], [from |-> 3, to |-> 4],
           [from |-> 4, to |-> 5], [from |-> 2, to |-> 4]}
=============================================================================
