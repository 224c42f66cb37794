--------------------------- MODULE MCForwardBatch ---------------------------
(* Small instances of ForwardBatch. *)
EXTENDS ForwardBatch

CONSTANTS a, b, c, d, ts1, ts2

Seg(f, seq, len, opts) ==
    [flow |-> f, proto |-> "tcp", seq |-> seq, len |-> len, fin |-> FALSE, opts |-> opts, small |-> FALSE]

\* Flow a: segments of two bytes and a short one, a retransmission that overlaps, a change
\* of options, numbers that wrap; b and c compete for slots; a datagram and a ping.
Mixed == {Seg(a, 6, 2, ts1), Seg(a, 0, 2, ts1), Seg(a, 0, 1, ts1), Seg(a, 1, 2, ts1),
          Seg(a, 2, 2, ts2), Seg(b, 0, 1, ts1), Seg(c, 0, 1, ts1),
          [Seg(d, 0, 1, ts1) EXCEPT !.proto = "udp"], [Seg(d, 1, 1, ts1) EXCEPT !.proto = "other"]}
=============================================================================
