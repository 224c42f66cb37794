------------------------------ MODULE LossyFifo ------------------------------
(***************************************************************************)
(* What every transmit queue of the data path promises: an item that was   *)
(* accepted leaves once, in the order of acceptance, or is dropped and     *)
(* counted; an item that is refused is counted too.                        *)
(***************************************************************************)
EXTENDS Naturals, Sequences

CONSTANT Items

VARIABLES
    queue,    \* accepted and neither sent nor dropped
    out,      \* sent, in order
    drops     \* items counted as dropped

fifo == <<queue, out, drops>>

Init == queue = <<>> /\ out = <<>> /\ drops = 0

Accept(x) ==
    /\ queue' = Append(queue, x)
    /\ UNCHANGED <<out, drops>>

Refuse ==
    /\ drops' = drops + 1
    /\ UNCHANGED <<queue, out>>

\* The oldest items leave: the first k of them are sent, the next d are dropped.
Serve(k, d) ==
    /\ k + d <= Len(queue)
    /\ out' = out \o SubSeq(queue, 1, k)
    /\ queue' = SubSeq(queue, k + d + 1, Len(queue))
    /\ drops' = drops + d

Next ==
    \/ \E x \in Items : Accept(x)
    \/ Refuse
    \/ \E k, d \in 0..Len(queue) : Serve(k, d)

Spec == Init /\ [][Next]_fifo
=============================================================================
