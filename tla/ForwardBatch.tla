---------------------------- MODULE ForwardBatch ----------------------------
(***************************************************************************)
(* The upload egress of one connection: the forward writer's loop          *)
(* (main.go), the batch that routes packets (utility/forward_batch.go),    *)
(* the coalescer that glues segments of a TCP flow into super-frames for   *)
(* the tun device (utility/tun_gso.go, the default egress), and the raw    *)
(* socket for small and non-TCP/UDP packets (utility/socket.go).  One      *)
(* goroutine owns them, so each call is one step.                          *)
(*                                                                         *)
(* A payload is a number of bytes; a frame is the header of its first      *)
(* packet and a byte count, which is all the kernel has to cut it up with. *)
(* A write the kernel refuses only counts a drop, so a frame counts as     *)
(* having left once it is handed over.                                     *)
(***************************************************************************)
EXTENDS Integers, Sequences, FiniteSets

CONSTANTS
    Flows,
    Packets,     \* [flow, proto, seq, len, fin, opts, small]: what may be forwarded
    SeqMod,      \* size of the sequence space
    MaxSlots,    \* tunMaxFlowSlots
    MaxSegs,     \* tunMaxSegs
    MaxBytes,    \* gsoMaxL3, less the header
    FlushIdle,   \* ticks: flushIdle
    ReapIdle,    \* ticks: slotReapIdle
    NoCoalesce,  \* tunNoCoalesce
    SockCap,     \* MaxSocketBatchSize
    MaxBurst,    \* packets the resequencer may release at once
    MaxPkts,     \* bound: packets forwarded
    NIL

ASSUME BatchAssumption ==
    /\ SeqMod \in Nat \ {0} /\ MaxSlots \in Nat \ {0} /\ MaxSegs \in Nat \ {0}
    /\ FlushIdle \in Nat \ {0} /\ ReapIdle \in Nat /\ FlushIdle <= ReapIdle
    /\ SockCap \in Nat \ {0} /\ MaxBurst \in Nat \ {0} /\ MaxPkts \in Nat /\ MaxBytes \in Nat
    /\ NoCoalesce \in BOOLEAN
    /\ \A p \in Packets : /\ p.flow \in Flows /\ p.proto \in {"tcp", "udp", "other"}
                          /\ p.seq \in 0..(SeqMod - 1) /\ p.len \in 0..MaxBytes
                          /\ p.fin \in BOOLEAN /\ p.small \in BOOLEAN
                          /\ ~p.small => p.len > 0   \* 128 bytes hold more than two headers
    /\ \A p, q \in Packets : p.flow = q.flow /\ p.proto = "tcp" => q.proto = "tcp"

VARIABLES
    slots,   \* flow -> its gsoSlot: head, segs, bytes, next (nextSeq), age (since lastGrow)
    open,    \* TunGSOBatch.open: slots with a frame in progress, as the code counts them
    sock,    \* the packets in the SocketBatch
    phase,   \* where the writer is: "select", "drain", "flush", "tick", "closed", "crashed"
    burst,   \* packets released by the resequencer and not forwarded yet
    count,   \* packets handled so far
    given,   \* history, per flow: packets given to the tun's batch
    wire     \* history, per flow: what the kernel sends of them, [seq, len, fin]

vars == <<slots, open, sock, phase, burst, count, given, wire>>

Init ==
    /\ slots = [f \in {} |-> NIL] /\ open = 0 /\ sock = <<>>
    /\ phase = "select" /\ burst = 0 /\ count = 0
    /\ given = [f \in Flows |-> <<>>] /\ wire = [f \in Flows |-> <<>>]
-----------------------------------------------------------------------------
(***************************************************************************)
(* Frames.  st is the coalescer at work: its slots, open and the wire.     *)
(***************************************************************************)
Piece(seq, len, fin) == [seq |-> seq, len |-> len, fin |-> fin]
Whole(p) == Piece(p.seq, p.len, p.fin)

\* What leaves for an open frame: a single packet as it is; a super-frame cut by the
\* kernel's TSO every gso_size bytes, the header replicated, FIN on the last piece only.
Cut(s) ==
    LET size == s.head.len
        n == (s.bytes + size - 1) \div size
    IN CASE s.segs = 0 -> <<>>
         [] s.segs = 1 -> <<Whole(s.head)>>
         [] OTHER -> [i \in 1..n |->
               Piece((s.head.seq + (i - 1) * size) % SeqMod,
                     IF i < n THEN size ELSE s.bytes - (n - 1) * size,
                     i = n /\ s.head.fin)]

\* Mutant: a frame of several segments leaves open counted.
FlushSlotKeepsOpen(st, f) ==
    IF st.slots[f].segs = 0 THEN st
    ELSE [slots |-> [st.slots EXCEPT ![f].segs = 0, ![f].bytes = 0],
          open |-> IF st.slots[f].segs = 1 THEN st.open - 1 ELSE st.open,
          wire |-> [st.wire EXCEPT ![f] = @ \o Cut(st.slots[f])]]

\* flushSlot: the frame is written, the slot stays.
FlushSlot(st, f) ==
    IF st.slots[f].segs = 0 THEN st
    ELSE [slots |-> [st.slots EXCEPT ![f].segs = 0, ![f].bytes = 0],
          open |-> st.open - 1,
          wire |-> [st.wire EXCEPT ![f] = @ \o Cut(st.slots[f])]]

\* flushSlot on every slot of a set.
FlushSlots(st, fs) ==
    [slots |-> [f \in DOMAIN st.slots |-> IF f \in fs THEN FlushSlot(st, f).slots[f] ELSE st.slots[f]],
     open |-> st.open - Cardinality({f \in fs : st.slots[f].segs > 0}),
     wire |-> [f \in Flows |-> IF f \in fs THEN FlushSlot(st, f).wire[f] ELSE st.wire[f]]]

Without(st, fs) == [st EXCEPT !.slots = [f \in DOMAIN @ \ fs |-> @[f]]]

\* Mutant: the cap is one too high.
AtCapLate(st) == Cardinality(DOMAIN st.slots) > MaxSlots

AtCap(st) == Cardinality(DOMAIN st.slots) >= MaxSlots

\* evictOldest: any of the slots that grew least recently.
Oldest(st) == {f \in DOMAIN st.slots : \A g \in DOMAIN st.slots : st.slots[g].age <= st.slots[f].age}
EvictOldest(st, f) == Without(FlushSlot(st, f), {f})

EmptySlot == [head |-> NIL, segs |-> 0, bytes |-> 0, next |-> 0, age |-> 0]

\* getSlot: the states in which flow f has a slot.
GetSlot(st, f) ==
    LET Added(s) == [s EXCEPT !.slots = [g \in DOMAIN @ \cup {f} |-> IF g = f THEN EmptySlot ELSE @[g]]]
    IN CASE f \in DOMAIN st.slots -> {st}
         [] f \notin DOMAIN st.slots /\ AtCap(st) -> {Added(EvictOldest(st, o)) : o \in Oldest(st)}
         [] OTHER -> {Added(st)}

\* The same header lengths and, byte for byte, the same TCP options.
SameOptions(s, p) == p.opts = s.head.opts

\* Whether p extends the open frame.
Fits(s, p) ==
    /\ s.segs > 0 /\ p.seq = s.next /\ SameOptions(s, p) /\ p.len <= s.head.len
    /\ s.segs < MaxSegs /\ s.bytes + p.len <= MaxBytes

\* Mutant: a short segment does not close its frame.
FinishedUnlessShort(s, p) == s.segs >= MaxSegs \/ s.bytes + s.head.len > MaxBytes

\* Whether p was the last one that can join: it is short, or another may not fit.
Finished(s, p) == p.len < s.head.len \/ s.segs >= MaxSegs \/ s.bytes + s.head.len > MaxBytes

Following(p) == (p.seq + p.len) % SeqMod
Grown(s, p) == [s EXCEPT !.segs = @ + 1, !.bytes = @ + p.len, !.next = Following(p), !.age = 0]
Started(p) == [head |-> p, segs |-> 1, bytes |-> p.len, next |-> Following(p), age |-> 0]

\* Add, once the flow has its slot.
Coalesce(st, p) ==
    LET f == p.flow
        longer == [st EXCEPT !.slots[f] = Grown(@, p)]
    IN IF ~Fits(st.slots[f], p)
       THEN [FlushSlot(st, f) EXCEPT !.slots[f] = Started(p), !.open = @ + 1]
       ELSE IF Finished(longer.slots[f], p) THEN FlushSlot(longer, f) ELSE longer

Written(st, p) == [st EXCEPT !.wire[p.flow] = Append(@, Whole(p))]
-----------------------------------------------------------------------------
(***************************************************************************)
(* The writer's loop.                                                      *)
(***************************************************************************)
St == [slots |-> slots, open |-> open, wire |-> wire]
Becomes(st) == slots' = st.slots /\ open' = st.open /\ wire' = st.wire

Eligible(p) == p.proto \in {"tcp", "udp"}
ViaSocket(p) == ~Eligible(p) \/ p.small   \* small: less than 128 bytes in all
Full == Len(sock) >= SockCap
Empty == open = 0 /\ sock = <<>>

\* The resequencer lets go of n packets; used counts towards the bound.
Release(n, used) == burst' = n /\ count' = count + used /\ count + used <= MaxPkts

\* A packet is taken from pktChan, a round's first in any case, the others while the batch
\* is not full; the resequencer keeps it, or lets go of up to MaxBurst.
Handle ==
    /\ burst = 0 /\ (phase = "select" \/ (phase = "drain" /\ ~Full))
    /\ phase' = "drain" /\ \E n \in 0..MaxBurst : Release(n, IF n = 0 THEN 1 ELSE n)
    /\ UNCHANGED <<slots, open, sock, given, wire>>

\* The channel is empty or the batch full: the resequencer's idle flows are flushed.
EndRound ==
    /\ phase = "drain" /\ burst = 0
    /\ phase' = "flush" /\ \E n \in 0..MaxBurst : Release(n, n)
    /\ UNCHANGED <<slots, open, sock, given, wire>>

\* The 250 us ticker.
TickerFires ==
    /\ phase = "select" /\ burst = 0
    /\ phase' = "tick" /\ \E n \in 0..MaxBurst : Release(n, n)
    /\ UNCHANGED <<slots, open, sock, given, wire>>

\* ForwardBatch.Add of a packet the resequencer let go of.  SocketBatch.Add indexes its
\* buffers without a check: the server panics when they are all in use.
Add(p) ==
    /\ burst > 0 /\ burst' = burst - 1 /\ phase # "crashed"
    /\ given' = IF ViaSocket(p) THEN given ELSE [given EXCEPT ![p.flow] = Append(@, p)]
    /\ phase' = IF ViaSocket(p) /\ Full THEN "crashed" ELSE phase
    /\ \/ ViaSocket(p) /\ Full /\ UNCHANGED <<slots, open, wire, sock>>
       \/ ViaSocket(p) /\ ~Full /\ sock' = Append(sock, p) /\ UNCHANGED <<slots, open, wire>>
       \/ /\ ~ViaSocket(p) /\ (NoCoalesce \/ p.proto # "tcp")
          /\ Becomes(Written(St, p)) /\ UNCHANGED sock
       \/ /\ ~ViaSocket(p) /\ ~NoCoalesce /\ p.proto = "tcp"
          /\ \E st \in GetSlot(St, p.flow) : Becomes(Coalesce(st, p))
          /\ UNCHANGED sock
    /\ UNCHANGED count

\* Mutant: only frames older than any can be are flushed.
IdleFrameLate(s) == s.segs > 0 /\ s.age > ReapIdle

IdleFrame(s) == s.segs > 0 /\ s.age >= FlushIdle
Reapable(s) == s.segs = 0 /\ s.age >= ReapIdle

\* SocketBatch.Flush: whether sendmmsg sent all, some or none, the batch is empty again.
SocketFlush == sock' = <<>>

\* TunGSOBatch.Flush: idle frames are written, slots long empty reaped.
Swept(st) ==
    Without(FlushSlots(st, {f \in DOMAIN st.slots : IdleFrame(st.slots[f])}),
            {f \in DOMAIN st.slots : Reapable(st.slots[f])})

\* ForwardBatch.Flush, after a round only if the batch is not empty.
Flush ==
    /\ phase \in {"flush", "tick"} /\ burst = 0 /\ phase' = "select"
    /\ \/ phase = "flush" /\ Empty /\ UNCHANGED <<slots, open, sock, wire>>
       \/ (phase = "tick" \/ ~Empty) /\ SocketFlush /\ Becomes(Swept(St))
    /\ UNCHANGED <<burst, count, given>>

\* pktChan is closed: a last flush, then Close writes every frame still open.
Close ==
    /\ phase = "select" /\ phase' = "closed"
    /\ LET st == Swept(St) IN Becomes(FlushSlots(st, DOMAIN st.slots))
    /\ SocketFlush
    /\ UNCHANGED <<burst, count, given>>

\* Time passes.  Ages are told apart up to ReapIdle.
Tick ==
    /\ phase \notin {"closed", "crashed"} /\ \E f \in DOMAIN slots : slots[f].age < ReapIdle
    /\ slots' = [f \in DOMAIN slots |-> [slots[f] EXCEPT !.age = IF @ < ReapIdle THEN @ + 1 ELSE @]]
    /\ UNCHANGED <<open, sock, phase, burst, count, given, wire>>

Writer == EndRound \/ (\E p \in Packets : Add(p)) \/ Flush
Next == Handle \/ TickerFires \/ Writer \/ Close \/ Tick

Spec == Init /\ [][Next]_vars

\* Time passes, the ticker's case of the select is chosen again and again, and the writer
\* does not stop in the middle of a round.
FairSpec == Spec /\ WF_vars(Tick) /\ WF_vars(TickerFires) /\ WF_vars(Writer)
-----------------------------------------------------------------------------
(***************************************************************************)
(* Properties.                                                             *)
(***************************************************************************)
\* Slots hold frames of TCP packets of their own flow; no counter leaves its range.
TypeOK ==
    /\ DOMAIN slots \subseteq Flows /\ open \in 0..MaxPkts
    /\ \A f \in DOMAIN slots :
         /\ slots[f].head \in Packets /\ slots[f].head.flow = f /\ slots[f].head.proto = "tcp"
         /\ slots[f].next \in 0..(SeqMod - 1) /\ slots[f].age \in 0..ReapIdle
    /\ sock \in Seq(Packets) /\ phase \in {"select", "drain", "flush", "tick", "closed", "crashed"}
    /\ burst \in 0..MaxBurst /\ count \in 0..MaxPkts
    /\ given \in [Flows -> Seq(Packets)] /\ DOMAIN wire = Flows

\* Neither an eviction nor a burst of flows nor a run of growing frames exceeds the limits:
\* slots, segments of a frame, and the bytes its 16-bit length and its buffer allow.
WithinLimits ==
    /\ Cardinality(DOMAIN slots) <= MaxSlots
    /\ \A f \in DOMAIN slots : slots[f].segs <= MaxSegs /\ slots[f].bytes <= MaxBytes

\* Empty() asks the counter open, never the slots, whether a round must flush: it counts
\* exactly the frames in progress through growth, gaps, evictions, sweeps and Close.
OpenExact == open = Cardinality({f \in DOMAIN slots : slots[f].segs > 0})

Held(f) == IF f \in DOMAIN slots THEN Cut(slots[f]) ELSE <<>>
Extents(s) == [i \in 1..Len(s) |-> <<s[i].seq, s[i].len>>]

\* What the kernel cuts super-frames into is what was coalesced: for every flow, the pieces
\* that left through the tun followed by those of the open frame are the segments given,
\* in order, with their boundaries, none lost or sent twice.
CutsBack == \A f \in Flows : Extents(wire[f] \o Held(f)) = Extents(given[f])

\* A flow that pauses does not keep its frame or its slot: the latency bound of the 250 us
\* sweep, and the return of the 64 KB buffer.
SlotsGo == \A f \in Flows : (f \in DOMAIN slots) ~> (f \notin DOMAIN slots \/ phase \in {"closed", "crashed"})
=============================================================================
