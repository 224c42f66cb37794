---------------------------- MODULE ForwardReseq ----------------------------
(***************************************************************************)
(* The resequencer of inner TCP segments (utility/reseq.go) that stands    *)
(* between the tunnel and the coalescing egress, for one TCP flow: flows   *)
(* share nothing but the map they are kept in.  One goroutine owns it: a   *)
(* call up to the loop of drain or FlushExpired is one step, each pass     *)
(* through these loops is one, and until the call returns (pc is "ready"   *)
(* again) nothing else happens.                                            *)
(*                                                                         *)
(* The sender's stream is a range of byte positions; the segments that     *)
(* carry it arrive late, twice, in any order or not at all.  The code sees *)
(* only sequence numbers, which wrap at SeqSpace (2^32).                   *)
(***************************************************************************)
EXTENDS Integers, Sequences, FiniteSets

CONSTANTS
    SeqSpace,  \* size of the sequence space, even
    ISNs,      \* sequence numbers the stream may start at
    Segments,  \* [from, to] byte ranges the sender cuts the stream into
    Window,    \* buffered segments before a gap is skipped
    MaxAge,    \* ticks after which an idle flow is flushed
    MaxPush    \* bound: segments pushed

ASSUME ReseqAssumption ==
    /\ SeqSpace \in Nat \ {0} /\ SeqSpace % 2 = 0 /\ ISNs \subseteq 0..(SeqSpace - 1)
    /\ \A g \in Segments : g.from \in Nat /\ g.to \in Nat /\ g.from < g.to
    /\ Window \in Nat \ {0} /\ MaxAge \in Nat \ {0} /\ MaxPush \in Nat

VARIABLES
    pc,       \* "ready", or the loop being run: "drain", "flush"
    primed,   \* the flow is in the map, and primed: the call that adds it primes it
    nextSeq,  \* the reseqFlow's
    buf,      \* the reseqFlow's, by sequence number
    at,       \* history: the position of the stream that nextSeq stands for
    idle,     \* ticks since lastSeen
    isn,      \* where the stream starts
    pushes,   \* segments pushed so far
    closed,   \* the channel that feeds the resequencer is closed
    out,      \* history: segments emitted, in order
    pushed,   \* history: segments pushed
    skipped   \* history: a gap was skipped or the flow reaped

rvars == <<pc, primed, nextSeq, buf, at, idle, isn, pushes, closed, out, pushed, skipped>>

Nothing == [s \in {} |-> {}]
Only(b, ss) == [s \in DOMAIN b \cap ss |-> b[s]]
Entered(b, s, g) == [t \in DOMAIN b \cup {s} |-> IF t \in DOMAIN b THEN b[t] ELSE g]

RInit ==
    /\ pc = "ready" /\ primed = FALSE /\ nextSeq = 0 /\ buf = Nothing /\ at = 0
    /\ idle = 0 /\ isn \in ISNs /\ pushes = 0 /\ closed = FALSE
    /\ out = <<>> /\ pushed = {} /\ skipped = FALSE
-----------------------------------------------------------------------------
Half == SeqSpace \div 2

\* Mutant: the sequence numbers are compared without wrapping.
DistUnwrapped(a, b) == a - b

\* int32(a - b): the distance in sequence space, signed.
Dist(a, b) == ((a - b + Half) % SeqSpace) - Half

SeqOf(g) == (isn + g.from) % SeqSpace

NextAfter(g) == (isn + g.to) % SeqSpace

\* TCP's own window keeps what is in flight within half the sequence space of what was
\* delivered; beyond that sequence numbers say nothing.
InReach(g) == primed => g.from - at \in (-Half)..(Half - 1)

\* g is emitted and is what nextSeq follows.
Pass(g) == out' = Append(out, g) /\ nextSeq' = NextAfter(g) /\ at' = g.to

\* An iteration of drain's loop: emit the buffered segment that starts at nextSeq.
DrainOne ==
    /\ pc \in {"drain", "flush"} /\ nextSeq \in DOMAIN buf
    /\ Pass(buf[nextSeq])
    /\ buf' = Only(buf, DOMAIN buf \ {nextSeq})
    /\ UNCHANGED <<pc, primed, idle, isn, pushes, closed, pushed, skipped>>

\* drain finds no such segment and Push returns.
DrainEnd ==
    /\ pc = "drain" /\ nextSeq \notin DOMAIN buf
    /\ pc' = "ready"
    /\ UNCHANGED <<primed, nextSeq, buf, at, idle, isn, pushes, closed, out, pushed, skipped>>

Ahead(b) == {s \in DOMAIN b : Dist(s, nextSeq) > 0}
Nearest(b) == {s \in Ahead(b) : \A t \in Ahead(b) : Dist(s, nextSeq) <= Dist(t, nextSeq)}

\* Mutant: the segment a gap is skipped to is not emitted.
SkipGapSilent(b) ==
    \E s \in Nearest(b) : /\ nextSeq' = NextAfter(b[s]) /\ at' = b[s].to /\ out' = out
                          /\ buf' = Only(b, Ahead(b) \ {s})

\* skipGap on the buffer b: sweep what is behind nextSeq and jump to the nearest segment
\* ahead.  (The drain it ends with follows.  With none ahead: Reap.)
SkipGap(b) == \E s \in Nearest(b) : Pass(b[s]) /\ buf' = Only(b, Ahead(b) \ {s})

\* Mutant: the window is checked before the segment is counted.
OverfullLate(b) == Cardinality(DOMAIN b) > Window + 1

Overfull(b) == Cardinality(DOMAIN b) > Window

\* Push, for a segment that carries data, up to the drain it may end with.  (Others pass
\* through and touch nothing.)
Push(g) ==
    /\ pc = "ready" /\ ~closed /\ pushes < MaxPush /\ InReach(g)
    /\ pushes' = pushes + 1 /\ pushed' = pushed \cup {g} /\ primed' = TRUE /\ idle' = 0
    /\ LET d == IF primed THEN Dist(SeqOf(g), nextSeq) ELSE 0
           b == Entered(buf, SeqOf(g), g)
       IN \/ /\ d = 0
             /\ Pass(g) /\ pc' = "drain"
             /\ UNCHANGED <<buf, skipped>>
          \/ /\ d < 0
             /\ out' = Append(out, g)
             /\ UNCHANGED <<pc, nextSeq, buf, at, skipped>>
          \/ /\ d > 0 /\ ~Overfull(b)
             /\ buf' = b
             /\ UNCHANGED <<pc, nextSeq, at, out, skipped>>
          \/ /\ d > 0 /\ Overfull(b)
             /\ SkipGap(b) /\ pc' = "drain" /\ skipped' = TRUE
    /\ UNCHANGED <<isn, closed>>

\* Mutant: the flow must have been idle for longer than it can be.
IdleLonger == primed /\ idle > MaxAge

IdleFlow == primed /\ idle >= MaxAge

\* FlushExpired picks the flow.
FlushExpired ==
    /\ pc = "ready" /\ ~closed /\ IdleFlow
    /\ pc' = "flush" /\ skipped' = TRUE
    /\ UNCHANGED <<primed, nextSeq, buf, at, idle, isn, pushes, closed, out, pushed>>

\* An iteration of its loop, once the drain of the one before is through.
FlushOne ==
    /\ pc = "flush" /\ nextSeq \notin DOMAIN buf
    /\ SkipGap(buf)
    /\ UNCHANGED <<pc, primed, idle, isn, pushes, closed, pushed, skipped>>

\* Nothing is left, or skipGap finds only orphans to sweep: the flow is deleted.
Reap ==
    /\ pc = "flush" /\ nextSeq \notin DOMAIN buf /\ Ahead(buf) = {}
    /\ pc' = "ready" /\ primed' = FALSE /\ buf' = Nothing /\ idle' = 0
    /\ UNCHANGED <<nextSeq, at, isn, pushes, closed, out, pushed, skipped>>

\* Time passes.  The callers' tickers are much finer than maxAge, so no flow stays
\* idle past it unflushed.
RTick ==
    /\ pc = "ready" /\ ~closed /\ primed /\ idle < MaxAge
    /\ idle' = idle + 1
    /\ UNCHANGED <<pc, primed, nextSeq, buf, at, isn, pushes, closed, out, pushed, skipped>>

\* The tunnel ends: the callers return and what is buffered goes with them.
RClose ==
    /\ pc = "ready" /\ ~closed /\ closed' = TRUE
    /\ primed' = FALSE /\ buf' = Nothing /\ idle' = 0
    /\ UNCHANGED <<pc, nextSeq, at, isn, pushes, out, pushed, skipped>>

Loops == DrainOne \/ DrainEnd \/ FlushOne \/ Reap
RNext == (\E g \in Segments : Push(g)) \/ FlushExpired \/ Loops \/ RTick \/ RClose

RSpec == RInit /\ [][RNext]_rvars
RFairSpec == RSpec /\ WF_rvars(RTick) /\ WF_rvars(FlushExpired) /\ WF_rvars(Loops)
-----------------------------------------------------------------------------
(***************************************************************************)
(* Properties.                                                             *)
(***************************************************************************)
\* The flow's sequence numbers lie in the sequence space, the buffer holds segments under
\* their own number.
RTypeOK ==
    /\ pc \in {"ready", "drain", "flush"} /\ primed \in BOOLEAN
    /\ nextSeq \in 0..(SeqSpace - 1) /\ at \in Nat /\ isn \in ISNs
    /\ \A s \in DOMAIN buf : buf[s] \in pushed /\ SeqOf(buf[s]) = s
    /\ idle \in 0..MaxAge /\ pushes \in 0..MaxPush /\ pushed \subseteq Segments
    /\ out \in Seq(pushed)

\* "max buffered out-of-order segments per flow before gap-skip": no run of pushes leaves
\* more than the window in the buffer, orphans of overlapping segments included.
WindowKept == Cardinality(DOMAIN buf) <= Window

\* The sender cut what it pushed one way: no two segments overlap.
CutOneWay == \A g, h \in pushed : g = h \/ g.to <= h.from \/ h.to <= g.from
Emitted == {out[i] : i \in DOMAIN out}
Buffered == {buf[s] : s \in DOMAIN buf}

\* As long as the tunnel is up nothing is dropped: a segment that was pushed has been
\* emitted or is still buffered, through reordering, duplicates, wrapped sequence numbers,
\* skipped gaps and reaped flows.  (For a sender that cuts the stream one way.)
NothingLost == ~closed /\ CutOneWay => pushed \subseteq Emitted \cup Buffered

Fresh(i) == out[i].from >= out[1].from /\ \A j \in 1..(i - 1) : out[j] # out[i]

\* "Restores an in-order stream": until a gap is given up, the segments from the first one
\* seen on leave in stream order without holes, whatever order they came in.
InOrder ==
    ~skipped /\ CutOneWay => \A i \in DOMAIN out : i > 1 /\ Fresh(i) =>
        \E j \in 1..(i - 1) : out[j].to = out[i].from /\ \A k \in 1..(i - 1) : out[k].to <= out[i].from

\* "A real loss never stalls delivery": once the sender pauses, the buffer empties.
BufferDrains == (DOMAIN buf # {}) ~> (DOMAIN buf = {})
=============================================================================
