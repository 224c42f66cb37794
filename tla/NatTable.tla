------------------------------ MODULE NatTable ------------------------------
(***************************************************************************)
(* Source NAT of forwarded flows (nat.go, snat.go) and its reverse table,  *)
(* an LRU hash map that the XDP program (xdp.c) reads and stamps from the  *)
(* kernel and that stays pinned when the server restarts.                  *)
(*                                                                         *)
(* A flow is a client's 5-tuple; its destination (address, port, protocol) *)
(* is DstOf[flow].  AllocPort runs under t.mu.  gc samples the clock       *)
(* before it takes t.mu and then visits the map entry by entry: the XDP    *)
(* program, which takes no lock, can run between any two of its steps.     *)
(***************************************************************************)
EXTENDS Integers, FiniteSets

CONSTANTS
    Flows, Dsts, DstOf,
    PortMin, PortMax,  \* snatPortMin, snatPortMax (61000..65535)
    MaxEntries,        \* capacity of the LRU map (65536)
    Idle,              \* idleTimeout, in clock ticks
    MaxTime,           \* bound: clock ticks
    MaxBoots,          \* bound: restarts of the server
    NIL

ASSUME NatAssumption ==
    /\ DstOf \in [Flows -> Dsts]
    /\ PortMin \in Nat /\ PortMax \in Nat /\ PortMin <= PortMax
    /\ MaxEntries \in Nat \ {0} /\ Idle \in Nat /\ MaxTime \in Nat /\ MaxBoots \in Nat

VARIABLES
    rev,       \* nat_rev_table: <<wan port, dst>> -> [flow, seen]
    fwd,       \* t.fwd: flow -> wan port
    nextPort,  \* t.nextPort
    now,       \* CLOCK_MONOTONIC
    gc,        \* the collector: phase, sampled clock, keys left, entry read
    boots,     \* restarts so far
    out        \* history: what the last ApplySNAT did, NIL after any other step

vars == <<rev, fwd, nextPort, now, gc, boots, out>>

Ports == PortMin..PortMax
Keys == Ports \X Dsts
Put(f, k, v) == [i \in DOMAIN f \cup {k} |-> IF i = k THEN v ELSE f[i]]
Without(f, ks) == [i \in DOMAIN f \ ks |-> f[i]]
Resting == [phase |-> "idle", now |-> 0, left |-> {}, key |-> NIL, val |-> NIL]

Init ==
    /\ rev = [k \in {} |-> NIL] /\ fwd = [f \in {} |-> NIL]
    /\ nextPort = PortMin /\ now = 0
    /\ gc = Resting /\ boots = 0 /\ out = NIL
-----------------------------------------------------------------------------
(***************************************************************************)
(* AllocPort.                                                              *)
(***************************************************************************)

BumpPort(p) == IF p + 1 > PortMax THEN PortMin ELSE p + 1

\* How many bumps before p is tried, the loop's i.
Tries(p) == (p - nextPort) % (PortMax - PortMin + 1)

\* Ports whose lookup misses within rangeSize iterations.
FreePorts(d) == {p \in Ports : <<p, d>> \notin DOMAIN rev /\ Tries(p) < PortMax - PortMin + 1}

\* Mutant: a flow the map knows is looked up as new.
NeverKnown(f) == FALSE

KnownFlow(f) == f \in DOMAIN fwd

\* Map.Put: a full LRU map evicts some other entry first.
Evicted == IF Cardinality(DOMAIN rev) < MaxEntries THEN {{}}
           ELSE {{k} : k \in DOMAIN rev}

\* ApplySNAT for a packet of flow f, AllocPort included.
ApplySNAT(f) ==
    /\ gc.phase \in {"idle", "sampled"}
    /\ LET d == DstOf[f]
       IN \/ \* Fast path: the port the flow has.
             /\ KnownFlow(f)
             /\ out' = [flow |-> f, port |-> fwd[f]]
             /\ UNCHANGED <<rev, fwd, nextPort>>
          \/ \* Slow path: the first free port from nextPort on.
             /\ ~KnownFlow(f)
             /\ \E p \in FreePorts(d), old \in Evicted :
                  /\ \A q \in FreePorts(d) : Tries(p) <= Tries(q)
                  /\ rev' = Put(Without(rev, old), <<p, d>>, [flow |-> f, seen |-> now])
                  /\ fwd' = Put(fwd, f, p)
                  /\ nextPort' = BumpPort(p)
                  /\ out' = [flow |-> f, port |-> p]
          \/ \* "NAT port pool exhausted": the packet is dropped.
             /\ ~KnownFlow(f) /\ FreePorts(d) = {}
             /\ out' = [flow |-> f, port |-> NIL]
             /\ UNCHANGED <<rev, fwd, nextPort>>
    /\ UNCHANGED <<now, gc, boots>>

\* The XDP program finds the entry of a reply, rewrites the packet and stamps the entry.
\* Lookup and stamp are one step: a stamp on an entry deleted in between is lost.
XdpReply(k) ==
    /\ rev' = [rev EXCEPT ![k].seen = now]
    /\ out' = NIL
    /\ UNCHANGED <<fwd, nextPort, now, gc, boots>>

Tick ==
    /\ now < MaxTime /\ now' = now + 1 /\ out' = NIL
    /\ UNCHANGED <<rev, fwd, nextPort, gc, boots>>
-----------------------------------------------------------------------------
(***************************************************************************)
(* The collector.                                                          *)
(***************************************************************************)
GcSample ==
    /\ gc.phase = "idle"
    /\ gc' = [gc EXCEPT !.phase = "sampled", !.now = now]
    /\ out' = NIL /\ UNCHANGED <<rev, fwd, nextPort, now, boots>>

GcLock ==
    /\ gc.phase = "sampled"
    /\ gc' = [gc EXCEPT !.phase = "scan", !.left = DOMAIN rev]
    /\ out' = NIL /\ UNCHANGED <<rev, fwd, nextPort, now, boots>>

\* iter.Next copies the next key and value out of the kernel.
GcRead(k) ==
    /\ gc.phase = "scan" /\ k \in gc.left
    /\ gc' = [gc EXCEPT !.phase = "decide", !.left = @ \ {k}, !.key = k, !.val = rev[k]]
    /\ out' = NIL /\ UNCHANGED <<rev, fwd, nextPort, now, boots>>

\* Mutant: the difference of the clocks is taken the wrong way round.
ExpiredSwapped == gc.val.seen < gc.now /\ gc.val.seen - gc.now > Idle

\* Stamped before the sample, and longer ago than idleTimeout.
Expired == gc.val.seen < gc.now /\ gc.now - gc.val.seen > Idle

\* Mutant: the forward entry of a collected flow is kept.
KeepForward(f) == fwd

\* delete(t.fwd, flowKeyFromNatEntry(key, val)): by flow, whatever port it has now.
ForgetFlow(f) == Without(fwd, {f})

GcDecide ==
    /\ gc.phase = "decide"
    /\ gc' = [gc EXCEPT !.phase = "scan", !.key = NIL, !.val = NIL]
    /\ \/ /\ Expired
          /\ fwd' = ForgetFlow(gc.val.flow)
          /\ rev' = Without(rev, {gc.key})
       \/ ~Expired /\ UNCHANGED <<rev, fwd>>
    /\ out' = NIL /\ UNCHANGED <<nextPort, now, boots>>

GcEnd ==
    /\ gc.phase = "scan" /\ gc.left = {}
    /\ gc' = Resting
    /\ out' = NIL /\ UNCHANGED <<rev, fwd, nextPort, now, boots>>

\* The server stops or dies and starts again: OpenNatTable makes an empty fwd over the
\* pinned map.
Restart ==
    /\ boots < MaxBoots /\ boots' = boots + 1
    /\ fwd' = [f \in {} |-> NIL] /\ nextPort' = PortMin /\ gc' = Resting
    /\ out' = NIL /\ UNCHANGED <<rev, now>>
-----------------------------------------------------------------------------
Collect == GcSample \/ GcLock \/ (\E k \in gc.left : GcRead(k)) \/ GcDecide \/ GcEnd

Next ==
    \/ \E f \in Flows : ApplySNAT(f)
    \/ \E k \in DOMAIN rev : XdpReply(k)
    \/ Tick \/ Collect \/ Restart

Spec == Init /\ [][Next]_vars

\* The ticker fires every gcInterval and the pass it starts runs to its end.
FairSpec == Spec /\ WF_vars(Collect) /\ WF_vars(Tick)
-----------------------------------------------------------------------------
(***************************************************************************)
(* Properties.                                                             *)
(***************************************************************************)
Entry == [flow : Flows, seen : 0..MaxTime]

\* Maps hold entries of their type and the port counter stays inside the range.
TypeOK ==
    /\ DOMAIN rev \subseteq Keys /\ rev \in [DOMAIN rev -> Entry]
    /\ DOMAIN fwd \subseteq Flows /\ fwd \in [DOMAIN fwd -> Ports]
    /\ nextPort \in Ports /\ now \in 0..MaxTime /\ boots \in 0..MaxBoots
    /\ gc.phase \in {"idle", "sampled", "scan", "decide"} /\ gc.now \in 0..MaxTime
    /\ gc.left \subseteq DOMAIN rev
    /\ gc.phase = "decide" => gc.key \in DOMAIN rev /\ gc.val \in Entry
    /\ out = NIL \/ out \in [flow : Flows, port : Ports \cup {NIL}]

\* ApplySNAT "installs the reverse-NAT entry that the XDP program needs to rewrite return
\* traffic": when a packet leaves with a WAN port, the reverse table sends the reply to
\* that port back to the packet's own flow, also on the fast path, also after a
\* collection or a restart.
ReturnPath ==
    out # NIL /\ out.port # NIL =>
        LET k == <<out.port, DstOf[out.flow]>>
        IN k \in DOMAIN rev /\ rev[k].flow = out.flow

\* Two flows to one destination never leave with the same WAN port.
FlowsApart ==
    \A f, g \in DOMAIN fwd : f # g /\ DstOf[f] = DstOf[g] => fwd[f] # fwd[g]

\* A flow ties up one port of the range, and at most one more for each restart over the
\* pinned map, whose entries the new process does not know: however often the collector,
\* which forgets by flow, and the next packets take turns, a flow that is collected and
\* allocated anew leaves no further entry behind that would use up the range.
PortsPerFlow ==
    \A f \in Flows : Cardinality({k \in DOMAIN rev : rev[k].flow = f}) <= boots + 1

\* An entry nobody stamps any more is collected: the range cannot fill up with the dead.
QuietEntriesGo ==
    \A k \in Keys :
        (k \in DOMAIN rev /\ now - rev[k].seen > Idle) ~>
            (k \in DOMAIN rev => now - rev[k].seen <= Idle)
=============================================================================
