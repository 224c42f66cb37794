------------------------------ MODULE Tunnels ------------------------------
(***************************************************************************)
(* The life of a VPN tunnel: handleConn (main.go) with its three           *)
(* goroutines and its error channel, the two tables that route download    *)
(* packets to a tunnel (SessionTable, used by the XDP return path, and     *)
(* ipToTunChan, used by the TUN readers and by client-to-client            *)
(* forwarding), and the goroutines that send into a tunnel's channel.      *)
(*                                                                         *)
(* A client bonds up to MaxTun tunnels under one address.  Every critical  *)
(* section of the code is one step; whatever happens between an unlock and *)
(* the next lock, or between a lookup and the send, is another.            *)
(***************************************************************************)
EXTENDS Integers, FiniteSets

CONSTANTS
    Conns,       \* accepted connections; each one runs handleConn once
    Addrs,       \* client addresses
    MaxTun,      \* bound: tunnels a client may declare
    ChanCap,     \* capacity of tunChan (4096 in the code)
    TunSenders,  \* goroutines that look a tunnel up in ipToTunChan
    XdpSenders,  \* dispatch goroutines that look it up in the SessionTable
    NIL          \* an empty slot

ASSUME TunnelAssumption ==
    /\ MaxTun \in Nat \ {0} /\ ChanCap \in Nat
    /\ NIL \notin Conns
    /\ TunSenders \cap XdpSenders = {}

VARIABLES
    pc,           \* conn -> where its handleConn is
    at,           \* conn -> its address, tunnel index and declared count
    reader,       \* conn -> the goroutine around conn.ReadPacket
    writer,       \* conn -> the forward writer
    down,         \* conn -> the download consumer
    errs,         \* conn -> number of errors buffered in errChan
    gone,         \* conns whose QUIC stream is closed, by the peer or by us
    pktClosed,    \* conns whose pktChan is closed
    tunClosed,    \* conns whose tunChan is closed
    queued,       \* conn -> packets in tunChan
    sessions,     \* addr -> session group: declared count and slots
    ipToTunChan,  \* addr -> slice of channels: its length and slots
    target,       \* sender -> the tunnel it looked up, until it has sent
    panicked,     \* senders that hit a closed channel
    latest        \* history: addr, index -> the last tunnel registered there

handlerVars == <<pc, at, errs, gone>>
goVars == <<reader, writer, down, pktClosed>>
tableVars == <<sessions, ipToTunChan, latest>>
sendVars == <<target, panicked>>
vars == <<handlerVars, goVars, tableVars, sendVars, tunClosed, queued>>

Slots == 0..(MaxTun - 1)
Senders == TunSenders \cup XdpSenders
Empty == [i \in Slots |-> NIL]
ErrCap == 2

\* What the /vpn request declares; an index outside the count is taken for 0.
Places == {p \in [addr : Addrs, idx : Slots, count : 1..MaxTun] : p.idx < p.count}

Init ==
    /\ pc = [c \in Conns |-> "new"]
    /\ at \in [Conns -> Places]
    /\ reader = [c \in Conns |-> "none"]
    /\ writer = [c \in Conns |-> "none"]
    /\ down = [c \in Conns |-> "none"]
    /\ errs = [c \in Conns |-> 0]
    /\ gone = {} /\ pktClosed = {} /\ tunClosed = {}
    /\ queued = [c \in Conns |-> 0]
    /\ sessions = [a \in Addrs |-> [count |-> 0, slot |-> Empty]]
    /\ ipToTunChan = [a \in Addrs |-> [len |-> 0, slot |-> Empty]]
    /\ target = [s \in Senders |-> NIL]
    /\ panicked = {}
    /\ latest = [a \in Addrs |-> Empty]

\* Nothing recovers a panic: it ends the process, and with it every tunnel.
Alive == panicked = {}

Goto(c, label) == pc' = [pc EXCEPT ![c] = label]

\* The stream ends: the peer closes it, the idle timer fires, or the network fails.
PeerCloses(c) ==
    /\ Alive /\ pc[c] # "new" /\ c \notin gone
    /\ gone' = gone \cup {c}
    /\ UNCHANGED <<pc, at, errs, goVars, tableVars, sendVars, tunClosed, queued>>
-----------------------------------------------------------------------------
(***************************************************************************)
(* Setting a tunnel up.                                                    *)
(***************************************************************************)

\* AssignIPToClient has answered: Register the session, under t.mu.
Register(c) ==
    /\ Alive /\ pc[c] = "new" /\ Goto(c, "registered")
    /\ LET a == at[c].addr
           g == sessions[a]
       IN /\ sessions' = [sessions EXCEPT ![a] =
                [count |-> IF at[c].count > g.count THEN at[c].count ELSE g.count,
                 slot |-> [g.slot EXCEPT ![at[c].idx] = c]]]
          /\ latest' = [latest EXCEPT ![a][at[c].idx] = c]
    /\ UNCHANGED <<at, errs, gone, goVars, ipToTunChan, sendVars, tunClosed, queued>>

\* AssignAddresses fails: only the deferred RemoveSession is left to run.
AssignAddressesFails(c) ==
    /\ Alive /\ pc[c] = "registered" /\ Goto(c, "remove")
    /\ UNCHANGED <<at, errs, gone, goVars, tableVars, sendVars, tunClosed, queued>>

\* Under mu: the slice is reallocated when the declared count differs (copy keeps the
\* slots that fit), then this tunnel's slot is set.
Insert(c) ==
    /\ Alive /\ pc[c] = "registered" /\ Goto(c, "inserted")
    /\ LET a == at[c].addr
       IN ipToTunChan' = [ipToTunChan EXCEPT ![a] =
            [len |-> at[c].count,
             slot |-> [i \in Slots |-> IF i = at[c].idx THEN c
                                       ELSE IF i < at[c].count THEN ipToTunChan[a].slot[i]
                                       ELSE NIL]]]
    /\ UNCHANGED <<at, errs, gone, goVars, sessions, latest, sendVars, tunClosed, queued>>

\* GetClientResources or AdvertiseRoute fails: return, and RemoveSession runs.
AdvertiseFails(c) ==
    /\ Alive /\ pc[c] = "inserted" /\ Goto(c, "remove")
    /\ UNCHANGED <<at, errs, gone, goVars, tableVars, sendVars, tunClosed, queued>>

\* The goroutines start and the handler blocks on errChan.
Start(c) ==
    /\ Alive /\ pc[c] = "inserted" /\ Goto(c, "running")
    /\ reader' = [reader EXCEPT ![c] = "reading"]
    /\ writer' = [writer EXCEPT ![c] = "starting"]
    /\ down' = [down EXCEPT ![c] = "running"]
    /\ UNCHANGED <<at, errs, gone, pktClosed, tableVars, sendVars, tunClosed, queued>>
-----------------------------------------------------------------------------
(***************************************************************************)
(* The goroutines of a running tunnel.                                     *)
(***************************************************************************)

\* conn.ReadPacket fails: close(pktChan), then the error is to be sent.
ReaderFails(c) ==
    /\ Alive /\ reader[c] = "reading" /\ c \in gone
    /\ reader' = [reader EXCEPT ![c] = "sending"]
    /\ pktClosed' = pktClosed \cup {c}
    /\ UNCHANGED <<handlerVars, writer, down, tableVars, sendVars, tunClosed, queued>>

\* Mutant: the error channel has no bound.
SendErrUnbounded(c) == errs' = [errs EXCEPT ![c] = @ + 1]

\* errChan <- err: blocks while the channel is full.
SendErr(c) == errs[c] < ErrCap /\ errs' = [errs EXCEPT ![c] = @ + 1]

ReaderEnds(c) ==
    /\ Alive /\ reader[c] = "sending" /\ SendErr(c)
    /\ reader' = [reader EXCEPT ![c] = "done"]
    /\ UNCHANGED <<pc, at, gone, writer, down, pktClosed, tableVars, sendVars, tunClosed, queued>>

\* NewForwardBatch succeeds, or fails and the error is to be sent.
WriterStarts(c) ==
    /\ Alive /\ writer[c] = "starting"
    /\ \E label \in {"running", "sending"} : writer' = [writer EXCEPT ![c] = label]
    /\ UNCHANGED <<handlerVars, reader, down, pktClosed, tableVars, sendVars, tunClosed, queued>>

\* pktChan is closed and drained: last flush, then the error is to be sent.
WriterSeesClose(c) ==
    /\ Alive /\ writer[c] = "running" /\ c \in pktClosed
    /\ writer' = [writer EXCEPT ![c] = "sending"]
    /\ UNCHANGED <<handlerVars, reader, down, pktClosed, tableVars, sendVars, tunClosed, queued>>

WriterEnds(c) ==
    /\ Alive /\ writer[c] = "sending" /\ SendErr(c)
    /\ writer' = [writer EXCEPT ![c] = "done"]
    /\ UNCHANGED <<pc, at, gone, reader, down, pktClosed, tableVars, sendVars, tunClosed, queued>>

\* select { case errChan <- err: default: }: the error is lost when nobody has room.
TrySendErr(c) ==
    \/ SendErr(c)
    \/ errs[c] = ErrCap /\ UNCHANGED errs

\* The consumer takes a packet and writes it; on a closed stream WritePacket may
\* report net.ErrClosed, which ends the goroutine, or another error, which does not.
DownWrites(c) ==
    /\ Alive /\ down[c] = "running" /\ queued[c] > 0
    /\ queued' = [queued EXCEPT ![c] = @ - 1]
    /\ \/ UNCHANGED <<down, errs>>
       \/ /\ c \in gone /\ TrySendErr(c)
          /\ down' = [down EXCEPT ![c] = "done"]
    /\ UNCHANGED <<pc, at, gone, reader, writer, pktClosed, tableVars, sendVars, tunClosed>>

\* tunChan is closed and empty.
DownSeesClose(c) ==
    /\ Alive /\ down[c] = "running" /\ c \in tunClosed /\ queued[c] = 0
    /\ TrySendErr(c)
    /\ down' = [down EXCEPT ![c] = "done"]
    /\ UNCHANGED <<pc, at, gone, reader, writer, pktClosed, tableVars, sendVars, tunClosed, queued>>
-----------------------------------------------------------------------------
(***************************************************************************)
(* Tearing a tunnel down.                                                  *)
(***************************************************************************)
RecvErr(c) == errs[c] > 0 /\ errs' = [errs EXCEPT ![c] = @ - 1]

\* err := <-errChan
FirstError(c) ==
    /\ Alive /\ pc[c] = "running" /\ RecvErr(c) /\ Goto(c, "unlink")
    /\ UNCHANGED <<at, gone, goVars, tableVars, sendVars, tunClosed, queued>>

\* Mutant: the last slot of the slice is not cleared.
ClearSlotShort(c) ==
    LET t == ipToTunChan[at[c].addr]
        slot == IF at[c].idx + 1 < t.len THEN [t.slot EXCEPT ![at[c].idx] = NIL] ELSE t.slot
    IN IF slot = Empty THEN [len |-> 0, slot |-> Empty] ELSE [t EXCEPT !.slot = slot]

\* Under mu: clear the slot whoever is in it, drop the key when no slot is live.
ClearSlot(c) ==
    LET t == ipToTunChan[at[c].addr]
        slot == IF at[c].idx < t.len THEN [t.slot EXCEPT ![at[c].idx] = NIL] ELSE t.slot
    IN IF slot = Empty THEN [len |-> 0, slot |-> Empty] ELSE [t EXCEPT !.slot = slot]

Unlink(c) ==
    /\ Alive /\ pc[c] = "unlink" /\ Goto(c, "close")
    /\ ipToTunChan' = [ipToTunChan EXCEPT ![at[c].addr] = ClearSlot(c)]
    /\ UNCHANGED <<at, errs, gone, goVars, sessions, latest, sendVars, tunClosed, queued>>

\* close(tunChan)
CloseTunChan(c) ==
    /\ Alive /\ pc[c] = "close" /\ Goto(c, "drain")
    /\ tunClosed' = tunClosed \cup {c}
    /\ UNCHANGED <<at, errs, gone, goVars, tableVars, sendVars, queued>>

\* Mutant: the stream is left open when the handler winds up.
StaysOpen(c) == gone

\* conn.Close()
CloseConn(c) == gone \cup {c}

\* The range over the closed channel empties it (beside the consumer), then conn.Close().
Drain(c) ==
    /\ Alive /\ pc[c] = "drain" /\ Goto(c, "wait")
    /\ queued' = [queued EXCEPT ![c] = 0]
    /\ gone' = CloseConn(c)
    /\ UNCHANGED <<at, errs, goVars, tableVars, sendVars, tunClosed>>

\* Mutant: one error is awaited per goroutine, the consumer's included.
AwaitAll(c) == errs[c] = ErrCap /\ errs' = [errs EXCEPT ![c] = 0]

\* <-errChan, the second receive.
AwaitSecond(c) == RecvErr(c)

SecondError(c) ==
    /\ Alive /\ pc[c] = "wait" /\ AwaitSecond(c) /\ Goto(c, "remove")
    /\ UNCHANGED <<at, gone, goVars, tableVars, sendVars, tunClosed, queued>>

\* Mutant: the slot is cleared without checking whose it is.
RemoveAny(c, slot) == [slot EXCEPT ![at[c].idx] = NIL]

\* RemoveSession clears the slot only when it still holds this session.
RemoveOwn(c, slot) ==
    IF slot[at[c].idx] = c THEN [slot EXCEPT ![at[c].idx] = NIL] ELSE slot

\* Mutant: the group is kept when its last tunnel goes.
KeepGroup(g, slot) == [g EXCEPT !.slot = slot]

DropEmpty(g, slot) ==
    IF slot = Empty THEN [count |-> 0, slot |-> Empty] ELSE [g EXCEPT !.slot = slot]

\* The deferred RemoveSession, under t.mu; handleConn returns.
RemoveSession(c) ==
    /\ Alive /\ pc[c] = "remove" /\ Goto(c, "done")
    /\ LET g == sessions[at[c].addr]
       IN sessions' = [sessions EXCEPT ![at[c].addr] = DropEmpty(g, RemoveOwn(c, g.slot))]
    /\ UNCHANGED <<at, errs, gone, goVars, ipToTunChan, latest, sendVars, tunClosed, queued>>
-----------------------------------------------------------------------------
(***************************************************************************)
(* Sending a download packet: look a tunnel up under the read lock, then   *)
(* send without it.                                                        *)
(***************************************************************************)

\* flowHashSym modulo n: any slot, the packet's addresses and ports decide.
FlowHash(n) == 0..(n - 1)

\* pickTunnel: from the hashed slot on, wrapping, the first that is not nil: whatever the
\* hash, a live one, and each live one for some hash.
PickTunnel(t) ==
    IF t.slot = Empty THEN {NIL}
    ELSE {t.slot[i] : i \in {j \in Slots : t.slot[j] # NIL}}

\* sessionGroup.pick: the hashed slot, else the first live one.
PickSession(g) ==
    IF g.slot = Empty THEN {NIL}
    ELSE {g.slot[i] : i \in {j \in Slots : /\ g.slot[j] # NIL
                                           /\ \/ j \in FlowHash(g.count)
                                              \/ \A k \in Slots : k < j => g.slot[k] = NIL}}

LookupTun(s) ==
    /\ Alive /\ s \in TunSenders /\ target[s] = NIL
    /\ \E a \in Addrs : \E c \in PickTunnel(ipToTunChan[a]) : target' = [target EXCEPT ![s] = c]
    /\ UNCHANGED <<handlerVars, goVars, tableVars, panicked, tunClosed, queued>>

LookupSession(s) ==
    /\ Alive /\ s \in XdpSenders /\ target[s] = NIL
    /\ \E a \in Addrs : \E c \in PickSession(sessions[a]) : target' = [target EXCEPT ![s] = c]
    /\ UNCHANGED <<handlerVars, goVars, tableVars, panicked, tunClosed, queued>>

\* select { case tunChan <- pkt: default: drop }: a send on a closed channel panics.
Send(s) ==
    /\ Alive /\ target[s] # NIL
    /\ target' = [target EXCEPT ![s] = NIL]
    /\ LET c == target[s]
       IN \/ /\ c \in tunClosed
             /\ panicked' = panicked \cup {s} /\ UNCHANGED queued
          \/ /\ c \notin tunClosed
             /\ queued' = [queued EXCEPT ![c] = IF @ < ChanCap THEN @ + 1 ELSE @]
             /\ UNCHANGED panicked
    /\ UNCHANGED <<handlerVars, goVars, tableVars, tunClosed>>
-----------------------------------------------------------------------------
Setup(c) == Register(c) \/ AssignAddressesFails(c) \/ Insert(c) \/ AdvertiseFails(c) \/ Start(c)
Goroutine(c) == \/ ReaderFails(c) \/ ReaderEnds(c)
                \/ WriterStarts(c) \/ WriterSeesClose(c) \/ WriterEnds(c)
                \/ DownWrites(c) \/ DownSeesClose(c)
Teardown(c) == \/ FirstError(c) \/ Unlink(c) \/ CloseTunChan(c) \/ Drain(c)
               \/ SecondError(c) \/ RemoveSession(c)
Sender(s) == LookupTun(s) \/ LookupSession(s) \/ Send(s)

Next ==
    \/ \E c \in Conns : PeerCloses(c) \/ Setup(c) \/ Goroutine(c) \/ Teardown(c)
    \/ \E s \in Senders : Sender(s)

Spec == Init /\ [][Next]_vars

\* The Go scheduler runs every goroutine that can run; nothing makes a peer connect,
\* hang up or keep packets coming.
Fairness ==
    \A c \in Conns :
        /\ WF_vars(pc[c] # "new" /\ Setup(c)) /\ WF_vars(Teardown(c))
        /\ WF_vars(ReaderFails(c) \/ ReaderEnds(c))
        /\ WF_vars(WriterStarts(c) \/ WriterSeesClose(c) \/ WriterEnds(c))
        /\ WF_vars(DownWrites(c) \/ DownSeesClose(c))

FairSpec == Spec /\ Fairness
-----------------------------------------------------------------------------
(***************************************************************************)
(* Properties.                                                             *)
(***************************************************************************)
SlotsOf == [Slots -> Conns \cup {NIL}]

\* Every variable has the shape of the code's data.
TypeOK ==
    /\ pc \in [Conns -> {"new", "registered", "inserted", "running", "unlink", "close",
                         "drain", "wait", "remove", "done"}]
    /\ at \in [Conns -> Places]
    /\ reader \in [Conns -> {"none", "reading", "sending", "done"}]
    /\ writer \in [Conns -> {"none", "starting", "running", "sending", "done"}]
    /\ down \in [Conns -> {"none", "running", "done"}]
    /\ errs \in [Conns -> 0..ErrCap]
    /\ gone \subseteq Conns /\ pktClosed \subseteq Conns /\ tunClosed \subseteq Conns
    /\ queued \in [Conns -> 0..ChanCap]
    /\ sessions \in [Addrs -> [count : 0..MaxTun, slot : SlotsOf]]
    /\ ipToTunChan \in [Addrs -> [len : 0..MaxTun, slot : SlotsOf]]
    /\ target \in [Senders -> Conns \cup {NIL}]
    /\ panicked \subseteq Senders
    /\ latest \in [Addrs -> SlotsOf]

\* The handler has registered its session and has not removed it yet.
Registered(c) == pc[c] \notin {"new", "done"}

\* SessionTable holds exactly the newest tunnel of every (address, index) while that
\* tunnel's handler runs, and nothing else: a reconnect replaces the old tunnel, the old
\* handler's late RemoveSession does not evict the new one, no dead session stays, and
\* the group goes with its last tunnel.
RegistryExact ==
    \A a \in Addrs :
        /\ \A i \in Slots :
             sessions[a].slot[i] =
                IF latest[a][i] # NIL /\ Registered(latest[a][i]) THEN latest[a][i] ELSE NIL
        /\ sessions[a].slot = Empty <=> sessions[a].count = 0

\* A tunnel's channel is taken out of ipToTunChan before it is closed: the TUN readers
\* and client-to-client forwarding never look a closed channel up.
RoutesOpen ==
    \A a \in Addrs, i \in Slots : ipToTunChan[a].slot[i] \notin tunClosed

\* The stream of a tunnel is closed: its handler returns, whichever of the three
\* goroutines reported first and whichever error was dropped on a full errChan.
HandlerReturns ==
    \A c \in Conns : (pc[c] # "new" /\ c \in gone) ~> (pc[c] = "done" \/ ~Alive)

\* Once the handler has returned, its three goroutines end too.
NoGoroutineLeft ==
    \A c \in Conns : pc[c] = "done" ~>
        \/ /\ reader[c] \in {"none", "done"} /\ writer[c] \in {"none", "done"}
           /\ down[c] \in {"none", "done"}
        \/ ~Alive

\* pickTunnel "returns nil only when the client has no live tunnels": a tunnel whose
\* goroutines run on an open stream belongs to a client that has a slot to be picked.
LiveClientRouted ==
    \A c \in Conns : pc[c] = "running" /\ c \notin gone /\ errs[c] = 0 =>
        ipToTunChan[at[c].addr].slot # Empty
=============================================================================
