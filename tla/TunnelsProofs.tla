--------------------------- MODULE TunnelsProofs ---------------------------
(***************************************************************************)
(* Tunnels: type correctness, the exactness of the session registry and    *)
(* the openness of every routed channel, for any number of connections,    *)
(* addresses, bonded tunnels and senders.                                  *)
(***************************************************************************)
EXTENDS Tunnels, TLAPS

\* A slice of slots with no tunnel in it.
LEMMA EmptySlots == Empty \in SlotsOf /\ 0 \in 0..MaxTun
BY TunnelAssumption DEF Empty, SlotsOf

\* ClearSlot and DropEmpty keep a row a row.
LEMMA RowTypes ==
    ASSUME NEW slot \in SlotsOf
    PROVE  /\ \A t \in [len : 0..MaxTun, slot : SlotsOf] :
                (IF slot = Empty THEN [len |-> 0, slot |-> Empty] ELSE [t EXCEPT !.slot = slot])
                  \in [len : 0..MaxTun, slot : SlotsOf]
           /\ \A g \in [count : 0..MaxTun, slot : SlotsOf] :
                DropEmpty(g, slot) \in [count : 0..MaxTun, slot : SlotsOf]
BY EmptySlots DEF DropEmpty

\* Clearing a slot leaves a row.
LEMMA ClearSlotType ==
    ASSUME NEW c \in Conns, at[c].addr \in Addrs, at[c].idx \in Slots,
           ipToTunChan \in [Addrs -> [len : 0..MaxTun, slot : SlotsOf]]
    PROVE  ClearSlot(c) \in [len : 0..MaxTun, slot : SlotsOf]
<1> DEFINE t == ipToTunChan[at[c].addr]
           slot == IF at[c].idx < t.len THEN [t.slot EXCEPT ![at[c].idx] = NIL] ELSE t.slot
<1>1. t \in [len : 0..MaxTun, slot : SlotsOf]
  OBVIOUS
<1>2. slot \in SlotsOf
  BY <1>1 DEF SlotsOf
<1>3. ClearSlot(c) = IF slot = Empty THEN [len |-> 0, slot |-> Empty]
                     ELSE [t EXCEPT !.slot = slot]
  BY DEF ClearSlot
<1> HIDE DEF t, slot
<1> QED BY <1>1, <1>2, <1>3, RowTypes

\* The tables of a server that has just started are typed.
LEMMA InitTypeOK == Init => TypeOK
BY TunnelAssumption DEF Init, TypeOK, Slots, SlotsOf, Empty, ErrCap

\* Init establishes and every step of the handlers, goroutines and senders keeps the
\* shape of the data.
THEOREM TypeCorrect == Spec => []TypeOK
<1>1. Init => TypeOK
  BY InitTypeOK
<1>2. TypeOK /\ [Next]_vars => TypeOK'
  <2> SUFFICES ASSUME TypeOK, [Next]_vars PROVE TypeOK'
    OBVIOUS
  <2> USE DEF TypeOK, Goto, handlerVars, goVars, tableVars, sendVars
  <2>1. ASSUME NEW c \in Conns, PeerCloses(c) PROVE TypeOK'
    BY <2>1 DEF PeerCloses
  <2>2. ASSUME NEW c \in Conns, Register(c) PROVE TypeOK'
    BY <2>2, TunnelAssumption DEF Register, Slots, Places, SlotsOf
  <2>3. ASSUME NEW c \in Conns, AssignAddressesFails(c) PROVE TypeOK'
    BY <2>3 DEF AssignAddressesFails
  <2>4. ASSUME NEW c \in Conns, Insert(c) PROVE TypeOK'
    BY <2>4, TunnelAssumption DEF Insert, Slots, Places, SlotsOf
  <2>5. ASSUME NEW c \in Conns, AdvertiseFails(c) PROVE TypeOK'
    BY <2>5 DEF AdvertiseFails
  <2>6. ASSUME NEW c \in Conns, Start(c) PROVE TypeOK'
    BY <2>6 DEF Start
  <2>7. ASSUME NEW c \in Conns, ReaderFails(c) PROVE TypeOK'
    BY <2>7 DEF ReaderFails
  <2>8. ASSUME NEW c \in Conns, ReaderEnds(c) PROVE TypeOK'
    BY <2>8 DEF ReaderEnds, SendErr, ErrCap
  <2>9. ASSUME NEW c \in Conns, WriterStarts(c) PROVE TypeOK'
    BY <2>9 DEF WriterStarts
  <2>10. ASSUME NEW c \in Conns, WriterSeesClose(c) PROVE TypeOK'
    BY <2>10 DEF WriterSeesClose
  <2>11. ASSUME NEW c \in Conns, WriterEnds(c) PROVE TypeOK'
    BY <2>11 DEF WriterEnds, SendErr, ErrCap
  <2>12. ASSUME NEW c \in Conns, DownWrites(c) PROVE TypeOK'
    BY <2>12, TunnelAssumption DEF DownWrites, TrySendErr, SendErr, ErrCap
  <2>13. ASSUME NEW c \in Conns, DownSeesClose(c) PROVE TypeOK'
    BY <2>13 DEF DownSeesClose, TrySendErr, SendErr, ErrCap
  <2>14. ASSUME NEW c \in Conns, FirstError(c) PROVE TypeOK'
    BY <2>14 DEF FirstError, RecvErr, ErrCap
  <2>15. ASSUME NEW c \in Conns, Unlink(c) PROVE TypeOK'
    <3>1. at[c].addr \in Addrs /\ at[c].idx \in Slots
      BY DEF Places
    <3>2. ClearSlot(c) \in [len : 0..MaxTun, slot : SlotsOf]
      BY <3>1, ClearSlotType
    <3>3. ipToTunChan' \in [Addrs -> [len : 0..MaxTun, slot : SlotsOf]]
      BY <2>15, <3>1, <3>2 DEF Unlink
    <3> QED BY <2>15, <3>3 DEF Unlink
  <2>16. ASSUME NEW c \in Conns, CloseTunChan(c) PROVE TypeOK'
    BY <2>16 DEF CloseTunChan
  <2>17. ASSUME NEW c \in Conns, Drain(c) PROVE TypeOK'
    BY <2>17, TunnelAssumption DEF Drain, CloseConn
  <2>18. ASSUME NEW c \in Conns, SecondError(c) PROVE TypeOK'
    BY <2>18 DEF SecondError, AwaitSecond, RecvErr, ErrCap
  <2>19. ASSUME NEW c \in Conns, RemoveSession(c) PROVE TypeOK'
    <3> DEFINE g == sessions[at[c].addr]
               Groups == [count : 0..MaxTun, slot : SlotsOf]
    <3>1. at[c].addr \in Addrs /\ at[c].idx \in Slots /\ g \in Groups
      BY DEF Places
    <3>2. RemoveOwn(c, g.slot) \in SlotsOf
      BY <3>1 DEF RemoveOwn, SlotsOf
    <3>3. DropEmpty(g, RemoveOwn(c, g.slot)) \in Groups
      BY <3>1, <3>2, RowTypes DEF SlotsOf
    <3>4. sessions' \in [Addrs -> Groups]
      BY <2>19, <3>1, <3>3 DEF RemoveSession
    <3> QED BY <2>19, <3>4 DEF RemoveSession
  <2>20. ASSUME NEW s \in Senders, LookupTun(s) PROVE TypeOK'
    BY <2>20, TunnelAssumption DEF LookupTun, PickTunnel, Senders, Slots, SlotsOf
  <2>21. ASSUME NEW s \in Senders, LookupSession(s) PROVE TypeOK'
    BY <2>21, TunnelAssumption DEF LookupSession, PickSession, Senders, Slots, SlotsOf
  <2>22. ASSUME NEW s \in Senders, Send(s) PROVE TypeOK'
    BY <2>22, TunnelAssumption DEF Send, Senders
  <2>23. CASE UNCHANGED vars
    BY <2>23 DEF vars
  <2> QED
    BY <2>1, <2>2, <2>3, <2>4, <2>5, <2>6, <2>7, <2>8, <2>9, <2>10, <2>11, <2>12, <2>13, <2>14, <2>15, <2>16, <2>17, <2>18, <2>19, <2>20, <2>21, <2>22, <2>23 DEF Next, Setup, Goroutine, Teardown, Sender
<1> QED BY <1>1, <1>2, PTL DEF Spec
-----------------------------------------------------------------------------
(***************************************************************************)
(* The registry.                                                           *)
(***************************************************************************)

\* A tunnel is the newest of at most the one place it was declared for.
LatestInPlace ==
    \A a \in Addrs, i \in Slots : latest[a][i] # NIL =>
        /\ at[latest[a][i]].addr = a /\ at[latest[a][i]].idx = i
        /\ pc[latest[a][i]] # "new"

RegistryInv == TypeOK /\ LatestInPlace /\ RegistryExact

\* Steps that leave the registry's tables alone and neither start nor end a handler.
LEMMA RegistryUntouched ==
    ASSUME RegistryInv, TypeOK', UNCHANGED <<at, sessions, latest>>,
           \A c \in Conns : pc'[c] # pc[c] => /\ pc[c] \notin {"new", "done"}
                                             /\ pc'[c] \notin {"new", "done"}
    PROVE  RegistryInv'
BY DEF RegistryInv, TypeOK, LatestInPlace, RegistryExact, Registered, SlotsOf

\* Register makes the tunnel the newest of its place.
LEMMA RegisterStep ==
    ASSUME RegistryInv, TypeOK', NEW c \in Conns, Register(c)
    PROVE  RegistryInv'
<1> DEFINE a == at[c].addr
           i == at[c].idx
<1>1. /\ a \in Addrs /\ i \in Slots /\ c # NIL
      /\ at[c].count \in 1..MaxTun /\ sessions[a].count \in 0..MaxTun
  BY TunnelAssumption DEF RegistryInv, TypeOK, Places
<1> DEFINE n == IF at[c].count > sessions[a].count THEN at[c].count ELSE sessions[a].count
<1>2. /\ pc[c] = "new" /\ pc' = [pc EXCEPT ![c] = "registered"] /\ at' = at
      /\ latest' = [latest EXCEPT ![a][i] = c]
      /\ sessions' = [sessions EXCEPT ![a] =
             [count |-> n, slot |-> [sessions[a].slot EXCEPT ![i] = c]]]
  BY DEF Register, Goto
<1>2a. /\ sessions \in [Addrs -> [count : 0..MaxTun, slot : SlotsOf]]
       /\ latest \in [Addrs -> SlotsOf]
       /\ \A b \in Addrs : sessions[b].slot \in SlotsOf /\ latest[b] \in SlotsOf
  <2>1. sessions \in [Addrs -> [count : 0..MaxTun, slot : SlotsOf]] /\ latest \in [Addrs -> SlotsOf]
    BY DEF RegistryInv, TypeOK
  <2> QED BY <2>1
<1>2c. n > 0
  BY <1>1, TunnelAssumption
<1> HIDE DEF n
<1>2b. /\ \A b \in Addrs \ {a} : sessions'[b] = sessions[b]
       /\ sessions'[a].slot = [sessions[a].slot EXCEPT ![i] = c]
       /\ sessions'[a].count > 0
  BY <1>1, <1>2, <1>2a, <1>2c
<1>3. \A b \in Addrs, j \in Slots : latest[b][j] # c
  BY <1>1, <1>2 DEF RegistryInv, LatestInPlace
<1>4. LatestInPlace'
  BY <1>1, <1>2 DEF RegistryInv, LatestInPlace, TypeOK
<1>5. ASSUME NEW b \in Addrs, NEW j \in Slots
      PROVE  sessions'[b].slot[j] =
               IF latest'[b][j] # NIL /\ pc'[latest'[b][j]] \notin {"new", "done"} THEN latest'[b][j] ELSE NIL
  <2>1. CASE b = a /\ j = i
    BY <1>1, <1>2, <2>1 DEF RegistryInv, TypeOK, Registered, SlotsOf
  <2>2. CASE ~(b = a /\ j = i)
    <3>1. latest'[b][j] = latest[b][j] /\ sessions'[b].slot[j] = sessions[b].slot[j]
      BY <1>1, <1>2, <2>2 DEF RegistryInv, TypeOK
    <3> QED BY <3>1, <1>2, <1>3 DEF RegistryInv, RegistryExact, Registered, TypeOK
  <2> QED BY <2>1, <2>2
<1>6. \A b \in Addrs : sessions'[b].slot = Empty <=> sessions'[b].count = 0
  <2>1. sessions'[a].slot[i] = c
    BY <1>1, <1>2 DEF RegistryInv, TypeOK, SlotsOf
  <2>2. sessions'[a].slot # Empty
    BY <2>1, <1>1 DEF Empty
  <2> QED BY <2>2, <1>2b DEF RegistryInv, RegistryExact
<1> QED BY <1>4, <1>5, <1>6 DEF RegistryInv, RegistryExact, Registered

\* RemoveSession takes the tunnel out when it is still the newest of its place, and
\* leaves a newer one alone.
LEMMA RemoveStep ==
    ASSUME RegistryInv, TypeOK', NEW c \in Conns, RemoveSession(c)
    PROVE  RegistryInv'
<1> DEFINE a == at[c].addr
           i == at[c].idx
           slot == RemoveOwn(c, sessions[a].slot)
<1>1. a \in Addrs /\ i \in Slots /\ c # NIL /\ sessions[a].slot \in SlotsOf
  BY TunnelAssumption DEF RegistryInv, TypeOK, Places
<1>2. /\ pc[c] = "remove" /\ pc' = [pc EXCEPT ![c] = "done"] /\ at' = at /\ latest' = latest
      /\ \A b \in Addrs \ {a} : sessions'[b] = sessions[b]
      /\ sessions'[a] = DropEmpty(sessions[a], slot)
  BY <1>1 DEF RemoveSession, Goto, RegistryInv, TypeOK
<1>3. slot \in SlotsOf /\ sessions'[a].slot = slot
  <2>1. slot \in SlotsOf
    BY <1>1 DEF RemoveOwn, SlotsOf
  <2>2. sessions[a] \in [count : 0..MaxTun, slot : SlotsOf]
    BY <1>1 DEF RegistryInv, TypeOK
  <2> HIDE DEF slot
  <2> QED BY <1>2, <2>1, <2>2 DEF DropEmpty
<1>4. \A j \in Slots : slot[j] = IF sessions[a].slot[j] = c THEN NIL ELSE sessions[a].slot[j]
  BY <1>1 DEF RemoveOwn, RegistryInv, RegistryExact, LatestInPlace, TypeOK, SlotsOf
<1>5. \A b \in Addrs \ {a}, j \in Slots : latest[b][j] # c
  BY <1>1 DEF RegistryInv, LatestInPlace
<1>6. LatestInPlace'
  BY <1>2 DEF RegistryInv, LatestInPlace, TypeOK
<1>7. ASSUME NEW b \in Addrs, NEW j \in Slots
      PROVE  sessions'[b].slot[j] =
               IF latest'[b][j] # NIL /\ pc'[latest'[b][j]] \notin {"new", "done"} THEN latest'[b][j] ELSE NIL
  <2>1. CASE b = a
    BY <1>1, <1>2, <1>3, <1>4, <2>1 DEF RegistryInv, RegistryExact, TypeOK, Registered
  <2>2. CASE b # a
    BY <1>2, <1>5, <2>2 DEF RegistryInv, RegistryExact, TypeOK, Registered
  <2> QED BY <2>1, <2>2
<1>8. sessions'[a].slot = Empty <=> sessions'[a].count = 0
  <2>1. CASE slot = Empty
    BY <1>2, <2>1 DEF DropEmpty
  <2>2. CASE slot # Empty
    <3>1. PICK j \in Slots : slot[j] # NIL
      BY <1>3, <2>2 DEF Empty, SlotsOf
    <3>2. sessions[a].slot[j] # NIL
      BY <3>1, <1>4
    <3>3. sessions[a].slot # Empty
      BY <3>2 DEF Empty
    <3>4. sessions[a].count # 0
      BY <3>3, <1>1 DEF RegistryInv, RegistryExact
    <3> QED BY <1>1, <1>2, <2>2, <3>4 DEF DropEmpty, RegistryInv, TypeOK
  <2> QED BY <2>1, <2>2
<1>9. \A b \in Addrs : sessions'[b].slot = Empty <=> sessions'[b].count = 0
  BY <1>2, <1>8 DEF RegistryInv, RegistryExact
<1> QED BY <1>6, <1>7, <1>9 DEF RegistryInv, RegistryExact, Registered

\* At every moment, and for any number of reconnects and bonded tunnels, the
\* SessionTable holds exactly the newest tunnel of each place whose handler has not
\* returned.
THEOREM RegistryIsExact == Spec => []RegistryExact
<1>1. Init => RegistryInv
  <2> SUFFICES ASSUME Init PROVE LatestInPlace /\ RegistryExact
    BY InitTypeOK DEF RegistryInv
  <2> QED BY DEF Init, LatestInPlace, RegistryExact, Empty
<1>2. RegistryInv /\ TypeOK' /\ [Next]_vars => RegistryInv'
  <2> SUFFICES ASSUME RegistryInv, TypeOK', [Next]_vars PROVE RegistryInv'
    OBVIOUS
  <2>1. ASSUME NEW c \in Conns, Register(c) PROVE RegistryInv'
    BY <2>1, RegisterStep
  <2>2. ASSUME NEW c \in Conns, RemoveSession(c) PROVE RegistryInv'
    BY <2>2, RemoveStep
  <2>3. ASSUME NEW c \in Conns,
               \/ AssignAddressesFails(c) \/ Insert(c) \/ AdvertiseFails(c) \/ Start(c)
               \/ FirstError(c) \/ Unlink(c) \/ CloseTunChan(c) \/ Drain(c) \/ SecondError(c)
        PROVE  RegistryInv'
    <3>1. UNCHANGED <<at, sessions, latest>>
      BY <2>3 DEF AssignAddressesFails, Insert, AdvertiseFails, Start, FirstError, Unlink,
                  CloseTunChan, Drain, SecondError, tableVars
    <3>2. \E label \in {"inserted", "running", "unlink", "close", "drain", "wait", "remove"} :
             Goto(c, label) /\ pc[c] \notin {"new", "done"}
      BY <2>3 DEF AssignAddressesFails, Insert, AdvertiseFails, Start, FirstError, Unlink,
                  CloseTunChan, Drain, SecondError
    <3>3. \A d \in Conns : pc'[d] # pc[d] => pc[d] \notin {"new", "done"} /\ pc'[d] \notin {"new", "done"}
      BY <3>2 DEF Goto, RegistryInv, TypeOK
    <3> QED BY <3>1, <3>3, RegistryUntouched
  <2>4. ASSUME NEW c \in Conns, PeerCloses(c) \/ Goroutine(c) PROVE RegistryInv'
    <3>1. UNCHANGED <<pc, at, sessions, latest>>
      BY <2>4 DEF PeerCloses, Goroutine, ReaderFails, ReaderEnds, WriterStarts, WriterSeesClose,
                  WriterEnds, DownWrites, DownSeesClose, handlerVars, tableVars
    <3> QED BY <3>1, RegistryUntouched
  <2>5. ASSUME NEW s \in Senders, Sender(s) PROVE RegistryInv'
    <3>1. UNCHANGED <<pc, at, sessions, latest>>
      BY <2>5 DEF Sender, LookupTun, LookupSession, Send, handlerVars, tableVars
    <3> QED BY <3>1, RegistryUntouched
  <2>6. CASE UNCHANGED vars
    BY <2>6, RegistryUntouched DEF vars, handlerVars, tableVars
  <2> QED
    BY <2>1, <2>2, <2>3, <2>4, <2>5, <2>6 DEF Next, Setup, Teardown
<1>3. RegistryInv => RegistryExact
  BY DEF RegistryInv
<1> QED BY <1>1, <1>2, <1>3, TypeCorrect, PTL DEF Spec
-----------------------------------------------------------------------------
(***************************************************************************)
(* The routing map.  RoutesOpen is not inductive: a handler about to close *)
(* its channel must be known to have left the map, and the only slot it    *)
(* clears is its own, so a channel must be known to sit in no other one.   *)
(***************************************************************************)

\* A routed tunnel sits at its own address and index, inside the slice, and its handler
\* is neither before Insert nor between Unlink and close(tunChan).
RoutedInPlace ==
    \A a \in Addrs, i \in Slots :
        LET c == ipToTunChan[a].slot[i]
        IN c # NIL => /\ at[c].addr = a /\ at[c].idx = i /\ i < ipToTunChan[a].len
                      /\ pc[c] \notin {"new", "registered", "close"}

\* A channel is closed by its own handler, late.
ClosedLate == \A c \in tunClosed : pc[c] \in {"drain", "wait", "remove", "done"}

RoutesInv == TypeOK /\ RoutedInPlace /\ ClosedLate /\ RoutesOpen

\* Steps that leave the map and the closed channels alone and move a handler forward.
LEMMA RoutesUntouched ==
    ASSUME RoutesInv, TypeOK', UNCHANGED <<at, ipToTunChan, tunClosed>>,
           \A c \in Conns : pc'[c] # pc[c] =>
              /\ pc'[c] \in {"new", "registered", "close"} => pc[c] \in {"new", "registered", "close"}
              /\ pc[c] \in {"drain", "wait", "remove", "done"} =>
                   pc'[c] \in {"drain", "wait", "remove", "done"}
    PROVE  RoutesInv'
<1>1. \A a \in Addrs, i \in Slots : ipToTunChan[a].slot[i] \in Conns \cup {NIL}
  BY DEF RoutesInv, TypeOK, SlotsOf
<1>2. RoutedInPlace'
  BY <1>1 DEF RoutesInv, RoutedInPlace
<1>3. ClosedLate'
  BY DEF RoutesInv, TypeOK, ClosedLate
<1>4. RoutesOpen'
  BY DEF RoutesInv, RoutesOpen
<1> QED BY <1>2, <1>3, <1>4 DEF RoutesInv

\* Insert puts an open channel into its place and, at most, truncates the slice.
LEMMA InsertStep ==
    ASSUME RoutesInv, TypeOK', NEW c \in Conns, Insert(c)
    PROVE  RoutesInv'
<1> DEFINE a == at[c].addr
           i == at[c].idx
           n == at[c].count
<1>1. a \in Addrs /\ i \in Slots /\ n \in 1..MaxTun /\ c # NIL /\ i < n
  BY TunnelAssumption DEF RoutesInv, TypeOK, Places
<1>2. /\ pc[c] = "registered" /\ pc' = [pc EXCEPT ![c] = "inserted"]
      /\ at' = at /\ tunClosed' = tunClosed
      /\ ipToTunChan' = [ipToTunChan EXCEPT ![a] =
            [len |-> n, slot |-> [j \in Slots |-> IF j = i THEN c
                                                  ELSE IF j < n THEN ipToTunChan[a].slot[j]
                                                  ELSE NIL]]]
  BY DEF Insert, Goto
<1>3. /\ ipToTunChan \in [Addrs -> [len : 0..MaxTun, slot : SlotsOf]]
      /\ \A b \in Addrs, j \in Slots : ipToTunChan[b].slot[j] \in Conns \cup {NIL}
      /\ c \notin tunClosed
  <2>1. ipToTunChan \in [Addrs -> [len : 0..MaxTun, slot : SlotsOf]]
    BY DEF RoutesInv, TypeOK
  <2>2. \A b \in Addrs, j \in Slots : ipToTunChan[b].slot[j] \in Conns \cup {NIL}
    BY <2>1 DEF SlotsOf
  <2>3. c \notin tunClosed
    BY <1>2 DEF RoutesInv, ClosedLate
  <2> QED BY <2>1, <2>2, <2>3
<1>4. /\ ipToTunChan'[a].len = n
      /\ \A j \in Slots : ipToTunChan'[a].slot[j] = IF j = i THEN c
                                                    ELSE IF j < n THEN ipToTunChan[a].slot[j]
                                                    ELSE NIL
      /\ \A b \in Addrs \ {a} : ipToTunChan'[b] = ipToTunChan[b]
  BY <1>1, <1>2, <1>3
<1>5. pc'[c] = "inserted" /\ \A d \in Conns \ {c} : pc'[d] = pc[d]
  BY <1>2 DEF RoutesInv, TypeOK
<1>6. RoutedInPlace'
  <2> SUFFICES ASSUME NEW b \in Addrs, NEW j \in Slots, ipToTunChan'[b].slot[j] # NIL
               PROVE  LET d == ipToTunChan'[b].slot[j]
                      IN /\ at'[d].addr = b /\ at'[d].idx = j /\ j < ipToTunChan'[b].len
                         /\ pc'[d] \notin {"new", "registered", "close"}
    BY DEF RoutedInPlace
  <2>1. CASE b = a /\ j = i
    BY <1>1, <1>2, <1>4, <1>5, <2>1
  <2>2. CASE b = a /\ j # i
    BY <1>1, <1>2, <1>3, <1>4, <1>5, <2>2 DEF RoutesInv, RoutedInPlace
  <2>3. CASE b # a
    BY <1>2, <1>3, <1>4, <1>5, <2>3 DEF RoutesInv, RoutedInPlace
  <2> QED BY <2>1, <2>2, <2>3
<1>7. ClosedLate'
  BY <1>2, <1>3, <1>5 DEF RoutesInv, ClosedLate, TypeOK
<1>8. RoutesOpen'
  <2>1. NIL \notin tunClosed
    BY TunnelAssumption DEF RoutesInv, TypeOK
  <2> QED BY <1>2, <1>3, <1>4, <2>1 DEF RoutesInv, RoutesOpen
<1> QED BY <1>6, <1>7, <1>8 DEF RoutesInv

\* Unlink empties the tunnel's own place, so the tunnel is in no slot at all.
LEMMA UnlinkStep ==
    ASSUME RoutesInv, TypeOK', NEW c \in Conns, Unlink(c)
    PROVE  RoutesInv'
<1> DEFINE a == at[c].addr
           i == at[c].idx
           t == ipToTunChan[a]
           slot == IF i < t.len THEN [t.slot EXCEPT ![i] = NIL] ELSE t.slot
<1>1. /\ a \in Addrs /\ i \in Slots /\ c # NIL
      /\ ipToTunChan \in [Addrs -> [len : 0..MaxTun, slot : SlotsOf]]
  BY TunnelAssumption DEF RoutesInv, TypeOK, Places
<1>2. /\ pc[c] = "unlink" /\ pc' = [pc EXCEPT ![c] = "close"]
      /\ at' = at /\ tunClosed' = tunClosed
      /\ ipToTunChan' = [ipToTunChan EXCEPT ![a] = ClearSlot(c)]
  BY DEF Unlink, Goto
<1>3. t \in [len : 0..MaxTun, slot : SlotsOf] /\ slot \in SlotsOf
  BY <1>1 DEF SlotsOf
<1>4. ClearSlot(c) = IF slot = Empty THEN [len |-> 0, slot |-> Empty] ELSE [t EXCEPT !.slot = slot]
  BY DEF ClearSlot
<1>5. \A j \in Slots : /\ slot[j] # NIL => slot[j] = t.slot[j]
                       /\ slot[j] # c
  BY <1>1, <1>3 DEF RoutesInv, RoutedInPlace, SlotsOf
<1>6. /\ ClearSlot(c).slot = slot
      /\ slot # Empty => ClearSlot(c).len = t.len
  <2> HIDE DEF t, slot
  <2> QED BY <1>3, <1>4
<1>7. /\ ipToTunChan'[a] = ClearSlot(c) /\ \A b \in Addrs \ {a} : ipToTunChan'[b] = ipToTunChan[b]
      /\ pc'[c] = "close" /\ \A d \in Conns \ {c} : pc'[d] = pc[d]
  BY <1>1, <1>2 DEF RoutesInv, TypeOK
<1>8. \A b \in Addrs, j \in Slots : ipToTunChan'[b].slot[j] # NIL =>
        /\ ipToTunChan'[b].slot[j] = ipToTunChan[b].slot[j]
        /\ ipToTunChan'[b].len = ipToTunChan[b].len
        /\ ipToTunChan'[b].slot[j] # c
        /\ ipToTunChan'[b].slot[j] \in Conns
  <2> SUFFICES ASSUME NEW b \in Addrs, NEW j \in Slots, ipToTunChan'[b].slot[j] # NIL
               PROVE  /\ ipToTunChan'[b].slot[j] = ipToTunChan[b].slot[j]
                      /\ ipToTunChan'[b].len = ipToTunChan[b].len
                      /\ ipToTunChan'[b].slot[j] # c
                      /\ ipToTunChan'[b].slot[j] \in Conns
    OBVIOUS
  <2>1. ipToTunChan[b].slot[j] \in Conns \cup {NIL}
    BY <1>1 DEF SlotsOf
  <2>2. CASE b = a
    <3>1. slot[j] # NIL
      BY <1>6, <1>7, <2>2
    <3>2. slot # Empty
      BY <3>1 DEF Empty
    <3> HIDE DEF slot
    <3> QED BY <1>5, <1>6, <1>7, <2>1, <2>2, <3>1, <3>2
  <2>3. CASE b # a
    BY <1>7, <2>1, <2>3 DEF RoutesInv, RoutedInPlace
  <2> QED BY <2>2, <2>3
<1>9. RoutedInPlace'
  BY <1>2, <1>7, <1>8 DEF RoutesInv, RoutedInPlace
<1>10. ClosedLate'
  BY <1>2, <1>7 DEF RoutesInv, ClosedLate, TypeOK
<1>11. RoutesOpen'
  <2>1. NIL \notin tunClosed
    BY TunnelAssumption DEF RoutesInv, TypeOK
  <2> QED BY <1>2, <1>8, <2>1 DEF RoutesInv, RoutesOpen
<1> QED BY <1>9, <1>10, <1>11 DEF RoutesInv

\* close(tunChan): the tunnel left the map before.
LEMMA CloseStep ==
    ASSUME RoutesInv, TypeOK', NEW c \in Conns, CloseTunChan(c)
    PROVE  RoutesInv'
<1>1. /\ pc[c] = "close" /\ pc' = [pc EXCEPT ![c] = "drain"]
      /\ at' = at /\ ipToTunChan' = ipToTunChan /\ tunClosed' = tunClosed \cup {c}
  BY DEF CloseTunChan, Goto, tableVars
<1>2. pc'[c] = "drain" /\ \A d \in Conns \ {c} : pc'[d] = pc[d]
  BY <1>1 DEF RoutesInv, TypeOK
<1>3. \A a \in Addrs, i \in Slots : /\ ipToTunChan[a].slot[i] \in Conns \cup {NIL}
                                    /\ ipToTunChan[a].slot[i] # c
  BY <1>1, TunnelAssumption DEF RoutesInv, TypeOK, SlotsOf, RoutedInPlace
<1>4. RoutedInPlace'
  BY <1>1, <1>2, <1>3 DEF RoutesInv, RoutedInPlace
<1>5. ClosedLate'
  BY <1>1, <1>2 DEF RoutesInv, ClosedLate, TypeOK
<1>6. RoutesOpen'
  BY <1>1, <1>3 DEF RoutesInv, RoutesOpen
<1> QED BY <1>4, <1>5, <1>6 DEF RoutesInv

\* No TUN reader and no client-to-client forwarder ever looks up a closed channel: the
\* handler takes its channel out of ipToTunChan before it closes it, and a truncated or
\* reallocated slice never brings it back.
THEOREM RoutesStayOpen == Spec => []RoutesOpen
<1>1. Init => RoutesInv
  <2> SUFFICES ASSUME Init PROVE RoutesInv
    OBVIOUS
  <2>1. TypeOK
    BY InitTypeOK
  <2> QED BY <2>1 DEF Init, RoutesInv, RoutedInPlace, ClosedLate, RoutesOpen, Empty
<1>2. RoutesInv /\ TypeOK' /\ [Next]_vars => RoutesInv'
  <2> SUFFICES ASSUME RoutesInv, TypeOK', [Next]_vars PROVE RoutesInv'
    OBVIOUS
  <2>1. ASSUME NEW c \in Conns, Insert(c) PROVE RoutesInv'
    BY <2>1, InsertStep
  <2>2. ASSUME NEW c \in Conns, Unlink(c) PROVE RoutesInv'
    BY <2>2, UnlinkStep
  <2>3. ASSUME NEW c \in Conns, CloseTunChan(c) PROVE RoutesInv'
    BY <2>3, CloseStep
  <2>4. ASSUME NEW c \in Conns,
               \/ Register(c) \/ AssignAddressesFails(c) \/ AdvertiseFails(c) \/ Start(c)
               \/ FirstError(c) \/ Drain(c) \/ SecondError(c) \/ RemoveSession(c)
        PROVE  RoutesInv'
    <3>1. UNCHANGED <<at, ipToTunChan, tunClosed>>
      BY <2>4 DEF Register, AssignAddressesFails, AdvertiseFails, Start, FirstError, Drain,
                  SecondError, RemoveSession, tableVars
    <3>2. \/ pc[c] = "new" /\ Goto(c, "registered")
          \/ Goto(c, "remove") \/ Goto(c, "done") \/ Goto(c, "wait")
          \/ pc[c] \in {"inserted", "running"} /\ (Goto(c, "running") \/ Goto(c, "unlink"))
      BY <2>4 DEF Register, AssignAddressesFails, AdvertiseFails, Start, FirstError, Drain,
                  SecondError, RemoveSession
    <3>3. \A d \in Conns : pc'[d] # pc[d] =>
            /\ pc'[d] \in {"new", "registered", "close"} => pc[d] \in {"new", "registered", "close"}
            /\ pc[d] \in {"drain", "wait", "remove", "done"} =>
                 pc'[d] \in {"drain", "wait", "remove", "done"}
      BY <3>2 DEF Goto, RoutesInv, TypeOK
    <3> QED BY <3>1, <3>3, RoutesUntouched
  <2>5. ASSUME NEW c \in Conns, PeerCloses(c) \/ Goroutine(c) PROVE RoutesInv'
    <3>1. UNCHANGED <<pc, at, ipToTunChan, tunClosed>>
      BY <2>5 DEF PeerCloses, Goroutine, ReaderFails, ReaderEnds, WriterStarts, WriterSeesClose,
                  WriterEnds, DownWrites, DownSeesClose, handlerVars, tableVars
    <3> QED BY <3>1, RoutesUntouched
  <2>6. ASSUME NEW s \in Senders, Sender(s) PROVE RoutesInv'
    <3>1. UNCHANGED <<pc, at, ipToTunChan, tunClosed>>
      BY <2>6 DEF Sender, LookupTun, LookupSession, Send, handlerVars, tableVars
    <3> QED BY <3>1, RoutesUntouched
  <2>7. CASE UNCHANGED vars
    BY <2>7, RoutesUntouched DEF vars, handlerVars, tableVars
  <2> QED
    BY <2>1, <2>2, <2>3, <2>4, <2>5, <2>6, <2>7 DEF Next, Setup, Teardown
<1>3. RoutesInv => RoutesOpen
  BY DEF RoutesInv
<1> QED BY <1>1, <1>2, <1>3, TypeCorrect, PTL DEF Spec

=============================================================================
