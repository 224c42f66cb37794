------------------------- MODULE ControlPlaneProofs -------------------------
(***************************************************************************)
(* ControlPlane: type correctness, the soundness of the address pool, the  *)
(* integrity of the link tables and what a new row may inherit, for any    *)
(* number of names, rows, batches and addresses.                           *)
(***************************************************************************)
EXTENDS ControlPlane, TLAPS

(***************************************************************************)
(* Tables.                                                                 *)
(***************************************************************************)

\* Put, Drop and InsertNames keep a table a table.
LEMMA PutTable ==
    ASSUME NEW S, NEW f, IsTable(f, S), NEW id \in Ids, NEW v \in S
    PROVE  IsTable(Put(f, id, v), S) /\ DOMAIN Put(f, id, v) = DOMAIN f \cup {id}
BY DEF IsTable, Put

\* Deleting rows leaves a table.
LEMMA DropTable ==
    ASSUME NEW S, NEW f, IsTable(f, S), NEW ids
    PROVE  IsTable(Drop(f, ids), S) /\ DOMAIN Drop(f, ids) = DOMAIN f \ ids
BY DEF IsTable, Drop

\* A batch is a sequence of names, and not an empty one.
LEMMA BatchesType ==
    ASSUME NEW S, NEW names \in Batches(S)
    PROVE  names \in Seq(S) /\ Len(names) \in Nat /\ DOMAIN names = 1..Len(names)
<1>1. PICK n \in 1..MaxBatch : names \in [1..n -> S]
  BY DEF Batches
<1>2. n \in Nat
  BY PoolAssumption
<1> QED BY <1>1, <1>2

\* Inserting a list of names leaves a table.
LEMMA InsertTable ==
    ASSUME NEW S, NEW f, IsTable(f, S), NEW names \in Batches(S), NEW first \in Ids,
           first + Len(names) - 1 <= MaxId
    PROVE  /\ IsTable(InsertNames(f, names, first), S)
           /\ DOMAIN InsertNames(f, names, first) = DOMAIN f \cup first..(first + Len(names) - 1)
<1>1. names \in Seq(S) /\ Len(names) \in Nat
  BY BatchesType
<1>2. first \in Nat /\ first >= 1 /\ MaxId \in Nat
  BY PoolAssumption DEF Ids
<1>3. ASSUME NEW i \in first..(first + Len(names) - 1)
      PROVE  i \in Ids /\ names[i - first + 1] \in S
  <2>1. i - first + 1 \in 1..Len(names)
    BY <1>1, <1>2
  <2> QED BY <2>1, <1>1, <1>2 DEF Ids
<1> QED BY <1>3 DEF IsTable, InsertNames

\* An id that is given out is not in use.
LEMMA NextIdFresh ==
    ASSUME NEW used \in SUBSET Ids, NEW id \in Ids, IsNextId(id, used)
    PROVE  id \notin used
BY PoolAssumption DEF IsNextId, Ids

\* The requests on links change the link tables only, outside any batch.
LEMMA LinksFrame ==
    Links => UNCHANGED <<clients, roles, resources, dhcp, tx, todo, autoRole, pool, overrun>> /\ tx = NoTx
BY DEF Links, AssignRolesToClient, UnassignRolesToClient, AssignRolesToClientByName,
       UnassignRolesToClientByName, AssignResourcesToRole, UnassignResourcesToRole,
       AssignResourcesToRoleByName, UnassignResourcesToRoleByName

\* A link is made between rows that exist.
LEMMA LinkRows ==
    ASSUME Links
    PROVE  /\ clientRoles' \subseteq clientRoles \cup ((DOMAIN clients) \X (DOMAIN roles))
           /\ roleResources' \subseteq roleResources \cup ((DOMAIN roles) \X (DOMAIN resources))
<1>1. CASE AssignRolesToClient
  BY <1>1 DEF AssignRolesToClient
<1>2. CASE UnassignRolesToClient
  BY <1>2 DEF UnassignRolesToClient
<1>3. CASE AssignRolesToClientByName
  BY <1>3 DEF AssignRolesToClientByName, ClientNamed, RoleNamed
<1>4. CASE UnassignRolesToClientByName
  BY <1>4 DEF UnassignRolesToClientByName, ClientNamed, RoleNamed
<1>5. CASE AssignResourcesToRole
  BY <1>5 DEF AssignResourcesToRole
<1>6. CASE UnassignResourcesToRole
  BY <1>6 DEF UnassignResourcesToRole
<1>7. CASE AssignResourcesToRoleByName
  BY <1>7 DEF AssignResourcesToRoleByName, RoleNamed, ResourceNamed
<1>8. CASE UnassignResourcesToRoleByName
  BY <1>8 DEF UnassignResourcesToRoleByName, RoleNamed, ResourceNamed
<1> QED BY <1>1, <1>2, <1>3, <1>4, <1>5, <1>6, <1>7, <1>8 DEF Links

(***************************************************************************)
(* Types.                                                                  *)
(***************************************************************************)
\* The migrated, empty database is typed.
LEMMA InitTypeOK == Init => TypeOK
<1> SUFFICES ASSUME Init PROVE TypeOK
  OBVIOUS
<1>1. pool \in Rows /\ dhcp \subseteq Rows
  BY PoolAssumption DEF Init, Rows, Range_
<1>2. overrun \in BOOLEAN
  BY DEF Init
<1> QED BY <1>1, <1>2 DEF Init, TypeOK, IsTable

\* Taking an address leaves ranges of addresses.
LEMMA TakeType ==
    ASSUME dhcp \subseteq Rows, NEW row \in dhcp
    PROVE  Take(row) \subseteq Rows
BY DEF Take, Rows, Range_

\* Releasing an address leaves ranges of addresses.
LEMMA ReleasedType ==
    ASSUME dhcp \subseteq Rows, NEW ip \in Nat
    PROVE  Released(ip) \in Rows /\ Unmerged(ip) \subseteq Rows
<1>1. RowBelow(ip) # {} => (CHOOSE r \in RowBelow(ip) : TRUE) \in Rows
  BY DEF RowBelow
<1>2. RowAbove(ip) # {} => (CHOOSE r \in RowAbove(ip) : TRUE) \in Rows
  BY DEF RowAbove
<1> QED BY <1>1, <1>2 DEF Released, Unmerged, Range_, Rows

\* Every request, every failed batch and every crash leaves rows of the schema.
THEOREM TypeCorrect == Spec => []TypeOK
<1>1. TypeOK /\ [Next]_vars => TypeOK'
  <2> SUFFICES ASSUME TypeOK, [Next]_vars PROVE TypeOK'
    OBVIOUS
  <2>1. CASE CreateBegin
    <3>1. PICK names \in Batches(Names) : tx' = [names |-> names, saved |-> Snapshot] /\ todo' = names
      BY <2>1 DEF CreateBegin
    <3>2. todo' \in Seq(Names)
      BY <3>1, BatchesType
    <3> QED BY <2>1, <3>1, <3>2 DEF CreateBegin, Snapshot, TypeOK
  <2>2. CASE CreateOne
    <3>1. PICK row \in dhcp, c \in Ids, r \in Ids :
            /\ dhcp' = Take(row)
            /\ clients' = Put(clients, c, [name |-> Head(todo), ip |-> row.first])
            /\ roles' = Put(roles, r, Head(todo))
            /\ clientRoles' = clientRoles \cup {<<c, r>>}
            /\ autoRole' = autoRole \cup {<<c, r>>}
      BY <2>2 DEF CreateOne
    <3>2. Head(todo) \in Names /\ todo' \in Seq(Names)
      BY <2>2 DEF CreateOne, TypeOK
    <3>3. row \in Rows /\ [name |-> Head(todo), ip |-> row.first] \in ClientRow
      BY <3>2 DEF TypeOK, Rows, ClientRow
    <3>4. IsTable(clients', ClientRow) /\ IsTable(roles', Names)
      BY <3>1, <3>2, <3>3, PutTable DEF TypeOK
    <3>5. dhcp' \subseteq Rows
      BY <3>1, TakeType DEF TypeOK
    <3> QED BY <2>2, <3>1, <3>2, <3>4, <3>5 DEF CreateOne, TypeOK
  <2>3. CASE CreateCommit
    BY <2>3 DEF CreateCommit, TypeOK
  <2>4. CASE CreateFail \/ Crash
    <3>1. /\ tx # NoTx /\ tx' = NoTx /\ Rollback /\ todo' = <<>>
          /\ UNCHANGED <<resources, roleResources, pool, overrun>>
      BY <2>4 DEF CreateFail, Crash
    <3>2. todo' \in Seq(Names)
      BY <3>1
    <3> QED BY <3>1, <3>2 DEF Rollback, TypeOK
  <2>5. CASE AssignIPToClient
    <3>1. PICK c \in DOMAIN clients, row \in dhcp :
            /\ dhcp' = (dhcp \ {row}) \cup {Range_(row.first + 1, row.last)}
            /\ clients' = [clients EXCEPT ![c].ip = row.first]
      BY <2>5 DEF AssignIPToClient
    <3>2. row \in Rows /\ dhcp' \subseteq Rows
      BY <3>1 DEF TypeOK, Rows, Range_
    <3>3. IsTable(clients', ClientRow)
      BY <3>1, <3>2 DEF TypeOK, IsTable, ClientRow, Rows
    <3> QED BY <2>5, <3>2, <3>3 DEF AssignIPToClient, TypeOK
  <2>6. CASE DeleteClient
    <3>1. PICK c \in DOMAIN clients :
            /\ clients[c].ip # NULL
            /\ dhcp' = Unmerged(clients[c].ip) \cup {Released(clients[c].ip)}
            /\ clients' = Drop(clients, {c})
            /\ roles' = Drop(roles, RoleNamed(clients[c].name))
      BY <2>6 DEF DeleteClient
    <3>2. clients[c].ip \in Nat
      BY <3>1 DEF TypeOK, IsTable, ClientRow
    <3>3. dhcp' \subseteq Rows
      BY <3>1, <3>2, ReleasedType DEF TypeOK
    <3>4. IsTable(clients', ClientRow) /\ IsTable(roles', Names)
      BY <3>1, DropTable DEF TypeOK
    <3> QED BY <2>6, <3>3, <3>4 DEF DeleteClient, Cascade, TypeOK
  <2>7. CASE UpdateClientName
    <3>1. PICK c \in DOMAIN clients, new \in Names :
            /\ clients' = [clients EXCEPT ![c].name = new]
            /\ roles' = [r \in DOMAIN roles |->
                           IF r \in RoleNamed(clients[c].name) THEN new ELSE roles[r]]
      BY <2>7 DEF UpdateClientName
    <3>2. IsTable(clients', ClientRow)
      BY <3>1 DEF TypeOK, IsTable, ClientRow
    <3>3. IsTable(roles', Names)
      BY <3>1 DEF TypeOK, IsTable
    <3> QED BY <2>7, <3>2, <3>3 DEF UpdateClientName, TypeOK
  <2>8. CASE ResetDHCP
    <3>1. dhcp' \subseteq Rows /\ pool' \in Rows /\ overrun' \in BOOLEAN
      BY <2>8, PoolAssumption DEF ResetDHCP, Rows
    <3>2. IsTable(clients', ClientRow)
      BY <2>8 DEF ResetDHCP, TypeOK, IsTable, ClientRow
    <3> QED BY <2>8, <3>1, <3>2 DEF ResetDHCP, TypeOK
  <2>9. CASE UpsertRoles
    <3>1. PICK names \in Batches(Names), first \in Ids :
            NamesFit(roles, names, first) /\ roles' = InsertNames(roles, names, first)
      BY <2>9 DEF UpsertRoles
    <3>2. IsTable(roles', Names)
      BY <3>1, InsertTable DEF NamesFit, TypeOK
    <3> QED BY <2>9, <3>2 DEF UpsertRoles, TypeOK
  <2>10. CASE UpdateRoleName
    <3>1. IsTable(roles', Names)
      BY <2>10 DEF UpdateRoleName, TypeOK, IsTable
    <3> QED BY <2>10, <3>1 DEF UpdateRoleName, TypeOK
  <2>11. CASE DeleteRole
    <3>1. PICK r \in DOMAIN roles : roles' = Drop(roles, {r})
      BY <2>11 DEF DeleteRole
    <3>2. IsTable(roles', Names)
      BY <3>1, DropTable DEF TypeOK
    <3> QED BY <2>11, <3>2 DEF DeleteRole, Cascade, TypeOK
  <2>12. CASE UpsertResources
    <3>1. PICK names \in Batches(ResourceNames), first \in Ids :
            NamesFit(resources, names, first) /\ resources' = InsertNames(resources, names, first)
      BY <2>12 DEF UpsertResources
    <3>2. IsTable(resources', ResourceNames)
      BY <3>1, InsertTable DEF NamesFit, TypeOK
    <3> QED BY <2>12, <3>2 DEF UpsertResources, TypeOK
  <2>13. CASE UpdateResourceName
    <3>1. IsTable(resources', ResourceNames)
      BY <2>13 DEF UpdateResourceName, TypeOK, IsTable
    <3> QED BY <2>13, <3>1 DEF UpdateResourceName, TypeOK
  <2>14. CASE DeleteResource
    <3>1. PICK x \in DOMAIN resources : resources' = Drop(resources, {x})
      BY <2>14 DEF DeleteResource
    <3>2. IsTable(resources', ResourceNames)
      BY <3>1, DropTable DEF TypeOK
    <3> QED BY <2>14, <3>2 DEF DeleteResource, Cascade, TypeOK
  <2>15. CASE Links
    <3>1. clientRoles' \subseteq Ids \X Ids /\ roleResources' \subseteq Ids \X Ids
      BY <2>15, LinkRows DEF TypeOK, IsTable
    <3> QED BY <2>15, <3>1, LinksFrame DEF TypeOK
  <2>16. CASE UNCHANGED vars
    BY <2>16 DEF vars, TypeOK
  <2> QED
    BY <2>1, <2>2, <2>3, <2>4, <2>5, <2>6, <2>7, <2>8, <2>9, <2>10, <2>11, <2>12, <2>13,
       <2>14, <2>15, <2>16 DEF Next, Create, Clients, Roles, Resources
<1> QED BY <1>1, InitTypeOK, PTL DEF Spec
-----------------------------------------------------------------------------
(***************************************************************************)
(* The address pool.  The invariant is about a clients table and a dhcp    *)
(* table, so that it can be said of the live tables and of the snapshot a  *)
(* rollback returns to.                                                    *)
(***************************************************************************)
FreeIn(free, a) == \E row \in free : row.first <= a /\ a <= row.last
HeldIn(cl, a) == \E c \in DOMAIN cl : cl[c].ip = a

RowsInPool(free, pl) ==
    \A row \in free : pl.first <= row.first /\ row.first <= row.last /\ row.last <= pl.last
RowsApart(free) ==
    \A r, s \in free : r # s => r.last + 1 < s.first \/ s.last + 1 < r.first
HoldersApart(cl, pl) ==
    /\ \A c \in DOMAIN cl : cl[c].ip \in (pl.first..pl.last) \cup {NULL}
    /\ \A c, d \in DOMAIN cl : c # d => cl[c].ip # cl[d].ip \/ cl[c].ip = NULL
Partition(cl, free, pl) == \A a \in pl.first..pl.last : FreeIn(free, a) <=> ~HeldIn(cl, a)

PoolSound(cl, free, pl) ==
    /\ RowsInPool(free, pl) /\ RowsApart(free)
    /\ HoldersApart(cl, pl) /\ Partition(cl, free, pl)

PoolInv ==
    /\ TypeOK
    /\ ~overrun => PoolSound(clients, dhcp, pool)
    /\ ~overrun /\ tx # NoTx => PoolSound(tx.saved.clients, tx.saved.dhcp, pool)

\* The pool is a range of numbers, and NULL is none of them.
LEMMA PoolInts ==
    ASSUME TypeOK
    PROVE  /\ pool.first \in Nat /\ pool.last \in Nat /\ pool.first..pool.last \subseteq Nat
           /\ NULL \notin pool.first..pool.last
BY PoolAssumption DEF TypeOK, Rows

\* Taking the first address of a range frees no other and loses none.
LEMMA TakeRows ==
    ASSUME TypeOK, PoolSound(clients, dhcp, pool), NEW row \in dhcp
    PROVE  /\ RowsInPool(Take(row), pool) /\ RowsApart(Take(row))
           /\ \A a \in Nat : FreeIn(Take(row), a) <=> FreeIn(dhcp, a) /\ a # row.first
<1> DEFINE ip == row.first
<1>1. /\ \A r \in dhcp : r.first \in Nat /\ r.last \in Nat /\ r = Range_(r.first, r.last)
      /\ ip \in Nat /\ pool.first <= ip /\ ip <= pool.last /\ ip <= row.last
  BY PoolInts DEF TypeOK, Rows, Range_, PoolSound, RowsInPool
<1>2. \A r \in dhcp : r # row => r.last + 1 < ip \/ row.last + 1 < r.first
  BY DEF PoolSound, RowsApart
<1>3. \A r \in Take(row) :
        \/ r \in dhcp /\ r # row
        \/ r.first = ip + 1 /\ r.last = row.last /\ ip < row.last
  <2>1. CASE row.first = row.last
    BY <2>1 DEF Take
  <2>2. CASE row.first # row.last
    <3>1. Range_(ip + 1, row.last).first = ip + 1 /\ Range_(ip + 1, row.last).last = row.last
      BY DEF Range_
    <3>2. ip < row.last
      BY <2>2, <1>1
    <3> QED BY <2>2, <3>1, <3>2 DEF Take
  <2> QED BY <2>1, <2>2
<1>4. /\ \A r \in dhcp : r # row => r \in Take(row)
      /\ ip < row.last => \E r \in Take(row) : r.first = ip + 1 /\ r.last = row.last
  <2>1. \A r \in dhcp : r # row => r \in Take(row)
    BY DEF Take
  <2>2. ASSUME ip < row.last PROVE Range_(ip + 1, row.last) \in Take(row)
    BY <2>2, <1>1 DEF Take
  <2>3. Range_(ip + 1, row.last).first = ip + 1 /\ Range_(ip + 1, row.last).last = row.last
    BY DEF Range_
  <2> QED BY <2>1, <2>2, <2>3
<1>5. \A a \in Nat : FreeIn(Take(row), a) <=> FreeIn(dhcp, a) /\ a # ip
  <2> SUFFICES ASSUME NEW a \in Nat PROVE FreeIn(Take(row), a) <=> FreeIn(dhcp, a) /\ a # ip
    OBVIOUS
  <2>1. ASSUME FreeIn(Take(row), a) PROVE FreeIn(dhcp, a) /\ a # ip
    <3>1. PICK r \in Take(row) : r.first <= a /\ a <= r.last
      BY <2>1 DEF FreeIn
    <3>2. CASE r \in dhcp /\ r # row
      BY <3>1, <3>2, <1>1, <1>2 DEF FreeIn
    <3>3. CASE r.first = ip + 1 /\ r.last = row.last
      BY <3>1, <3>3, <1>1 DEF FreeIn
    <3> QED BY <3>2, <3>3, <1>3
  <2>2. ASSUME FreeIn(dhcp, a), a # ip PROVE FreeIn(Take(row), a)
    <3>1. PICK r \in dhcp : r.first <= a /\ a <= r.last
      BY <2>2 DEF FreeIn
    <3>2. CASE r # row
      BY <3>1, <3>2, <1>4 DEF FreeIn
    <3>3. CASE r = row
      <4>1. PICK q \in Take(row) : q.first = ip + 1 /\ q.last = row.last
        BY <3>1, <3>3, <2>2, <1>1, <1>4
      <4> QED BY <3>1, <3>3, <4>1, <2>2, <1>1 DEF FreeIn
    <3> QED BY <3>2, <3>3
  <2> QED BY <2>1, <2>2
<1>12. RowsInPool(Take(row), pool)
  BY <1>1, <1>3, PoolInts DEF PoolSound, RowsInPool
<1>13. RowsApart(Take(row))
  <2> SUFFICES ASSUME NEW r \in Take(row), NEW q \in Take(row), r # q
               PROVE  r.last + 1 < q.first \/ q.last + 1 < r.first
    BY DEF RowsApart
  <2>1. CASE r \in dhcp /\ q \in dhcp /\ r # row /\ q # row
    BY <2>1 DEF PoolSound, RowsApart
  <2>2. CASE r \in dhcp /\ r # row /\ q.first = ip + 1 /\ q.last = row.last
    BY <2>2, <1>1, <1>2
  <2>3. CASE q \in dhcp /\ q # row /\ r.first = ip + 1 /\ r.last = row.last
    BY <2>3, <1>1, <1>2
  <2>4. CASE r \notin dhcp \ {row} /\ q \notin dhcp \ {row}
    BY <2>4 DEF Take
  <2> QED BY <2>1, <2>2, <2>3, <2>4, <1>3
<1> QED BY <1>5, <1>12, <1>13

\* A new client holds the address taken for it.
LEMMA TakeSound ==
    ASSUME TypeOK, PoolSound(clients, dhcp, pool), NEW row \in dhcp, NEW name \in Names,
           NEW c \in Ids, c \notin DOMAIN clients
    PROVE  PoolSound(Put(clients, c, [name |-> name, ip |-> row.first]), Take(row), pool)
<1> DEFINE cl == Put(clients, c, [name |-> name, ip |-> row.first])
           ip == row.first
<1>1. ip \in Nat /\ pool.first <= ip /\ ip <= pool.last /\ ip <= row.last
  BY PoolInts DEF TypeOK, Rows, PoolSound, RowsInPool
<1>5. /\ RowsInPool(Take(row), pool) /\ RowsApart(Take(row))
      /\ \A a \in Nat : FreeIn(Take(row), a) <=> FreeIn(dhcp, a) /\ a # ip
  BY TakeRows
<1>6. DOMAIN cl = DOMAIN clients \cup {c} /\ cl[c].ip = ip /\ \A d \in DOMAIN clients : cl[d] = clients[d]
  BY DEF Put
<1> HIDE DEF cl
<1>7. \A a : HeldIn(cl, a) <=> HeldIn(clients, a) \/ a = ip
  BY <1>6 DEF HeldIn
<1>8. FreeIn(dhcp, ip)
  BY <1>1 DEF FreeIn
<1>9. ip \in pool.first..pool.last /\ ~HeldIn(clients, ip)
  BY <1>1, <1>8, PoolInts DEF PoolSound, Partition
<1>10. HoldersApart(cl, pool)
  BY <1>6, <1>9 DEF PoolSound, HoldersApart, HeldIn
<1>11. Partition(cl, Take(row), pool)
  BY <1>5, <1>7, <1>8, PoolInts DEF PoolSound, Partition
<1> QED BY <1>5, <1>10, <1>11 DEF PoolSound, cl

\* Releasing an address adds it, once, to the free ranges, and merges what touches it.
LEMMA ReleaseSound ==
    ASSUME TypeOK, PoolSound(clients, dhcp, pool), NEW c \in DOMAIN clients, clients[c].ip # NULL
    PROVE  PoolSound(Drop(clients, {c}), Unmerged(clients[c].ip) \cup {Released(clients[c].ip)}, pool)
<1> DEFINE ip == clients[c].ip
           cl == Drop(clients, {c})
           row == Released(ip)
           free == Unmerged(ip) \cup {row}
           lo == row.first
           hi == row.last
<1>1. \A r \in dhcp : /\ r.first \in Nat /\ r.last \in Nat
                      /\ pool.first <= r.first /\ r.first <= r.last /\ r.last <= pool.last
  BY DEF TypeOK, Rows, PoolSound, RowsInPool
<1>2. ip \in Nat /\ ip \in pool.first..pool.last /\ pool.first <= ip /\ ip <= pool.last
  BY PoolInts DEF PoolSound, HoldersApart
<1>3. ~FreeIn(dhcp, ip)
  BY <1>2 DEF PoolSound, Partition, HeldIn
<1>4. \A r \in dhcp : r.last < ip \/ ip < r.first
  BY <1>1, <1>2, <1>3 DEF FreeIn
<1>5. \A r, q \in dhcp : r # q => r.last + 1 < q.first \/ q.last + 1 < r.first
  BY DEF PoolSound, RowsApart
<1>6. \/ RowBelow(ip) = {} /\ lo = ip
      \/ \E b \in dhcp : RowBelow(ip) = {b} /\ b.last = ip - 1 /\ lo = b.first
  <2>1. CASE RowBelow(ip) = {}
    BY <2>1 DEF Released, Range_
  <2>2. CASE RowBelow(ip) # {}
    <3>1. PICK b \in dhcp : b \in RowBelow(ip) /\ b.last = ip - 1
      BY <2>2 DEF RowBelow
    <3>2. \A r \in RowBelow(ip) : r = b
      BY <3>1, <1>1, <1>2, <1>5 DEF RowBelow
    <3>3. RowBelow(ip) = {b} /\ (CHOOSE r \in RowBelow(ip) : TRUE) = b
      BY <3>1, <3>2
    <3> QED BY <2>2, <3>1, <3>3 DEF Released, Range_
  <2> QED BY <2>1, <2>2
<1>7. \/ RowAbove(ip) = {} /\ hi = ip
      \/ \E b \in dhcp : RowAbove(ip) = {b} /\ b.first = ip + 1 /\ hi = b.last
  <2>1. CASE RowAbove(ip) = {}
    BY <2>1 DEF Released, Range_
  <2>2. CASE RowAbove(ip) # {}
    <3>1. PICK b \in dhcp : b \in RowAbove(ip) /\ b.first = ip + 1
      BY <2>2 DEF RowAbove
    <3>2. \A r \in RowAbove(ip) : r = b
      BY <3>1, <1>1, <1>2, <1>5 DEF RowAbove
    <3>3. RowAbove(ip) = {b} /\ (CHOOSE r \in RowAbove(ip) : TRUE) = b
      BY <3>1, <3>2
    <3> QED BY <2>2, <3>1, <3>3 DEF Released, Range_
  <2> QED BY <2>1, <2>2
<1>8. \A r \in Unmerged(ip) : r \in dhcp /\ r.last # ip - 1 /\ r.first # ip + 1
  BY DEF Unmerged, RowBelow, RowAbove
<1>9. \A r \in dhcp : r \in Unmerged(ip) \/ r \in RowBelow(ip) \/ r \in RowAbove(ip)
  BY DEF Unmerged
<1> HIDE DEF row
<1>10. lo \in Nat /\ hi \in Nat /\ lo <= ip /\ ip <= hi /\ pool.first <= lo /\ hi <= pool.last
  BY <1>1, <1>2, <1>6, <1>7
<1>11. \A r \in Unmerged(ip) : r.last + 1 < lo \/ hi + 1 < r.first
  <2> SUFFICES ASSUME NEW r \in Unmerged(ip) PROVE r.last + 1 < lo \/ hi + 1 < r.first
    OBVIOUS
  <2>1. CASE r.last < ip
    BY <2>1, <1>1, <1>2, <1>5, <1>6, <1>8
  <2>2. CASE ip < r.first
    BY <2>2, <1>1, <1>2, <1>5, <1>7, <1>8
  <2> QED BY <2>1, <2>2, <1>4, <1>8
<1>12. \A a \in Nat : FreeIn(free, a) <=> FreeIn(dhcp, a) \/ a = ip
  <2> SUFFICES ASSUME NEW a \in Nat PROVE FreeIn(free, a) <=> FreeIn(dhcp, a) \/ a = ip
    OBVIOUS
  <2>1. (lo <= a /\ a <= hi) => FreeIn(dhcp, a) \/ a = ip
    BY <1>1, <1>2, <1>6, <1>7 DEF FreeIn
  <2>2. ASSUME NEW r \in dhcp, r.first <= a, a <= r.last PROVE FreeIn(free, a)
    <3>1. CASE r \in Unmerged(ip)
      BY <2>2, <3>1 DEF FreeIn
    <3>2. CASE r \in RowBelow(ip) \/ r \in RowAbove(ip)
      <4>1. lo <= a /\ a <= hi
        BY <2>2, <3>2, <1>1, <1>2, <1>6, <1>7, <1>10
      <4> QED BY <4>1 DEF FreeIn
    <3> QED BY <3>1, <3>2, <1>9
  <2>3. FreeIn(free, ip)
    BY <1>10 DEF FreeIn
  <2> QED BY <2>1, <2>2, <2>3, <1>8 DEF FreeIn
<1>13. DOMAIN cl = DOMAIN clients \ {c} /\ \A d \in DOMAIN cl : cl[d] = clients[d]
  BY DEF Drop
<1> HIDE DEF cl
<1>14. \A a : HeldIn(cl, a) <=> HeldIn(clients, a) /\ a # ip
  BY <1>13 DEF HeldIn, PoolSound, HoldersApart
<1>15. HoldersApart(cl, pool)
  BY <1>13 DEF PoolSound, HoldersApart
<1>16. Partition(cl, free, pool)
  <2> HIDE DEF free, ip
  <2> QED BY <1>3, <1>12, <1>14, PoolInts DEF PoolSound, Partition
<1>17. RowsInPool(free, pool)
  <2>1. \A r \in Unmerged(ip) : pool.first <= r.first /\ r.first <= r.last /\ r.last <= pool.last
    BY <1>1, <1>8
  <2>2. lo <= hi
    BY <1>2, <1>10
  <2> QED BY <2>1, <2>2, <1>10 DEF RowsInPool
<1>18. RowsApart(free)
  BY <1>5, <1>8, <1>11 DEF RowsApart
<1> QED BY <1>15, <1>16, <1>17, <1>18 DEF PoolSound, cl, row

\* A change of names moves no address.
LEMMA RenameSound ==
    ASSUME NEW cl, NEW free, PoolSound(clients, free, pool), DOMAIN cl = DOMAIN clients,
           \A c \in DOMAIN clients : cl[c].ip = clients[c].ip
    PROVE  PoolSound(cl, free, pool)
BY DEF PoolSound, HoldersApart, Partition, HeldIn

\* A reconnect that takes an address, but not the last one of its range, does to the
\* pool what a new client does.
LEMMA AssignSound ==
    ASSUME TypeOK, PoolSound(clients, dhcp, pool), NEW row \in dhcp, row.first # row.last,
           NEW c \in DOMAIN clients, clients[c].ip = NULL,
           clients' = [clients EXCEPT ![c].ip = row.first],
           dhcp' = (dhcp \ {row}) \cup {Range_(row.first + 1, row.last)}
    PROVE  PoolSound(clients', dhcp', pool)
<1> DEFINE ip == row.first
<1>1. /\ ip \in Nat /\ row.last \in Nat /\ pool.first <= ip /\ ip < row.last /\ row.last <= pool.last
      /\ \A r \in dhcp : r.first \in Nat /\ r.last \in Nat
  BY PoolInts DEF TypeOK, Rows, PoolSound, RowsInPool
<1>2. Take(row) = dhcp'
  BY DEF Take
<1>3. /\ DOMAIN clients' = DOMAIN clients /\ clients'[c].ip = ip
      /\ \A d \in DOMAIN clients : d # c => clients'[d].ip = clients[d].ip
  BY DEF TypeOK, IsTable, ClientRow
<1>4. FreeIn(dhcp, ip) /\ ip \in pool.first..pool.last
  BY <1>1, PoolInts DEF FreeIn
<1>5. ~HeldIn(clients, ip)
  BY <1>4 DEF PoolSound, Partition
<1>6. HoldersApart(clients', pool)
  BY <1>3, <1>4, <1>5 DEF PoolSound, HoldersApart, HeldIn
<1>7. \A a \in Nat : HeldIn(clients', a) <=> HeldIn(clients, a) \/ a = ip
  BY <1>3, PoolAssumption DEF HeldIn
<1>8. /\ RowsInPool(dhcp', pool) /\ RowsApart(dhcp')
      /\ \A a \in Nat : FreeIn(dhcp', a) <=> FreeIn(dhcp, a) /\ a # ip
  BY <1>2, TakeRows
<1>9. Partition(clients', dhcp', pool)
  BY <1>4, <1>7, <1>8, PoolInts DEF PoolSound, Partition
<1> QED BY <1>6, <1>8, <1>9 DEF PoolSound

\* From one PUT /dhcp to the next, up to the reconnect that takes the last address of a
\* range (client.go:297 leaves it inverted), no address is held by two clients, lost, or
\* free and held at once, and free ranges are merged: through every batch, failed or not,
\* every crash inside one, every deletion and every other reconnect.
THEOREM PoolIsSound == Spec => [](AddressesUnique /\ PoolPartition /\ RangesMerged)
<1>1. Init => PoolInv
  <2> SUFFICES ASSUME Init PROVE PoolSound(clients, dhcp, pool) /\ tx = NoTx
    BY InitTypeOK DEF PoolInv
  <2>1. DOMAIN clients = {} /\ dhcp = {pool} /\ tx = NoTx
    BY DEF Init
  <2>2. pool.first = PoolFirst /\ pool.last = PoolLast
    BY DEF Init, Range_
  <2>3. \A a \in pool.first..pool.last : FreeIn(dhcp, a)
    BY <2>1, <2>2, PoolAssumption DEF FreeIn
  <2>4. RowsInPool(dhcp, pool) /\ RowsApart(dhcp)
    BY <2>1, <2>2, PoolAssumption DEF RowsInPool, RowsApart
  <2> QED BY <2>1, <2>3, <2>4 DEF PoolSound, HoldersApart, Partition, HeldIn
<1>2. PoolInv /\ TypeOK' /\ [Next]_vars => PoolInv'
  <2> SUFFICES ASSUME PoolInv, TypeOK', [Next]_vars PROVE PoolInv'
    OBVIOUS
  <2>0. TypeOK /\ (~overrun => PoolSound(clients, dhcp, pool)) /\ overrun \in BOOLEAN
    BY DEF PoolInv, TypeOK
  <2>1. CASE CreateBegin
    <3>1. tx'.saved.clients = clients /\ tx'.saved.dhcp = dhcp /\ UNCHANGED <<clients, dhcp, pool, overrun>>
      BY <2>1 DEF CreateBegin, Snapshot
    <3> QED BY <3>1 DEF PoolInv
  <2>2. CASE CreateOne
    <3>1. PICK row \in dhcp, c \in Ids :
            /\ dhcp' = Take(row) /\ IsNextId(c, DOMAIN clients)
            /\ clients' = Put(clients, c, [name |-> Head(todo), ip |-> row.first])
      BY <2>2 DEF CreateOne
    <3>2. UNCHANGED <<tx, pool, overrun>> /\ Head(todo) \in Names
      BY <2>2, <2>0 DEF CreateOne, TypeOK
    <3>3. c \notin DOMAIN clients
      BY <3>1, <2>0, NextIdFresh DEF TypeOK, IsTable
    <3>4. ~overrun => PoolSound(clients', dhcp', pool')
      BY <2>0, <3>1, <3>2, <3>3, TakeSound
    <3> QED BY <3>2, <3>4 DEF PoolInv
  <2>3. CASE CreateCommit
    BY <2>3 DEF CreateCommit, PoolInv
  <2>4. CASE CreateFail \/ Crash
    <3>1. /\ tx # NoTx /\ tx' = NoTx /\ clients' = tx.saved.clients /\ dhcp' = tx.saved.dhcp
          /\ UNCHANGED <<pool, overrun>>
      BY <2>4 DEF CreateFail, Crash, Rollback
    <3> QED BY <3>1 DEF PoolInv
  <2>5. CASE AssignIPToClient
    <3>1. PICK c \in DOMAIN clients, row \in dhcp :
            /\ clients[c].ip = NULL
            /\ dhcp' = (dhcp \ {row}) \cup {Range_(row.first + 1, row.last)}
            /\ clients' = [clients EXCEPT ![c].ip = row.first]
            /\ overrun' = (overrun \/ row.first = row.last)
      BY <2>5 DEF AssignIPToClient
    <3>2. UNCHANGED <<tx, pool>> /\ tx = NoTx
      BY <2>5 DEF AssignIPToClient
    <3>3. ~overrun' => ~overrun /\ row.first # row.last
      BY <2>0, <3>1
    <3>4. ~overrun' => PoolSound(clients', dhcp', pool')
      BY <2>0, <3>1, <3>2, <3>3, AssignSound
    <3> QED BY <3>2, <3>4 DEF PoolInv
  <2>6. CASE DeleteClient
    <3>1. PICK c \in DOMAIN clients :
            /\ clients[c].ip # NULL
            /\ dhcp' = Unmerged(clients[c].ip) \cup {Released(clients[c].ip)}
            /\ clients' = Drop(clients, {c})
      BY <2>6 DEF DeleteClient
    <3>2. UNCHANGED <<tx, pool, overrun>> /\ tx = NoTx
      BY <2>6 DEF DeleteClient
    <3>3. ~overrun => PoolSound(clients', dhcp', pool')
      BY <2>0, <3>1, <3>2, ReleaseSound
    <3> QED BY <3>2, <3>3 DEF PoolInv
  <2>7. CASE UpdateClientName
    <3>1. PICK c \in DOMAIN clients, new \in Names : clients' = [clients EXCEPT ![c].name = new]
      BY <2>7 DEF UpdateClientName
    <3>2. DOMAIN clients' = DOMAIN clients /\ \A d \in DOMAIN clients : clients'[d].ip = clients[d].ip
      BY <3>1, <2>0 DEF TypeOK, IsTable, ClientRow
    <3>3. UNCHANGED <<dhcp, tx, pool, overrun>> /\ tx = NoTx
      BY <2>7 DEF UpdateClientName
    <3>4. ~overrun => PoolSound(clients', dhcp', pool')
      BY <2>0, <3>2, <3>3, RenameSound
    <3> QED BY <3>3, <3>4 DEF PoolInv
  <2>8. CASE ResetDHCP
    <3>1. PICK range \in ResetRanges :
            dhcp' = {range} /\ pool' = range /\ overrun' = (range.first > range.last)
      BY <2>8 DEF ResetDHCP
    <3>2. range.first \in Nat /\ range.last \in Nat
      BY PoolAssumption
    <3>3. /\ DOMAIN clients' = DOMAIN clients /\ \A c \in DOMAIN clients : clients'[c].ip = NULL
          /\ tx' = NoTx
      BY <2>0, <2>8 DEF ResetDHCP, TypeOK, IsTable, ClientRow
    <3>4. ASSUME ~overrun' PROVE PoolSound(clients', dhcp', pool')
      <4>0. ~(range.first > range.last)
        BY <3>1, <3>4, Zenon
      <4>1. range.first <= range.last
        BY <3>2, <4>0
      <4>2. RowsInPool(dhcp', pool') /\ RowsApart(dhcp')
        BY <3>1, <3>2, <4>1 DEF RowsInPool, RowsApart
      <4>3. HoldersApart(clients', pool')
        BY <3>3 DEF HoldersApart
      <4>4. Partition(clients', dhcp', pool')
        BY <3>1, <3>2, <3>3, PoolAssumption DEF Partition, FreeIn, HeldIn
      <4> QED BY <4>2, <4>3, <4>4 DEF PoolSound
    <3> QED BY <3>3, <3>4 DEF PoolInv
  <2>9. CASE UpsertRoles \/ UpdateRoleName \/ DeleteRole \/ Resources \/ Links
    <3>1. UNCHANGED <<clients, dhcp, tx, pool, overrun>>
      BY <2>9, LinksFrame DEF UpsertRoles, UpdateRoleName, DeleteRole, Resources, UpsertResources,
                              UpdateResourceName, DeleteResource
    <3> QED BY <3>1 DEF PoolInv
  <2>10. CASE UNCHANGED vars
    BY <2>10 DEF vars, PoolInv
  <2> QED
    BY <2>1, <2>2, <2>3, <2>4, <2>5, <2>6, <2>7, <2>8, <2>9, <2>10 DEF Next, Create, Clients, Roles
<1>3. PoolInv => AddressesUnique /\ PoolPartition /\ RangesMerged
  <2> SUFFICES ASSUME PoolSound(clients, dhcp, pool), ~overrun
               PROVE  AddressesUnique /\ PoolPartition /\ RangesMerged
    BY DEF PoolInv, AddressesUnique, PoolPartition, RangesMerged
  <2>1. AddressesUnique
    BY DEF PoolSound, HoldersApart, AddressesUnique
  <2>2. PoolPartition
    BY DEF PoolSound, RowsInPool, HoldersApart, Partition, FreeIn, HeldIn, PoolPartition, Free, Held
  <2>3. RangesMerged
    BY DEF PoolSound, RowsApart, RangesMerged
  <2> QED BY <2>1, <2>2, <2>3
<1> QED BY <1>1, <1>2, <1>3, TypeCorrect, PTL DEF Spec
-----------------------------------------------------------------------------
(***************************************************************************)
(* The link tables.  A rollback brings back the links and the rows of the  *)
(* snapshot but not the requests' own tables, so the invariant relates     *)
(* the snapshot to the live tables: a batch only ever adds rows.           *)
(***************************************************************************)
SnapshotBelow ==
    tx # NoTx =>
       /\ DOMAIN tx.saved.clients \subseteq DOMAIN clients
       /\ DOMAIN tx.saved.roles \subseteq DOMAIN roles
       /\ tx.saved.clientRoles \subseteq (DOMAIN tx.saved.clients) \X (DOMAIN tx.saved.roles)
       /\ roleResources \subseteq (DOMAIN tx.saved.roles) \X (DOMAIN resources)

LinkInv == TypeOK /\ LinksResolve /\ SnapshotBelow

\* Every step keeps the links resolved, of the tables and of the snapshot.
LEMMA LinkStep == LinkInv /\ TypeOK' /\ [Next]_vars => LinkInv'
<1> SUFFICES ASSUME LinkInv, TypeOK', [Next]_vars PROVE LinksResolve' /\ SnapshotBelow'
  BY DEF LinkInv
<1>0. TypeOK /\ LinksResolve /\ SnapshotBelow
  BY DEF LinkInv
<1>1. CASE CreateBegin
  <2>1. /\ UNCHANGED <<clients, roles, resources, clientRoles, roleResources>>
        /\ tx'.saved.clients = clients /\ tx'.saved.roles = roles
        /\ tx'.saved.clientRoles = clientRoles
    BY <1>1 DEF CreateBegin, Snapshot
  <2> QED BY <1>0, <2>1 DEF LinksResolve, SnapshotBelow
<1>2. CASE CreateOne
  <2>1. PICK c \in Ids, r \in Ids, row \in dhcp :
          /\ clients' = Put(clients, c, [name |-> Head(todo), ip |-> row.first])
          /\ roles' = Put(roles, r, Head(todo))
          /\ clientRoles' = clientRoles \cup {<<c, r>>}
    BY <1>2 DEF CreateOne
  <2>2. DOMAIN clients' = DOMAIN clients \cup {c} /\ DOMAIN roles' = DOMAIN roles \cup {r}
    BY <2>1 DEF Put
  <2>3. UNCHANGED <<resources, roleResources, tx>>
    BY <1>2 DEF CreateOne
  <2> QED BY <1>0, <2>1, <2>2, <2>3 DEF LinksResolve, SnapshotBelow
<1>3. CASE CreateCommit
  BY <1>0, <1>3 DEF CreateCommit, LinksResolve, SnapshotBelow
<1>4. CASE CreateFail \/ Crash
  BY <1>0, <1>4 DEF CreateFail, Crash, Rollback, LinksResolve, SnapshotBelow
<1>5. CASE AssignIPToClient \/ UpdateClientName \/ ResetDHCP \/ UpdateRoleName \/ UpdateResourceName
  <2>1. /\ DOMAIN clients' = DOMAIN clients /\ DOMAIN roles' = DOMAIN roles
        /\ DOMAIN resources' = DOMAIN resources
        /\ UNCHANGED <<clientRoles, roleResources, tx>> /\ tx = NoTx
    BY <1>0, <1>5 DEF AssignIPToClient, UpdateClientName, ResetDHCP, UpdateRoleName,
                      UpdateResourceName, TypeOK, IsTable
  <2> QED BY <1>0, <2>1 DEF LinksResolve, SnapshotBelow
<1>6. CASE DeleteClient
  <2>1. /\ clientRoles' = Cascade(clientRoles, DOMAIN clients', DOMAIN roles')
        /\ roleResources' = Cascade(roleResources, DOMAIN roles', DOMAIN resources)
        /\ UNCHANGED <<resources, tx>> /\ tx = NoTx
    BY <1>6 DEF DeleteClient
  <2> QED BY <1>0, <2>1 DEF Cascade, LinksResolve, SnapshotBelow
<1>7. CASE DeleteRole
  <2>1. /\ clientRoles' = Cascade(clientRoles, DOMAIN clients, DOMAIN roles')
        /\ roleResources' = Cascade(roleResources, DOMAIN roles', DOMAIN resources)
        /\ UNCHANGED <<clients, resources, tx>> /\ tx = NoTx
    BY <1>7 DEF DeleteRole
  <2> QED BY <1>0, <2>1 DEF Cascade, LinksResolve, SnapshotBelow
<1>8. CASE DeleteResource
  <2>1. /\ roleResources' = Cascade(roleResources, DOMAIN roles, DOMAIN resources')
        /\ UNCHANGED <<clients, roles, clientRoles, tx>> /\ tx = NoTx
    BY <1>8 DEF DeleteResource
  <2> QED BY <1>0, <2>1 DEF Cascade, LinksResolve, SnapshotBelow
<1>9. CASE UpsertRoles \/ UpsertResources
  <2>1. /\ DOMAIN roles \subseteq DOMAIN roles' /\ DOMAIN resources \subseteq DOMAIN resources'
        /\ UNCHANGED <<clients, clientRoles, roleResources, tx>> /\ tx = NoTx
    BY <1>9 DEF UpsertRoles, UpsertResources, InsertNames
  <2> QED BY <1>0, <2>1 DEF LinksResolve, SnapshotBelow
<1>10. CASE Links
  BY <1>0, <1>10, LinksFrame, LinkRows DEF LinksResolve, SnapshotBelow
<1>11. CASE UNCHANGED vars
  BY <1>0, <1>11 DEF vars, LinksResolve, SnapshotBelow
<1> QED
  BY <1>1, <1>2, <1>3, <1>4, <1>5, <1>6, <1>7, <1>8, <1>9, <1>10, <1>11
     DEF Next, Create, Clients, Roles, Resources

\* What a step may add: CreateOne a client with its role, the two POSTs rows of their own.
BareIn(cl, ro, re, cr, rr) ==
    /\ \A c \in cl : Effective(c, cr, rr) = {}
    /\ \A r \in ro : \A p \in cr : p[2] = r => p[1] \in cl
    /\ \A x \in re : \A p \in rr : p[2] # x

\* A step from resolved links leaves new rows bare.
LEMMA BareStep ==
    ASSUME LinkInv, TypeOK', [Next]_vars
    PROVE  BareIn(DOMAIN clients' \ DOMAIN clients, DOMAIN roles' \ DOMAIN roles,
                     DOMAIN resources' \ DOMAIN resources, clientRoles', roleResources')
<1>0. TypeOK /\ LinksResolve /\ SnapshotBelow
  BY DEF LinkInv
<1>1. CASE CreateOne
  <2>1. PICK c \in Ids, r \in Ids, row \in dhcp :
          /\ IsNextId(c, DOMAIN clients) /\ IsNextId(r, DOMAIN roles)
          /\ clients' = Put(clients, c, [name |-> Head(todo), ip |-> row.first])
          /\ roles' = Put(roles, r, Head(todo))
          /\ clientRoles' = clientRoles \cup {<<c, r>>}
    BY <1>1 DEF CreateOne
  <2>2. DOMAIN clients' = DOMAIN clients \cup {c} /\ DOMAIN roles' = DOMAIN roles \cup {r}
    BY <2>1 DEF Put
  <2>3. c \notin DOMAIN clients /\ r \notin DOMAIN roles
    BY <1>0, <2>1, NextIdFresh DEF TypeOK, IsTable
  <2>4. UNCHANGED <<resources, roleResources>>
    BY <1>1 DEF CreateOne
  <2>5. \A p \in clientRoles' : p = <<c, r>> \/ (p[1] \in DOMAIN clients /\ p[2] \in DOMAIN roles)
    BY <1>0, <2>1 DEF LinksResolve
  <2>6. \A p \in roleResources' : p[1] \in DOMAIN roles
    BY <1>0, <2>4 DEF LinksResolve
  <2>7. Effective(c, clientRoles', roleResources') = {}
    BY <2>3, <2>5, <2>6 DEF Effective
  <2> QED BY <2>2, <2>3, <2>4, <2>5, <2>7 DEF BareIn
<1>2. CASE UpsertRoles \/ UpsertResources
  <2>1. UNCHANGED <<clients, clientRoles, roleResources>>
    BY <1>2 DEF UpsertRoles, UpsertResources
  <2> QED BY <1>0, <2>1 DEF LinksResolve, BareIn
<1>3. CASE ~CreateOne /\ ~UpsertRoles /\ ~UpsertResources
  <2>1. /\ DOMAIN clients' \subseteq DOMAIN clients /\ DOMAIN roles' \subseteq DOMAIN roles
        /\ DOMAIN resources' \subseteq DOMAIN resources
    <3>1. CASE CreateBegin \/ CreateCommit \/ CreateFail \/ Crash
      BY <1>0, <3>1 DEF CreateBegin, CreateCommit, CreateFail, Crash, Rollback, SnapshotBelow
    <3>2. CASE AssignIPToClient \/ UpdateClientName \/ ResetDHCP \/ UpdateRoleName \/ UpdateResourceName
      BY <1>0, <3>2 DEF AssignIPToClient, UpdateClientName, ResetDHCP, UpdateRoleName,
                        UpdateResourceName, TypeOK, IsTable
    <3>3. CASE DeleteClient
      BY <3>3 DEF DeleteClient, Drop
    <3>4. CASE DeleteRole \/ DeleteResource
      BY <3>4 DEF DeleteRole, DeleteResource, Drop
    <3>5. CASE Links
      BY <3>5, LinksFrame
    <3>6. CASE UNCHANGED vars
      BY <3>6 DEF vars
    <3> QED BY <1>3, <3>1, <3>2, <3>3, <3>4, <3>5, <3>6 DEF Next, Create, Clients, Roles, Resources
  <2> QED BY <2>1 DEF BareIn
<1> QED BY <1>1, <1>2, <1>3

\* Whatever is deleted, by itself or with a client, takes its links along, and a failed
\* batch brings none back: no link ever points to a row that is not there.
THEOREM LinksAlwaysResolve == Spec => []LinksResolve
<1>1. Init => LinkInv
  BY InitTypeOK DEF Init, LinkInv, LinksResolve, SnapshotBelow
<1>2. LinkInv /\ TypeOK' /\ [Next]_vars => LinkInv'
  BY LinkStep
<1>3. LinkInv => LinksResolve
  BY DEF LinkInv
<1> QED BY <1>1, <1>2, <1>3, TypeCorrect, PTL DEF Spec

\* An id that SQLite gives out a second time brings nothing of its first life back: a new
\* client reaches no resource, a new role has no holder but its own client, a new
\* resource is granted by no role.
THEOREM NewRowsAreBare == Spec => NewRowsStartBare
<1> DEFINE Bare ==
       /\ \A c \in DOMAIN clients' \ DOMAIN clients :
             Effective(c, clientRoles', roleResources') = {}
       /\ \A r \in DOMAIN roles' \ DOMAIN roles : \A p \in clientRoles' :
             p[2] = r => p[1] \in DOMAIN clients' \ DOMAIN clients
       /\ \A x \in DOMAIN resources' \ DOMAIN resources : \A p \in roleResources' :
             p[2] # x
<1>1. Init => LinkInv
  BY InitTypeOK DEF Init, LinkInv, LinksResolve, SnapshotBelow
<1>2. LinkInv /\ TypeOK' /\ [Next]_vars => LinkInv'
  BY LinkStep
<1>3. LinkInv /\ TypeOK' /\ [Next]_vars => [Bare]_vars
  BY BareStep DEF BareIn
<1> QED BY <1>1, <1>2, <1>3, TypeCorrect, PTL DEF Spec, NewRowsStartBare
-----------------------------------------------------------------------------
(***************************************************************************)
(* Default roles.  Deletion and renaming find the role by the client's     *)
(* name, so names must be unique; a rollback brings an older state back,   *)
(* so both facts are kept of the snapshot too.                             *)
(***************************************************************************)
NamesApart(cl) == \A c, d \in DOMAIN cl : cl[c].name = cl[d].name => c = d

Follows(cl, ro, pairs) ==
    \A p \in pairs : p[1] \in DOMAIN cl /\ p[2] \in DOMAIN ro /\ ro[p[2]] = cl[p[1]].name

FollowInv ==
    /\ TypeOK
    /\ NamesApart(clients) /\ Follows(clients, roles, autoRole)
    /\ tx # NoTx => NamesApart(tx.saved.clients)
                     /\ Follows(tx.saved.clients, tx.saved.roles, tx.saved.autoRole)

\* Every step keeps the names of clients unique and default roles named like their clients.
LEMMA FollowStep == FollowInv /\ TypeOK' /\ [Next]_vars => FollowInv'
<1> SUFFICES ASSUME FollowInv, TypeOK', [Next]_vars PROVE FollowInv'
  OBVIOUS
<1>0. /\ TypeOK /\ NamesApart(clients) /\ Follows(clients, roles, autoRole)
      /\ tx # NoTx => NamesApart(tx.saved.clients)
                       /\ Follows(tx.saved.clients, tx.saved.roles, tx.saved.autoRole)
  BY DEF FollowInv
<1> SUFFICES /\ NamesApart(clients') /\ Follows(clients', roles', autoRole')
             /\ tx' # NoTx => NamesApart(tx'.saved.clients)
                     /\ Follows(tx'.saved.clients, tx'.saved.roles, tx'.saved.autoRole)
  BY DEF FollowInv, NamesApart, Follows
<1>1. CASE CreateBegin
  <2>1. /\ UNCHANGED <<clients, roles, autoRole>>
        /\ tx'.saved.clients = clients /\ tx'.saved.roles = roles /\ tx'.saved.autoRole = autoRole
    BY <1>1 DEF CreateBegin, Snapshot
  <2> QED BY <1>0, <2>1
<1>2. CASE CreateOne
  <2>1. PICK c \in Ids, r \in Ids, row \in dhcp :
          /\ IsNextId(c, DOMAIN clients) /\ IsNextId(r, DOMAIN roles)
          /\ clients' = Put(clients, c, [name |-> Head(todo), ip |-> row.first])
          /\ roles' = Put(roles, r, Head(todo))
          /\ autoRole' = autoRole \cup {<<c, r>>}
    BY <1>2 DEF CreateOne
  <2>2. c \notin DOMAIN clients /\ r \notin DOMAIN roles
    BY <1>0, <2>1, NextIdFresh DEF TypeOK, IsTable
  <2>3. /\ DOMAIN clients' = DOMAIN clients \cup {c} /\ clients'[c].name = Head(todo)
        /\ \A d \in DOMAIN clients : clients'[d] = clients[d]
        /\ DOMAIN roles' = DOMAIN roles \cup {r} /\ roles'[r] = Head(todo)
        /\ \A d \in DOMAIN roles : roles'[d] = roles[d]
    BY <2>1, <2>2 DEF Put
  <2>4. \A d \in DOMAIN clients : clients[d].name # Head(todo)
    BY <1>2 DEF CreateOne, CanCreate, ClientNamed
  <2>5. NamesApart(clients')
    BY <1>0, <2>3, <2>4 DEF NamesApart
  <2>6. Follows(clients', roles', autoRole')
    BY <1>0, <2>1, <2>3 DEF Follows
  <2>7. UNCHANGED tx
    BY <1>2 DEF CreateOne
  <2> QED BY <1>0, <2>5, <2>6, <2>7
<1>3. CASE CreateCommit
  BY <1>0, <1>3 DEF CreateCommit
<1>4. CASE CreateFail \/ Crash
  BY <1>0, <1>4 DEF CreateFail, Crash, Rollback
<1>5. CASE AssignIPToClient \/ ResetDHCP
  <2>1. UNCHANGED <<roles, tx, autoRole>> /\ tx = NoTx
    BY <1>5 DEF AssignIPToClient, ResetDHCP
  <2>2. \A c \in DOMAIN clients : clients[c] \in ClientRow
    BY <1>0 DEF TypeOK, IsTable
  <2>3. DOMAIN clients' = DOMAIN clients /\ \A c \in DOMAIN clients : clients'[c].name = clients[c].name
    <3>1. CASE AssignIPToClient
      <4>1. PICK d \in DOMAIN clients, row \in dhcp : clients' = [clients EXCEPT ![d].ip = row.first]
        BY <3>1 DEF AssignIPToClient
      <4> QED BY <2>2, <4>1 DEF ClientRow
    <3>2. CASE ResetDHCP
      <4>1. clients' = [c \in DOMAIN clients |-> [clients[c] EXCEPT !.ip = NULL]]
        BY <3>2 DEF ResetDHCP
      <4> QED BY <2>2, <4>1 DEF ClientRow
    <3> QED BY <1>5, <3>1, <3>2
  <2> QED BY <1>0, <2>1, <2>3 DEF NamesApart, Follows
<1>6. CASE DeleteClient
  <2>1. PICK c \in DOMAIN clients :
          clients' = Drop(clients, {c}) /\ roles' = Drop(roles, RoleNamed(clients[c].name))
    BY <1>6 DEF DeleteClient
  <2>2. /\ autoRole' = {p \in autoRole : p[1] \in DOMAIN clients' /\ p[2] \in DOMAIN roles'}
        /\ UNCHANGED tx /\ tx = NoTx
    BY <1>6 DEF DeleteClient
  <2>3. /\ DOMAIN clients' \subseteq DOMAIN clients /\ DOMAIN roles' \subseteq DOMAIN roles
        /\ \A d \in DOMAIN clients' : clients'[d] = clients[d]
        /\ \A d \in DOMAIN roles' : roles'[d] = roles[d]
    BY <2>1 DEF Drop
  <2> QED BY <1>0, <2>2, <2>3 DEF NamesApart, Follows
<1>7. CASE UpdateClientName
  <2>1. PICK c \in DOMAIN clients, new \in Names :
          /\ ClientNamed(new) \subseteq {c}
          /\ clients' = [clients EXCEPT ![c].name = new]
          /\ roles' = [r \in DOMAIN roles |-> IF r \in RoleNamed(clients[c].name) THEN new ELSE roles[r]]
    BY <1>7 DEF UpdateClientName
  <2>2. UNCHANGED <<tx, autoRole>> /\ tx = NoTx
    BY <1>7 DEF UpdateClientName
  <2>3. /\ DOMAIN clients' = DOMAIN clients /\ clients'[c].name = new
        /\ \A d \in DOMAIN clients \ {c} : clients'[d] = clients[d] /\ clients[d].name # new
    BY <1>0, <2>1 DEF ClientNamed, TypeOK, IsTable, ClientRow
  <2>4. NamesApart(clients')
    BY <1>0, <2>3 DEF NamesApart
  <2>5. ASSUME NEW p \in autoRole
        PROVE  p[1] \in DOMAIN clients' /\ p[2] \in DOMAIN roles' /\ roles'[p[2]] = clients'[p[1]].name
    <3>1. p[1] \in DOMAIN clients /\ p[2] \in DOMAIN roles /\ roles[p[2]] = clients[p[1]].name
      BY <1>0 DEF Follows
    <3>2. p[2] \in RoleNamed(clients[c].name) <=> p[1] = c
      BY <1>0, <3>1 DEF RoleNamed, NamesApart
    <3> QED BY <2>1, <2>3, <3>1, <3>2
  <2> QED BY <2>2, <2>4, <2>5 DEF Follows
<1>8. CASE UpdateRoleName
  <2>1. PICK r \in DOMAIN roles, new \in Names :
          /\ roles' = [roles EXCEPT ![r] = new]
          /\ autoRole' = {p \in autoRole : p[2] # r \/ roles[r] = new}
    BY <1>8 DEF UpdateRoleName
  <2>2. UNCHANGED <<clients, tx>> /\ tx = NoTx
    BY <1>8 DEF UpdateRoleName
  <2> QED BY <1>0, <2>1, <2>2 DEF NamesApart, Follows, TypeOK, IsTable
<1>9. CASE DeleteRole
  <2>1. /\ \E r \in DOMAIN roles : roles' = Drop(roles, {r})
        /\ autoRole' = {p \in autoRole : p[2] \in DOMAIN roles'}
        /\ UNCHANGED <<clients, tx>> /\ tx = NoTx
    BY <1>9 DEF DeleteRole
  <2>2. DOMAIN roles' \subseteq DOMAIN roles /\ \A d \in DOMAIN roles' : roles'[d] = roles[d]
    BY <2>1 DEF Drop
  <2> QED BY <1>0, <2>1, <2>2 DEF NamesApart, Follows
<1>10. CASE UpsertRoles
  <2>1. /\ DOMAIN roles \subseteq DOMAIN roles' /\ \A d \in DOMAIN roles : roles'[d] = roles[d]
        /\ UNCHANGED <<clients, tx, autoRole>> /\ tx = NoTx
    BY <1>10 DEF UpsertRoles, InsertNames
  <2> QED BY <1>0, <2>1 DEF NamesApart, Follows
<1>11. CASE Resources
  BY <1>0, <1>11 DEF Resources, UpsertResources, UpdateResourceName, DeleteResource
<1>12. CASE Links
  BY <1>0, <1>12, LinksFrame
<1>13. CASE UNCHANGED vars
  BY <1>0, <1>13 DEF vars
<1> QED
  BY <1>1, <1>2, <1>3, <1>4, <1>5, <1>6, <1>7, <1>8, <1>9, <1>10, <1>11, <1>12, <1>13
     DEF Next, Create, Clients, Roles

\* The role made with a client bears the client's name, through renames of the client,
\* rollbacks, crashes and reused ids, until it is renamed itself: what DELETE /clients and
\* PATCH /clients find by name is the client's own role.
THEOREM DefaultRolesFollow == Spec => []DefaultRoleFollows
<1>1. Init => FollowInv
  BY InitTypeOK DEF Init, FollowInv, NamesApart, Follows
<1>2. FollowInv /\ TypeOK' /\ [Next]_vars => FollowInv'
  BY FollowStep
<1>3. FollowInv => DefaultRoleFollows
  BY DEF FollowInv, Follows, DefaultRoleFollows
<1> QED BY <1>1, <1>2, <1>3, TypeCorrect, PTL DEF Spec
-----------------------------------------------------------------------------
(***************************************************************************)
(* The batch of POST /clients.  While its transaction is open no other     *)
(* operation runs, todo is what is left of the batch, and every name       *)
(* before that has its client and role, linked in this transaction.        *)
(***************************************************************************)
LinkedAnew(name) ==
    \E p \in clientRoles \ tx.saved.clientRoles :
        /\ clients[p[1]].name = name /\ clients[p[1]].ip # NULL
        /\ roles[p[2]] = name

BatchUnderWay ==
    /\ tx.saved = [clients |-> tx.saved.clients, roles |-> tx.saved.roles,
                   clientRoles |-> tx.saved.clientRoles, dhcp |-> tx.saved.dhcp,
                   autoRole |-> tx.saved.autoRole]
    /\ tx.names \in Seq(Names) /\ Len(todo) <= Len(tx.names)
    /\ \A i \in 1..Len(todo) : todo[i] = tx.names[Len(tx.names) - Len(todo) + i]
    /\ \A i \in 1..(Len(tx.names) - Len(todo)) : LinkedAnew(tx.names[i])

BatchInv == LinkInv /\ (tx # NoTx => BatchUnderWay)

\* One iteration links one more name and keeps what the earlier ones linked.
LEMMA CreateOneLinks ==
    ASSUME BatchInv, CreateOne
    PROVE  BatchUnderWay'
<1>0. TypeOK /\ LinksResolve /\ SnapshotBelow /\ BatchUnderWay /\ tx # NoTx
  BY DEF BatchInv, LinkInv, CreateOne
<1>1. PICK c \in Ids, r \in Ids, row \in dhcp :
        /\ IsNextId(c, DOMAIN clients) /\ IsNextId(r, DOMAIN roles)
        /\ clients' = Put(clients, c, [name |-> Head(todo), ip |-> row.first])
        /\ roles' = Put(roles, r, Head(todo))
        /\ clientRoles' = clientRoles \cup {<<c, r>>}
  BY DEF CreateOne
<1>2. UNCHANGED tx /\ todo' = Tail(todo) /\ todo # <<>>
  BY DEF CreateOne
<1>3. c \notin DOMAIN clients /\ r \notin DOMAIN roles
  BY <1>0, <1>1, NextIdFresh DEF TypeOK, IsTable
<1>4. /\ clients'[c] = [name |-> Head(todo), ip |-> row.first] /\ roles'[r] = Head(todo)
      /\ \A d \in DOMAIN clients : clients'[d] = clients[d]
      /\ \A d \in DOMAIN roles : roles'[d] = roles[d]
  BY <1>1, <1>3 DEF Put
<1>5. ASSUME NEW name, LinkedAnew(name) PROVE LinkedAnew(name)'
  <2>1. PICK p \in clientRoles \ tx.saved.clientRoles :
          clients[p[1]].name = name /\ clients[p[1]].ip # NULL /\ roles[p[2]] = name
    BY <1>5 DEF LinkedAnew
  <2>2. p[1] \in DOMAIN clients /\ p[2] \in DOMAIN roles
    BY <1>0, <2>1 DEF LinksResolve
  <2> QED BY <1>1, <1>2, <1>4, <2>1, <2>2 DEF LinkedAnew
<1>6. ASSUME NEW name, name = Head(todo) PROVE LinkedAnew(name)'
  <2>1. <<c, r>> \notin tx.saved.clientRoles
    BY <1>0, <1>3 DEF SnapshotBelow
  <2>2. row.first # NULL
    BY <1>0, PoolAssumption DEF TypeOK, Rows
  <2>3. <<c, r>> \in clientRoles' \ tx'.saved.clientRoles
    BY <1>1, <1>2, <2>1
  <2>4. /\ clients'[<<c, r>>[1]].name = name /\ clients'[<<c, r>>[1]].ip # NULL
        /\ roles'[<<c, r>>[2]] = name
    BY <1>4, <1>6, <2>2
  <2> QED BY <2>3, <2>4 DEF LinkedAnew
<1> DEFINE done == Len(tx.names) - Len(todo)
<1>7. /\ todo \in Seq(Names) /\ Len(todo) \in Nat \ {0} /\ Len(todo') = Len(todo) - 1
      /\ \A i \in 1..Len(todo') : todo'[i] = todo[i + 1]
      /\ Head(todo) = todo[1] /\ todo[1] = tx.names[done + 1]
      /\ Len(tx.names) \in Nat
  BY <1>0, <1>2 DEF TypeOK, BatchUnderWay
<1>8. \A i \in 1..Len(todo') : todo'[i] = tx.names[Len(tx.names) - Len(todo') + i]
  BY <1>0, <1>7 DEF BatchUnderWay
<1>9. ASSUME NEW i \in 1..(Len(tx.names) - Len(todo')) PROVE LinkedAnew(tx.names[i])'
  <2>0. PICK name : name = tx.names[i]
    OBVIOUS
  <2> SUFFICES LinkedAnew(name)'
    BY <1>2, <2>0
  <2>1. CASE i = done + 1
    BY <1>6, <1>7, <2>0, <2>1
  <2>2. CASE i # done + 1
    <3>0. Len(todo) \in Int /\ Len(todo') = Len(todo) - 1 /\ Len(tx.names) \in Int
      BY <1>7
    <3>1. i \in 1..done
      BY <2>2, <3>0
    <3>2. LinkedAnew(name)
      BY <1>0, <2>0, <3>1 DEF BatchUnderWay
    <3> QED BY <1>5, <3>2
  <2> QED BY <2>1, <2>2
<1>10. Len(todo') <= Len(tx.names)
  BY <1>0, <1>7 DEF BatchUnderWay
<1> QED BY <1>0, <1>2, <1>8, <1>9, <1>10 DEF BatchUnderWay

\* Every step keeps the batch's books.
LEMMA BatchStep == BatchInv /\ TypeOK' /\ [Next]_vars => BatchInv'
<1> SUFFICES ASSUME BatchInv, TypeOK', [Next]_vars PROVE tx' # NoTx => BatchUnderWay'
  BY LinkStep DEF BatchInv
<1>1. CASE CreateBegin
  <2>1. PICK names \in Batches(Names) : tx' = [names |-> names, saved |-> Snapshot] /\ todo' = names
    BY <1>1 DEF CreateBegin
  <2>2. names \in Seq(Names) /\ Len(names) \in Nat
    BY BatchesType
  <2>3. tx'.saved = Snapshot /\ tx'.names = names
    BY <2>1
  <2>4. tx'.saved = [clients |-> tx'.saved.clients, roles |-> tx'.saved.roles,
                     clientRoles |-> tx'.saved.clientRoles, dhcp |-> tx'.saved.dhcp,
                     autoRole |-> tx'.saved.autoRole]
    BY <2>3 DEF Snapshot
  <2> QED BY <2>1, <2>2, <2>3, <2>4 DEF BatchUnderWay
<1>2. CASE CreateOne
  BY <1>2, CreateOneLinks
<1>3. CASE CreateCommit \/ CreateFail \/ Crash
  BY <1>3 DEF CreateCommit, CreateFail, Crash
<1>4. CASE Clients \/ Roles \/ Resources \/ Links
  <2>1. tx' = NoTx
    BY <1>4, LinksFrame DEF Clients, Roles, Resources, AssignIPToClient, DeleteClient, UpdateClientName,
       ResetDHCP, UpsertRoles, UpdateRoleName, DeleteRole, UpsertResources, UpdateResourceName,
       DeleteResource
  <2> QED BY <2>1
<1>5. CASE UNCHANGED vars
  BY <1>5 DEF vars, BatchInv, BatchUnderWay, LinkedAnew
<1> QED BY <1>1, <1>2, <1>3, <1>4, <1>5 DEF Next, Create

\* A POST /clients ends with all of its clients, each with an address and linked to a role
\* of its name, or with the tables it found, whichever statement fails and wherever the
\* process dies.
THEOREM BatchesAreAtomic == Spec => BatchAllOrNothing
<1> DEFINE Whole ==
      tx # NoTx /\ tx' = NoTx =>
         \/ Snapshot' = tx.saved
         \/ \A i \in DOMAIN tx.names : \E p \in clientRoles' \ tx.saved.clientRoles :
               /\ clients'[p[1]].name = tx.names[i] /\ clients'[p[1]].ip # NULL
               /\ roles'[p[2]] = tx.names[i]
<1>1. Init => BatchInv
  BY InitTypeOK DEF Init, BatchInv, LinkInv, LinksResolve, SnapshotBelow
<1>2. BatchInv /\ TypeOK' /\ [Next]_vars => BatchInv'
  BY BatchStep
<1>3. BatchInv /\ [Next]_vars => [Whole]_vars
  <2> SUFFICES ASSUME BatchInv, [Next]_vars, tx # NoTx, tx' = NoTx PROVE Whole
    OBVIOUS
  <2>0. BatchUnderWay
    BY DEF BatchInv
  <2>1. CASE CreateCommit
    <3>1. UNCHANGED <<clients, roles, clientRoles>> /\ Len(todo) = 0
      BY <2>1 DEF CreateCommit
    <3>2. DOMAIN tx.names = 1..(Len(tx.names) - Len(todo))
      BY <2>0, <3>1 DEF BatchUnderWay
    <3> QED BY <2>0, <3>1, <3>2 DEF BatchUnderWay, LinkedAnew
  <2>2. CASE CreateFail \/ Crash
    BY <2>0, <2>2 DEF CreateFail, Crash, Rollback, Snapshot, BatchUnderWay
  <2>3. CASE CreateBegin \/ CreateOne
    BY <2>3 DEF CreateBegin, CreateOne
  <2>4. CASE Clients \/ Roles \/ Resources \/ Links
    BY <2>4, LinksFrame DEF Clients, Roles, Resources, AssignIPToClient, DeleteClient, UpdateClientName,
       ResetDHCP, UpsertRoles, UpdateRoleName, DeleteRole, UpsertResources, UpdateResourceName,
       DeleteResource
  <2>5. CASE UNCHANGED vars
    BY <2>5 DEF vars
  <2> QED BY <2>1, <2>2, <2>3, <2>4, <2>5 DEF Next, Create
<1> QED BY <1>1, <1>2, <1>3, TypeCorrect, PTL DEF Spec, BatchAllOrNothing
=============================================================================
