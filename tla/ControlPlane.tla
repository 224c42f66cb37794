---------------------------- MODULE ControlPlane ----------------------------
(***************************************************************************)
(* The control plane of tmasqued: the SQLite tables behind the management  *)
(* API (clients, roles, resources, their links, the DHCP pool) and the     *)
(* repository functions that change them.                                  *)
(*                                                                         *)
(* The pool holds ONE connection (db.go, SetMaxOpenConns(1)), so a         *)
(* transaction runs alone: every repository function is one atomic action. *)
(* POST /clients takes a list and loops over it inside its transaction;    *)
(* its iterations are separate steps, so that a failure or a crash can     *)
(* fall between any two of them.                                           *)
(***************************************************************************)
EXTENDS Integers, Sequences, FiniteSets

CONSTANTS
    Names,          \* names of clients and roles
    ResourceNames,  \* names of resources
    MaxId,          \* bound: row ids handed out per table
    MaxBatch,       \* bound: names in one POST
    PoolFirst,      \* first client address: one above the gateway's
    PoolLast,       \* last usable address of VIRT_CIDR
    ResetRanges,    \* bodies of PUT /dhcp the administrator may send
    NULL,           \* SQL NULL in clients.ip
    NoTx            \* no POST /clients transaction is open

ASSUME PoolAssumption ==
    /\ PoolFirst \in Nat /\ PoolLast \in Nat /\ PoolFirst <= PoolLast
    /\ ResetRanges \subseteq [first : Nat, last : Nat]
    /\ MaxId \in Nat /\ MaxBatch \in Nat
    /\ NULL \notin Int

VARIABLES
    clients,        \* id -> [name, ip]
    roles,          \* id -> name
    resources,      \* id -> name
    clientRoles,    \* rows <<client id, role id>> of clients_roles
    roleResources,  \* rows <<role id, resource id>> of roles_resources
    dhcp,           \* rows [first, last] of dhcp: the free addresses
    tx,             \* NoTx, or the open POST /clients: its batch and snapshot
    todo,           \* names of the batch not created yet
    autoRole,       \* history: <<client, role>> pairs created together, until the role is renamed
    pool,           \* history: the range of addresses in force, first the migration's, then PUT's
    overrun         \* history: AssignIPToClient took the last address of a range since

vars == <<clients, roles, resources, clientRoles, roleResources, dhcp, tx, todo, autoRole,
          pool, overrun>>

Ids == 1..MaxId
Batches(S) == UNION {[1..n -> S] : n \in 1..MaxBatch}
Range_(first, last) == [first |-> first, last |-> last]

Snapshot == [clients |-> clients, roles |-> roles, clientRoles |-> clientRoles,
             dhcp |-> dhcp, autoRole |-> autoRole]
-----------------------------------------------------------------------------
(***************************************************************************)
(* The schema: ids, UNIQUE columns and ON DELETE CASCADE.                  *)
(***************************************************************************)

\* integer PRIMARY KEY without AUTOINCREMENT: one above the largest id in use,
\* so the id of the newest row is given out again once that row is deleted.
IsNextId(id, used) == (\A i \in used : i < id) /\ (id = 1 \/ id - 1 \in used)

ClientNamed(name) == {c \in DOMAIN clients : clients[c].name = name}
RoleNamed(name) == {r \in DOMAIN roles : roles[r] = name}
ResourceNamed(name) == {x \in DOMAIN resources : resources[x] = name}

\* UNIQUE(first_ip), UNIQUE(last_ip).
RowFits(row, others) == \A r \in others : r.first # row.first /\ r.last # row.last

\* Mutant: foreign keys not enforced, link rows outlive what they point to.
WithoutFK(pairs, left, right) == pairs

\* ON DELETE CASCADE: only pairs whose two ends are still rows survive.
Cascade(pairs, left, right) == {p \in pairs : p[1] \in left /\ p[2] \in right}

\* Mutant: a deleted row is blanked, not removed.
Blank(f, ids) == [i \in DOMAIN f |-> IF i \in ids THEN NULL ELSE f[i]]

Drop(f, ids) == [i \in DOMAIN f \ ids |-> f[i]]
Put(f, id, val) == [i \in DOMAIN f \cup {id} |-> IF i = id THEN val ELSE f[i]]
-----------------------------------------------------------------------------
(***************************************************************************)
(* The DHCP pool.                                                          *)
(***************************************************************************)

\* ORDER BY first_ip ASC, first row.
Lowest(row) == row \in dhcp /\ \A r \in dhcp : row.first <= r.first

\* CreateClientsWithRoles: an exhausted range is deleted, else it shrinks.
Take(row) ==
    IF row.first = row.last THEN dhcp \ {row}
    ELSE (dhcp \ {row}) \cup {Range_(row.first + 1, row.last)}

RowBelow(ip) == {r \in dhcp : r.last = ip - 1}

\* Mutant: the range above is looked up with the freed address itself.
RowAboveAtAddress(ip) == {r \in dhcp : r.first = ip}

RowAbove(ip) == {r \in dhcp : r.first = ip + 1}

\* DeleteClients: the row that stands for the freed address and its neighbours.
Released(ip) ==
    Range_(IF RowBelow(ip) = {} THEN ip ELSE (CHOOSE r \in RowBelow(ip) : TRUE).first,
           IF RowAbove(ip) = {} THEN ip ELSE (CHOOSE r \in RowAbove(ip) : TRUE).last)

Unmerged(ip) == dhcp \ (RowBelow(ip) \cup RowAbove(ip))
-----------------------------------------------------------------------------
Init ==
    /\ clients = [i \in {} |-> NULL]
    /\ roles = [i \in {} |-> NULL]
    /\ resources = [i \in {} |-> NULL]
    /\ clientRoles = {} /\ roleResources = {} /\ autoRole = {}
    /\ pool = Range_(PoolFirst, PoolLast) /\ dhcp = {pool} /\ overrun = FALSE
    /\ tx = NoTx /\ todo = <<>>

(***************************************************************************)
(* POST /clients: CreateClientsWithRoles.                                  *)
(***************************************************************************)
CreateBegin ==
    /\ tx = NoTx
    /\ \E names \in Batches(Names) :
         /\ \A i \in DOMAIN clients \cup DOMAIN roles : i + Len(names) <= MaxId
         /\ tx' = [names |-> names, saved |-> Snapshot]
         /\ todo' = names
    /\ UNCHANGED <<clients, roles, resources, clientRoles, roleResources, dhcp, autoRole, pool, overrun>>

CanCreate(name) ==
    /\ ClientNamed(name) = {} /\ RoleNamed(name) = {}
    /\ \E row \in dhcp : /\ Lowest(row)
                         /\ \/ row.first = row.last
                            \/ RowFits(Range_(row.first + 1, row.last), dhcp \ {row})

\* One iteration: address, client, default role, link.
CreateOne ==
    /\ tx # NoTx /\ todo # <<>> /\ CanCreate(Head(todo))
    /\ \E row \in dhcp, c, r \in Ids :
         /\ Lowest(row)
         /\ IsNextId(c, DOMAIN clients) /\ IsNextId(r, DOMAIN roles)
         /\ dhcp' = Take(row)
         /\ clients' = Put(clients, c, [name |-> Head(todo), ip |-> row.first])
         /\ roles' = Put(roles, r, Head(todo))
         /\ clientRoles' = clientRoles \cup {<<c, r>>}
         /\ autoRole' = autoRole \cup {<<c, r>>}
    /\ todo' = Tail(todo)
    /\ UNCHANGED <<resources, roleResources, tx, pool, overrun>>

CreateCommit ==
    /\ tx # NoTx /\ todo = <<>>
    /\ tx' = NoTx
    /\ UNCHANGED <<clients, roles, resources, clientRoles, roleResources, dhcp, todo, autoRole, pool, overrun>>

\* Mutant: the addresses taken by the failed batch are not given back.
RollbackKeepsPool ==
    /\ clients' = tx.saved.clients /\ roles' = tx.saved.roles
    /\ clientRoles' = tx.saved.clientRoles /\ autoRole' = tx.saved.autoRole
    /\ dhcp' = dhcp

Rollback ==
    /\ clients' = tx.saved.clients /\ roles' = tx.saved.roles
    /\ clientRoles' = tx.saved.clientRoles /\ autoRole' = tx.saved.autoRole
    /\ dhcp' = tx.saved.dhcp

\* A statement fails (duplicate name, empty pool): defer tx.Rollback().
CreateFail ==
    /\ tx # NoTx /\ todo # <<>> /\ ~CanCreate(Head(todo))
    /\ Rollback /\ tx' = NoTx /\ todo' = <<>>
    /\ UNCHANGED <<resources, roleResources, pool, overrun>>

\* The process dies inside the transaction: SQLite discards it at the next open.
Crash ==
    /\ tx # NoTx
    /\ Rollback /\ tx' = NoTx /\ todo' = <<>>
    /\ UNCHANGED <<resources, roleResources, pool, overrun>>
-----------------------------------------------------------------------------
(***************************************************************************)
(* The other operations on clients and on the pool.                        *)
(***************************************************************************)

\* Mutant: the range keeps the address that was taken from it.
AssignWithoutTaking ==
    /\ tx = NoTx
    /\ \E c \in DOMAIN clients, row \in dhcp :
         /\ clients[c].ip = NULL /\ Lowest(row)
         /\ clients' = [clients EXCEPT ![c].ip = row.first]
         /\ overrun' = (overrun \/ row.first = row.last)
    /\ UNCHANGED <<roles, resources, clientRoles, roleResources, dhcp, tx, todo, autoRole, pool>>

\* A tunnel connects: AssignIPToClient for a client whose address was reset.
\* (A client that has an address gets it back and nothing changes.)  Unlike POST /clients
\* it never deletes an exhausted range.
AssignIPToClient ==
    /\ tx = NoTx
    /\ \E c \in DOMAIN clients, row \in dhcp :
         /\ clients[c].ip = NULL /\ Lowest(row)
         /\ RowFits(Range_(row.first + 1, row.last), dhcp \ {row})
         /\ dhcp' = (dhcp \ {row}) \cup {Range_(row.first + 1, row.last)}
         /\ clients' = [clients EXCEPT ![c].ip = row.first]
         /\ overrun' = (overrun \/ row.first = row.last)
    /\ UNCHANGED <<roles, resources, clientRoles, roleResources, tx, todo, autoRole, pool>>

\* DELETE /clients/{id}. A NULL address fails the Scan and the whole request.
DeleteClient ==
    /\ tx = NoTx
    /\ \E c \in DOMAIN clients :
         LET ip == clients[c].ip
             gone == RoleNamed(clients[c].name)
         IN /\ ip # NULL
            /\ RowFits(Released(ip), Unmerged(ip))
            /\ dhcp' = Unmerged(ip) \cup {Released(ip)}
            /\ clients' = Drop(clients, {c})
            /\ roles' = Drop(roles, gone)
    /\ clientRoles' = Cascade(clientRoles, DOMAIN clients', DOMAIN roles')
    /\ roleResources' = Cascade(roleResources, DOMAIN roles', DOMAIN resources)
    /\ autoRole' = {p \in autoRole : p[1] \in DOMAIN clients' /\ p[2] \in DOMAIN roles'}
    /\ UNCHANGED <<resources, tx, todo, pool, overrun>>

\* Mutant: the role keeps the client's old name.
RenameClientOnly ==
    /\ tx = NoTx
    /\ \E c \in DOMAIN clients, new \in Names :
         /\ ClientNamed(new) \subseteq {c}
         /\ clients' = [clients EXCEPT ![c].name = new]
    /\ UNCHANGED <<roles, resources, clientRoles, roleResources, dhcp, tx, todo, autoRole, pool, overrun>>

\* PATCH /clients/{id}: the role that carries the old name follows.
UpdateClientName ==
    /\ tx = NoTx
    /\ \E c \in DOMAIN clients, new \in Names :
         LET own == RoleNamed(clients[c].name)
         IN /\ ClientNamed(new) \subseteq {c}
            /\ own # {} => RoleNamed(new) \subseteq own
            /\ clients' = [clients EXCEPT ![c].name = new]
            /\ roles' = [r \in DOMAIN roles |-> IF r \in own THEN new ELSE roles[r]]
    /\ UNCHANGED <<resources, clientRoles, roleResources, dhcp, tx, todo, autoRole, pool, overrun>>

\* PUT /dhcp: one new range, and every client loses its address.
ResetDHCP ==
    /\ tx = NoTx
    /\ \E range \in ResetRanges :
         dhcp' = {range} /\ pool' = range /\ overrun' = (range.first > range.last)
    /\ clients' = [c \in DOMAIN clients |-> [clients[c] EXCEPT !.ip = NULL]]
    /\ UNCHANGED <<roles, resources, clientRoles, roleResources, tx, todo, autoRole>>
-----------------------------------------------------------------------------
(***************************************************************************)
(* Roles and resources.                                                    *)
(***************************************************************************)

\* Rows inserted in order from id "first" on: names are new and all different, or
\* the UNIQUE(name) constraint fails the statement and none is inserted.
InsertNames(table, names, first) ==
    [i \in DOMAIN table \cup first..(first + Len(names) - 1) |->
        IF i \in DOMAIN table THEN table[i] ELSE names[i - first + 1]]

NamesFit(table, names, first) ==
    /\ IsNextId(first, DOMAIN table) /\ first + Len(names) - 1 <= MaxId
    /\ \A i \in DOMAIN names, t \in DOMAIN table : table[t] # names[i]
    /\ \A i, j \in DOMAIN names : names[i] = names[j] => i = j

UpsertRoles ==
    /\ tx = NoTx
    /\ \E names \in Batches(Names), first \in Ids :
         /\ NamesFit(roles, names, first)
         /\ roles' = InsertNames(roles, names, first)
    /\ UNCHANGED <<clients, resources, clientRoles, roleResources, dhcp, tx, todo, autoRole, pool, overrun>>

UpdateRoleName ==
    /\ tx = NoTx
    /\ \E r \in DOMAIN roles, new \in Names :
         /\ RoleNamed(new) \subseteq {r}
         /\ roles' = [roles EXCEPT ![r] = new]
         /\ autoRole' = {p \in autoRole : p[2] # r \/ roles[r] = new}
    /\ UNCHANGED <<clients, resources, clientRoles, roleResources, dhcp, tx, todo, pool, overrun>>

DeleteRole ==
    /\ tx = NoTx
    /\ \E r \in DOMAIN roles : roles' = Drop(roles, {r})
    /\ clientRoles' = Cascade(clientRoles, DOMAIN clients, DOMAIN roles')
    /\ roleResources' = Cascade(roleResources, DOMAIN roles', DOMAIN resources)
    /\ autoRole' = {p \in autoRole : p[2] \in DOMAIN roles'}
    /\ UNCHANGED <<clients, resources, dhcp, tx, todo, pool, overrun>>

UpsertResources ==
    /\ tx = NoTx
    /\ \E names \in Batches(ResourceNames), first \in Ids :
         /\ NamesFit(resources, names, first)
         /\ resources' = InsertNames(resources, names, first)
    /\ UNCHANGED <<clients, roles, clientRoles, roleResources, dhcp, tx, todo, autoRole, pool, overrun>>

UpdateResourceName ==
    /\ tx = NoTx
    /\ \E x \in DOMAIN resources, new \in ResourceNames :
         /\ ResourceNamed(new) \subseteq {x}
         /\ resources' = [resources EXCEPT ![x] = new]
    /\ UNCHANGED <<clients, roles, clientRoles, roleResources, dhcp, tx, todo, autoRole, pool, overrun>>

DeleteResource ==
    /\ tx = NoTx
    /\ \E x \in DOMAIN resources : resources' = Drop(resources, {x})
    /\ roleResources' = Cascade(roleResources, DOMAIN roles, DOMAIN resources')
    /\ UNCHANGED <<clients, roles, clientRoles, dhcp, tx, todo, autoRole, pool, overrun>>
-----------------------------------------------------------------------------
(***************************************************************************)
(* Links.  By id, a foreign key that does not resolve fails the request;   *)
(* by name, the names are resolved first, inside the same transaction.     *)
(***************************************************************************)
AssignRolesToClient ==
    /\ tx = NoTx
    /\ \E c \in DOMAIN clients, rs \in SUBSET DOMAIN roles :
         clientRoles' = clientRoles \cup ({c} \X rs)
    /\ UNCHANGED <<clients, roles, resources, roleResources, dhcp, tx, todo, autoRole, pool, overrun>>

UnassignRolesToClient ==
    /\ tx = NoTx
    /\ \E c \in DOMAIN clients, rs \in SUBSET DOMAIN roles :
         clientRoles' = clientRoles \ ({c} \X rs)
    /\ UNCHANGED <<clients, roles, resources, roleResources, dhcp, tx, todo, autoRole, pool, overrun>>

AssignRolesToClientByName ==
    /\ tx = NoTx
    /\ \E name \in Names, ns \in SUBSET Names : \E c \in ClientNamed(name) :
         /\ \A n \in ns : RoleNamed(n) # {}
         /\ clientRoles' = clientRoles \cup ({c} \X UNION {RoleNamed(n) : n \in ns})
    /\ UNCHANGED <<clients, roles, resources, roleResources, dhcp, tx, todo, autoRole, pool, overrun>>

UnassignRolesToClientByName ==
    /\ tx = NoTx
    /\ \E name \in Names, ns \in SUBSET Names : \E c \in ClientNamed(name) :
         /\ \A n \in ns : RoleNamed(n) # {}
         /\ clientRoles' = clientRoles \ ({c} \X UNION {RoleNamed(n) : n \in ns})
    /\ UNCHANGED <<clients, roles, resources, roleResources, dhcp, tx, todo, autoRole, pool, overrun>>

AssignResourcesToRole ==
    /\ tx = NoTx
    /\ \E r \in DOMAIN roles, xs \in SUBSET DOMAIN resources :
         roleResources' = roleResources \cup ({r} \X xs)
    /\ UNCHANGED <<clients, roles, resources, clientRoles, dhcp, tx, todo, autoRole, pool, overrun>>

UnassignResourcesToRole ==
    /\ tx = NoTx
    /\ \E r \in DOMAIN roles, xs \in SUBSET DOMAIN resources :
         roleResources' = roleResources \ ({r} \X xs)
    /\ UNCHANGED <<clients, roles, resources, clientRoles, dhcp, tx, todo, autoRole, pool, overrun>>

AssignResourcesToRoleByName ==
    /\ tx = NoTx
    /\ \E name \in Names, ns \in SUBSET ResourceNames : \E r \in RoleNamed(name) :
         /\ \A n \in ns : ResourceNamed(n) # {}
         /\ roleResources' = roleResources \cup ({r} \X UNION {ResourceNamed(n) : n \in ns})
    /\ UNCHANGED <<clients, roles, resources, clientRoles, dhcp, tx, todo, autoRole, pool, overrun>>

UnassignResourcesToRoleByName ==
    /\ tx = NoTx
    /\ \E name \in Names, ns \in SUBSET ResourceNames : \E r \in RoleNamed(name) :
         /\ \A n \in ns : ResourceNamed(n) # {}
         /\ roleResources' = roleResources \ ({r} \X UNION {ResourceNamed(n) : n \in ns})
    /\ UNCHANGED <<clients, roles, resources, clientRoles, dhcp, tx, todo, autoRole, pool, overrun>>
-----------------------------------------------------------------------------
Create == CreateBegin \/ CreateOne \/ CreateCommit \/ CreateFail \/ Crash
Clients == AssignIPToClient \/ DeleteClient \/ UpdateClientName \/ ResetDHCP
Roles == UpsertRoles \/ UpdateRoleName \/ DeleteRole
Resources == UpsertResources \/ UpdateResourceName \/ DeleteResource
Links == \/ AssignRolesToClient \/ UnassignRolesToClient
         \/ AssignRolesToClientByName \/ UnassignRolesToClientByName
         \/ AssignResourcesToRole \/ UnassignResourcesToRole
         \/ AssignResourcesToRoleByName \/ UnassignResourcesToRoleByName

Next == Create \/ Clients \/ Roles \/ Resources \/ Links

Spec == Init /\ [][Next]_vars
-----------------------------------------------------------------------------
(***************************************************************************)
(* Properties.                                                             *)
(***************************************************************************)
Rows == [first : Nat, last : Nat]
ClientRow == [name : Names, ip : Nat \cup {NULL}]
IsTable(f, row) == DOMAIN f \subseteq Ids /\ f \in [DOMAIN f -> row]

\* Every table holds rows of its schema; a snapshot is taken only by POST /clients.
TypeOK ==
    /\ IsTable(clients, ClientRow) /\ IsTable(roles, Names) /\ IsTable(resources, ResourceNames)
    /\ clientRoles \subseteq Ids \X Ids /\ roleResources \subseteq Ids \X Ids
    /\ autoRole \subseteq Ids \X Ids
    /\ dhcp \subseteq Rows /\ pool \in Rows /\ overrun \in BOOLEAN
    /\ todo \in Seq(Names)
    /\ tx # NoTx =>
         /\ IsTable(tx.saved.clients, ClientRow) /\ IsTable(tx.saved.roles, Names)
         /\ tx.saved.clientRoles \subseteq Ids \X Ids
         /\ tx.saved.autoRole \subseteq Ids \X Ids
         /\ tx.saved.dhcp \subseteq Rows

\* handleConn hands AssignIPToClient's answer to the tunnel as the client's /32.  From one
\* PUT /dhcp to the next no two clients hold the same address, whatever mix of batches,
\* rollbacks, crashes, deletions and reconnects went before, up to the reconnect that takes
\* the last address of a range: AssignIPToClient leaves an inverted range behind then, from
\* which addresses in use are given out again.
AddressesUnique ==
    ~overrun =>
        \A c, d \in DOMAIN clients :
            c # d /\ clients[c].ip = clients[d].ip => clients[c].ip = NULL

Free(a) == \E row \in dhcp : row.first <= a /\ a <= row.last
Held(a) == \E c \in DOMAIN clients : clients[c].ip = a

\* No address of the range in force is lost or given twice: each is either in a free range
\* or held by a client, and never both; a failed batch returns what it took, a reset takes
\* all addresses back, and a client that lost its own gets one of them.  Again up to the
\* reconnect that takes the last address of a range.
PoolPartition ==
    ~overrun =>
        /\ \A a \in pool.first..pool.last : Free(a) <=> ~Held(a)
        /\ \A row \in dhcp : pool.first <= row.first /\ row.first <= row.last /\ row.last <= pool.last
        /\ \A c \in DOMAIN clients : clients[c].ip \in (pool.first..pool.last) \cup {NULL}

\* DeleteClients merges on release: two free ranges never touch or overlap, up to the same
\* reconnect.
RangesMerged ==
    ~overrun => \A r, s \in dhcp : r # s => r.last + 1 < s.first \/ s.last + 1 < r.first

\* _foreign_keys=on: no link row points to a client, role or resource that is gone.
LinksResolve ==
    /\ clientRoles \subseteq (DOMAIN clients) \X (DOMAIN roles)
    /\ roleResources \subseteq (DOMAIN roles) \X (DOMAIN resources)

\* GetClientResources: what all the roles of a client grant.
Effective(c, cr, rr) == {p[2] : p \in {q \in rr : <<c, q[1]>> \in cr}}

\* SQLite gives the id of a deleted row out again.  Still, a new client reaches no
\* resource, a new role grants nothing and is held by nobody but the client created
\* with it, and a new resource is granted to nobody.
NewRowsStartBare ==
    [][/\ \A c \in DOMAIN clients' \ DOMAIN clients :
             Effective(c, clientRoles', roleResources') = {}
       /\ \A r \in DOMAIN roles' \ DOMAIN roles : \A p \in clientRoles' :
             p[2] = r => p[1] \in DOMAIN clients' \ DOMAIN clients
       /\ \A x \in DOMAIN resources' \ DOMAIN resources : \A p \in roleResources' :
             p[2] # x]_vars

\* "client rename (also renames her default role)", "client delete (also deletes her
\* default role)": deletion goes by name, so the role created with a client has to bear
\* the client's name through every rename, rollback, crash and reuse of ids, until the
\* role itself is renamed.
DefaultRoleFollows ==
    \A p \in autoRole : /\ p[1] \in DOMAIN clients /\ p[2] \in DOMAIN roles
                        /\ roles[p[2]] = clients[p[1]].name

\* CreateClientsWithRoles runs "all in ONE transaction, so any failure rolls back the
\* whole batch": it ends with every name a client linked to a role of that name, or
\* with the tables as they were.
BatchAllOrNothing ==
    [][tx # NoTx /\ tx' = NoTx =>
         \/ Snapshot' = tx.saved
         \/ \A i \in DOMAIN tx.names : \E p \in clientRoles' \ tx.saved.clientRoles :
               /\ clients'[p[1]].name = tx.names[i] /\ clients'[p[1]].ip # NULL
               /\ roles'[p[2]] = tx.names[i]]_vars
=============================================================================
