--------------------------- MODULE MCControlPlane ---------------------------
(* Small instances of ControlPlane. *)
EXTENDS ControlPlane, TLC

NameSym == Permutations(Names)
SamePool == {Range_(PoolFirst, PoolLast)}
SmallerPool == {Range_(PoolFirst + 1, PoolLast)}

\* The requests that touch clients and the pool, without the link tables' requests.
PoolSpec == Init /\ [][Create \/ Clients \/ Roles]_vars
=============================================================================
