------------------------------ MODULE Accounting ------------------------------
(***************************************************************************)
(* The arithmetic of one pool: the quantities derived from its descriptor  *)
(* and its live aggregates, and the closure check run after a mutation.    *)
(*                                                                         *)
(* d is a pool descriptor (raw_units, protected_units), u the aggregates   *)
(* the fabric maintains incrementally for that pool.                       *)
(***************************************************************************)
EXTENDS Integers, Units

Usage == [reserved_units : Nat, committed_units : Nat, pinned_units : Nat,
          reclaimable_units : Nat, own_usage : Nat, borrowed_in : Nat,
          lent_out : Nat]

NoUsage == [reserved_units |-> 0, committed_units |-> 0, pinned_units |-> 0,
            reclaimable_units |-> 0, own_usage |-> 0, borrowed_in |-> 0,
            lent_out |-> 0]

Allocated(u) == u.reserved_units + u.committed_units

Usable(d) == Monus(d.raw_units, d.protected_units)

OvercommitUsed(d, u) == Monus(u.own_usage, Usable(d))

FreeUnits(d, u) == Usable(d) + OvercommitUsed(d, u) - u.own_usage

\* PoolAccounting::own_usage(), recomputed from the other fields.
OwnUsage(u) == Monus(Allocated(u), u.borrowed_in) + u.lent_out

\* raw + borrowed_in + overcommit_used = protected + allocated + free + lent_out
PoolClosure(d, u) ==
    d.raw_units + u.borrowed_in + OvercommitUsed(d, u)
        = d.protected_units + Allocated(u) + FreeUnits(d, u) + u.lent_out

\* check_pool_accounting under an overcommit limit; a policy that forbids
\* overcommit has limit 0.
CheckPoolAccounting(d, u, limit) ==
    /\ d.protected_units <= d.raw_units
    /\ u.pinned_units + u.reclaimable_units = Allocated(u)
    /\ PoolClosure(d, u)
    /\ FreeUnits(d, u) = 0 \/ OvercommitUsed(d, u) = 0
    /\ OvercommitUsed(d, u) <= limit
    /\ FreeUnits(d, u) <= Usable(d) + OvercommitUsed(d, u)
    /\ OwnUsage(u) <= Usable(d) + limit

\* check_global_accounting over the pools P, less the check of each: loans
\* cancel out, and so does everything but the raw units and the overcommit.
CheckGlobalAccounting(P, d, u) ==
    LET Sum(F(_)) == Total(P, [p \in P |-> F(p)])
    IN
    /\ Sum(LAMBDA p : u[p].borrowed_in) = Sum(LAMBDA p : u[p].lent_out)
    /\ Sum(LAMBDA p : d[p].raw_units) + Sum(LAMBDA p : OvercommitUsed(d[p], u[p]))
         = Sum(LAMBDA p : d[p].protected_units) + Sum(LAMBDA p : Allocated(u[p]))
             + Sum(LAMBDA p : FreeUnits(d[p], u[p]))
=============================================================================
