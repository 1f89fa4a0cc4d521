------------------------------ MODULE MCTopology ------------------------------
(***************************************************************************)
(* Four pools that may be stacked in any order, taken apart and stacked    *)
(* again, while an allocation borrows from an ancestor.  A chain of four   *)
(* is one more than the bound on depth allows.                             *)
(***************************************************************************)
EXTENDS Fabric, TLC

CONSTANTS q1, x1

\* Nothing distinguishes the pools but how they are registered.
PoolSymmetry == Permutations(Pools)

MCPolicyBodies ==
    {[overcommit_limit |-> 0, borrow_limit |-> 2,
      max_single_request_units |-> 0, max_single_allocation_units |-> 0,
      soft_limit_bp |-> 0, allow_partial_grant |-> TRUE,
      elevated_bp |-> 5000, high_bp |-> 7500, critical_bp |-> 9000,
      evidence_ttl_ticks |-> 0, refuse_increase_on_unknown |-> FALSE,
      refuse_grants_at |-> Unknown, usable_floor_units |-> 1,
      fence_on_generation_change |-> FALSE, reservation_ttl_ticks |-> 0,
      reclaim_enabled |-> FALSE, min_hold_ticks |-> 0,
      max_units_per_operation |-> 0, reserve_units |-> 0,
      allow_protected_reclaim |-> FALSE]}

MCPoolRegistrations ==
    [raw_units : {1}, protected_units : {0}, parent : Pools \cup {NoPool},
     policy : {x1}]

MCQueueRegistrations ==
    [pool : Pools, demand_units : {0}, max_committed_units : {0}]

MCAllocateRequests ==
    {[requested_units |-> 2, commit_immediately |-> TRUE,
      reclaim_class |-> "Reclaimable", reclaim_priority |-> 0, ttl_ticks |-> 0]}

MCResizes == {[raw_units |-> 2, protected_units |-> 0]}
=============================================================================
