------------------------------ MODULE MCPressure ------------------------------
(***************************************************************************)
(* One pool under pressure: evidence that ages, reservations that lapse,   *)
(* and reclamation of pinned and reclaimable allocations.                  *)
(***************************************************************************)
EXTENDS Fabric

CONSTANTS p1, q1, x1

Body(protected, refuse_at) ==
    [overcommit_limit |-> 0, borrow_limit |-> 0,
     max_single_request_units |-> 3, max_single_allocation_units |-> 2,
     soft_limit_bp |-> 8000, allow_partial_grant |-> protected,
     elevated_bp |-> 2500, high_bp |-> 5000, critical_bp |-> 10000,
     evidence_ttl_ticks |-> 1, refuse_increase_on_unknown |-> TRUE,
     refuse_grants_at |-> refuse_at, usable_floor_units |-> 3,
     fence_on_generation_change |-> protected, reservation_ttl_ticks |-> 1,
     reclaim_enabled |-> TRUE, min_hold_ticks |-> 1,
     max_units_per_operation |-> 2, reserve_units |-> 3,
     allow_protected_reclaim |-> protected]

MCPolicyBodies == {Body(TRUE, Critical), Body(FALSE, Unknown)}

MCPoolRegistrations ==
    {[raw_units |-> 5, protected_units |-> 1, parent |-> NoPool, policy |-> x1]}

MCQueueRegistrations ==
    {[pool |-> p1, demand_units |-> 4, max_committed_units |-> 0]}

Request(n, now, class, priority, ttl) ==
    [requested_units |-> n, commit_immediately |-> now, reclaim_class |-> class,
     reclaim_priority |-> priority, ttl_ticks |-> ttl]

MCAllocateRequests ==
    {Request(2, TRUE, "Reclaimable", 1, 0), Request(1, FALSE, "Reclaimable", 0, 2),
     Request(1, TRUE, "Pinned", 0, 0)}

MCResizes == {[raw_units |-> 4, protected_units |-> 1]}

MCPressureReports ==
    {[observed_at |-> 0, ttl_ticks |-> 0, committed |-> -1],
     [observed_at |-> 1, ttl_ticks |-> 2, committed |-> 2]}
=============================================================================
