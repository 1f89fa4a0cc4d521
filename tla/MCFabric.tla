------------------------------- MODULE MCFabric -------------------------------
(***************************************************************************)
(* Two pools, a root and its child, with lending and overcommit.           *)
(***************************************************************************)
EXTENDS Fabric

CONSTANTS root, child, q1, x1

Body(overcommit, borrow, fence) ==
    [overcommit_limit |-> overcommit, borrow_limit |-> borrow,
     max_single_request_units |-> 0, max_single_allocation_units |-> 0,
     soft_limit_bp |-> 0, allow_partial_grant |-> TRUE,
     elevated_bp |-> 5000, high_bp |-> 7500, critical_bp |-> 9000,
     evidence_ttl_ticks |-> 0, refuse_increase_on_unknown |-> FALSE,
     refuse_grants_at |-> Unknown, usable_floor_units |-> 1,
     fence_on_generation_change |-> fence, reservation_ttl_ticks |-> 0,
     reclaim_enabled |-> TRUE, min_hold_ticks |-> 0,
     max_units_per_operation |-> 3, reserve_units |-> 1,
     allow_protected_reclaim |-> FALSE]

MCPolicyBodies == {Body(1, 2, TRUE), Body(0, 1, FALSE)}

\* A policy without overcommit, never revised.
MCStrictBodies == {Body(0, 2, TRUE)}

MCPoolRegistrations ==
    {[raw_units |-> 4, protected_units |-> 1, parent |-> NoPool, policy |-> x1],
     [raw_units |-> 1, protected_units |-> 0, parent |-> root, policy |-> x1]}

MCQueueRegistrations ==
    {[pool |-> child, demand_units |-> 0, max_committed_units |-> 3]}

Request(n, now, class) ==
    [requested_units |-> n, commit_immediately |-> now, reclaim_class |-> class,
     reclaim_priority |-> 0, ttl_ticks |-> 0]

MCAllocateRequests == {Request(3, TRUE, "Reclaimable"), Request(1, FALSE, "Pinned")}

MCResizes == {[raw_units |-> 2, protected_units |-> 1]}
=============================================================================
