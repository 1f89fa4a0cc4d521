-------------------------------- MODULE MCWide --------------------------------
(***************************************************************************)
(* A loan of a pool's whole size.  A pool holds at most 2^60 units and     *)
(* arithmetic is modulo 2^64; here a pool holds at most 2^6 units and      *)
(* arithmetic is modulo 2^10, which keeps the distance of four bits.  A    *)
(* second allocation of the borrowing pool gives it own units of its own,  *)
(* without which apply_release_units would refuse the wrong return.        *)
(***************************************************************************)
EXTENDS Fabric

CONSTANTS root, child, q1, x1

MCPolicyBodies ==
    {[overcommit_limit |-> 0, borrow_limit |-> 64,
      max_single_request_units |-> 0, max_single_allocation_units |-> 0,
      soft_limit_bp |-> 0, allow_partial_grant |-> TRUE,
      elevated_bp |-> 5000, high_bp |-> 7500, critical_bp |-> 9000,
      evidence_ttl_ticks |-> 0, refuse_increase_on_unknown |-> FALSE,
      refuse_grants_at |-> Unknown, usable_floor_units |-> 0,
      fence_on_generation_change |-> TRUE, reservation_ttl_ticks |-> 0,
      reclaim_enabled |-> FALSE, min_hold_ticks |-> 0,
      max_units_per_operation |-> 0, reserve_units |-> 0,
      allow_protected_reclaim |-> FALSE]}

MCPoolRegistrations ==
    {[raw_units |-> 64, protected_units |-> 0, parent |-> NoPool, policy |-> x1],
     [raw_units |-> 17, protected_units |-> 0, parent |-> root, policy |-> x1]}

MCQueueRegistrations ==
    {[pool |-> child, demand_units |-> 0, max_committed_units |-> 0]}

MCAllocateRequests ==
    {[requested_units |-> n, commit_immediately |-> TRUE,
      reclaim_class |-> "Reclaimable", reclaim_priority |-> 0, ttl_ticks |-> 0] :
        n \in {16, 64}}
=============================================================================
