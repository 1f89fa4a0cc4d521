-------------------------------- MODULE Policy --------------------------------
(***************************************************************************)
(* Pool policies and the classification of pressure.  Pressure states are  *)
(* the numbers of the code's enumeration, which compares them by value.    *)
(***************************************************************************)
EXTENDS Integers

Unknown == 0
Clear == 1
Elevated == 2
High == 3
Critical == 4
Stale == 5

PressureState == Unknown..Stale

pressure_is_known(s) == s \in Clear..Critical

pressure_at_least(s, floor) == pressure_is_known(s) /\ s >= floor

\* Ratios are in basis points of this scale.
kScale == 10000

\* Everything a policy says that the operations read.  An overcommit or a
\* borrow limit of 0 is the mode Forbid; a cap of 0 is no cap.
PolicyBody ==
    [overcommit_limit : Nat, borrow_limit : Nat,
     max_single_request_units : Nat, max_single_allocation_units : Nat,
     soft_limit_bp : Nat, allow_partial_grant : BOOLEAN,
     elevated_bp : Nat, high_bp : Nat, critical_bp : Nat,
     evidence_ttl_ticks : Nat, refuse_increase_on_unknown : BOOLEAN,
     refuse_grants_at : PressureState, usable_floor_units : Nat,
     fence_on_generation_change : BOOLEAN, reservation_ttl_ticks : Nat,
     reclaim_enabled : BOOLEAN, min_hold_ticks : Nat,
     max_units_per_operation : Nat, reserve_units : Nat,
     allow_protected_reclaim : BOOLEAN]

\* Thresholds::validate
ValidThresholds(b) ==
    /\ 0 < b.elevated_bp
    /\ b.elevated_bp < b.high_bp
    /\ b.high_bp < b.critical_bp
    /\ b.critical_bp <= kScale

\* PoolPolicy::validate, less the bounds of the identifier space.
ValidPolicy(b) ==
    /\ ValidThresholds(b)
    /\ b.soft_limit_bp <= kScale
    /\ ~(b.refuse_increase_on_unknown /\ b.refuse_grants_at = Clear)

utilization_at_least(used, usable, band_bp) ==
    IF usable = 0 THEN used # 0 ELSE used * kScale >= band_bp * usable

\* The band of a pool that uses `used` of its `usable` units.
classify_pressure(b, used, usable) ==
    IF usable = 0 THEN IF used = 0 THEN Clear ELSE Critical
    ELSE IF utilization_at_least(used, usable, b.critical_bp) THEN Critical
    ELSE IF utilization_at_least(used, usable, b.high_bp) THEN High
    ELSE IF utilization_at_least(used, usable, b.elevated_bp) THEN Elevated
    ELSE Clear

\* Mutant of is_fresh: evidence that has a lifetime outlives it.
is_fresh_once_declared(now, observed_at, ttl) == ttl # 0 /\ observed_at <= now

\* Evidence without a declared lifetime, or from the future, is never fresh.
is_fresh(now, observed_at, ttl) ==
    /\ ttl # 0
    /\ observed_at <= now
    /\ now - observed_at <= ttl
=============================================================================
