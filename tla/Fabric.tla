-------------------------------- MODULE Fabric --------------------------------
(***************************************************************************)
(* The authoritative state of one BufferFabric and its public operations.  *)
(* Every operation takes the one fabric mutex for all of its reads and     *)
(* writes, so each is one atomic step here.  The fabric is the volatile    *)
(* one (DurabilityMode::None): journal writes always succeed, and the      *)
(* epoch never moves within a run.                                         *)
(*                                                                         *)
(* A call that returns an error before it has changed anything is a        *)
(* stuttering step.  Each call carries a new attempt id, so that no call   *)
(* is a replay.  Names, decisions, events, metrics and lineage are left    *)
(* out: no operation below reads them to decide what to do.                *)
(***************************************************************************)
EXTENDS Integers, FiniteSets, Units, Accounting, Policy

CONSTANTS
    Pools, Queues, Policies,      \* the ids callers may register
    NoPool, NoQueue, NoPolicy,    \* the invalid ids
    kMaxPoolDepth, kMaxAllocationCount, kMaxReclaimVictims,
    Word,                         \* u64 arithmetic is modulo Word
    refuse_work_after_shutdown, auto_fence_on_queue_retirement,
    PolicyBodies,                 \* the policies callers publish
    PoolRegistrations, QueueRegistrations, Capacities, AllocateRequests,
    Resizes, Demands, PressureReports, ReclaimTargets,
    MaxPolicyGeneration, MaxPoolGeneration, MaxQueueGeneration,
    MaxTick                       \* bounds on the unbounded counters

AllocIds == 1..kMaxAllocationCount

PoolRegistration ==
    [raw_units : Nat, protected_units : Nat, parent : Pools \cup {NoPool},
     policy : Policies]

QueueRegistration ==
    [pool : Pools, demand_units : Nat, max_committed_units : Nat]

AllocateRequest ==
    [requested_units : Nat \ {0}, commit_immediately : BOOLEAN,
     reclaim_class : {"Pinned", "Reclaimable"}, reclaim_priority : Nat,
     ttl_ticks : Nat]

\* A report that asserts nothing about committed usage carries -1.
PressureReport == [observed_at : Nat, ttl_ticks : Nat, committed : Nat \cup {-1}]

Resize == [raw_units : Nat, protected_units : Nat]

ASSUME IdAssumption ==
    /\ NoPool \notin Pools
    /\ NoQueue \notin Queues
    /\ NoPolicy \notin Policies
    /\ IsFiniteSet(Pools)

ASSUME BoundAssumption ==
    /\ kMaxPoolDepth \in Nat \ {0}
    /\ kMaxAllocationCount \in Nat
    /\ kMaxReclaimVictims \in Nat
    /\ Word \in Nat \ {0}
    /\ MaxPolicyGeneration \in Nat
    /\ MaxPoolGeneration \in Nat
    /\ MaxQueueGeneration \in Nat
    /\ MaxTick \in Nat

ASSUME ConfigAssumption ==
    /\ refuse_work_after_shutdown \in BOOLEAN
    /\ auto_fence_on_queue_retirement \in BOOLEAN

ASSUME InputAssumption ==
    /\ PolicyBodies \subseteq PolicyBody
    /\ PolicyBodies # {}
    /\ PoolRegistrations \subseteq PoolRegistration
    /\ QueueRegistrations \subseteq QueueRegistration
    /\ Capacities \subseteq Nat \ {0}
    /\ AllocateRequests \subseteq AllocateRequest
    /\ Resizes \subseteq Resize
    /\ Demands \subseteq Nat
    /\ PressureReports \subseteq PressureReport
    /\ ReclaimTargets \subseteq Nat \ {0}

VARIABLES
    policies,            \* published policies
    pools,               \* pool descriptors
    usage,               \* the aggregates of each pool entry
    queue_reserved,      \* per pool, reserved units by queue
    queue_committed,     \* per pool, committed units by queue
    members,             \* per pool, the allocations it enumerates
    queues,              \* queue descriptors
    allocations,         \* allocation records, kept for audit once revoked
    next_allocation_id,
    pressure,            \* latest pressure snapshot of each pool
    capacity,            \* authoritative capacity of the resource, 0 if none
    open, shutting_down, tick

topology == <<policies, pools, queues, capacity>>
ledger == <<usage, queue_reserved, queue_committed, members, allocations>>
lifecycle == <<open, shutting_down>>
vars == <<topology, ledger, next_allocation_id, pressure, lifecycle, tick>>
-----------------------------------------------------------------------------
(* State and its initial value.  Generation 0 means "no such entry".       *)

AllocationState ==
    {"None", "Reserved", "Committed", "Fenced", "Reclaimed", "Released", "Expired"}

PolicyEntry == [generation : Nat, body : PolicyBody]

\* capacity_generation and the descriptor's generation start at 1 and advance
\* together, in resize_pool only: one field stands for both.
PoolDescriptor ==
    [generation : Nat, raw_units : Nat, protected_units : Nat,
     parent : Pools \cup {NoPool}, policy : Policies \cup {NoPolicy}]

QueueDescriptor ==
    [generation : Nat, pool : Pools \cup {NoPool}, retired : BOOLEAN,
     demand_units : Nat, max_committed_units : Nat]

AllocationRecord ==
    [state : AllocationState, pool : Pools \cup {NoPool},
     queue : Queues \cup {NoQueue}, units : Nat, borrow_units : Nat,
     lender : Pools \cup {NoPool},
     reclaim_class : {"Pinned", "Reclaimable"}, reclaim_priority : Nat,
     pool_generation : Nat, queue_generation : Nat, policy_generation : Nat,
     created_at : Nat, last_touched : Nat, expires_at : Nat]

PressureSnapshot ==
    [generation : Nat, observed_at : Nat, ttl_ticks : Nat, committed : Nat \cup {-1}]

NoSnapshot == [generation |-> 0, observed_at |-> 0, ttl_ticks |-> 0, committed |-> -1]

EmptyBuckets == [q \in Queues |-> 0]

Erased == [generation |-> 0, raw_units |-> 0, protected_units |-> 0,
           parent |-> NoPool, policy |-> NoPolicy]

NoDescriptor == [generation |-> 0, pool |-> NoPool, retired |-> FALSE,
                 demand_units |-> 0, max_committed_units |-> 0]

NoRecord == [state |-> "None", pool |-> NoPool, queue |-> NoQueue, units |-> 0,
             borrow_units |-> 0, lender |-> NoPool,
             reclaim_class |-> "Reclaimable", reclaim_priority |-> 0,
             pool_generation |-> 0, queue_generation |-> 0,
             policy_generation |-> 0, created_at |-> 0, last_touched |-> 0,
             expires_at |-> 0]

\* A fabric that was just opened for the first time.
Init ==
    /\ policies = [x \in Policies |->
                     [generation |-> 0, body |-> CHOOSE b \in PolicyBodies : TRUE]]
    /\ pools = [p \in Pools |-> Erased]
    /\ usage = [p \in Pools |-> NoUsage]
    /\ queue_reserved = [p \in Pools |-> EmptyBuckets]
    /\ queue_committed = [p \in Pools |-> EmptyBuckets]
    /\ members = [p \in Pools |-> {}]
    /\ queues = [q \in Queues |-> NoDescriptor]
    /\ allocations = [a \in AllocIds |-> NoRecord]
    /\ next_allocation_id = 1
    /\ pressure = [p \in Pools |-> NoSnapshot]
    /\ capacity = 0
    /\ open = TRUE
    /\ shutting_down = FALSE
    /\ tick = 1
-----------------------------------------------------------------------------
(* Reading the state.                                                      *)

allocation_holds_units(s) == s \in {"Reserved", "Committed"}

Holding(a) == allocation_holds_units(allocations[a].state)

UnitsHeld == [a \in AllocIds |-> allocations[a].units]

BorrowHeld ==
    [a \in AllocIds |-> AtMost(allocations[a].borrow_units, allocations[a].units)]

RawUnits == [p \in Pools |-> pools[p].raw_units]

Registered(p) == p \in Pools /\ pools[p].generation # 0

PolicyOf(p) == policies[pools[p].policy].body

\* The overcommit limit in force for p.
OvercommitLimit(p) == PolicyOf(p).overcommit_limit

\* Mutant of Accepting: a request for shutdown is not looked at.
AcceptingUntilClosed == open

Accepting == open /\ ~(shutting_down /\ refuse_work_after_shutdown)

Free(p) == FreeUnits(pools[p], usage[p])

is_stale_binding(a) ==
    LET r == allocations[a] IN
    \/ r.pool_generation # pools[r.pool].generation
    \/ r.policy_generation # policies[pools[r.pool].policy].generation

\* The evidence for a decision about p.  A snapshot that is absent is
\* Unknown; one for another generation, past its lifetime, or contradicting
\* the accounting is Stale.
resolve_evidence(p) ==
    LET s == pressure[p] IN
    IF s.generation = 0 THEN Unknown
    ELSE IF \/ s.generation # pools[p].generation
            \/ ~is_fresh(tick, s.observed_at, s.ttl_ticks)
            \/ s.committed # -1 /\ s.committed # usage[p].own_usage
         THEN Stale
    ELSE classify_pressure(PolicyOf(p), usage[p].own_usage, Usable(pools[p]))

\* The paths of n pools that lead up from `first` through parents.
Chains(first, n) ==
    {s \in [1..n -> Pools] :
        /\ s[1] = first
        /\ \A i \in 2..n : s[i] = pools[s[i - 1]].parent}

\* l is the nearest ancestor of p that has free units.
IsNearestFree(p, l) ==
    \E n \in 1..kMaxPoolDepth : \E s \in Chains(pools[p].parent, n) :
        /\ s[n] = l
        /\ Free(l) # 0
        /\ \A i \in 1..(n - 1) : Free(s[i]) = 0

\* The pool that lends to p, NoPool when borrowing is forbidden or nobody can.
IsLender(p, l) ==
    IF PolicyOf(p).borrow_limit # 0 /\ \E x \in Pools : IsNearestFree(p, x)
    THEN IsNearestFree(p, l)
    ELSE l = NoPool
-----------------------------------------------------------------------------
(* Granting units.                                                         *)

When(c, n) == IF c THEN n ELSE 0

\* Mutant of Borrowable: what the lender has free is not looked at.
BorrowableToLimit(p, l) ==
    When(l # NoPool, Monus(PolicyOf(p).borrow_limit, usage[p].borrowed_in))

Borrowable(p, l) ==
    When(l # NoPool,
         AtMost(Free(l), Monus(PolicyOf(p).borrow_limit, usage[p].borrowed_in)))

\* compute_grant: own free units, then headroom for overcommit, then a loan.
MaxGrant(p, l) ==
    Free(p) + Monus(OvercommitLimit(p), OvercommitUsed(pools[p], usage[p]))
            + Borrowable(p, l)

apply_cap(limit, applies, cap) == IF applies THEN AtMost(cap, limit) ELSE limit

\* Mutant of QueueCap: demand is taken for the cap.
QueueCapByDemand(q) == queues[q].demand_units

\* Authoritative demand bounds a queue that has no hard cap.
QueueCap(q) ==
    IF queues[q].max_committed_units # 0 THEN queues[q].max_committed_units
    ELSE queues[q].demand_units

QueueHeld(p, q) == queue_committed[p][q] + queue_reserved[p][q]

\* What the policy and the queue leave of it, the soft limit aside.
CapLimit(p, q, l) ==
    LET b == PolicyOf(p)
        c1 == apply_cap(MaxGrant(p, l), b.max_single_request_units # 0,
                        b.max_single_request_units)
        c2 == apply_cap(c1, b.max_single_allocation_units # 0,
                        b.max_single_allocation_units)
    IN  apply_cap(c2, QueueCap(q) # 0, Monus(QueueCap(q), QueueHeld(p, q)))

SoftLimited(p) ==
    /\ PolicyOf(p).soft_limit_bp # 0
    /\ Usable(pools[p]) # 0
    /\ pressure_at_least(resolve_evidence(p), High)

SoftRoom(p) ==
    Monus((Usable(pools[p]) * PolicyOf(p).soft_limit_bp) \div kScale, usage[p].own_usage)

GrantLimit(p, q, l) == apply_cap(CapLimit(p, q, l), SoftLimited(p), SoftRoom(p))

AllOrPart(p, requested, limit) ==
    LET g == AtMost(requested, limit) IN
    IF g < requested /\ ~PolicyOf(p).allow_partial_grant THEN 0 ELSE g

\* The units granted; 0 is a refusal.
Grant(p, q, l, requested) == AllOrPart(p, requested, GrantLimit(p, q, l))

\* Evidence is there if the policy asks for it, and below the refusal band.
PressureAllows(p) ==
    /\ PolicyOf(p).refuse_increase_on_unknown => pressure_is_known(resolve_evidence(p))
    /\ ~(/\ PolicyOf(p).refuse_grants_at # Unknown
         /\ pressure_at_least(resolve_evidence(p), PolicyOf(p).refuse_grants_at))

\* Mutant of evaluate: a retired queue is not looked at.
EvaluateRetired(p, q, l, requested) ==
    When(PressureAllows(p), AllOrPart(p, requested, CapLimit(p, q, l)))

\* Mutant of evaluate: neither is pressure.
EvaluateBlind(p, q, l, requested) == AllOrPart(p, requested, CapLimit(p, q, l))

\* The units evaluate says a request would be granted.  It does not apply the
\* soft limit, and it answers during shutdown too.
evaluate(p, q, l, requested) ==
    When(~queues[q].retired /\ PressureAllows(p),
         AllOrPart(p, requested, CapLimit(p, q, l)))

\* Mutant of BorrowPart: overcommitted units count as borrowed.
BorrowPartWithOvercommit(p, l, g) == Monus(g, Free(p))

\* Own free units are consumed first, then the lender's, then overcommit.
BorrowPart(p, l, g) == AtMost(Monus(g, Free(p)), Borrowable(p, l))

UsageAfterGrant(p, l, r, g, b) ==
    [x \in Pools |->
        [reserved_units |->
             usage[x].reserved_units + When(x = p /\ ~r.commit_immediately, g),
         committed_units |->
             usage[x].committed_units + When(x = p /\ r.commit_immediately, g),
         pinned_units |->
             usage[x].pinned_units + When(x = p /\ r.reclaim_class = "Pinned", g),
         reclaimable_units |->
             usage[x].reclaimable_units + When(x = p /\ r.reclaim_class # "Pinned", g),
         own_usage |->
             usage[x].own_usage + When(x = p, g - b) + When(x = l, b),
         borrowed_in |-> usage[x].borrowed_in + When(x = p, b),
         lent_out |-> usage[x].lent_out + When(x = l, b)]]

NewRecord(p, q, l, r, g, b) ==
    [state |-> IF r.commit_immediately THEN "Committed" ELSE "Reserved",
     pool |-> p, queue |-> q, units |-> g, borrow_units |-> b,
     lender |-> IF b # 0 THEN l ELSE NoPool,
     reclaim_class |-> r.reclaim_class, reclaim_priority |-> r.reclaim_priority,
     pool_generation |-> pools[p].generation,
     queue_generation |-> queues[q].generation,
     policy_generation |-> policies[pools[p].policy].generation,
     created_at |-> tick, last_touched |-> tick,
     expires_at |-> When(r.ttl_ticks # 0, tick + r.ttl_ticks)]

\* A mutation whose pool no longer passes the closure check stops the fabric.
LatchUnlessClosed(p) ==
    shutting_down' = (\/ shutting_down
                      \/ ~CheckPoolAccounting(pools'[p], usage'[p], OvercommitLimit(p)))

\* The check is not reached when the operation fails before it.
LatchAfter(done, p) == IF done THEN LatchUnlessClosed(p) ELSE UNCHANGED shutting_down

\* The planned accounting of the pool passes the closure check.
PlanCloses(p, l, r, g) ==
    CheckPoolAccounting(pools[p], UsageAfterGrant(p, l, r, g, BorrowPart(p, l, g))[p],
                        OvercommitLimit(p))

\* The units allocate grants to a request that names a live pool and queue.
Granted(p, q, l, r) ==
    LET g == Grant(p, q, l, r.requested_units) IN
    When(~queues[q].retired /\ PressureAllows(p) /\ PlanCloses(p, l, r, g), g)

ApplyGrant(p, q, l, r, g, b) ==
    /\ usage' = UsageAfterGrant(p, l, r, g, b)
    /\ queue_reserved' =
          [queue_reserved EXCEPT ![p][q] = @ + When(~r.commit_immediately, g)]
    /\ queue_committed' =
          [queue_committed EXCEPT ![p][q] = @ + When(r.commit_immediately, g)]
    /\ members' = [members EXCEPT ![p] = @ \cup {next_allocation_id}]
    /\ allocations' =
          [allocations EXCEPT ![next_allocation_id] = NewRecord(p, q, l, r, g, b)]
    /\ next_allocation_id' = next_allocation_id + 1
    /\ UNCHANGED <<topology, pressure, open, tick>>
    /\ LatchUnlessClosed(p)

Allocate(p, q, r) ==
    /\ Accepting
    /\ next_allocation_id \in AllocIds
    /\ Registered(p)
    /\ queues[q].generation # 0
    /\ queues[q].pool = p
    /\ \E l \in Pools \cup {NoPool} :
          /\ IsLender(p, l)
          /\ LET g == Granted(p, q, l, r) IN
             /\ g # 0
             /\ ApplyGrant(p, q, l, r, g, BorrowPart(p, l, g))
-----------------------------------------------------------------------------
(* Returning units.                                                        *)

\* apply_release_units takes n[a] units from the pool of a, b[a] of them lent.
\* The aggregates when it has taken them from the reserved or committed units
\* for every a in S, from the pool's other fields for every a in V, and from
\* the lender's fields for every a in W.
UsageAfterReturn(S, V, W, n, b) ==
    [p \in Pools |->
        LET held == {a \in S : allocations[a].pool = p}
            mine == {a \in V : allocations[a].pool = p}
            lent == {a \in W : allocations[a].lender = p}
            u == usage[p]
        IN  [reserved_units |-> u.reserved_units
                 - Total({a \in held : allocations[a].state = "Reserved"}, n),
             committed_units |-> u.committed_units
                 - Total({a \in held : allocations[a].state # "Reserved"}, n),
             pinned_units |-> u.pinned_units
                 - Total({a \in mine : allocations[a].reclaim_class = "Pinned"}, n),
             reclaimable_units |-> u.reclaimable_units
                 - Total({a \in mine : allocations[a].reclaim_class # "Pinned"}, n),
             own_usage |-> u.own_usage - (Total(mine, n) - Total(mine, b)) - Total(lent, b),
             borrowed_in |-> u.borrowed_in - Total(mine, b),
             lent_out |-> u.lent_out - Total(lent, b)]]

\* apply_release_units refuses none of V, in whatever order they come: it would
\* take no field of a pool or of a lender below zero.
Returnable(V, n, b) == UsageAfterReturn(V, V, V, n, b) \in [Pools -> Usage]

\* The aggregates it leaves behind when it refuses a, after D.  Too few own,
\* borrowed, reserved or committed units: it has taken nothing of a.  Too few
\* of the class of a: the reserved or committed units.  Too few of the lender:
\* all that it takes from the pool of a.
UsageAtRefusal(D, a, n, b) ==
    LET E == D \cup {a}
        taken == UsageAfterReturn(E, E, D, n, b)
        u == taken[allocations[a].pool]
    IN  IF \E f \in {"own_usage", "borrowed_in", "reserved_units", "committed_units"} : u[f] < 0
        THEN UsageAfterReturn(D, D, D, n, b)
        ELSE IF u \notin Usage THEN UsageAfterReturn(E, D, D, n, b)
        ELSE taken

\* Mutant of BucketsAfterReturn: adjust_queue is not called.
BucketsKept(buckets, V, n) == buckets

\* adjust_queue with a negative delta for each a of V in state st.
BucketsAfterReturn(buckets, V, n) ==
    [p \in Pools |-> [q \in Queues |->
        Monus(buckets[p][q],
              Total({a \in V : allocations[a].pool = p /\ allocations[a].queue = q}, n))]]

\* The rest of a successful apply_release_units.
LeaveQueues(V, n) ==
    /\ queue_reserved' =
          BucketsAfterReturn(queue_reserved,
                             {a \in V : allocations[a].state = "Reserved"}, n)
    /\ queue_committed' =
          BucketsAfterReturn(queue_committed,
                             {a \in V : allocations[a].state # "Reserved"}, n)
    /\ members' = [p \in Pools |-> members[p] \ V]

ReturnUnits(V, n, b) ==
    /\ usage' = UsageAfterReturn(V, V, V, n, b)
    /\ LeaveQueues(V, n)

MarkRevoked(V, state) ==
    allocations' =
        [a \in AllocIds |->
            IF a \in V
            THEN [allocations[a] EXCEPT !.state = state, !.last_touched = tick]
            ELSE allocations[a]]

Revocable(V) == Returnable(V, UnitsHeld, BorrowHeld)

\* fence_allocation_locked for each a of V: all of its units go back.
Revoke(V, state) ==
    /\ ReturnUnits(V, UnitsHeld, BorrowHeld)
    /\ MarkRevoked(V, state)

\* The loop over V ends at the first a whose units are refused; D went before.
\* In which order the loops visit V is left open.
RevokeSome(V, state) ==
    \E D \in SUBSET V : \E a \in V \ D :
        /\ Revocable(D)
        /\ ~Revocable(D \cup {a})
        /\ usage' = UsageAtRefusal(D, a, UnitsHeld, BorrowHeld)
        /\ LeaveQueues(D, UnitsHeld)
        /\ MarkRevoked(D, state)

RevokeInTurn(V, state) ==
    IF Revocable(V) THEN Revoke(V, state) ELSE RevokeSome(V, state)

\* A difference of two u64.
Wrapped(d) == IF d < 0 THEN d + Word ELSE d

Commit(a) ==
    LET r == allocations[a] IN
    /\ open
    /\ r.state = "Reserved"
    /\ Registered(r.pool)
    /\ queues[r.queue].generation # 0
    /\ ~is_stale_binding(a)
    /\ allocations' = [allocations EXCEPT ![a].state = "Committed", ![a].last_touched = tick]
    /\ usage' = [usage EXCEPT ![r.pool].reserved_units = Wrapped(@ - r.units),
                              ![r.pool].committed_units = @ + r.units]
    /\ queue_reserved' = [queue_reserved EXCEPT ![r.pool][r.queue] = Monus(@, r.units)]
    /\ queue_committed' = [queue_committed EXCEPT ![r.pool][r.queue] = @ + r.units]
    /\ UNCHANGED <<topology, members, next_allocation_id, pressure, open, tick>>
    /\ LatchUnlessClosed(r.pool)

\* Mutant of ReleasedBorrow: borrowed units go back first.
ReleasedBorrowFirst(a, n) == n

\* Borrowed units go back in proportion, by a product of two u64.
ReleasedBorrow(a, n) ==
    IF n = UnitsHeld[a] THEN BorrowHeld[a]
    ELSE ((BorrowHeld[a] * n) % Word) \div UnitsHeld[a]

Each(n) == [a \in AllocIds |-> n]

\* The borrowed part of what goes back, as apply_release_units takes it.
LentPart(a, n) == Each(AtMost(ReleasedBorrow(a, n), n))

Releasable(a, n) == Returnable({a}, Each(n), LentPart(a, n))

\* Giving back n of the units of a, all of them or some.  A refusal by
\* apply_release_units ends it before the record is touched.
Release(a, n) ==
    LET r == allocations[a]
        back == ReleasedBorrow(a, n)
        rest == r.units - n
    IN
    /\ open
    /\ Holding(a)
    /\ Registered(r.pool)
    /\ queues[r.queue].generation # 0
    /\ UNCHANGED <<topology, next_allocation_id, pressure, open, tick>>
    /\ IF Releasable(a, n)
       THEN /\ ReturnUnits({a}, Each(n), LentPart(a, n))
            /\ allocations' =
                  [allocations EXCEPT ![a] =
                      [r EXCEPT !.state = IF rest = 0 THEN "Released" ELSE r.state,
                                !.units = rest,
                                !.borrow_units = When(rest # 0, BorrowHeld[a] - back),
                                !.lender = IF rest = 0 THEN NoPool ELSE r.lender,
                                !.last_touched = tick]]
            /\ LatchUnlessClosed(r.pool)
       ELSE /\ usage' = UsageAtRefusal({}, a, Each(n), LentPart(a, n))
            /\ UNCHANGED <<queue_reserved, queue_committed, members, allocations,
                           shutting_down>>

\* Revalidation never rebinds a stale allocation, so pool and policy
\* generations keep their values.
Revalidate(a) ==
    LET r == allocations[a] IN
    /\ open
    /\ Holding(a)
    /\ Registered(r.pool)
    /\ queues[r.queue].generation # 0
    /\ queues[r.queue].pool = r.pool
    /\ ~is_stale_binding(a)
    /\ allocations' =
          [allocations EXCEPT
              ![a].pool_generation = pools[r.pool].generation,
              ![a].queue_generation = queues[r.queue].generation,
              ![a].policy_generation = policies[pools[r.pool].policy].generation,
              ![a].last_touched = tick]
    /\ UNCHANGED <<topology, usage, queue_reserved, queue_committed, members,
                   next_allocation_id, pressure, lifecycle, tick>>

\* fence_stale: only what the pool enumerates as a member is looked at.
FenceStale(p) ==
    /\ Accepting
    /\ Registered(p)
    /\ RevokeInTurn({a \in members[p] : Holding(a) /\ is_stale_binding(a)}, "Fenced")
    /\ UNCHANGED <<topology, next_allocation_id, pressure, lifecycle, tick>>

\* The tick a reservation of p lapses at, 0 for never.
ExpiryOf(p, a) ==
    LET r == allocations[a] IN
    IF r.expires_at = 0 /\ PolicyOf(p).reservation_ttl_ticks # 0
    THEN r.created_at + PolicyOf(p).reservation_ttl_ticks
    ELSE r.expires_at

ExpireReservations(p) ==
    /\ Accepting
    /\ Registered(p)
    /\ RevokeInTurn({a \in members[p] : /\ allocations[a].state = "Reserved"
                                        /\ ExpiryOf(p, a) # 0
                                        /\ tick >= ExpiryOf(p, a)}, "Expired")
    /\ UNCHANGED <<topology, next_allocation_id, pressure, lifecycle, tick>>
-----------------------------------------------------------------------------
(* Reclamation.                                                            *)

\* Victims go in order of priority, then age, then id.
ReclaimedBefore(a, b) ==
    LET r == allocations[a]
        s == allocations[b]
    IN  \/ r.reclaim_priority < s.reclaim_priority
        \/ /\ r.reclaim_priority = s.reclaim_priority
           /\ \/ r.last_touched < s.last_touched
              \/ r.last_touched = s.last_touched /\ a < b

\* Mutant of HeldLongEnough: the age of the record counts, not its last use.
OldEnough(p, a) == Monus(tick, allocations[a].created_at) >= PolicyOf(p).min_hold_ticks

HeldLongEnough(p, a) == Monus(tick, allocations[a].last_touched) >= PolicyOf(p).min_hold_ticks

Candidates(p, class) ==
    {a \in members[p] : /\ Holding(a)
                        /\ HeldLongEnough(p, a)
                        /\ allocations[a].reclaim_class = class}

needs_more(p, target, planned) ==
    planned < target \/ Free(p) + planned < PolicyOf(p).reserve_units

\* The candidates C that a pass accepts when Z is accepted already: it goes on
\* while more is needed and stops at the first that does not fit.
Accepted(p, target, C, Z) ==
    {a \in C :
        LET before == Z \cup {b \in C : ReclaimedBefore(b, a)} IN
        /\ needs_more(p, target, Total(before, UnitsHeld))
        /\ Cardinality(before) < kMaxReclaimVictims
        /\ Total(before, UnitsHeld) + UnitsHeld[a] <= PolicyOf(p).max_units_per_operation}

\* plan_reclaim: reclaimable allocations first, then, where the policy allows
\* it and more is needed, pinned ones.
ReclaimPlan(p, target) ==
    LET first == Accepted(p, target, Candidates(p, "Reclaimable"), {})
        more == /\ needs_more(p, target, Total(first, UnitsHeld))
                /\ PolicyOf(p).allow_protected_reclaim
    IN  IF more THEN first \cup Accepted(p, target, Candidates(p, "Pinned"), first)
        ELSE first

ApplyReclaim(p, target) ==
    /\ Accepting
    /\ Registered(p)
    /\ PolicyOf(p).reclaim_enabled
    /\ RevokeInTurn(ReclaimPlan(p, target), "Reclaimed")
    /\ UNCHANGED <<topology, next_allocation_id, pressure, open, tick>>
    /\ LatchAfter(Revocable(ReclaimPlan(p, target)), p)
-----------------------------------------------------------------------------
(* Topology.                                                               *)

\* Units of the resource that the pools P have been given.
Partitioned(P) == Total({p \in P : Registered(p)}, RawUnits)

\* Mutant of SetCapacity: the pools are not looked at.
SetCapacityUnchecked(n) ==
    /\ Accepting
    /\ capacity' = n
    /\ UNCHANGED <<policies, pools, queues, ledger, next_allocation_id, pressure,
                   lifecycle, tick>>

SetCapacity(n) ==
    /\ Accepting
    /\ Partitioned(Pools) <= n
    /\ capacity' = n
    /\ UNCHANGED <<policies, pools, queues, ledger, next_allocation_id, pressure,
                   lifecycle, tick>>

\* A revision fences what was granted under the one before it, if it says so.
\* It is the one mutation of a pool's limits that is not followed by a check.
PublishPolicy(x, b) ==
    LET generation == policies[x].generation + 1
        victims == {a \in UNION {members[p] : p \in {y \in Pools : pools[y].policy = x}} :
                       Holding(a) /\ allocations[a].policy_generation # generation}
    IN
    /\ Accepting
    /\ policies[x].generation < MaxPolicyGeneration
    /\ policies[x].generation = 0 \/ policies[x].body # b
    /\ ValidPolicy(b)
    /\ policies' = [policies EXCEPT ![x] = [generation |-> generation, body |-> b]]
    /\ RevokeInTurn(IF b.fence_on_generation_change THEN victims ELSE {}, "Fenced")
    /\ UNCHANGED <<pools, queues, capacity, next_allocation_id, pressure, lifecycle, tick>>

\* PoolDescriptor::validate: something is left to allocate, no matter how much
\* is protected.
ValidUnits(d) == d.protected_units < d.raw_units

\* Mutant of WithinDepth: one level more is accepted.
WithinDepthPlusOne(parent) == Chains(parent, kMaxPoolDepth + 2) = {}

\* The walk up from the parent of a new pool counts at most kMaxPoolDepth pools.
WithinDepth(parent) == Chains(parent, kMaxPoolDepth + 1) = {}

RegisterPool(p, r) ==
    /\ Accepting
    /\ pools[p].generation = 0
    /\ ValidUnits(r)
    /\ r.parent # p
    /\ policies[r.policy].generation # 0
    /\ r.parent # NoPool => Registered(r.parent)
    /\ WithinDepth(r.parent)
    /\ capacity # 0
    /\ Partitioned(Pools) + r.raw_units <= capacity
    /\ pools' = [pools EXCEPT ![p] =
                    [generation |-> 1, raw_units |-> r.raw_units,
                     protected_units |-> r.protected_units, parent |-> r.parent,
                     policy |-> r.policy]]
    /\ usage' = [usage EXCEPT ![p] = NoUsage]
    /\ queue_reserved' = [queue_reserved EXCEPT ![p] = EmptyBuckets]
    /\ queue_committed' = [queue_committed EXCEPT ![p] = EmptyBuckets]
    /\ members' = [members EXCEPT ![p] = {}]
    /\ UNCHANGED <<policies, queues, capacity, allocations, next_allocation_id, pressure,
                   lifecycle, tick>>

Children(p) == {c \in Pools : pools[c].parent = p}

\* Works during shutdown too.  The pool's retired queues go with it.
RemovePool(p) ==
    /\ open
    /\ Registered(p)
    /\ Children(p) = {}
    /\ \A q \in Queues : queues[q].pool = p => queues[q].retired
    /\ usage[p].lent_out = 0
    /\ Allocated(usage[p]) = 0
    /\ pools' = [pools EXCEPT ![p] = Erased]
    /\ usage' = [usage EXCEPT ![p] = NoUsage]
    /\ queue_reserved' = [queue_reserved EXCEPT ![p] = EmptyBuckets]
    /\ queue_committed' = [queue_committed EXCEPT ![p] = EmptyBuckets]
    /\ members' = [members EXCEPT ![p] = {}]
    /\ pressure' = [pressure EXCEPT ![p] = NoSnapshot]
    /\ queues' = [q \in Queues |-> IF queues[q].pool = p THEN NoDescriptor ELSE queues[q]]
    /\ UNCHANGED <<policies, capacity, allocations, next_allocation_id, lifecycle, tick>>

\* enforce_capacity fences reclaimable members first, then by priority and id.
FencedBefore(a, b) ==
    LET r == allocations[a]
        s == allocations[b]
    IN  \/ r.reclaim_class = "Reclaimable" /\ s.reclaim_class # "Reclaimable"
        \/ /\ r.reclaim_class = s.reclaim_class
           /\ \/ r.reclaim_priority < s.reclaim_priority
              \/ r.reclaim_priority = s.reclaim_priority /\ a < b

OwnPart(S) == Total(S, UnitsHeld) - Total(S, BorrowHeld)

\* Mutant of EnforceVictims: a pool that still fits keeps its allocations.
EnforceWhenOver(p, d) ==
    {a \in members[p] : Holding(a) /\ usage[p].own_usage > Usable(d) + OvercommitLimit(p)}

\* The members fenced so that p, now described by d, fits its allowance, then
\* as many of the loans p has given as it takes.
EnforceVictims(p, d) ==
    LET allowance == Usable(d) + OvercommitLimit(p)
        holding == {a \in members[p] : Holding(a)}
        own == {a \in holding :
                   \/ PolicyOf(p).fence_on_generation_change
                   \/ usage[p].own_usage - OwnPart({b \in holding : FencedBefore(b, a)})
                          > allowance}
        left == usage[p].own_usage - OwnPart(own)
        loans == {a \in AllocIds : /\ Holding(a)
                                   /\ allocations[a].lender = p
                                   /\ allocations[a].borrow_units # 0}
        called == {a \in loans : left - Total({b \in loans : b < a}, BorrowHeld) > allowance}
    IN  own \cup called

ResizePool(p, s) ==
    LET d == [pools[p] EXCEPT !.raw_units = s.raw_units,
                              !.protected_units = s.protected_units,
                              !.generation = @ + 1]
    IN
    /\ Accepting
    /\ Registered(p)
    /\ pools[p].generation < MaxPoolGeneration
    /\ ValidUnits(s)
    /\ Usable(d) >= PolicyOf(p).usable_floor_units
    /\ Partitioned(Pools \ {p}) + s.raw_units <= capacity
    /\ pools' = [pools EXCEPT ![p] = d]
    /\ RevokeInTurn(EnforceVictims(p, d), "Fenced")
    /\ UNCHANGED <<policies, queues, capacity, next_allocation_id, pressure, open, tick>>
    /\ LatchAfter(Revocable(EnforceVictims(p, d)), p)

RegisterQueue(q, r) ==
    /\ Accepting
    /\ queues[q].generation = 0
    /\ Registered(r.pool)
    /\ queues' = [queues EXCEPT ![q] =
                     [generation |-> 1, pool |-> r.pool, retired |-> FALSE,
                      demand_units |-> r.demand_units,
                      max_committed_units |-> r.max_committed_units]]
    /\ UNCHANGED <<policies, pools, capacity, ledger, next_allocation_id, pressure,
                   lifecycle, tick>>

\* Demand is not a structural change: the queue keeps its generation.
UpdateQueueDemand(q, n) ==
    /\ open
    /\ queues[q].generation # 0
    /\ ~queues[q].retired
    /\ queues' = [queues EXCEPT ![q].demand_units = n]
    /\ UNCHANGED <<policies, pools, capacity, ledger, next_allocation_id, pressure,
                   lifecycle, tick>>

\* Mutant of HeldByQueue: committed allocations are left where they are.
ReservedByQueue(q) ==
    {a \in AllocIds : allocations[a].queue = q /\ allocations[a].state = "Reserved"}

HeldByQueue(q) == {a \in AllocIds : allocations[a].queue = q /\ Holding(a)}

RetireQueue(q) ==
    /\ open
    /\ queues[q].generation \in 1..(MaxQueueGeneration - 1)
    /\ ~queues[q].retired
    /\ queues' = [queues EXCEPT ![q].retired = TRUE, ![q].generation = @ + 1]
    /\ RevokeInTurn(IF auto_fence_on_queue_retirement THEN HeldByQueue(q) ELSE {}, "Fenced")
    /\ UNCHANGED <<policies, pools, capacity, next_allocation_id, pressure, lifecycle, tick>>

RetargetQueue(q, p) ==
    /\ open
    /\ queues[q].generation \in 1..(MaxQueueGeneration - 1)
    /\ ~queues[q].retired
    /\ Registered(p)
    /\ queues[q].pool # p
    /\ RevokeInTurn(HeldByQueue(q), "Fenced")
    /\ queues' = IF Revocable(HeldByQueue(q))
                 THEN [queues EXCEPT ![q].pool = p, ![q].generation = @ + 1]
                 ELSE queues
    /\ UNCHANGED <<policies, pools, capacity, next_allocation_id, pressure, lifecycle, tick>>

\* A report names the pool's current generation, or it is refused.  Without a
\* time it is stamped now, without a lifetime it gets the policy's.
ObservePressure(p, r) ==
    /\ Accepting
    /\ Registered(p)
    /\ r.observed_at <= tick
    /\ pressure' = [pressure EXCEPT ![p] =
          [generation |-> pools[p].generation,
           observed_at |-> IF r.observed_at = 0 THEN tick ELSE r.observed_at,
           ttl_ticks |-> IF r.ttl_ticks = 0 THEN PolicyOf(p).evidence_ttl_ticks
                         ELSE r.ttl_ticks,
           committed |-> r.committed]]
    /\ UNCHANGED <<topology, ledger, next_allocation_id, lifecycle, tick>>
-----------------------------------------------------------------------------
(* Lifecycle and time.                                                     *)

BeginShutdown ==
    /\ shutting_down' = TRUE
    /\ UNCHANGED <<topology, ledger, next_allocation_id, pressure, open, tick>>

Close ==
    /\ open
    /\ open' = FALSE
    /\ shutting_down' = FALSE
    /\ UNCHANGED <<topology, ledger, next_allocation_id, pressure, tick>>

\* Reopening the same object keeps what it holds in memory.
Open ==
    /\ ~open
    /\ open' = TRUE
    /\ shutting_down' = FALSE
    /\ UNCHANGED <<topology, ledger, next_allocation_id, pressure, tick>>

\* The clock, sampled by the next operation.
Tick ==
    /\ tick < MaxTick
    /\ tick' = tick + 1
    /\ UNCHANGED <<topology, ledger, next_allocation_id, pressure, lifecycle>>

Next ==
    \/ \E n \in Capacities : SetCapacity(n)
    \/ \E x \in Policies, b \in PolicyBodies : PublishPolicy(x, b)
    \/ \E p \in Pools, r \in PoolRegistrations : RegisterPool(p, r)
    \/ \E p \in Pools : RemovePool(p)
    \/ \E p \in Pools, s \in Resizes : ResizePool(p, s)
    \/ \E q \in Queues, r \in QueueRegistrations : RegisterQueue(q, r)
    \/ \E q \in Queues, n \in Demands : UpdateQueueDemand(q, n)
    \/ \E q \in Queues : RetireQueue(q)
    \/ \E q \in Queues, p \in Pools : RetargetQueue(q, p)
    \/ \E p \in Pools, r \in PressureReports : ObservePressure(p, r)
    \/ \E p \in Pools, q \in Queues, r \in AllocateRequests : Allocate(p, q, r)
    \/ \E a \in AllocIds : Commit(a)
    \/ \E a \in AllocIds : \E n \in 1..UnitsHeld[a] : Release(a, n)
    \/ \E a \in AllocIds : Revalidate(a)
    \/ \E p \in Pools : FenceStale(p)
    \/ \E p \in Pools : ExpireReservations(p)
    \/ \E p \in Pools, n \in ReclaimTargets : ApplyReclaim(p, n)
    \/ BeginShutdown
    \/ Close
    \/ Open
    \/ Tick

Spec == Init /\ [][Next]_vars
-----------------------------------------------------------------------------
(* Properties.                                                             *)

\* Every variable keeps its type.  In particular the borrowed part that a
\* partial release leaves in the record is never below zero.
TypeOK ==
    /\ policies \in [Policies -> PolicyEntry]
    /\ pools \in [Pools -> PoolDescriptor]
    /\ usage \in [Pools -> Usage]
    /\ queue_reserved \in [Pools -> [Queues -> Nat]]
    /\ queue_committed \in [Pools -> [Queues -> Nat]]
    /\ members \in [Pools -> SUBSET AllocIds]
    /\ queues \in [Queues -> QueueDescriptor]
    /\ allocations \in [AllocIds -> AllocationRecord]
    /\ next_allocation_id \in 1..(kMaxAllocationCount + 1)
    /\ pressure \in [Pools -> PressureSnapshot]
    /\ capacity \in Nat
    /\ open \in BOOLEAN
    /\ shutting_down \in BOOLEAN
    /\ tick \in Nat

\* Holding allocations of pool p whose record satisfies a test.
HeldIn(p, state) == {a \in AllocIds : allocations[a].state = state /\ allocations[a].pool = p}
HeldAs(p, class) ==
    {a \in AllocIds : /\ Holding(a)
                      /\ allocations[a].pool = p
                      /\ allocations[a].reclaim_class = class}
HeldBy(p, q, state) == {a \in HeldIn(p, state) : allocations[a].queue = q}
HeldAny(p) == {a \in AllocIds : Holding(a) /\ allocations[a].pool = p}
LentBy(p) == {a \in AllocIds : Holding(a) /\ allocations[a].lender = p}

\* The aggregates that the operations maintain by increments are, in every
\* state, the sums that rebuild_aggregates and deep_verify would compute from
\* the allocation records alone.  It takes a grant, a partial release and a
\* fence, each with its own rounding of borrowed units, to get this wrong.
AggregatesMatchRecords ==
    \A p \in Pools :
        /\ usage[p].reserved_units = Total(HeldIn(p, "Reserved"), UnitsHeld)
        /\ usage[p].committed_units = Total(HeldIn(p, "Committed"), UnitsHeld)
        /\ usage[p].pinned_units = Total(HeldAs(p, "Pinned"), UnitsHeld)
        /\ usage[p].reclaimable_units = Total(HeldAs(p, "Reclaimable"), UnitsHeld)
        /\ usage[p].borrowed_in = Total(HeldAny(p), BorrowHeld)
        /\ usage[p].lent_out = Total(LentBy(p), BorrowHeld)
        /\ \A q \in Queues :
              /\ queue_reserved[p][q] = Total(HeldBy(p, q, "Reserved"), UnitsHeld)
              /\ queue_committed[p][q] = Total(HeldBy(p, q, "Committed"), UnitsHeld)

\* What is held can always be given back: apply_release_units, which refuses
\* what would take an unsigned field below zero, refuses neither the release of
\* any number of an allocation's units nor the fencing of any allocations
\* together.  Its refusals leave the pool half updated, or the loop that fences
\* half done, so the fabric depends on never meeting one.
AlwaysReturnable ==
    /\ \A a \in AllocIds : Holding(a) => \A n \in 1..UnitsHeld[a] : Releasable(a, n)
    /\ \A V \in SUBSET {a \in AllocIds : Holding(a)} : Revocable(V)

\* The accounting identity of every pool, and the global one of
\* check_global_accounting: units borrowed by all pools are exactly the units
\* lent by all pools, so capacity is moved between pools but never made.
AccountingIdentity ==
    /\ \A p \in Pools :
          /\ PoolClosure(pools[p], usage[p])
          /\ usage[p].own_usage + usage[p].borrowed_in
                = Allocated(usage[p]) + usage[p].lent_out
          /\ usage[p].pinned_units + usage[p].reclaimable_units = Allocated(usage[p])
    /\ CheckGlobalAccounting(Pools, pools, usage)

\* Pools never promise more raw units than the backend's capacity, whatever
\* the order of resizes, registrations, removals and new capacity reports.
PartitionBounded == Partitioned(Pools) <= capacity

\* The pools above p, as far as compute_grant walks.
Ancestors(p) ==
    {l \in Pools : \E n \in 1..kMaxPoolDepth :
                      \E s \in Chains(pools[p].parent, n) : s[n] = l}

\* Units are never stranded.  An allocation that holds units has a live pool
\* and a live queue bound to that pool, and units it borrows come from a live
\* proper ancestor of its pool: otherwise apply_release_units and release
\* could not give them back ("lender pool is missing", UnknownQueue).
NoOrphanedUnits ==
    \A a \in AllocIds : Holding(a) =>
        LET r == allocations[a] IN
        /\ Registered(r.pool)
        /\ r.queue \in Queues
        /\ queues[r.queue].pool = r.pool
        /\ r.borrow_units <= r.units
        /\ r.borrow_units # 0 => /\ Registered(r.lender)
                                 /\ r.lender # r.pool
                                 /\ r.lender \in Ancestors(r.pool)

\* Every ancestor of a pool is within the reach of the walk in compute_grant,
\* which stops after kMaxPoolDepth steps: the depth check of register_pool and
\* the bound of the walk agree, and the parents form a forest.
WalkReachesRoot ==
    \A p \in Pools : Chains(pools[p].parent, kMaxPoolDepth + 1) = {}

\* What a pool enumerates it can act on: members hold units and belong to the
\* pool, and under a policy that fences on a generation change none of them
\* is bound to a superseded pool or policy generation.
MembersCurrent ==
    \A p \in Pools : \A a \in members[p] :
        /\ Holding(a)
        /\ allocations[a].pool = p
        /\ PolicyOf(p).fence_on_generation_change => ~is_stale_binding(a)

\* A queue with a hard cap never holds more than the cap in its pool, over any
\* mix of reservations, commits, partial releases and moves between pools.
QueueCapRespected ==
    \A q \in Queues :
        queues[q].max_committed_units # 0 =>
            \A p \in Pools : QueueHeld(p, q) <= queues[q].max_committed_units

\* While the fabric refuses work it only drains.  From the moment shutdown is
\* requested, or latched by a failed check, until the fabric is opened again,
\* no pool's allocated units grow, nothing is registered, resized or revised,
\* and no evidence is accepted, although commit, release, queue moves and pool
\* removal still run.
ShutdownOnlyDrains ==
    [][shutting_down /\ shutting_down' /\ refuse_work_after_shutdown =>
          /\ policies' = policies
          /\ capacity' = capacity
          /\ next_allocation_id' = next_allocation_id
          /\ \A p \in Pools :
                /\ Allocated(usage'[p]) <= Allocated(usage[p])
                /\ pools'[p] \in {pools[p], Erased}
                /\ pressure'[p] \in {pressure[p], NoSnapshot}]_vars

\* Missing or outdated evidence is never authority for an increase.  When the
\* policy asks for evidence, a pool's allocated units grow only under a
\* snapshot taken for the pool's current generation, no older than its
\* lifetime, and not contradicting the accounting, whatever has been resized,
\* released, removed or registered again since it was taken.
EvidenceGatesGrowth ==
    [][\A p \in Pools :
          /\ Allocated(usage'[p]) > Allocated(usage[p])
          /\ PolicyOf(p).refuse_increase_on_unknown
          => /\ pressure[p].generation = pools[p].generation
             /\ tick - pressure[p].observed_at \in 0..pressure[p].ttl_ticks
             /\ pressure[p].committed \in {-1, usage[p].own_usage}]_vars

\* What evaluate answers, a following allocate does: it grants no more, and
\* exactly as much unless the soft limit applies or a revision has left the
\* pool past its allowance.  In particular the check of the planned accounting
\* in allocate turns down a computed grant in that one case only.
EvaluateForetells ==
    \A p \in Pools, q \in Queues, l \in Pools \cup {NoPool} :
        /\ Registered(p)
        /\ queues[q].pool = p
        /\ IsLender(p, l)
        => \A r \in AllocateRequests :
              LET answer == evaluate(p, q, l, r.requested_units)
                  granted == Granted(p, q, l, r)
              IN  /\ granted <= answer
                  /\ /\ ~SoftLimited(p)
                     /\ usage[p].own_usage <= Usable(pools[p]) + OvercommitLimit(p)
                     => granted = answer

ReclaimedNow ==
    {a \in AllocIds : allocations[a].state # "Reclaimed"
                       /\ allocations'[a].state = "Reclaimed"}

\* One reclaim takes allocations of one pool, none touched too recently, none
\* pinned unless the policy allows it, no more units than the policy bounds an
\* operation to, and within a class never one while an eligible one that comes
\* before it in (priority, last touch, id) is spared.
ReclaimRespectsPolicy ==
    [][\A a \in ReclaimedNow :
          LET p == allocations[a].pool
              b == PolicyOf(p)
          IN
          /\ tick - allocations[a].last_touched >= b.min_hold_ticks
          /\ allocations[a].reclaim_class = "Pinned" => b.allow_protected_reclaim
          /\ Total(ReclaimedNow, UnitsHeld) <= b.max_units_per_operation
          /\ \A c \in AllocIds :
                /\ c \in ReclaimedNow => allocations[c].pool = p
                /\ /\ c \in Candidates(p, allocations[a].reclaim_class)
                   /\ ReclaimedBefore(c, a)
                   => c \in ReclaimedNow]_vars

\* A resized pool fits its capacity again: enforce_capacity is there to "fence
\* (or reduce) allocations so that entry fits its capacity again".
ResizedPoolFits ==
    [][\A p \in Pools :
          pools[p].generation # 0 /\ pools'[p].generation > pools[p].generation =>
              usage'[p].own_usage <= Usable(pools'[p]) + OvercommitLimit(p)]_vars
-----------------------------------------------------------------------------
(* The fabric as a ledger of commitments.                                  *)

StatusOf(s) ==
    CASE allocation_holds_units(s) -> "Held"
      [] s = "None" -> "Free"
      [] OTHER -> "Ended"

ClaimsMade ==
    [a \in AllocIds |->
        [status |-> StatusOf(allocations[a].state), account |-> allocations[a].pool,
         lender |-> allocations[a].lender, units |-> UnitsHeld[a], loan |-> BorrowHeld[a]]]

LimitsInForce ==
    [p \in Pools |->
        IF Registered(p)
        THEN [open |-> TRUE, room |-> Usable(pools[p]),
              limit |-> Usable(pools[p]) + OvercommitLimit(p)]
        ELSE [open |-> FALSE, room |-> 0, limit |-> 0]]

Promise == INSTANCE Commitments
    WITH Accounts <- Pools, ClaimIds <- AllocIds,
         claims <- ClaimsMade, limits <- LimitsInForce

\* The fabric keeps the promise of Commitments.  Every grant is for a new id
\* and within the limits of the pool and the room of a lender that is another
\* pool, everything else only shrinks or ends what was granted, and no pool is
\* removed while an allocation holds its units, as its own or on loan.
KeepsCommitments == Promise!Spec
=============================================================================
