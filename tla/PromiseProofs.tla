---------------------------- MODULE PromiseProofs ---------------------------
(***************************************************************************)
(* First, the pools form a forest no deeper than kMaxPoolDepth, and what   *)
(* holds units is bound to live pools and a live queue.  Registering a     *)
(* pool adds a leaf and removing one takes a leaf away, so the paths that  *)
(* lead up from every other pool stay what they were.                      *)
(*                                                                         *)
(* Then, the fabric implements Commitments: what its operations do, read   *)
(* through ClaimsMade and LimitsInForce, is what the abstract              *)
(* specification allows.  allocate issues a claim, everything else         *)
(* adjusts.  That only allocate issues also gives when a pool may grow,    *)
(* that a fabric in shutdown drains and that queues keep within their      *)
(* caps.  What a pool enumerates is current by an invariant of its own.    *)
(***************************************************************************)
EXTENDS FabricProofs

\* A leaf that names no backend is tried with Zenon, then with arithmetic.
USE ZenonT(10), SMTT(15)

\* Parents are registered, nobody is above itself, and compute_grant's walk
\* gets to the top.
Forest ==
    /\ \A p \in Pools : pools[p].parent # NoPool => Registered(pools[p].parent)
    /\ \A p \in Pools : p \notin Ancestors(p)
    /\ WalkReachesRoot

\* What an allocation that holds units is bound to.
Bound(a) ==
    /\ allocations[a].units # 0
    /\ Registered(allocations[a].pool)
    /\ queues[allocations[a].queue].generation # 0
    /\ queues[allocations[a].queue].pool = allocations[a].pool
    /\ allocations[a].borrow_units # 0 =>
          /\ Registered(allocations[a].lender)
          /\ allocations[a].lender \in Ancestors(allocations[a].pool)

Bindings == \A a \in AllocIds : Holding(a) => Bound(a)

\* The strengthening that NoOrphanedUnits and WalkReachesRoot need.
TInv == IInv /\ Forest /\ Bindings

\* In the step, a holds no more than before, and of the same pools and queue.
Shrinks(a) ==
    /\ (Holding(a))' =>
          /\ Holding(a)
          /\ allocations'[a].pool = allocations[a].pool
          /\ allocations'[a].queue = allocations[a].queue
          /\ allocations'[a].lender = allocations[a].lender
          /\ allocations'[a].units <= allocations[a].units
          /\ allocations'[a].borrow_units <= allocations[a].borrow_units
          /\ BorrowHeld'[a] <= BorrowHeld[a]
          /\ allocations[a].units # 0 => allocations'[a].units # 0
          /\ allocations[a].borrow_units = 0 => allocations'[a].borrow_units = 0
    /\ allocations'[a].state = "None" <=> allocations[a].state = "None"

\* The id that a grant hands out next names no record yet.
LEMMA NextIdFree ==
    ASSUME IInv, next_allocation_id \in AllocIds
    PROVE  allocations[next_allocation_id].state = "None"
<1>1. next_allocation_id >= next_allocation_id
  <2>1. next_allocation_id \in 1..kMaxAllocationCount
    BY Zenon DEF AllocIds
  <2> QED  BY <2>1, BoundAssumption
<1>2. RecordsSound
  BY Zenon DEF IInv
<1> QED  BY <1>1, <1>2, Zenon DEF RecordsSound

\* A registered pool has a policy, and the body of it is one.
LEMMA PolicyInForce ==
    ASSUME IInv, NEW p \in Pools, Registered(p)
    PROVE  /\ pools[p].policy \in Policies
           /\ policies[pools[p].policy].generation \in Nat
           /\ PolicyOf(p) \in PolicyBody
<1>1. pools[p].policy \in Policies
  BY Zenon DEF IInv, PoolsSound, Registered
<1>2. policies \in [Policies -> PolicyEntry]
  BY Zenon DEF IInv, StructOK
<1>3. policies[pools[p].policy] \in PolicyEntry
  BY <1>1, <1>2, Zenon
<1>4. \A e \in PolicyEntry : e.generation \in Nat /\ e.body \in PolicyBody
  BY Zenon DEF PolicyEntry
<1> QED  BY <1>1, <1>3, <1>4, Zenon DEF PolicyOf

\* A binding to the generation in force is not ahead of it.
LEMMA NoGreaterThanItself ==
    ASSUME NEW n \in Nat
    PROVE  n <= n
OBVIOUS
-----------------------------------------------------------------------------
(* Paths.                                                                  *)

\* When p is a leaf before and after a step and no other pool gets another
\* parent, the paths that start elsewhere stay the same and avoid p.
LEMMA PathsAvoidLeaf ==
    ASSUME NEW p \in Pools,
           \A x \in Pools : pools[x].parent # p /\ pools'[x].parent # p,
           \A x \in Pools \ {p} : pools'[x].parent = pools[x].parent,
           NEW first, first # p, NEW n \in Nat
    PROVE  /\ Chains(first, n)' = Chains(first, n)
           /\ \A s \in Chains(first, n) : \A i \in 1..n : s[i] # p
<1>1. ASSUME NEW s \in Chains(first, n), NEW i \in 1..n
      PROVE  s[i] # p
  <2>1. s \in [1..n -> Pools] /\ s[1] = first /\ \A j \in 2..n : s[j] = pools[s[j - 1]].parent
    BY DEF Chains
  <2>2. CASE i = 1
    BY <2>1, <2>2
  <2>3. CASE i # 1
    <3>1. i \in 2..n /\ i - 1 \in 1..n
      BY <2>3
    <3> QED  BY <2>1, <3>1
  <2> QED  BY <2>2, <2>3
<1>2. ASSUME NEW s \in Chains(first, n)'
      PROVE  s \in Chains(first, n)
  <2>1. s \in [1..n -> Pools] /\ s[1] = first /\ \A j \in 2..n : s[j] = pools'[s[j - 1]].parent
    BY <1>2 DEF Chains
  <2>2. \A i \in 1..n : s[i] # p
    <3> SUFFICES ASSUME NEW i \in 1..n
                 PROVE  s[i] # p
      OBVIOUS
    <3>1. i = 1 \/ (i \in 2..n /\ i - 1 \in 1..n)
      OBVIOUS
    <3> QED  BY <2>1, <3>1
  <2>3. ASSUME NEW j \in 2..n
        PROVE  s[j] = pools[s[j - 1]].parent
    <3>1. j - 1 \in 1..n
      OBVIOUS
    <3> QED  BY <2>1, <2>2, <3>1
  <2> QED  BY <2>1, <2>3 DEF Chains
<1>3. ASSUME NEW s \in Chains(first, n)
      PROVE  s \in Chains(first, n)'
  <2>1. s \in [1..n -> Pools] /\ s[1] = first /\ \A j \in 2..n : s[j] = pools[s[j - 1]].parent
    BY DEF Chains
  <2>2. ASSUME NEW j \in 2..n
        PROVE  s[j] = pools'[s[j - 1]].parent
    <3>1. j - 1 \in 1..n
      OBVIOUS
    <3>2. s[j - 1] \in Pools \ {p}
      BY <1>1, <2>1, <3>1
    <3> QED  BY <2>1, <3>2
  <2> QED  BY <2>1, <2>2 DEF Chains
<1> QED  BY <1>1, <1>2, <1>3

\* Nothing is above a pool without a parent.
LEMMA NoPathFromNowhere ==
    ASSUME NEW n \in Nat \ {0}
    PROVE  Chains(NoPool, n) = {}
<1> SUFFICES ASSUME NEW s \in Chains(NoPool, n)
             PROVE  FALSE
  OBVIOUS
<1>1. s \in [1..n -> Pools] /\ s[1] = NoPool /\ 1 \in 1..n
  BY DEF Chains
<1> QED  BY <1>1, IdAssumption

\* When no pool gets another parent or loses its registration, the forest and
\* everyone's ancestors stay.
LEMMA SameForest ==
    ASSUME Forest,
           \A x \in Pools : /\ pools'[x].parent = pools[x].parent
                            /\ (pools'[x].generation = 0) <=> (pools[x].generation = 0)
    PROVE  /\ Forest'
           /\ \A x \in Pools : Ancestors(x)' = Ancestors(x)
           /\ \A x : (Registered(x))' <=> Registered(x)
<1>1. \A first : \A n \in Nat : Chains(first, n)' = Chains(first, n)
  <2> SUFFICES ASSUME NEW first, NEW n \in Nat
               PROVE  Chains(first, n)' = Chains(first, n)
    OBVIOUS
  <2>1. \A i \in 2..n : i - 1 \in 1..n
    OBVIOUS
  <2>2. \A s \in [1..n -> Pools] : \A i \in 2..n :
           pools'[s[i - 1]].parent = pools[s[i - 1]].parent
    BY <2>1
  <2> QED  BY <2>2 DEF Chains
<1>2. \A x \in Pools : Ancestors(x)' = Ancestors(x)
  <2> SUFFICES ASSUME NEW x \in Pools
               PROVE  Ancestors(x)' = Ancestors(x)
    OBVIOUS
  <2>1. \A n \in 1..kMaxPoolDepth :
           Chains(pools[x].parent, n)' = Chains(pools[x].parent, n)
    BY <1>1
  <2> QED  BY <2>1 DEF Ancestors
<1>3. \A x : (Registered(x))' <=> Registered(x)
  BY DEF Registered
<1>4. WalkReachesRoot'
  BY <1>1, BoundAssumption DEF Forest, WalkReachesRoot
<1> QED  BY <1>2, <1>3, <1>4 DEF Forest

\* A leaf that comes or goes leaves a forest, and the other pools as they were.
LEMMA LeafStep ==
    ASSUME Forest, NEW p \in Pools, NEW f \in Pools \cup {NoPool},
           f = pools'[p].parent, f # p, f # NoPool => Registered(f),
           Chains(f, kMaxPoolDepth + 1) = {},
           \A x \in Pools : pools[x].parent # p,
           \A x \in Pools \ {p} : /\ pools'[x].parent = pools[x].parent
                                  /\ (pools'[x].generation = 0) <=> (pools[x].generation = 0)
    PROVE  /\ Forest'
           /\ \A x \in Pools \ {p} : Ancestors(x)' = Ancestors(x)
           /\ \A x \in Pools \ {p} : (Registered(x))' <=> Registered(x)
<1>1. \A x \in Pools : pools[x].parent # p /\ pools'[x].parent # p
  OBVIOUS
<1>2. \A first : \A n \in Nat : first # p =>
         /\ Chains(first, n)' = Chains(first, n)
         /\ \A s \in Chains(first, n) : \A i \in 1..n : s[i] # p
  BY <1>1, PathsAvoidLeaf
<1>3. kMaxPoolDepth + 1 \in Nat /\ \A n \in 1..kMaxPoolDepth : n \in Nat /\ n \in 1..n
  BY BoundAssumption
<1>4. \A x \in Pools \ {p} : Ancestors(x)' = Ancestors(x)
  <2> SUFFICES ASSUME NEW x \in Pools \ {p}
               PROVE  Ancestors(x)' = Ancestors(x)
    OBVIOUS
  <2>1. \A n \in 1..kMaxPoolDepth :
           Chains(pools[x].parent, n)' = Chains(pools[x].parent, n)
    BY <1>1, <1>2, <1>3
  <2> QED  BY <2>1 DEF Ancestors
<1>5. p \notin Ancestors(p)'
  <2> SUFFICES ASSUME NEW n \in 1..kMaxPoolDepth, NEW s \in Chains(f, n)', s[n] = p
               PROVE  FALSE
    BY DEF Ancestors
  <2> QED  BY <1>2, <1>3
<1>6. WalkReachesRoot'
  <2> SUFFICES ASSUME NEW x \in Pools
               PROVE  Chains(pools[x].parent, kMaxPoolDepth + 1)' = {}
    BY DEF WalkReachesRoot
  <2>1. CASE x = p
    BY <1>2, <1>3, <2>1
  <2>2. CASE x # p
    BY <1>1, <1>2, <1>3, <2>2 DEF Forest, WalkReachesRoot
  <2> QED  BY <2>1, <2>2
<1>7. \A x \in Pools \ {p} : (Registered(x))' <=> Registered(x)
  BY DEF Registered
<1>8. ASSUME NEW x \in Pools, pools'[x].parent # NoPool
      PROVE  Registered(pools[x].parent)'
  <2>1. CASE x = p
    BY <1>7, <1>8, <2>1
  <2>2. CASE x # p
    <3>1. Registered(pools[x].parent) /\ pools[x].parent # p /\ pools[x].parent \in Pools
      BY <1>8, <2>2 DEF Forest, Registered
    <3> QED  BY <1>7, <2>2, <3>1
  <2> QED  BY <2>1, <2>2
<1> QED  BY <1>4, <1>5, <1>6, <1>7, <1>8 DEF Forest
-----------------------------------------------------------------------------
(* What a step does to a commitment.                                       *)

\* A record that stays as it is shrinks, trivially.
LEMMA KeptShrinks ==
    ASSUME IInv, NEW a \in AllocIds,
           allocations'[a].state = allocations[a].state,
           allocations'[a].pool = allocations[a].pool,
           allocations'[a].queue = allocations[a].queue,
           allocations'[a].units = allocations[a].units,
           allocations'[a].borrow_units = allocations[a].borrow_units,
           allocations'[a].lender = allocations[a].lender
    PROVE  Shrinks(a)
<1>1. BorrowHeld'[a] = BorrowHeld[a] /\ ((Holding(a))' <=> Holding(a))
  BY DEF BorrowHeld, Holding
<1>2. /\ allocations[a].units \in Nat
      /\ allocations[a].borrow_units \in Nat
      /\ BorrowHeld[a] \in Nat
  BY HeldTyped DEF IInv, StructOK, AllocationRecord
<1> QED  BY <1>1, <1>2 DEF Shrinks

\* What is revoked stops holding units, everything else stays.
LEMMA RevokeShrinks ==
    ASSUME IInv, NEW V \in SUBSET AllocIds, \A a \in V : Holding(a),
           NEW st \in {"Fenced", "Reclaimed", "Expired"}, Revoke(V, st)
    PROVE  \A a \in AllocIds : Shrinks(a) /\ (a \in V => ~(Holding(a))')
<1> SUFFICES ASSUME NEW a \in AllocIds
             PROVE  Shrinks(a) /\ (a \in V => ~(Holding(a))')
  OBVIOUS
<1>1. CASE a \in V
  <2>1. allocations'[a].state = st
    <3>1. allocations[a] \in AllocationRecord
      BY DEF IInv, StructOK
    <3>2. allocations'[a] = [allocations[a] EXCEPT !.state = st, !.last_touched = tick]
      BY <1>1 DEF Revoke, MarkRevoked
    <3> QED  BY <3>1, <3>2 DEF AllocationRecord
  <2>2. allocations[a].state \in {"Reserved", "Committed"}
    BY <1>1 DEF Holding, allocation_holds_units
  <2> QED  BY <2>1, <2>2 DEF Shrinks, Holding, allocation_holds_units
<1>2. CASE a \notin V
  <2>1. allocations'[a] = allocations[a]
    BY <1>2 DEF Revoke, MarkRevoked
  <2> QED  BY <1>2, <2>1, KeptShrinks
<1> QED  BY <1>1, <1>2

\* commit moves a record on and changes nothing it holds.
LEMMA CommitShrinks ==
    ASSUME IInv, NEW c \in AllocIds, Commit(c), NEW a \in AllocIds
    PROVE  Shrinks(a)
<1>1. allocations[a] \in AllocationRecord /\ allocations \in [AllocIds -> AllocationRecord]
  BY DEF IInv, StructOK
<1>2. CASE a = c
  <2>1. /\ allocations'[a].state = "Committed"
        /\ allocations[a].state = "Reserved"
        /\ allocations'[a].pool = allocations[a].pool
        /\ allocations'[a].queue = allocations[a].queue
        /\ allocations'[a].units = allocations[a].units
        /\ allocations'[a].borrow_units = allocations[a].borrow_units
        /\ allocations'[a].lender = allocations[a].lender
    BY <1>1, <1>2 DEF Commit, AllocationRecord
  <2>2. BorrowHeld'[a] = BorrowHeld[a] /\ (Holding(a))' /\ Holding(a)
    BY <2>1 DEF BorrowHeld, Holding, allocation_holds_units
  <2>3. /\ allocations[a].units \in Nat
        /\ allocations[a].borrow_units \in Nat
        /\ BorrowHeld[a] \in Nat
    BY <1>1, HeldTyped DEF IInv, StructOK, AllocationRecord
  <2> QED  BY <2>1, <2>2, <2>3 DEF Shrinks
<1>3. CASE a # c
  <2>1. allocations'[a] = allocations[a]
    BY <1>1, <1>3 DEF Commit
  <2> QED  BY <2>1, KeptShrinks
<1> QED  BY <1>2, <1>3

\* release leaves less of a record, or ends it.
LEMMA ReleaseShrinks ==
    ASSUME IInv, SmallRequests, NEW c \in AllocIds, NEW n \in 1..UnitsHeld[c],
           Release(c, n), NEW a \in AllocIds
    PROVE  Shrinks(a)
<1>1. allocations[a] \in AllocationRecord /\ allocations \in [AllocIds -> AllocationRecord]
  BY DEF IInv, StructOK
<1>2. CASE a = c
  <2> DEFINE r == allocations[c]
             rest == r.units - n
  <2>1. Holding(c) /\ n \in Nat /\ n <= r.units /\ n # 0 /\ r.units \in Nat
    BY <1>1, <1>2 DEF Release, UnitsHeld, AllocationRecord
  <2>2. /\ ReleasedBorrow(c, n) \in Nat
        /\ ReleasedBorrow(c, n) <= BorrowHeld[c]
        /\ BorrowHeld[c] - ReleasedBorrow(c, n) <= UnitsHeld[c] - n
    BY <2>1, ReleasedBorrowFits
  <2>3. BorrowHeld[c] = r.borrow_units /\ r.borrow_units \in Nat /\ UnitsHeld[c] = r.units
    BY <1>1, <1>2, <2>1 DEF IInv, RecordsSound, BorrowHeld, UnitsHeld, AtMost, AllocationRecord
  <2>4. allocations'[c] =
           [r EXCEPT !.state = IF rest = 0 THEN "Released" ELSE r.state,
                     !.units = rest,
                     !.borrow_units = When(rest # 0, BorrowHeld[c] - ReleasedBorrow(c, n)),
                     !.lender = IF rest = 0 THEN NoPool ELSE r.lender,
                     !.last_touched = tick]
    <3>1. Releasable(c, n)
      BY <2>1, HeldReleasable
    <3> QED  BY <1>1, <3>1 DEF Release
  <2>5. /\ allocations'[c].state = IF rest = 0 THEN "Released" ELSE r.state
        /\ allocations'[c].pool = r.pool
        /\ allocations'[c].queue = r.queue
        /\ allocations'[c].units = rest
        /\ allocations'[c].borrow_units
              = When(rest # 0, BorrowHeld[c] - ReleasedBorrow(c, n))
        /\ rest # 0 => allocations'[c].lender = r.lender
    BY <1>1, <1>2, <2>4 DEF AllocationRecord
  <2>6. rest \in Nat /\ rest <= r.units
    BY <2>1
  <2>7. r.state \in {"Reserved", "Committed"}
    BY <2>1 DEF Holding, allocation_holds_units
  <2>8. CASE rest = 0
    BY <1>2, <2>5, <2>7, <2>8 DEF Shrinks, Holding, allocation_holds_units
  <2>9. CASE rest # 0
    <3>1. allocations'[c].borrow_units = r.borrow_units - ReleasedBorrow(c, n)
      BY <2>3, <2>5, <2>9 DEF When
    <3>2. /\ allocations'[c].borrow_units \in Nat
          /\ allocations'[c].borrow_units <= r.borrow_units
          /\ allocations'[c].borrow_units <= rest
      BY <2>2, <2>3, <3>1
    <3>3. BorrowHeld'[c] = allocations'[c].borrow_units
      BY <2>5, <2>6, <3>2 DEF BorrowHeld, AtMost
    <3> HIDE DEF rest
    <3> QED  BY <1>2, <2>1, <2>3, <2>5, <2>6, <2>7, <2>9, <3>2, <3>3 DEF Shrinks
  <2> QED  BY <2>8, <2>9
<1>3. CASE a # c
  <2>1. allocations'[a] = allocations[a]
    BY <1>1, <1>3 DEF Release
  <2> QED  BY <2>1, KeptShrinks
<1> QED  BY <1>2, <1>3

\* The operations that choose allocations and revoke them.
RevokingStep ==
    \/ \E p \in Pools : FenceStale(p) \/ ExpireReservations(p)
    \/ \E p \in Pools, n \in ReclaimTargets : ApplyReclaim(p, n)
    \/ \E x \in Policies, b \in PolicyBodies : PublishPolicy(x, b)
    \/ \E p \in Pools, s \in Resizes : ResizePool(p, s)
    \/ \E q \in Queues : RetireQueue(q)
    \/ \E q \in Queues, p \in Pools : RetargetQueue(q, p)

\* The operations that leave the allocation table alone.
TableKeptStep ==
    \/ \E n \in Capacities : SetCapacity(n)
    \/ \E p \in Pools, r \in PoolRegistrations : RegisterPool(p, r)
    \/ \E p \in Pools : RemovePool(p)
    \/ \E q \in Queues, r \in QueueRegistrations : RegisterQueue(q, r)
    \/ \E q \in Queues, n \in Demands : UpdateQueueDemand(q, n)
    \/ \E p \in Pools, r \in PressureReports : ObservePressure(p, r)
    \/ BeginShutdown \/ Close \/ Open \/ Tick

\* Each of the revoking operations revokes allocations that hold units, all
\* those it chose; only apply_reclaim marks them reclaimed.
LEMMA RevokingVictims ==
    ASSUME IInv, RevokingStep
    PROVE  \E V \in SUBSET AllocIds, st \in {"Fenced", "Reclaimed", "Expired"} :
              /\ Revoke(V, st)
              /\ \A a \in V : Holding(a)
              /\ st = "Reclaimed" => \E p \in Pools, n \in ReclaimTargets : ApplyReclaim(p, n)
<1> DEFINE Reclaims == \E p \in Pools, n \in ReclaimTargets : ApplyReclaim(p, n)
           Revokes == \E V \in SUBSET AllocIds, st \in {"Fenced", "Reclaimed", "Expired"} :
                         /\ Revoke(V, st)
                         /\ \A a \in V : Holding(a)
                         /\ st = "Reclaimed" => Reclaims
<1>1. members \in [Pools -> SUBSET AllocIds]
  BY DEF IInv, StructOK
<1>2. ASSUME NEW V \in SUBSET AllocIds, \A a \in V : Holding(a),
             NEW st \in {"Fenced", "Reclaimed", "Expired"}, RevokeInTurn(V, st),
             st = "Reclaimed" => Reclaims
      PROVE  Revokes
  <2>1. Revoke(V, st)
    BY <1>2, RevokesAll, Zenon
  <2> HIDE DEF Reclaims
  <2> QED  BY <1>2, <2>1
<1>3. ASSUME NEW p \in Pools, FenceStale(p)
      PROVE  Revokes
  <2> DEFINE V == {a \in members[p] : Holding(a) /\ is_stale_binding(a)}
  <2>1. V \in SUBSET AllocIds /\ \A a \in V : Holding(a)
    BY <1>1
  <2>2. RevokeInTurn(V, "Fenced")
    BY <1>3 DEF FenceStale
  <2> HIDE DEF V, Revokes
  <2> QED  BY <1>2, <2>1, <2>2
<1>4. ASSUME NEW p \in Pools, ExpireReservations(p)
      PROVE  Revokes
  <2> DEFINE V == {a \in members[p] : /\ allocations[a].state = "Reserved"
                                      /\ ExpiryOf(p, a) # 0
                                      /\ tick >= ExpiryOf(p, a)}
  <2>1. V \in SUBSET AllocIds /\ \A a \in V : Holding(a)
    BY <1>1 DEF Holding, allocation_holds_units
  <2>2. RevokeInTurn(V, "Expired")
    BY <1>4 DEF ExpireReservations
  <2> HIDE DEF V, Revokes
  <2> QED  BY <1>2, <2>1, <2>2
<1>5. ASSUME NEW p \in Pools, NEW n \in ReclaimTargets, ApplyReclaim(p, n)
      PROVE  Revokes
  <2>1. \A c : /\ Candidates(p, c) \in SUBSET AllocIds
               /\ \A a \in Candidates(p, c) : Holding(a)
    BY <1>1 DEF Candidates
  <2>2. \A C, Z : Accepted(p, n, C, Z) \subseteq C
    BY DEF Accepted
  <2>3. /\ ReclaimPlan(p, n) \in SUBSET AllocIds
        /\ \A a \in ReclaimPlan(p, n) : Holding(a)
    BY <2>1, <2>2 DEF ReclaimPlan
  <2>4. RevokeInTurn(ReclaimPlan(p, n), "Reclaimed")
    BY <1>5 DEF ApplyReclaim
  <2>5. Reclaims
    BY <1>5
  <2> HIDE DEF Reclaims, Revokes
  <2> QED  BY <1>2, <2>3, <2>4, <2>5
<1>6. ASSUME NEW x \in Policies, NEW b \in PolicyBodies, PublishPolicy(x, b)
      PROVE  Revokes
  <2> DEFINE victims == {a \in UNION {members[p] : p \in {y \in Pools : pools[y].policy = x}} :
                            /\ Holding(a)
                            /\ allocations[a].policy_generation # policies[x].generation + 1}
  <2>1. victims \in SUBSET AllocIds /\ \A a \in victims : Holding(a)
    BY <1>1
  <2> DEFINE V == IF b.fence_on_generation_change THEN victims ELSE {}
  <2>2. RevokeInTurn(V, "Fenced")
    BY <1>6 DEF PublishPolicy
  <2>3. V \in SUBSET AllocIds /\ \A a \in V : Holding(a)
    BY <2>1
  <2> HIDE DEF V, victims, Revokes
  <2> QED  BY <1>2, <2>2, <2>3
<1>7. ASSUME NEW p \in Pools, NEW s \in Resizes, ResizePool(p, s)
      PROVE  Revokes
  <2>1. \A d : /\ EnforceVictims(p, d) \in SUBSET AllocIds
               /\ \A a \in EnforceVictims(p, d) : Holding(a)
    BY <1>1 DEF EnforceVictims
  <2>2. PICK d : RevokeInTurn(EnforceVictims(p, d), "Fenced")
    BY <1>7 DEF ResizePool
  <2> HIDE DEF Revokes
  <2> QED  BY <1>2, <2>1, <2>2
<1>8. \A q : /\ HeldByQueue(q) \in SUBSET AllocIds
             /\ \A a \in HeldByQueue(q) : Holding(a)
  BY DEF HeldByQueue
<1>9. ASSUME NEW q \in Queues, RetireQueue(q)
      PROVE  Revokes
  <2> DEFINE V == IF auto_fence_on_queue_retirement THEN HeldByQueue(q) ELSE {}
  <2>1. V \in SUBSET AllocIds /\ \A a \in V : Holding(a)
    BY <1>8
  <2>2. RevokeInTurn(V, "Fenced")
    BY <1>9 DEF RetireQueue
  <2> HIDE DEF V, Revokes
  <2> QED  BY <1>2, <2>1, <2>2
<1>10. ASSUME NEW q \in Queues, NEW p \in Pools, RetargetQueue(q, p)
      PROVE  Revokes
  <2>1. RevokeInTurn(HeldByQueue(q), "Fenced")
    BY <1>10 DEF RetargetQueue
  <2> HIDE DEF Revokes
  <2> QED  BY <1>2, <1>8, <2>1
<1> QED  BY <1>3, <1>4, <1>5, <1>6, <1>7, <1>9, <1>10 DEF RevokingStep

\* Every operation but allocate only shrinks or ends what was granted.
LEMMA StepShrinks ==
    ASSUME IInv, SmallRequests, [Next]_vars,
           ~\E p \in Pools, q \in Queues, r \in AllocateRequests : Allocate(p, q, r)
    PROVE  \A a \in AllocIds : Shrinks(a)
<1>1. CASE UNCHANGED allocations
  BY <1>1, KeptShrinks
<1>2. CASE RevokingStep
  <2>1. PICK V \in SUBSET AllocIds, st \in {"Fenced", "Reclaimed", "Expired"} :
           Revoke(V, st) /\ \A a \in V : Holding(a)
    BY <1>2, RevokingVictims, Zenon
  <2> QED  BY <2>1, RevokeShrinks
<1>3. ASSUME NEW c \in AllocIds, Revalidate(c), NEW a \in AllocIds
      PROVE  Shrinks(a)
  <2>1. allocations[a] \in AllocationRecord /\ allocations \in [AllocIds -> AllocationRecord]
    BY DEF IInv, StructOK
  <2>2. /\ allocations'[a].state = allocations[a].state
        /\ allocations'[a].pool = allocations[a].pool
        /\ allocations'[a].queue = allocations[a].queue
        /\ allocations'[a].units = allocations[a].units
        /\ allocations'[a].borrow_units = allocations[a].borrow_units
        /\ allocations'[a].lender = allocations[a].lender
    BY <1>3, <2>1 DEF Revalidate, AllocationRecord
  <2> QED  BY <2>2, KeptShrinks
<1>4. TableKeptStep => UNCHANGED allocations
  BY DEF TableKeptStep, SetCapacity, RegisterPool, RemovePool, RegisterQueue,
         UpdateQueueDemand, ObservePressure, BeginShutdown, Close, Open, Tick, ledger
<1>5. UNCHANGED vars => UNCHANGED allocations
  BY DEF vars, ledger
<1>6. \/ RevokingStep
      \/ TableKeptStep
      \/ \E a \in AllocIds : Commit(a)
      \/ \E a \in AllocIds : \E n \in 1..UnitsHeld[a] : Release(a, n)
      \/ \E a \in AllocIds : Revalidate(a)
      \/ UNCHANGED vars
  BY DEF Next, RevokingStep, TableKeptStep
<1> QED  BY <1>1, <1>2, <1>3, <1>4, <1>5, <1>6, CommitShrinks, ReleaseShrinks
-----------------------------------------------------------------------------
(* Bindings.                                                               *)

\* Bindings survive a step that only shrinks commitments and keeps the pools
\* and the queue of those that go on.
LEMMA BindingsKept ==
    ASSUME TInv, \A a \in AllocIds : Shrinks(a), NEW K \in SUBSET Pools,
           \A x \in K : Registered(x) => (Registered(x))',
           \A x \in K : Ancestors(x)' = Ancestors(x),
           \A a \in AllocIds : (Holding(a))' =>
              /\ allocations[a].pool \in K
              /\ allocations[a].borrow_units # 0 => allocations[a].lender \in K
              /\ queues'[allocations[a].queue].generation # 0
              /\ queues'[allocations[a].queue].pool = queues[allocations[a].queue].pool
    PROVE  Bindings'
<1> SUFFICES ASSUME NEW a \in AllocIds, (Holding(a))'
             PROVE  (Bound(a))'
  BY DEF Bindings
<1> DEFINE p == allocations[a].pool
           l == allocations[a].lender
<1>1. Holding(a) /\ Bound(a) /\ p \in Pools
  BY DEF TInv, IInv, RecordsSound, Bindings, Shrinks
<1>2. /\ allocations'[a].pool = p
      /\ allocations'[a].queue = allocations[a].queue
      /\ allocations'[a].lender = l
      /\ allocations'[a].units # 0
      /\ allocations'[a].borrow_units # 0 => allocations[a].borrow_units # 0
  BY <1>1 DEF Shrinks, Bound
<1>3. (Registered(allocations[a].pool))' /\ queues'[allocations[a].queue].pool = p
  BY <1>1, <1>2 DEF Bound
<1>4. ASSUME allocations'[a].borrow_units # 0
      PROVE  /\ (Registered(allocations[a].lender))'
             /\ (allocations[a].lender \in Ancestors(allocations[a].pool))'
  <2>1. Registered(l) /\ l \in Ancestors(p) /\ l \in K /\ p \in K
    BY <1>1, <1>2, <1>4 DEF Bound
  <2>2. PICK x \in K : x = p
    BY <2>1
  <2>3. l \in Ancestors(x)'
    BY <2>1, <2>2
  <2>4. Ancestors(allocations[a].pool)' = Ancestors(x)'
    BY <1>2, <2>2
  <2> QED  BY <1>2, <2>1, <2>3, <2>4
<1> QED  BY <1>2, <1>3, <1>4 DEF Bound

\* Only registering and removing pools changes who is registered and whose
\* parent is who.
PoolsKept ==
    \A x \in Pools : /\ pools'[x].parent = pools[x].parent
                     /\ (pools'[x].generation = 0) <=> (pools[x].generation = 0)

\* A queue that a commitment goes on to be bound to stays, in its pool.
QueuesKept ==
    \A a \in AllocIds : (Holding(a))' =>
        /\ queues'[allocations[a].queue].generation # 0
        /\ queues'[allocations[a].queue].pool = queues[allocations[a].queue].pool

\* Operations other than allocate, register_pool and remove_pool.
OrdinaryStep ==
    \/ RevokingStep
    \/ \E n \in Capacities : SetCapacity(n)
    \/ \E q \in Queues, r \in QueueRegistrations : RegisterQueue(q, r)
    \/ \E q \in Queues, n \in Demands : UpdateQueueDemand(q, n)
    \/ \E p \in Pools, r \in PressureReports : ObservePressure(p, r)
    \/ \E a \in AllocIds : Commit(a)
    \/ \E a \in AllocIds : \E n \in 1..UnitsHeld[a] : Release(a, n)
    \/ \E a \in AllocIds : Revalidate(a)
    \/ BeginShutdown \/ Close \/ Open \/ Tick
    \/ UNCHANGED vars

\* They keep the pools: resize_pool moves a generation on, from 1 or more.
LEMMA OrdinaryKeepsPools ==
    ASSUME IInv, OrdinaryStep
    PROVE  PoolsKept
<1>1. pools \in [Pools -> PoolDescriptor]
  BY DEF IInv, StructOK
<1>2. CASE UNCHANGED pools
  BY <1>2 DEF PoolsKept
<1>3. ASSUME NEW p \in Pools, NEW s \in Resizes, ResizePool(p, s)
      PROVE  PoolsKept
  <2> DEFINE d == [pools[p] EXCEPT !.raw_units = s.raw_units,
                                   !.protected_units = s.protected_units,
                                   !.generation = @ + 1]
  <2>1. pools' = [pools EXCEPT ![p] = d] /\ pools[p].generation # 0
    BY <1>3 DEF ResizePool, Registered
  <2>2. d.parent = pools[p].parent /\ d.generation # 0
    BY <1>1 DEF PoolDescriptor
  <2> HIDE DEF d
  <2> QED  BY <1>1, <2>1, <2>2 DEF PoolsKept
<1>4. \/ UNCHANGED pools
      \/ \E p \in Pools, s \in Resizes : ResizePool(p, s)
  <2>1. CASE RevokingStep
    BY <2>1 DEF RevokingStep, FenceStale, ExpireReservations, ApplyReclaim, PublishPolicy,
                RetireQueue, RetargetQueue, topology
  <2>2. CASE ~RevokingStep
    BY <2>2 DEF OrdinaryStep, SetCapacity, RegisterQueue, UpdateQueueDemand, ObservePressure,
                Commit, Release, Revalidate, BeginShutdown, Close, Open, Tick, vars, topology
  <2> QED  BY <2>1, <2>2
<1> QED  BY <1>2, <1>3, <1>4

\* They keep the queues that commitments are bound to: retarget_queue fences
\* what the queue holds before it moves.
LEMMA OrdinaryKeepsQueues ==
    ASSUME TInv, OrdinaryStep, \A a \in AllocIds : Shrinks(a)
    PROVE  QueuesKept
<1>1. queues \in [Queues -> QueueDescriptor]
  BY DEF TInv, IInv, StructOK
<1>2. ASSUME NEW a \in AllocIds, (Holding(a))'
      PROVE  /\ Holding(a)
             /\ allocations[a].queue \in Queues
             /\ queues[allocations[a].queue].generation # 0
             /\ queues[allocations[a].queue].generation \in Nat
  BY <1>1, <1>2 DEF TInv, IInv, RecordsSound, Bindings, Bound, Shrinks, QueueDescriptor
<1>3. CASE UNCHANGED queues
  BY <1>2, <1>3 DEF QueuesKept
<1>4. ASSUME NEW q \in Queues, NEW r \in QueueRegistrations, RegisterQueue(q, r)
      PROVE  QueuesKept
  <2>1. \A x \in Queues : queues[x].generation # 0 => queues'[x] = queues[x]
    BY <1>1, <1>4 DEF RegisterQueue
  <2> QED  BY <1>2, <2>1 DEF QueuesKept
<1>5. ASSUME NEW q \in Queues, NEW n \in Demands, UpdateQueueDemand(q, n)
      PROVE  QueuesKept
  <2>1. \A x \in Queues : /\ queues'[x].generation = queues[x].generation
                          /\ queues'[x].pool = queues[x].pool
    BY <1>1, <1>5 DEF UpdateQueueDemand, QueueDescriptor
  <2> QED  BY <1>2, <2>1 DEF QueuesKept
<1>6. ASSUME NEW q \in Queues, RetireQueue(q)
      PROVE  QueuesKept
  <2>1. \A x \in Queues : /\ queues[x].generation # 0 => queues'[x].generation # 0
                          /\ queues'[x].pool = queues[x].pool
    <3>1. queues' = [queues EXCEPT ![q].retired = TRUE, ![q].generation = @ + 1]
      BY <1>6 DEF RetireQueue
    <3> QED  BY <1>1, <3>1 DEF QueueDescriptor
  <2> QED  BY <1>2, <2>1 DEF QueuesKept
<1>7. ASSUME NEW q \in Queues, NEW p \in Pools, RetargetQueue(q, p)
      PROVE  QueuesKept
  <2>1. \A x \in Queues \ {q} : queues'[x] = queues[x]
    BY <1>1, <1>7 DEF RetargetQueue
  <2>2. \A a \in AllocIds : (Holding(a))' => allocations[a].queue # q
    <3>1. HeldByQueue(q) \in SUBSET AllocIds /\ \A a \in HeldByQueue(q) : Holding(a)
      BY DEF HeldByQueue
    <3>2. Revoke(HeldByQueue(q), "Fenced") /\ IInv
      BY <1>7, <3>1, RevokesAll DEF RetargetQueue, TInv
    <3>3. \A a \in AllocIds : a \in HeldByQueue(q) => ~(Holding(a))'
      BY <3>1, <3>2, RevokeShrinks
    <3> QED  BY <1>2, <3>3 DEF HeldByQueue
  <2> QED  BY <1>2, <2>1, <2>2 DEF QueuesKept
<1>8. \/ UNCHANGED queues
      \/ \E q \in Queues, r \in QueueRegistrations : RegisterQueue(q, r)
      \/ \E q \in Queues, n \in Demands : UpdateQueueDemand(q, n)
      \/ \E q \in Queues : RetireQueue(q)
      \/ \E q \in Queues, p \in Pools : RetargetQueue(q, p)
  <2>1. CASE RevokingStep
    BY <2>1 DEF RevokingStep, FenceStale, ExpireReservations, ApplyReclaim, PublishPolicy,
                ResizePool, topology
  <2>2. CASE ~RevokingStep
    BY <2>2 DEF OrdinaryStep, SetCapacity, ObservePressure,
                Commit, Release, Revalidate, BeginShutdown, Close, Open, Tick, vars, topology
  <2> QED  BY <2>1, <2>2
<1> QED  BY <1>3, <1>4, <1>5, <1>6, <1>7, <1>8

\* So they keep forest and bindings.
LEMMA OrdinarySteps ==
    ASSUME TInv, OrdinaryStep, \A a \in AllocIds : Shrinks(a)
    PROVE  Forest' /\ Bindings'
<1>1. PoolsKept /\ QueuesKept
  BY OrdinaryKeepsPools, OrdinaryKeepsQueues DEF TInv
<1>2. /\ Forest'
      /\ \A x \in Pools : Ancestors(x)' = Ancestors(x)
      /\ \A x : (Registered(x))' <=> Registered(x)
  BY <1>1, SameForest DEF TInv, PoolsKept
<1>3. \A a \in AllocIds : (Holding(a))' =>
         /\ allocations[a].pool \in Pools
         /\ allocations[a].borrow_units # 0 => allocations[a].lender \in Pools
         /\ queues'[allocations[a].queue].generation # 0
         /\ queues'[allocations[a].queue].pool = queues[allocations[a].queue].pool
  BY <1>1 DEF TInv, IInv, RecordsSound, QueuesKept, Shrinks
<1>4. Bindings'
  BY <1>2, <1>3, BindingsKept
<1> QED  BY <1>2, <1>4

\* A sum that is zero has no part that is not.
LEMMA NothingInSum ==
    ASSUME StructOK, NEW S \in SUBSET AllocIds, NEW a \in S
    PROVE  /\ Total(S, UnitsHeld) = 0 => UnitsHeld[a] = 0
           /\ Total(S, BorrowHeld) = 0 => BorrowHeld[a] = 0
<1>1. IsFiniteSet(S) /\ S \ {a} \in SUBSET AllocIds
  BY AllocationsFinite
<1>2. \A x \in S : UnitsHeld[x] \in Nat /\ BorrowHeld[x] \in Nat
  BY HeldTyped
<1>3. /\ Total(S, UnitsHeld) = Total(S \ {a}, UnitsHeld) + UnitsHeld[a]
      /\ Total(S, BorrowHeld) = Total(S \ {a}, BorrowHeld) + BorrowHeld[a]
  BY <1>1, <1>2, TotalWithout
<1>4. Total(S \ {a}, UnitsHeld) \in Nat /\ Total(S \ {a}, BorrowHeld) \in Nat
  BY <1>1, TotalsTyped
<1> QED  BY <1>2, <1>3, <1>4

\* Nothing that holds units draws on a pool that holds and lends none.
LEMMA NobodyDraws ==
    ASSUME TInv, NEW p \in Pools, Allocated(usage[p]) = 0, usage[p].lent_out = 0,
           NEW a \in AllocIds, Holding(a)
    PROVE  /\ allocations[a].pool # p
           /\ allocations[a].borrow_units # 0 => allocations[a].lender # p
<1> USE DEF TInv, IInv
<1>1. /\ allocations[a].units # 0
      /\ UnitsHeld[a] = allocations[a].units
      /\ BorrowHeld[a] = allocations[a].borrow_units
  BY DEF Bindings, Bound, RecordsSound, UnitsHeld, BorrowHeld, AtMost
<1>2. /\ Total(HeldIn(p, "Reserved"), UnitsHeld) = 0
      /\ Total(HeldIn(p, "Committed"), UnitsHeld) = 0
      /\ Total(LentBy(p), BorrowHeld) = 0
  <2>1. usage[p].reserved_units = 0 /\ usage[p].committed_units = 0
    BY EmptyPool DEF NoUsage
  <2> QED  BY <2>1 DEF AggregatesMatchRecords
<1>3. ASSUME allocations[a].pool = p
      PROVE  FALSE
  <2>1. a \in HeldIn(p, "Reserved") \/ a \in HeldIn(p, "Committed")
    BY <1>3 DEF HeldIn, Holding, allocation_holds_units
  <2>2. /\ HeldIn(p, "Reserved") \in SUBSET AllocIds
        /\ HeldIn(p, "Committed") \in SUBSET AllocIds
    BY HeldSets
  <2>3. CASE a \in HeldIn(p, "Reserved")
    BY <1>1, <1>2, <2>2, <2>3, NothingInSum
  <2>4. CASE a \in HeldIn(p, "Committed")
    BY <1>1, <1>2, <2>2, <2>4, NothingInSum
  <2> QED  BY <2>1, <2>3, <2>4
<1>4. ASSUME allocations[a].borrow_units # 0, allocations[a].lender = p
      PROVE  FALSE
  <2>1. a \in LentBy(p)
    BY <1>4 DEF LentBy
  <2> QED  BY <1>1, <1>2, <1>4, <2>1, HeldSets, NothingInSum
<1> QED  BY <1>3, <1>4

\* register_pool adds a leaf that nothing draws on yet.
LEMMA RegisterPoolBinds ==
    ASSUME TInv, NEW p \in Pools, NEW r \in PoolRegistrations, RegisterPool(p, r),
           \A a \in AllocIds : Shrinks(a)
    PROVE  Forest' /\ Bindings'
<1> DEFINE K == Pools \ {p}
<1>1. /\ pools[p].generation = 0
      /\ r.parent # p
      /\ r.parent # NoPool => Registered(r.parent)
      /\ Chains(r.parent, kMaxPoolDepth + 1) = {}
      /\ pools' = [pools EXCEPT ![p] =
                      [generation |-> 1, raw_units |-> r.raw_units,
                       protected_units |-> r.protected_units, parent |-> r.parent,
                       policy |-> r.policy]]
      /\ queues' = queues
  BY DEF RegisterPool, WithinDepth
<1>2. r.parent \in Pools \cup {NoPool}
  BY InputAssumption DEF PoolRegistration
<1>3. \A x \in Pools : pools[x].parent # p
  BY <1>1, IdAssumption DEF TInv, Forest, Registered
<1>4. pools'[p].parent = r.parent /\ \A x \in K : pools'[x] = pools[x]
  BY <1>1 DEF TInv, IInv, StructOK
<1>5. /\ Forest'
      /\ \A x \in K : Ancestors(x)' = Ancestors(x)
      /\ \A x \in K : (Registered(x))' <=> Registered(x)
  BY <1>1, <1>2, <1>3, <1>4, LeafStep DEF TInv
<1>6. \A a \in AllocIds : Holding(a) =>
         /\ allocations[a].pool \in K
         /\ allocations[a].borrow_units # 0 => allocations[a].lender \in K
  BY <1>1 DEF TInv, Bindings, Bound, Registered
<1>7. Bindings'
  <2>1. \A a \in AllocIds : (Holding(a))' => Holding(a)
    BY DEF Shrinks
  <2>2. \A a \in AllocIds : (Holding(a))' =>
           /\ queues'[allocations[a].queue].generation # 0
           /\ queues'[allocations[a].queue].pool = queues[allocations[a].queue].pool
    BY <1>1, <2>1 DEF TInv, Bindings, Bound
  <2>3. K \in SUBSET Pools
    OBVIOUS
  <2> HIDE DEF K
  <2> QED  BY <1>5, <1>6, <2>1, <2>2, <2>3, BindingsKept
<1> QED  BY <1>5, <1>7

\* remove_pool takes away a leaf that nothing draws on any more.
LEMMA RemovePoolBinds ==
    ASSUME TInv, NEW p \in Pools, RemovePool(p), \A a \in AllocIds : Shrinks(a)
    PROVE  Forest' /\ Bindings'
<1> DEFINE K == Pools \ {p}
<1>1. /\ \A x \in Pools : pools[x].parent # p
      /\ Allocated(usage[p]) = 0
      /\ usage[p].lent_out = 0
      /\ pools' = [pools EXCEPT ![p] = Erased]
      /\ queues' = [q \in Queues |-> IF queues[q].pool = p THEN NoDescriptor ELSE queues[q]]
  BY DEF RemovePool, Children
<1>2. pools'[p].parent = NoPool /\ \A x \in K : pools'[x] = pools[x]
  BY <1>1 DEF TInv, IInv, StructOK, Erased
<1>3. Chains(NoPool, kMaxPoolDepth + 1) = {} /\ NoPool # p
  <2>1. kMaxPoolDepth + 1 \in Nat \ {0}
    BY BoundAssumption
  <2> QED  BY <2>1, NoPathFromNowhere, IdAssumption
<1>4. /\ Forest'
      /\ \A x \in K : Ancestors(x)' = Ancestors(x)
      /\ \A x \in K : (Registered(x))' <=> Registered(x)
  BY <1>1, <1>2, <1>3, LeafStep DEF TInv
<1>5. \A a \in AllocIds : Holding(a) =>
         /\ allocations[a].pool # p
         /\ allocations[a].borrow_units # 0 => allocations[a].lender # p
  BY <1>1, NobodyDraws
<1>6. \A a \in AllocIds : Holding(a) =>
         /\ allocations[a].pool \in K
         /\ allocations[a].borrow_units # 0 => allocations[a].lender \in K
  BY <1>5 DEF TInv, Bindings, Bound, Registered
<1>7. Bindings'
  <2>1. \A a \in AllocIds : (Holding(a))' => Holding(a)
    BY DEF Shrinks
  <2>2. \A a \in AllocIds : Holding(a) =>
           /\ queues'[allocations[a].queue].generation # 0
           /\ queues'[allocations[a].queue].pool = queues[allocations[a].queue].pool
    BY <1>1, <1>6 DEF TInv, IInv, RecordsSound, Bindings, Bound
  <2>3. K \in SUBSET Pools
    OBVIOUS
  <2> HIDE DEF K
  <2> QED  BY <1>4, <1>6, <2>1, <2>2, <2>3, BindingsKept
<1> QED  BY <1>4, <1>7

\* A grant binds the new allocation to live pools and a live queue.
LEMMA AllocateBinds ==
    ASSUME TInv, NEW p \in Pools, NEW q \in Queues, NEW r \in AllocateRequests,
           Allocate(p, q, r)
    PROVE  Forest' /\ Bindings'
<1>0. IInv
  BY DEF TInv
<1>1. PICK l \in Pools \cup {NoPool} : \E g, b : Grants(p, q, r, l, g, b)
  BY <1>0, AllocateGrants, Zenon
<1>2. PICK g, b : Grants(p, q, r, l, g, b)
  BY <1>1
<1> DEFINE i == next_allocation_id
<1>3. /\ allocations' = [allocations EXCEPT ![i] = NewRecord(p, q, l, r, g, b)]
      /\ pools' = pools
      /\ queues' = queues
  BY <1>2 DEF Grants, ApplyGrant, topology
<1>4. /\ Forest'
      /\ \A x \in Pools : Ancestors(x)' = Ancestors(x)
      /\ \A x : (Registered(x))' <=> Registered(x)
  BY <1>3, SameForest DEF TInv
<1>5. b # 0 => l \in Pools /\ Registered(l) /\ l \in Ancestors(p)
  <2> SUFFICES ASSUME b # 0
               PROVE  l \in Pools /\ Registered(l) /\ l \in Ancestors(p)
    OBVIOUS
  <2>1. l \in Pools /\ pools[l].generation # 0 /\ IsLender(p, l)
    BY <1>2 DEF Grants
  <2>2. IsNearestFree(p, l)
    BY <2>1, IdAssumption DEF IsLender
  <2> QED  BY <2>1, <2>2 DEF IsNearestFree, Ancestors, Registered
<1>6. ASSUME NEW a \in AllocIds, (Holding(a))'
      PROVE  (Bound(a))'
  <2>1. allocations \in [AllocIds -> AllocationRecord]
    BY DEF TInv, IInv, StructOK
  <2>2. CASE a = i
    <3>1. /\ allocations'[a].units = g
          /\ allocations'[a].pool = p
          /\ allocations'[a].queue = q
          /\ allocations'[a].borrow_units = b
          /\ b # 0 => allocations'[a].lender = l
      BY <1>3, <2>1, <2>2 DEF NewRecord
    <3>2. g # 0 /\ Registered(p) /\ queues[q].generation # 0 /\ queues[q].pool = p
      <4>1. g \in 1..r.requested_units /\ r.requested_units \in Nat
        BY <1>2, InputAssumption DEF Grants, AllocateRequest
      <4> QED  BY <4>1 DEF Allocate
    <3>3. (Registered(allocations[a].pool))'
      BY <1>4, <3>1, <3>2
    <3>4. b # 0 => /\ (Registered(allocations[a].lender))'
                   /\ (allocations[a].lender \in Ancestors(allocations[a].pool))'
      BY <1>4, <1>5, <3>1
    <3> QED  BY <1>3, <3>1, <3>2, <3>3, <3>4 DEF Bound
  <2>3. CASE a # i
    <3>1. allocations'[a] = allocations[a] /\ Holding(a)
      BY <1>3, <1>6, <2>1, <2>3 DEF Holding
    <3>2. Bound(a) /\ allocations[a].pool \in Pools
      BY <3>1 DEF TInv, IInv, RecordsSound, Bindings
    <3>3. \A x \in Pools : x = allocations[a].pool => x = allocations'[a].pool
      BY <3>1
    <3>4. /\ (Registered(allocations[a].pool))'
          /\ allocations[a].borrow_units # 0 =>
                /\ (Registered(allocations[a].lender))'
                /\ (allocations[a].lender \in Ancestors(allocations[a].pool))'
      <4>1. PICK x \in Pools : x = allocations[a].pool
        BY <3>2
      <4>2. x = allocations'[a].pool /\ allocations'[a].lender = allocations[a].lender
        BY <3>1, <4>1
      <4> QED  BY <1>4, <3>2, <4>1, <4>2 DEF Bound
    <3> QED  BY <1>3, <3>1, <3>2, <3>4 DEF Bound
  <2> QED  BY <2>2, <2>3
<1> QED  BY <1>4, <1>6 DEF Bindings

\* Every step keeps forest and bindings.
LEMMA NextKeepsBindings ==
    ASSUME SmallRequests, TInv, [Next]_vars
    PROVE  TInv'
<1>1. IInv
  BY DEF TInv
<1>2. IInv'
  BY <1>1, NextPreserves
<1>3. ASSUME ~\E p \in Pools, q \in Queues, r \in AllocateRequests : Allocate(p, q, r)
      PROVE  Forest' /\ Bindings'
  <2>1. \A a \in AllocIds : Shrinks(a)
    BY <1>1, <1>3, StepShrinks
  <2>2. \/ OrdinaryStep
        \/ \E p \in Pools, r \in PoolRegistrations : RegisterPool(p, r)
        \/ \E p \in Pools : RemovePool(p)
    BY <1>3 DEF Next, OrdinaryStep, RevokingStep
  <2> QED  BY <2>1, <2>2, OrdinarySteps, RegisterPoolBinds, RemovePoolBinds
<1>4. Forest' /\ Bindings'
  BY <1>3, AllocateBinds
<1> QED  BY <1>2, <1>4 DEF TInv

\* A fabric that was just opened has no pools and no allocations.
LEMMA InitBinds ==
    ASSUME Init
    PROVE  TInv
<1>1. \A p \in Pools : pools[p].parent = NoPool
  BY DEF Init, Erased
<1>2. \A n \in 1..(kMaxPoolDepth + 1) : n \in Nat \ {0}
  OBVIOUS
<1>3. kMaxPoolDepth \in Nat
  BY BoundAssumption
<1>4. \A p \in Pools : \A n \in 1..(kMaxPoolDepth + 1) : Chains(pools[p].parent, n) = {}
  BY <1>1, <1>2, NoPathFromNowhere
<1>5. Forest
  BY <1>1, <1>3, <1>4 DEF Forest, WalkReachesRoot, Ancestors
<1>6. Bindings
  BY DEF Init, NoRecord, Bindings, Holding, allocation_holds_units
<1> QED  BY <1>5, <1>6, InitEstablishes DEF TInv
-----------------------------------------------------------------------------
(* Theorems.                                                               *)

\* Forest and bindings always hold, with the ledger's invariant.
THEOREM TopologyInvariant == SmallRequests => (Spec => []TInv)
<1> SUFFICES ASSUME SmallRequests
             PROVE  Spec => []TInv
  OBVIOUS
<1>1. Init => TInv
  BY InitBinds
<1>2. TInv /\ [Next]_vars => TInv'
  BY NextKeepsBindings
<1> QED  BY <1>1, <1>2, PTL DEF Spec

\* For any kMaxPoolDepth, the walk of compute_grant gets to the top of every
\* chain of pools that register_pool lets callers build.
THEOREM WalkComplete == SmallRequests => (Spec => []WalkReachesRoot)
<1>1. TInv => WalkReachesRoot
  BY DEF TInv, Forest
<1> QED  BY <1>1, TopologyInvariant, PTL

\* Whatever holds units is bound to live pools and a live queue, so release
\* can always give the units back.
THEOREM NothingOrphaned == SmallRequests => (Spec => []NoOrphanedUnits)
<1>1. TInv => NoOrphanedUnits
  <2> SUFFICES ASSUME TInv, NEW a \in AllocIds, Holding(a)
               PROVE  LET r == allocations[a] IN
                      /\ Registered(r.pool)
                      /\ r.queue \in Queues
                      /\ queues[r.queue].pool = r.pool
                      /\ r.borrow_units <= r.units
                      /\ r.borrow_units # 0 => /\ Registered(r.lender)
                                               /\ r.lender # r.pool
                                               /\ r.lender \in Ancestors(r.pool)
    BY DEF NoOrphanedUnits
  <2> QED  BY DEF TInv, IInv, RecordsSound, Forest, Bindings, Bound
<1> QED  BY <1>1, TopologyInvariant, PTL
-----------------------------------------------------------------------------
(* The fabric implements Commitments.                                      *)

\* The units of a pool in use, as the abstract specification counts them from
\* the claims, are what the fabric keeps in own_usage.
CountsAgree == \A p \in Pools : Promise!Used(p) = usage[p].own_usage

\* Claims draw on open accounts, and limits are limits.
Sound ==
    /\ \A a \in AllocIds : Promise!DrawsOnOpen(a)
    /\ LimitsInForce \in [Pools -> Promise!Terms]

LEMMA CountsAgreeHolds == TInv => CountsAgree
<1> SUFFICES ASSUME TInv, NEW p \in Pools
             PROVE  Promise!Used(p) = usage[p].own_usage
  BY DEF CountsAgree
<1>1. IInv /\ StructOK
  BY DEF TInv, IInv
<1>2. \A a \in AllocIds : StatusOf(allocations[a].state) = "Held" <=> Holding(a)
  BY DEF StatusOf, Holding, allocation_holds_units
<1>3. Promise!ClaimsOn(p) = HeldAny(p) /\ Promise!LoansFrom(p) = LentBy(p)
  BY <1>2 DEF Promise!ClaimsOn, Promise!LoansFrom, ClaimsMade, HeldAny, LentBy
<1>4. Promise!ClaimedUnits = UnitsHeld /\ Promise!LoanedUnits = BorrowHeld
  BY DEF Promise!ClaimedUnits, Promise!LoanedUnits, ClaimsMade, UnitsHeld, BorrowHeld
<1>5. Promise!Used(p) = Total(HeldAny(p), UnitsHeld) - Total(HeldAny(p), BorrowHeld)
                           + Total(LentBy(p), BorrowHeld)
  <2>1. \A S, f : Promise!Total(S, f) = Total(S, f)
    BY DEF Promise!Total, Promise!UnitsOf, Promise!Cardinality, Total, UnitsOf, Cardinality
  <2> QED  BY <1>3, <1>4, <2>1 DEF Promise!Used
<1>6. /\ Total(HeldAny(p), UnitsHeld) = usage[p].reserved_units + usage[p].committed_units
      /\ Total(HeldAny(p), BorrowHeld) = usage[p].borrowed_in
      /\ Total(LentBy(p), BorrowHeld) = usage[p].lent_out
  BY <1>1, HeldSplit DEF IInv, AggregatesMatchRecords
<1>7. usage[p] \in IntUsage
  BY <1>1 DEF StructOK
<1>8. usage[p].own_usage + usage[p].borrowed_in
         = usage[p].reserved_units + usage[p].committed_units + usage[p].lent_out
  BY <1>1 DEF IInv, OwnUsageMatches
<1>9. /\ usage[p].reserved_units \in Int
      /\ usage[p].committed_units \in Int
      /\ usage[p].own_usage \in Int
      /\ usage[p].borrowed_in \in Int
      /\ usage[p].lent_out \in Int
  BY <1>7, UsageFields
<1>10. Promise!Used(p) = (usage[p].reserved_units + usage[p].committed_units)
                            - usage[p].borrowed_in + usage[p].lent_out
  BY <1>5, <1>6
<1> QED  BY <1>8, <1>9, <1>10

LEMMA SoundHolds == TInv => Sound
<1> SUFFICES ASSUME TInv
             PROVE  Sound
  OBVIOUS
<1>1. StructOK /\ PoolsSound
  BY DEF TInv, IInv
<1>2. ASSUME NEW a \in AllocIds
      PROVE  Promise!DrawsOnOpen(a)
  <2>1. StatusOf(allocations[a].state) = "Held" <=> Holding(a)
    BY DEF StatusOf, Holding, allocation_holds_units
  <2>2. CASE Holding(a)
    <3>1. /\ Registered(allocations[a].pool)
          /\ allocations[a].borrow_units # 0 => Registered(allocations[a].lender)
      BY <2>2 DEF TInv, Bindings, Bound
    <3>2. BorrowHeld[a] # 0 => allocations[a].borrow_units # 0
      <4>1. allocations[a].units \in Nat /\ allocations[a].borrow_units \in Nat
        BY <1>1 DEF StructOK, AllocationRecord
      <4> QED  BY <4>1 DEF BorrowHeld, AtMost
    <3> QED  BY <3>1, <3>2 DEF Promise!DrawsOnOpen, ClaimsMade, LimitsInForce, Registered
  <2>3. CASE ~Holding(a)
    BY <2>1, <2>3 DEF Promise!DrawsOnOpen, ClaimsMade
  <2> QED  BY <2>2, <2>3
<1>3. ASSUME NEW p \in Pools
      PROVE  LimitsInForce[p] \in Promise!Terms
  <2>1. CASE Registered(p)
    <3>1. pools[p].policy \in Policies
      BY <1>1, <2>1 DEF PoolsSound, Registered
    <3>2. Usable(pools[p]) \in Nat
      BY <1>1 DEF StructOK, PoolDescriptor, Usable, Monus
    <3>3. OvercommitLimit(p) \in Nat
      BY <1>1, <3>1 DEF StructOK, PolicyEntry, PolicyBody, OvercommitLimit, PolicyOf
    <3> QED  BY <2>1, <3>2, <3>3 DEF LimitsInForce, Promise!Terms
  <2>2. CASE ~Registered(p)
    BY <2>2 DEF LimitsInForce, Promise!Terms
  <2> QED  BY <2>1, <2>2
<1> QED  BY <1>2, <1>3 DEF Sound, LimitsInForce

\* Both hold of the state after a step, too.
LEMMA AfterStep == TInv' => CountsAgree' /\ Sound'
BY CountsAgreeHolds, SoundHolds, PTL
-----------------------------------------------------------------------------
\* allocate issues a claim under a new id.
LEMMA AllocateIssues ==
    ASSUME TInv, TInv', NEW p \in Pools, NEW q \in Queues, NEW r \in AllocateRequests,
           Allocate(p, q, r)
    PROVE  \E i \in AllocIds : Promise!Issue(i)
<1>0. IInv
  BY DEF TInv
<1>1. IInv /\ StructOK /\ IInv' /\ StructOK'
  BY DEF TInv, IInv
<1>2. PICK l \in Pools \cup {NoPool} : \E g, b : Grants(p, q, r, l, g, b)
  BY <1>0, AllocateGrants, Zenon
<1>3. PICK g, b : Grants(p, q, r, l, g, b)
  BY <1>2
<1>. PICK i \in AllocIds : i = next_allocation_id
  BY DEF Allocate
<1>4. /\ i \in AllocIds
      /\ Registered(p)
      /\ g \in Nat \ {0}
      /\ b \in 0..g
      /\ b # 0 => l \in Pools
  <2>1. r.requested_units \in Nat
    BY InputAssumption DEF AllocateRequest
  <2> QED  BY <1>3, <2>1 DEF Allocate, Grants
<1>5. /\ allocations' = [allocations EXCEPT ![i] = NewRecord(p, q, l, r, g, b)]
      /\ usage' = UsageAfterGrant(p, l, r, g, b)
      /\ pools' = pools
      /\ policies' = policies
  BY <1>3 DEF Grants, ApplyGrant, topology
<1>6. LimitsInForce' = LimitsInForce
  BY <1>5 DEF LimitsInForce, Registered, OvercommitLimit, PolicyOf
<1>7. ClaimsMade[i].status = "Free"
  <2>1. allocations[i].state = "None"
    BY <1>1, <1>4, NextIdFree, Zenon
  <2> QED  BY <1>4, <2>1 DEF ClaimsMade, StatusOf, allocation_holds_units
<1>8. /\ ClaimsMade'[i].status = "Held"
      /\ ClaimsMade'[i].account = p
      /\ ClaimsMade'[i].units = g
      /\ ClaimsMade'[i].loan = b
      /\ b # 0 => ClaimsMade'[i].lender = l
  <2>1. /\ allocations'[i].state \in {"Reserved", "Committed"}
        /\ allocations'[i].pool = p
        /\ allocations'[i].units = g
        /\ allocations'[i].borrow_units = b
        /\ b # 0 => allocations'[i].lender = l
    BY <1>1, <1>4, <1>5 DEF StructOK, NewRecord
  <2>2. UnitsHeld'[i] = g /\ BorrowHeld'[i] = b
    BY <1>4, <2>1 DEF UnitsHeld, BorrowHeld, AtMost
  <2> QED  BY <1>4, <2>1, <2>2 DEF ClaimsMade, StatusOf, allocation_holds_units
<1>9. \A d \in AllocIds \ {i} : ClaimsMade'[d] = ClaimsMade[d]
  <2>1. \A d \in AllocIds \ {i} : allocations'[d] = allocations[d]
    BY <1>1, <1>5 DEF StructOK
  <2> QED  BY <2>1 DEF ClaimsMade, UnitsHeld, BorrowHeld
<1>10. usage'[p] \in IntUsage /\ usage[p] \in IntUsage
  BY <1>1 DEF StructOK
<1>11. Promise!Used(p)' <= LimitsInForce[p].limit
  <2>1. CheckPoolAccounting(pools[p], usage'[p], OvercommitLimit(p))
    BY <1>3, <1>5 DEF Grants, PlanCloses
  <2>2. OwnUsage(usage'[p]) <= LimitsInForce[p].limit
    BY <1>4, <2>1 DEF CheckPoolAccounting, LimitsInForce
  <2>3. usage'[p].own_usage + usage'[p].borrowed_in
           = usage'[p].reserved_units + usage'[p].committed_units + usage'[p].lent_out
    BY <1>1 DEF IInv, OwnUsageMatches
  <2>4. usage'[p].own_usage <= OwnUsage(usage'[p]) /\ OwnUsage(usage'[p]) \in Int
    BY <1>10, <2>3, UsageFields DEF OwnUsage, Allocated, Monus
  <2>5. LimitsInForce[p].limit \in Nat
    BY SoundHolds DEF Sound, Promise!Terms
  <2>6. Promise!Used(p)' = usage'[p].own_usage
    BY AfterStep DEF CountsAgree
  <2> QED  BY <1>10, <2>2, <2>4, <2>5, <2>6, UsageFields
<1>12. ASSUME b # 0
       PROVE  l \in Pools /\ l # p /\ Promise!Used(l)' <= LimitsInForce[l].room
  <2>1. l \in Pools /\ IsLender(p, l) /\ pools[l].generation # 0
    BY <1>3, <1>12 DEF Grants
  <2>2. l \in Ancestors(p)
    BY <2>1, IdAssumption DEF IsLender, IsNearestFree, Ancestors
  <2>3. l # p
    BY <2>2 DEF TInv, Forest
  <2>4. usage'[l].own_usage = usage[l].own_usage + b
    <3>1. usage[l] \in IntUsage
      BY <1>1, <2>1 DEF StructOK
    <3>2. usage'[l].own_usage = usage[l].own_usage + When(l = p, g - b) + When(l = l, b)
      BY <1>5, <2>1 DEF UsageAfterGrant
    <3> QED  BY <1>4, <2>3, <3>1, <3>2, UsageFields DEF When
  <2>5. b <= Free(l)
    <3>1. b = AtMost(Monus(g, Free(p)), Borrowable(p, l)) /\ l # NoPool
      BY <1>3, <2>1, IdAssumption DEF Grants, BorrowPart
    <3>2. Borrowable(p, l) = AtMost(Free(l), Monus(PolicyOf(p).borrow_limit, usage[p].borrowed_in))
      BY <3>1 DEF Borrowable, When
    <3>3. /\ Free(l) \in Int
          /\ Monus(PolicyOf(p).borrow_limit, usage[p].borrowed_in) \in Int
          /\ Monus(g, Free(p)) \in Int
      <4>1. \A x \in Pools : Free(x) \in Int
        BY <1>1, UsageFields DEF StructOK, PoolDescriptor, Free, FreeUnits, OvercommitUsed,
                                 Usable, Monus
      <4>2. PolicyOf(p).borrow_limit \in Int
        <5>1. PolicyOf(p) \in PolicyBody
          BY <1>1, <1>4, PolicyInForce, Zenon
        <5>2. \A d \in PolicyBody : d.borrow_limit \in Nat
          BY Zenon DEF PolicyBody
        <5>3. PolicyOf(p).borrow_limit \in Nat
          BY <5>1, <5>2, Zenon
        <5> HIDE DEF PolicyOf
        <5> QED  BY <5>3
      <4> QED  BY <1>4, <1>10, <2>1, <4>1, <4>2, UsageFields DEF Monus
    <3> QED  BY <1>4, <3>1, <3>2, <3>3 DEF AtMost
  <2>6. usage[l].own_usage \in Int /\ Usable(pools[l]) \in Nat
    BY <1>1, <2>1, UsageFields DEF StructOK, PoolDescriptor, Usable, Monus
  <2>7. usage[l].own_usage + b <= Usable(pools[l])
    BY <1>4, <1>12, <2>5, <2>6 DEF Free, FreeUnits, OvercommitUsed, Monus
  <2>8. LimitsInForce[l].room = Usable(pools[l])
    BY <2>1 DEF LimitsInForce, Registered
  <2>9. Promise!Used(l)' = usage'[l].own_usage
    BY <2>1, AfterStep DEF CountsAgree
  <2> QED  BY <2>1, <2>3, <2>4, <2>7, <2>8, <2>9
<1>13. Promise!DrawsOnOpen(i)'
  BY <1>4, AfterStep DEF Sound
<1>14. Promise!Issue(i)
  BY <1>4, <1>6, <1>7, <1>8, <1>9, <1>11, <1>12, <1>13 DEF Promise!Issue
<1> QED  BY <1>4, <1>14

\* Every other operation adjusts: claims only shrink, and limits move.
LEMMA OthersAdjust ==
    ASSUME TInv, TInv', \A a \in AllocIds : Shrinks(a)
    PROVE  Promise!Adjust
<1>1. ASSUME NEW a \in AllocIds
      PROVE  Promise!OnlyShrinks(a)
  <2> DEFINE s == allocations[a].state
             t == allocations'[a].state
  <2>1. /\ StatusOf(s) = IF Holding(a) THEN "Held" ELSE IF s = "None" THEN "Free" ELSE "Ended"
        /\ StatusOf(t) = IF (Holding(a))' THEN "Held" ELSE IF t = "None" THEN "Free" ELSE "Ended"
    BY DEF StatusOf, Holding, allocation_holds_units
  <2>2. /\ (Holding(a))' => Holding(a)
        /\ t = "None" <=> s = "None"
        /\ Holding(a) => s # "None"
        /\ (Holding(a))' => t # "None"
    BY DEF Shrinks, Holding, allocation_holds_units
  <2>3. /\ ClaimsMade[a] = [status |-> StatusOf(s), account |-> allocations[a].pool,
                             lender |-> allocations[a].lender,
                             units |-> allocations[a].units, loan |-> BorrowHeld[a]]
        /\ ClaimsMade'[a] = [status |-> StatusOf(t), account |-> allocations'[a].pool,
                              lender |-> allocations'[a].lender,
                              units |-> allocations'[a].units, loan |-> BorrowHeld'[a]]
    BY DEF ClaimsMade, UnitsHeld
  <2>4. ClaimsMade'[a].status = "Held" =>
           /\ ClaimsMade'[a].account = ClaimsMade[a].account
           /\ ClaimsMade'[a].lender = ClaimsMade[a].lender
           /\ ClaimsMade'[a].units <= ClaimsMade[a].units
           /\ ClaimsMade'[a].loan <= ClaimsMade[a].loan
    <3> HIDE DEF s, t
    <3>1. ClaimsMade'[a].status = "Held" => (Holding(a))'
      BY <2>1, <2>3
    <3>2. /\ ClaimsMade[a].account = allocations[a].pool
          /\ ClaimsMade[a].lender = allocations[a].lender
          /\ ClaimsMade[a].units = allocations[a].units
          /\ ClaimsMade[a].loan = BorrowHeld[a]
      BY <2>3
    <3>3. /\ ClaimsMade'[a].account = allocations'[a].pool
          /\ ClaimsMade'[a].lender = allocations'[a].lender
          /\ ClaimsMade'[a].units = allocations'[a].units
          /\ ClaimsMade'[a].loan = BorrowHeld'[a]
      BY <2>3
    <3> QED  BY <3>1, <3>2, <3>3, ZenonT(30) DEF Shrinks
  <2> HIDE DEF s, t
  <2>5. ClaimsMade'[a].status \in
           CASE ClaimsMade[a].status = "Held" -> {"Held", "Ended"}
             [] OTHER -> {ClaimsMade[a].status}
    BY <2>1, <2>2, <2>3
  <2> QED  BY <2>4, <2>5 DEF Promise!OnlyShrinks
<1>2. Sound'
  BY AfterStep
<1> QED  BY <1>1, <1>2 DEF Promise!Adjust, Sound

\* The first state has no claims and no open accounts.
LEMMA InitPromises == Init => Promise!Init
<1> SUFFICES ASSUME Init
             PROVE  Promise!Init
  OBVIOUS
<1>1. \A a \in AllocIds : ClaimsMade[a].status = "Free"
  BY DEF Init, NoRecord, ClaimsMade, StatusOf, allocation_holds_units
<1>2. \A p \in Pools : ~Registered(p)
  BY DEF Init, Erased, Registered
<1>3. LimitsInForce = [p \in Pools |-> Promise!Closed]
  BY <1>2 DEF LimitsInForce, Promise!Closed
<1> QED  BY <1>1, <1>3 DEF Promise!Init

\* The fabric keeps the promise of Commitments for any pools, queues, policies
\* and bounds: it implements the abstract specification.
THEOREM FabricKeepsCommitments == SmallRequests => (Spec => KeepsCommitments)
<1> SUFFICES ASSUME SmallRequests
             PROVE  Spec => KeepsCommitments
  OBVIOUS
<1>1. TInv /\ TInv' /\ [Next]_vars => Promise!Next
  <2> SUFFICES ASSUME TInv, TInv', [Next]_vars
               PROVE  Promise!Next
    OBVIOUS
  <2>1. CASE \E p \in Pools, q \in Queues, r \in AllocateRequests : Allocate(p, q, r)
    BY <2>1, AllocateIssues DEF Promise!Next
  <2>2. CASE ~\E p \in Pools, q \in Queues, r \in AllocateRequests : Allocate(p, q, r)
    <3>1. IInv
      BY DEF TInv
    <3>2. \A a \in AllocIds : Shrinks(a)
      BY <2>2, <3>1, StepShrinks
    <3> QED  BY <3>2, OthersAdjust DEF Promise!Next
  <2> QED  BY <2>1, <2>2
<1>2. Spec => []TInv
  BY TopologyInvariant
<1> QED  BY <1>1, <1>2, InitPromises, PTL DEF Spec, KeepsCommitments, Promise!Spec
-----------------------------------------------------------------------------
(* When a pool grows.                                                      *)

\* Commitments that only shrink add up to no more in any pool.
LEMMA ShrinkingPools ==
    ASSUME IInv, IInv', \A a \in AllocIds : Shrinks(a)
    PROVE  \A p \in Pools : Allocated(usage'[p]) <= Allocated(usage[p])
<1> SUFFICES ASSUME NEW p \in Pools
             PROVE  Allocated(usage'[p]) <= Allocated(usage[p])
  OBVIOUS
<1>1. StructOK /\ StructOK' /\ AggregatesMatchRecords /\ AggregatesMatchRecords'
  BY DEF IInv
<1>2. Allocated(usage[p]) = Total(HeldAny(p), UnitsHeld)
  BY <1>1, HeldSplit DEF AggregatesMatchRecords, Allocated
<1>3. (Allocated(usage[p]) = Total(HeldAny(p), UnitsHeld))'
  <2>1. (Total(HeldAny(p), UnitsHeld)
            = Total(HeldIn(p, "Reserved"), UnitsHeld)
                + Total(HeldIn(p, "Committed"), UnitsHeld))'
    BY <1>1, HeldSplit, PTL
  <2> QED  BY <1>1, <2>1 DEF AggregatesMatchRecords, Allocated
<1>4. Total(HeldAny(p)', UnitsHeld') <= Total(HeldAny(p), UnitsHeld)
  <2> DEFINE S == HeldAny(p)
             T == HeldAny(p)'
             f == UnitsHeld'
             g == UnitsHeld
  <2>1. IsFiniteSet(S)
    BY AllocationsFinite, HeldSets
  <2>2. T \in SUBSET S
    BY DEF HeldAny, Shrinks
  <2>3. \A a \in S : f[a] \in Nat /\ g[a] \in Nat
    BY <1>1 DEF StructOK, AllocationRecord, UnitsHeld, HeldAny
  <2>4. \A a \in T : f[a] <= g[a]
    BY DEF HeldAny, Shrinks, UnitsHeld
  <2> HIDE DEF S, T, f, g
  <2>5. Total(T, f) <= Total(S, g)
    BY <2>1, <2>2, <2>3, <2>4, TotalMonotone
  <2> QED  BY <2>5 DEF S, T, f, g
<1>5. Allocated(usage'[p]) = Total(HeldAny(p)', UnitsHeld')
  BY <1>3
<1> QED  BY <1>2, <1>4, <1>5

\* A grant grows no pool but the one it is made in, and that one only under
\* the evidence its policy asks for.
LEMMA GrantGrowsOne ==
    ASSUME IInv, NEW p \in Pools, NEW q \in Queues, NEW r \in AllocateRequests,
           Allocate(p, q, r)
    PROVE  /\ Accepting
           /\ PressureAllows(p)
           /\ \A x \in Pools \ {p} : Allocated(usage'[x]) = Allocated(usage[x])
<1>1. PICK l \in Pools \cup {NoPool} :
         LET g == Granted(p, q, l, r) IN
         /\ g # 0
         /\ ApplyGrant(p, q, l, r, g, BorrowPart(p, l, g))
  BY DEF Allocate
<1>2. PressureAllows(p)
  BY <1>1 DEF Granted, When
<1>3. PICK g, b : usage' = UsageAfterGrant(p, l, r, g, b)
  BY <1>1 DEF ApplyGrant
<1>4. ASSUME NEW x \in Pools \ {p}
      PROVE  Allocated(usage'[x]) = Allocated(usage[x])
  <2>1. usage[x] \in IntUsage
    BY DEF IInv, StructOK
  <2>2. /\ usage'[x].reserved_units = usage[x].reserved_units + 0
        /\ usage'[x].committed_units = usage[x].committed_units + 0
    BY <1>3 DEF UsageAfterGrant, When
  <2> QED  BY <2>1, <2>2, UsageFields DEF Allocated
<1> QED  BY <1>2, <1>4 DEF Allocate

\* What resolve_evidence answers is Unknown, Stale or drawn from a snapshot of
\* the pool's own generation that is fresh and agrees with the accounting.
LEMMA KnownEvidence ==
    ASSUME StructOK, NEW p \in Pools, pressure_is_known(resolve_evidence(p))
    PROVE  /\ pressure[p].generation = pools[p].generation
           /\ tick - pressure[p].observed_at \in 0..pressure[p].ttl_ticks
           /\ pressure[p].committed \in {-1, usage[p].own_usage}
<1>1. ~pressure_is_known(Unknown) /\ ~pressure_is_known(Stale)
  BY DEF pressure_is_known, Unknown, Stale, Clear, Critical
<1>2. /\ pressure[p].generation = pools[p].generation
      /\ is_fresh(tick, pressure[p].observed_at, pressure[p].ttl_ticks)
      /\ pressure[p].committed = -1 \/ pressure[p].committed = usage[p].own_usage
  BY <1>1 DEF resolve_evidence
<1>3. /\ tick \in Nat
      /\ pressure[p].observed_at \in Nat
      /\ pressure[p].ttl_ticks \in Nat
  BY DEF StructOK, PressureSnapshot
<1> QED  BY <1>2, <1>3 DEF is_fresh

\* For any pools, policies and reports, a pool whose policy asks for evidence
\* grows only under a snapshot of its current generation, within its lifetime
\* and not contradicting the accounting.
THEOREM GrowthNeedsEvidence == SmallRequests => (Spec => EvidenceGatesGrowth)
<1> SUFFICES ASSUME SmallRequests
             PROVE  Spec => EvidenceGatesGrowth
  OBVIOUS
<1>1. ASSUME IInv, IInv', [Next]_vars, NEW p \in Pools,
             Allocated(usage'[p]) > Allocated(usage[p]),
             PolicyOf(p).refuse_increase_on_unknown
      PROVE  /\ pressure[p].generation = pools[p].generation
             /\ tick - pressure[p].observed_at \in 0..pressure[p].ttl_ticks
             /\ pressure[p].committed \in {-1, usage[p].own_usage}
  <2>1. /\ StructOK
        /\ Allocated(usage[p]) \in Int
        /\ Allocated(usage'[p]) \in Int
    <3>1. usage[p] \in IntUsage /\ usage'[p] \in IntUsage
      BY <1>1 DEF IInv, StructOK
    <3> QED  BY <1>1, <3>1, UsageFields DEF IInv, Allocated
  <2>2. PICK x \in Pools, q \in Queues, r \in AllocateRequests : Allocate(x, q, r)
    <3> SUFFICES ASSUME ~\E x \in Pools, q \in Queues, r \in AllocateRequests :
                            Allocate(x, q, r)
                 PROVE  FALSE
      OBVIOUS
    <3>1. \A a \in AllocIds : Shrinks(a)
      BY <1>1, StepShrinks
    <3>2. Allocated(usage'[p]) <= Allocated(usage[p])
      BY <1>1, <3>1, ShrinkingPools
    <3> QED  BY <1>1, <2>1, <3>2
  <2>3. x = p /\ PressureAllows(p)
    BY <1>1, <2>1, <2>2, GrantGrowsOne
  <2> QED  BY <1>1, <2>1, <2>3, KnownEvidence DEF PressureAllows
<1>2. Spec => []IInv
  BY LedgerInvariant
<1>3. IInv /\ IInv' /\ [Next]_vars =>
         [\A p \in Pools :
             /\ Allocated(usage'[p]) > Allocated(usage[p])
             /\ PolicyOf(p).refuse_increase_on_unknown
             => /\ pressure[p].generation = pools[p].generation
                /\ tick - pressure[p].observed_at \in 0..pressure[p].ttl_ticks
                /\ pressure[p].committed \in {-1, usage[p].own_usage}]_vars
  BY <1>1
<1> QED  BY <1>2, <1>3, PTL DEF Spec, EvidenceGatesGrowth

\* While work is refused, no operation writes the policies, the capacity or the
\* id counter, and what it does to a pool or to its evidence is to erase it.
LEMMA RefusingStep ==
    ASSUME IInv, [Next]_vars, ~Accepting, shutting_down'
    PROVE  /\ policies' = policies
           /\ capacity' = capacity
           /\ next_allocation_id' = next_allocation_id
           /\ \A p \in Pools : /\ pools'[p] \in {pools[p], Erased}
                               /\ pressure'[p] \in {pressure[p], NoSnapshot}
<1> DEFINE Quiet == /\ policies' = policies
                    /\ capacity' = capacity
                    /\ next_allocation_id' = next_allocation_id
                    /\ pools' = pools
                    /\ pressure' = pressure
<1>1. ASSUME NEW q \in Queues,
             \/ RetireQueue(q)
             \/ \E p \in Pools : RetargetQueue(q, p)
             \/ \E n \in Demands : UpdateQueueDemand(q, n)
      PROVE  Quiet
  BY <1>1 DEF RetireQueue, RetargetQueue, UpdateQueueDemand
<1>2. ASSUME NEW a \in AllocIds,
             \/ Commit(a)
             \/ \E n \in 1..UnitsHeld[a] : Release(a, n)
             \/ Revalidate(a)
      PROVE  Quiet
  BY <1>2 DEF Commit, Release, Revalidate, topology
<1>3. CASE BeginShutdown \/ Tick \/ UNCHANGED vars
  BY <1>3 DEF BeginShutdown, Tick, topology, vars
<1>4. ASSUME NEW x \in Pools, RemovePool(x)
      PROVE  /\ policies' = policies
             /\ capacity' = capacity
             /\ next_allocation_id' = next_allocation_id
             /\ \A p \in Pools : /\ pools'[p] \in {pools[p], Erased}
                                 /\ pressure'[p] \in {pressure[p], NoSnapshot}
  BY <1>4 DEF RemovePool, IInv, StructOK
<1>5. ~Close /\ ~Open
  BY DEF Close, Open
<1>6. \/ \E p \in Pools : RemovePool(p)
      \/ \E q \in Queues : \/ RetireQueue(q)
                           \/ \E p \in Pools : RetargetQueue(q, p)
                           \/ \E n \in Demands : UpdateQueueDemand(q, n)
      \/ \E a \in AllocIds : \/ Commit(a)
                             \/ \E n \in 1..UnitsHeld[a] : Release(a, n)
                             \/ Revalidate(a)
      \/ BeginShutdown \/ Tick \/ UNCHANGED vars
  BY <1>5 DEF Next, SetCapacity, PublishPolicy, RegisterPool, ResizePool, RegisterQueue,
              ObservePressure, Allocate, FenceStale, ExpireReservations, ApplyReclaim
<1> QED  BY <1>1, <1>2, <1>3, <1>4, <1>6

\* From the moment shutdown is requested, or latched by a failed check, the
\* fabric only drains until it is opened again.
THEOREM ShutdownDrains == SmallRequests => (Spec => ShutdownOnlyDrains)
<1> SUFFICES ASSUME SmallRequests
             PROVE  Spec => ShutdownOnlyDrains
  OBVIOUS
<1>1. ASSUME IInv, IInv', [Next]_vars,
             shutting_down, shutting_down', refuse_work_after_shutdown
      PROVE  /\ policies' = policies
             /\ capacity' = capacity
             /\ next_allocation_id' = next_allocation_id
             /\ \A p \in Pools :
                   /\ Allocated(usage'[p]) <= Allocated(usage[p])
                   /\ pools'[p] \in {pools[p], Erased}
                   /\ pressure'[p] \in {pressure[p], NoSnapshot}
  <2>1. ~Accepting
    BY <1>1 DEF Accepting
  <2>2. \A p \in Pools, q \in Queues, r \in AllocateRequests : ~Allocate(p, q, r)
    BY <2>1 DEF Allocate
  <2>3. \A a \in AllocIds : Shrinks(a)
    BY <1>1, <2>2, StepShrinks
  <2> QED  BY <1>1, <2>1, <2>3, RefusingStep, ShrinkingPools
<1>2. Spec => []IInv
  BY LedgerInvariant
<1>3. IInv /\ IInv' /\ [Next]_vars =>
         [shutting_down /\ shutting_down' /\ refuse_work_after_shutdown =>
             /\ policies' = policies
             /\ capacity' = capacity
             /\ next_allocation_id' = next_allocation_id
             /\ \A p \in Pools :
                   /\ Allocated(usage'[p]) <= Allocated(usage[p])
                   /\ pools'[p] \in {pools[p], Erased}
                   /\ pressure'[p] \in {pressure[p], NoSnapshot}]_vars
  BY <1>1
<1> QED  BY <1>2, <1>3, PTL DEF Spec, ShutdownOnlyDrains
-----------------------------------------------------------------------------
(* Queue caps.                                                             *)

\* What queue q holds in pool p.
HeldFor(p, q) == {a \in HeldAny(p) : allocations[a].queue = q}

\* The buckets of a queue in a pool add up to what it holds there.
LEMMA BucketsAddUp ==
    ASSUME IInv, NEW p \in Pools, NEW q \in Queues
    PROVE  /\ QueueHeld(p, q) = Total(HeldFor(p, q), UnitsHeld)
           /\ QueueHeld(p, q) \in Nat
<1> DEFINE S == HeldBy(p, q, "Reserved")
           T == HeldBy(p, q, "Committed")
<1>1. StructOK /\ AggregatesMatchRecords
  BY DEF IInv
<1>2. IsFiniteSet(S) /\ IsFiniteSet(T)
  BY AllocationsFinite, HeldSets
<1>3. S \cap T = {}
  BY DEF HeldBy, HeldIn
<1>4. \A a \in S \cup T : UnitsHeld[a] \in Nat
  BY <1>1, HeldTyped DEF HeldBy, HeldIn
<1>5. HeldFor(p, q) = T \cup S
  BY DEF HeldFor, HeldAny, HeldBy, HeldIn, Holding, allocation_holds_units
<1>6. queue_committed[p][q] = Total(T, UnitsHeld) /\ queue_reserved[p][q] = Total(S, UnitsHeld)
  BY <1>1 DEF AggregatesMatchRecords
<1> HIDE DEF S, T
<1>7. Total(T \cup S, UnitsHeld) = Total(T, UnitsHeld) + Total(S, UnitsHeld)
  BY <1>2, <1>3, <1>4, TotalDisjoint
<1>8. Total(T, UnitsHeld) \in Nat /\ Total(S, UnitsHeld) \in Nat
  BY <1>2, <1>4, TotalType
<1> QED  BY <1>5, <1>6, <1>7, <1>8 DEF QueueHeld

\* Commitments that only shrink fill no queue further.
LEMMA ShrinkingQueues ==
    ASSUME IInv, IInv', \A a \in AllocIds : Shrinks(a)
    PROVE  \A p \in Pools, q \in Queues : (QueueHeld(p, q))' <= QueueHeld(p, q)
<1> SUFFICES ASSUME NEW p \in Pools, NEW q \in Queues
             PROVE  (QueueHeld(p, q))' <= QueueHeld(p, q)
  OBVIOUS
<1> DEFINE S == HeldFor(p, q)
           T == HeldFor(p, q)'
           f == UnitsHeld'
           g == UnitsHeld
<1>1. StructOK /\ StructOK'
  BY DEF IInv
<1>2. IsFiniteSet(S)
  BY AllocationsFinite DEF HeldFor, HeldAny
<1>3. T \in SUBSET S
  BY DEF HeldFor, HeldAny, Shrinks
<1>4. \A a \in S : f[a] \in Nat /\ g[a] \in Nat
  BY <1>1 DEF StructOK, AllocationRecord, UnitsHeld, HeldFor, HeldAny
<1>5. \A a \in T : f[a] <= g[a]
  BY DEF HeldFor, HeldAny, Shrinks, UnitsHeld
<1>6. QueueHeld(p, q) = Total(S, g)
  BY BucketsAddUp
<1>7. (QueueHeld(p, q) = Total(HeldFor(p, q), UnitsHeld))'
  BY BucketsAddUp, PTL
<1>8. (QueueHeld(p, q))' = Total(T, f)
  BY <1>7
<1> HIDE DEF S, T, f, g
<1>9. Total(T, f) <= Total(S, g)
  BY <1>2, <1>3, <1>4, <1>5, TotalMonotone
<1> QED  BY <1>6, <1>8, <1>9

\* The cap of a queue is set when the queue is registered, and at that time
\* nothing is bound to it.
LEMMA CapsKept ==
    ASSUME TInv, [Next]_vars, NEW q \in Queues
    PROVE  \/ queues'[q].max_committed_units = queues[q].max_committed_units
           \/ queues'[q].max_committed_units = 0
           \/ \A p \in Pools : QueueHeld(p, q) = 0
<1>1. queues \in [Queues -> QueueDescriptor]
  BY DEF TInv, IInv, StructOK
<1> DEFINE Kept == queues'[q].max_committed_units = queues[q].max_committed_units
<1>2. CASE UNCHANGED queues
  BY <1>2
<1>3. ASSUME NEW x \in Queues, NEW r \in QueueRegistrations, RegisterQueue(x, r)
      PROVE  Kept \/ \A p \in Pools : QueueHeld(p, q) = 0
  <2>1. CASE x # q
    BY <1>1, <1>3, <2>1 DEF RegisterQueue
  <2>2. CASE x = q
    <3>1. queues[q].generation = 0
      BY <1>3, <2>2 DEF RegisterQueue
    <3>2. ASSUME NEW p \in Pools
          PROVE  QueueHeld(p, q) = 0
      <4>1. HeldFor(p, q) = {}
        BY <3>1 DEF HeldFor, HeldAny, TInv, Bindings, Bound
      <4>2. QueueHeld(p, q) = Total(HeldFor(p, q), UnitsHeld)
        BY BucketsAddUp DEF TInv
      <4> QED  BY <4>1, <4>2, TotalEmpty
    <3> QED  BY <3>2
  <2> QED  BY <2>1, <2>2
<1>4. ASSUME NEW x \in Queues, NEW n \in Demands, UpdateQueueDemand(x, n)
      PROVE  Kept
  BY <1>1, <1>4 DEF UpdateQueueDemand, QueueDescriptor
<1>5. ASSUME NEW x \in Queues, RetireQueue(x)
      PROVE  Kept
  <2>1. queues' = [queues EXCEPT ![x].retired = TRUE, ![x].generation = @ + 1]
    BY <1>5 DEF RetireQueue
  <2> QED  BY <1>1, <2>1 DEF QueueDescriptor
<1>6. ASSUME NEW x \in Queues, NEW p \in Pools, RetargetQueue(x, p)
      PROVE  Kept
  <2>1. queues' \in {queues, [queues EXCEPT ![x].pool = p, ![x].generation = @ + 1]}
    BY <1>6 DEF RetargetQueue
  <2> QED  BY <1>1, <2>1 DEF QueueDescriptor
<1>7. ASSUME NEW p \in Pools, RemovePool(p)
      PROVE  Kept \/ queues'[q].max_committed_units = 0
  BY <1>7 DEF RemovePool, NoDescriptor
<1>8. \/ UNCHANGED queues
      \/ \E x \in Queues, r \in QueueRegistrations : RegisterQueue(x, r)
      \/ \E x \in Queues, n \in Demands : UpdateQueueDemand(x, n)
      \/ \E x \in Queues : RetireQueue(x)
      \/ \E x \in Queues, p \in Pools : RetargetQueue(x, p)
      \/ \E p \in Pools : RemovePool(p)
  <2>1. CASE RevokingStep
    BY <2>1 DEF RevokingStep, FenceStale, ExpireReservations, ApplyReclaim, PublishPolicy,
                ResizePool, topology
  <2>2. ASSUME NEW x \in Pools, NEW y \in Queues, NEW r \in AllocateRequests,
               Allocate(x, y, r)
        PROVE  UNCHANGED queues
    BY <2>2 DEF Allocate, ApplyGrant, topology
  <2>3. ASSUME NEW a \in AllocIds,
               \/ Commit(a)
               \/ \E n \in 1..UnitsHeld[a] : Release(a, n)
               \/ Revalidate(a)
        PROVE  UNCHANGED queues
    BY <2>3 DEF Commit, Release, Revalidate, topology
  <2>4. CASE \/ \E n \in Capacities : SetCapacity(n)
             \/ \E p \in Pools, r \in PoolRegistrations : RegisterPool(p, r)
             \/ \E p \in Pools, r \in PressureReports : ObservePressure(p, r)
             \/ BeginShutdown \/ Close \/ Open \/ Tick \/ UNCHANGED vars
    BY <2>4 DEF SetCapacity, RegisterPool, ObservePressure, BeginShutdown, Close, Open,
                Tick, vars, topology
  <2> QED  BY <2>1, <2>2, <2>3, <2>4 DEF Next, RevokingStep
<1> QED  BY <1>2, <1>3, <1>4, <1>5, <1>6, <1>7, <1>8

\* allocate fills the queue of the request, and no further than its cap.
LEMMA GrantFitsCap ==
    ASSUME IInv, NEW x \in Pools, NEW y \in Queues, NEW r \in AllocateRequests,
           Allocate(x, y, r), QueueCapRespected
    PROVE  QueueCapRespected'
<1>1. PICK l \in Pools \cup {NoPool} : \E g, b : Grants(x, y, r, l, g, b)
  BY AllocateGrants, Zenon
<1>2. PICK g, b : Grants(x, y, r, l, g, b)
  BY <1>1
<1>3. /\ queue_reserved' = [queue_reserved EXCEPT ![x][y] = @ + When(~r.commit_immediately, g)]
      /\ queue_committed' = [queue_committed EXCEPT ![x][y] = @ + When(r.commit_immediately, g)]
      /\ queues' = queues
  BY <1>2 DEF Grants, ApplyGrant, topology
<1>4. r.requested_units \in Nat
  BY InputAssumption DEF AllocateRequest
<1>5. /\ g = Grant(x, y, l, r.requested_units)
      /\ IsLender(x, l)
      /\ g \in 1..r.requested_units
      /\ r.requested_units \in Nat \ {0}
  BY <1>2, <1>4 DEF Grants
<1>6. Registered(x)
  BY DEF Allocate
<1>7. QueueCap(y) # 0 => g <= Monus(QueueCap(y), QueueHeld(x, y))
  BY <1>5, <1>6, GrantTyped
<1>8. /\ queue_reserved \in [Pools -> [Queues -> Int]]
      /\ queue_committed \in [Pools -> [Queues -> Int]]
      /\ queues \in [Queues -> QueueDescriptor]
  BY DEF IInv, StructOK
<1>9. (QueueHeld(x, y))' = QueueHeld(x, y) + g
  <2>1. When(r.commit_immediately, g) + When(~r.commit_immediately, g) = g
    BY <1>5 DEF When
  <2>2. /\ queue_reserved'[x][y] = queue_reserved[x][y] + When(~r.commit_immediately, g)
        /\ queue_committed'[x][y] = queue_committed[x][y] + When(r.commit_immediately, g)
    BY <1>3, <1>8
  <2>3. When(r.commit_immediately, g) \in Int /\ When(~r.commit_immediately, g) \in Int
    BY <1>5 DEF When
  <2> QED  BY <1>5, <1>8, <2>1, <2>2, <2>3 DEF QueueHeld
<1>10. \A p \in Pools, q \in Queues :
          p # x \/ q # y => (QueueHeld(p, q))' = QueueHeld(p, q)
  BY <1>3, <1>8 DEF QueueHeld
<1>11. queues[y].max_committed_units # 0 =>
          QueueHeld(x, y) + g <= queues[y].max_committed_units
  <2>1. QueueHeld(x, y) \in Int /\ queues[y].max_committed_units \in Nat /\ g \in Nat \ {0}
    BY <1>5, <1>8 DEF QueueHeld, QueueDescriptor
  <2> QED  BY <1>7, <2>1 DEF QueueCap, Monus
<1> QED  BY <1>3, <1>9, <1>10, <1>11 DEF QueueCapRespected

\* A queue with a hard cap never holds more than the cap in any pool.
THEOREM CapsRespected == SmallRequests => (Spec => []QueueCapRespected)
<1> SUFFICES ASSUME SmallRequests
             PROVE  Spec => []QueueCapRespected
  OBVIOUS
<1>1. Init => QueueCapRespected
  BY DEF Init, NoDescriptor, QueueCapRespected
<1>2. TInv /\ TInv' /\ QueueCapRespected /\ [Next]_vars => QueueCapRespected'
  <2> SUFFICES ASSUME TInv, TInv', QueueCapRespected, [Next]_vars
               PROVE  QueueCapRespected'
    OBVIOUS
  <2>1. IInv /\ IInv'
    BY DEF TInv
  <2>2. CASE \E p \in Pools, q \in Queues, r \in AllocateRequests : Allocate(p, q, r)
    BY <2>1, <2>2, GrantFitsCap
  <2>3. ASSUME ~\E p \in Pools, q \in Queues, r \in AllocateRequests : Allocate(p, q, r),
               NEW q \in Queues, queues'[q].max_committed_units # 0, NEW p \in Pools
        PROVE  (QueueHeld(p, q))' <= queues'[q].max_committed_units
    <3>1. \A a \in AllocIds : Shrinks(a)
      BY <2>1, <2>3, StepShrinks
    <3>2. (QueueHeld(p, q))' <= QueueHeld(p, q)
      BY <2>1, <3>1, ShrinkingQueues
    <3>3. QueueHeld(p, q) \in Nat
      BY <2>1, BucketsAddUp
    <3>4. (QueueHeld(p, q) \in Nat)'
      BY <2>1, BucketsAddUp, PTL
    <3>5. queues'[q].max_committed_units \in Nat
      BY <2>1 DEF IInv, StructOK, QueueDescriptor
    <3>6. QueueHeld(p, q) <= queues'[q].max_committed_units
      BY <2>3, <3>3, <3>5, CapsKept DEF QueueCapRespected
    <3> QED  BY <3>2, <3>3, <3>4, <3>5, <3>6
  <2> QED  BY <2>2, <2>3 DEF QueueCapRespected
<1>3. Spec => []TInv
  BY TopologyInvariant
<1> QED  BY <1>1, <1>2, <1>3, PTL DEF Spec
-----------------------------------------------------------------------------
(* Members.                                                                *)

\* a is fit to be a member of p.  That no record names a later policy revision
\* than the one in force is what MembersCurrent needs to be inductive: a
\* revision that fences on a change must find all members superseded.
Fit(p, a) ==
    /\ Holding(a)
    /\ allocations[a].pool = p
    /\ allocations[a].policy_generation <= policies[pools[p].policy].generation
    /\ PolicyOf(p).fence_on_generation_change =>
          /\ allocations[a].pool_generation = pools[p].generation
          /\ allocations[a].policy_generation = policies[pools[p].policy].generation

MembersFit == \A p \in Pools : \A a \in members[p] : Fit(p, a)

\* The step leaves the bindings of a alone, and it goes on to hold units.
SameBindings(a) ==
    /\ Holding(a) => (Holding(a))'
    /\ allocations'[a].pool = allocations[a].pool
    /\ allocations'[a].pool_generation = allocations[a].pool_generation
    /\ allocations'[a].policy_generation = allocations[a].policy_generation

\* A member stays fit while neither its bindings nor its pool nor the policy of
\* its pool changes.
LEMMA StaysFit ==
    ASSUME NEW p \in Pools, NEW a \in AllocIds, Fit(p, a), SameBindings(a),
           pools'[p] = pools[p],
           policies'[pools[p].policy] = policies[pools[p].policy]
    PROVE  (Fit(p, a))'
<1>1. (PolicyOf(p))' = PolicyOf(p)
  BY DEF PolicyOf
<1> QED  BY <1>1 DEF Fit, SameBindings

\* A step keeps the members fit when it adds none and leaves alone the pools,
\* the policies and the bindings of those that stay.
LEMMA MembersStay ==
    ASSUME IInv, MembersFit, pools' = pools, policies' = policies,
           \A p \in Pools : \A a \in members'[p] : a \in members[p] /\ SameBindings(a)
    PROVE  MembersFit'
<1> SUFFICES ASSUME NEW p \in Pools, NEW a \in members'[p]
             PROVE  (Fit(p, a))'
  BY DEF MembersFit
<1>1. a \in members[p] /\ SameBindings(a) /\ a \in AllocIds
  BY DEF IInv, StructOK
<1>2. Fit(p, a)
  BY <1>1 DEF MembersFit
<1> QED  BY <1>1, <1>2, StaysFit

\* What is left of the members once V has been revoked is as it was.
LEMMA RevokedRest ==
    ASSUME IInv, NEW V, NEW st, Revoke(V, st), NEW p \in Pools, NEW a \in members'[p]
    PROVE  a \in members[p] /\ a \in AllocIds /\ a \notin V /\ SameBindings(a)
<1>1. members' = [x \in Pools |-> members[x] \ V]
  BY DEF Revoke, ReturnUnits, LeaveQueues
<1>2. a \in members[p] /\ a \notin V
  BY <1>1
<1>3. a \in AllocIds
  BY <1>2 DEF IInv, StructOK
<1>4. allocations'[a] = allocations[a]
  BY <1>2, <1>3 DEF Revoke, MarkRevoked
<1> QED  BY <1>2, <1>3, <1>4 DEF SameBindings, Holding

\* publish_policy: every member was granted under an earlier revision, so a
\* revision that fences leaves the pools it governs without members.
LEMMA PublishFit ==
    ASSUME TInv, MembersFit, NEW x \in Policies, NEW b \in PolicyBodies,
           PublishPolicy(x, b)
    PROVE  MembersFit'
<1> DEFINE generation == policies[x].generation + 1
           victims == {a \in UNION {members[y] : y \in {z \in Pools : pools[z].policy = x}} :
                          Holding(a) /\ allocations[a].policy_generation # generation}
           V == IF b.fence_on_generation_change THEN victims ELSE {}
<1> SUFFICES ASSUME NEW p \in Pools, NEW a \in members'[p]
             PROVE  (Fit(p, a))'
  BY DEF MembersFit
<1>1. IInv
  BY DEF TInv
<1>2. /\ policies' = [policies EXCEPT ![x] = [generation |-> generation, body |-> b]]
      /\ Revoke(V, "Fenced")
      /\ pools' = pools
  <2>1. /\ policies' = [policies EXCEPT ![x] = [generation |-> generation, body |-> b]]
        /\ RevokeInTurn(V, "Fenced")
        /\ pools' = pools
    BY DEF PublishPolicy
  <2>2. V \in SUBSET AllocIds /\ \A c \in V : Holding(c)
    BY <1>1 DEF IInv, StructOK
  <2> HIDE DEF V, generation
  <2> QED  BY <1>1, <2>1, <2>2, RevokesAll
<1>3. a \in members[p] /\ a \in AllocIds /\ a \notin V /\ SameBindings(a)
  BY <1>1, <1>2, RevokedRest
<1>4. Fit(p, a)
  BY <1>3 DEF MembersFit
<1>5. CASE pools[p].policy # x
  BY <1>1, <1>2, <1>3, <1>4, <1>5, StaysFit DEF IInv, StructOK
<1>6. CASE pools[p].policy = x
  <2>1. /\ policies[x].generation \in Nat
        /\ allocations[a].policy_generation \in Nat
    BY <1>1, <1>3 DEF IInv, StructOK, PolicyEntry, AllocationRecord
  <2>2. /\ policies'[pools'[p].policy].generation = generation
        /\ policies'[pools'[p].policy].body = b
    BY <1>1, <1>2, <1>6 DEF IInv, StructOK
  <2>3. allocations[a].policy_generation < generation
    BY <1>4, <1>6, <2>1 DEF Fit
  <2>4. ~b.fence_on_generation_change
    <3>1. a \in victims
      BY <1>3, <1>4, <1>6, <2>1, <2>3 DEF Fit
    <3> QED  BY <1>3, <3>1
  <2> HIDE DEF generation
  <2>5. (PolicyOf(p))' = b
    BY <2>2 DEF PolicyOf
  <2>6. generation \in Nat
    BY <2>1 DEF generation
  <2> QED  BY <1>3, <1>4, <2>1, <2>2, <2>3, <2>4, <2>5, <2>6 DEF Fit, SameBindings
<1> QED  BY <1>5, <1>6

\* resize_pool: under a policy that fences, enforce_capacity fences all members.
LEMMA ResizeFit ==
    ASSUME IInv, MembersFit, NEW x \in Pools, NEW s \in Resizes, ResizePool(x, s)
    PROVE  MembersFit'
<1> DEFINE d == [pools[x] EXCEPT !.raw_units = s.raw_units,
                                 !.protected_units = s.protected_units,
                                 !.generation = @ + 1]
<1> SUFFICES ASSUME NEW p \in Pools, NEW a \in members'[p]
             PROVE  (Fit(p, a))'
  BY DEF MembersFit
<1>1. /\ pools' = [pools EXCEPT ![x] = d]
      /\ Revoke(EnforceVictims(x, d), "Fenced")
      /\ policies' = policies
  <2>1. /\ pools' = [pools EXCEPT ![x] = d]
        /\ RevokeInTurn(EnforceVictims(x, d), "Fenced")
        /\ policies' = policies
    BY DEF ResizePool
  <2> HIDE DEF d
  <2>2. /\ EnforceVictims(x, d) \in SUBSET AllocIds
        /\ \A c \in EnforceVictims(x, d) : Holding(c)
    BY DEF EnforceVictims, IInv, StructOK
  <2> QED  BY <2>1, <2>2, RevokesAll
<1>2. a \in members[p] /\ a \in AllocIds /\ a \notin EnforceVictims(x, d) /\ SameBindings(a)
  BY <1>1, RevokedRest
<1>3. Fit(p, a)
  BY <1>2 DEF MembersFit
<1>4. CASE p # x
  <2>1. pools'[p] = pools[p]
    BY <1>1, <1>4 DEF IInv, StructOK
  <2> QED  BY <1>1, <1>2, <1>3, <2>1, StaysFit
<1>5. CASE p = x
  <2>1. pools'[p].policy = pools[p].policy
    BY <1>1, <1>5 DEF IInv, StructOK, PoolDescriptor
  <2>2. ~PolicyOf(p).fence_on_generation_change
    <3> HIDE DEF d
    <3> QED  BY <1>2, <1>3, <1>5 DEF EnforceVictims, Fit
  <2>3. (PolicyOf(p))' = PolicyOf(p)
    BY <1>1, <2>1 DEF PolicyOf
  <2> QED  BY <1>1, <1>2, <1>3, <2>1, <2>2, <2>3 DEF Fit, SameBindings
<1> QED  BY <1>4, <1>5

\* allocate: the new member is bound to the generations in force.
LEMMA AllocateFit ==
    ASSUME IInv, MembersFit, NEW x \in Pools, NEW y \in Queues, NEW r \in AllocateRequests,
           Allocate(x, y, r)
    PROVE  MembersFit'
<1> DEFINE i == next_allocation_id
<1>1. PICK l, g, b : ApplyGrant(x, y, l, r, g, b)
  BY DEF Allocate
<1>2. /\ members' = [members EXCEPT ![x] = @ \cup {i}]
      /\ allocations' = [allocations EXCEPT ![i] = NewRecord(x, y, l, r, g, b)]
      /\ pools' = pools
      /\ policies' = policies
      /\ i \in AllocIds
  BY <1>1 DEF ApplyGrant, Allocate, topology
<1>3. /\ members \in [Pools -> SUBSET AllocIds]
      /\ allocations \in [AllocIds -> AllocationRecord]
      /\ policies \in [Policies -> PolicyEntry]
      /\ allocations[i].state = "None"
      /\ pools[x].policy \in Policies
  <2>1. StructOK
    BY Zenon DEF IInv
  <2>2. Registered(x)
    BY Zenon DEF Allocate
  <2> QED  BY <1>2, <2>1, <2>2, NextIdFree, PolicyInForce, Zenon DEF StructOK
<1> SUFFICES ASSUME NEW p \in Pools, NEW a \in members'[p]
             PROVE  (Fit(p, a))'
  BY DEF MembersFit
<1>4. CASE a = i
  <2>1. i \notin members[p]
    BY <1>3 DEF MembersFit, Fit, Holding, allocation_holds_units
  <2>2. p = x
    BY <1>2, <1>3, <1>4, <2>1
  <2>3. /\ (Holding(a))'
        /\ allocations'[a].pool = x
        /\ allocations'[a].pool_generation = pools[x].generation
        /\ allocations'[a].policy_generation = policies[pools[x].policy].generation
    BY <1>2, <1>3, <1>4 DEF NewRecord, Holding, allocation_holds_units
  <2>4. policies[pools[x].policy].generation \in Nat
    BY <1>3 DEF PolicyEntry
  <2>5. allocations'[a].policy_generation <= policies[pools[x].policy].generation
    BY <2>3, <2>4, NoGreaterThanItself, Zenon
  <2> QED  BY <1>2, <2>2, <2>3, <2>5, Zenon DEF Fit
<1>5. CASE a # i
  <2>1. a \in members[p] /\ a \in AllocIds
    BY <1>2, <1>3, <1>5
  <2>2. SameBindings(a)
    BY <1>2, <1>3, <1>5, <2>1 DEF SameBindings, Holding
  <2> QED  BY <1>2, <2>1, <2>2, StaysFit DEF MembersFit
<1> QED  BY <1>4, <1>5

\* release takes the allocation off the members; commit and revalidate do not
\* rebind it.
LEMMA RecordStepFit ==
    ASSUME IInv, MembersFit, NEW c \in AllocIds,
           \/ Commit(c)
           \/ \E n \in 1..UnitsHeld[c] : Release(c, n)
           \/ Revalidate(c)
    PROVE  MembersFit'
<1>1. /\ members \in [Pools -> SUBSET AllocIds]
      /\ allocations \in [AllocIds -> AllocationRecord]
  BY DEF IInv, StructOK
<1>2. pools' = pools /\ policies' = policies
  BY DEF Commit, Release, Revalidate, topology
<1>3. ASSUME Commit(c), NEW p \in Pools, NEW a \in members'[p]
      PROVE  a \in members[p] /\ SameBindings(a)
  <2>1. /\ allocations' = [allocations EXCEPT ![c].state = "Committed", ![c].last_touched = tick]
        /\ members' = members
    BY <1>3 DEF Commit
  <2>2. a \in AllocIds
    BY <1>1, <2>1
  <2>3. a # c => allocations'[a] = allocations[a]
    BY <1>1, <2>1, <2>2
  <2>4. a = c => /\ allocations'[a].state = "Committed"
                 /\ allocations'[a].pool = allocations[a].pool
                 /\ allocations'[a].pool_generation = allocations[a].pool_generation
                 /\ allocations'[a].policy_generation = allocations[a].policy_generation
    BY <1>1, <2>1, <2>2 DEF AllocationRecord
  <2> QED  BY <2>1, <2>3, <2>4 DEF SameBindings, Holding, allocation_holds_units
<1>4. ASSUME NEW n \in 1..UnitsHeld[c], Release(c, n), NEW p \in Pools, NEW a \in members'[p]
      PROVE  a \in members[p] /\ SameBindings(a)
  <2>1. \/ members' = [x \in Pools |-> members[x] \ {c}]
        \/ UNCHANGED <<members, allocations>>
    BY <1>4 DEF Release, ReturnUnits, LeaveQueues
  <2>2. a \in members[p] /\ a \in AllocIds /\ (a # c \/ UNCHANGED allocations)
    BY <1>1, <1>4, <2>1
  <2>3. allocations'[a] = allocations[a]
    BY <1>1, <1>4, <2>2 DEF Release
  <2> QED  BY <2>2, <2>3 DEF SameBindings, Holding
<1>5. ASSUME Revalidate(c), NEW p \in Pools, NEW a \in members'[p]
      PROVE  a \in members[p] /\ SameBindings(a)
  <2>1. /\ allocations' = [allocations EXCEPT
              ![c].pool_generation = pools[allocations[c].pool].generation,
              ![c].queue_generation = queues[allocations[c].queue].generation,
              ![c].policy_generation = policies[pools[allocations[c].pool].policy].generation,
              ![c].last_touched = tick]
        /\ members' = members
        /\ ~is_stale_binding(c)
    BY <1>5 DEF Revalidate
  <2>2. a \in AllocIds
    BY <1>1, <2>1
  <2>3. a # c => allocations'[a] = allocations[a]
    BY <1>1, <2>1, <2>2
  <2>4. a = c => /\ allocations'[a].state = allocations[a].state
                 /\ allocations'[a].pool = allocations[a].pool
                 /\ allocations'[a].pool_generation = pools[allocations[c].pool].generation
                 /\ allocations'[a].policy_generation
                       = policies[pools[allocations[c].pool].policy].generation
    <3>1. allocations[c] \in AllocationRecord /\ DOMAIN allocations = AllocIds
      BY <1>1, Zenon
    <3> DEFINE m == pools[allocations[c].pool].generation
               n == queues[allocations[c].queue].generation
               o == policies[pools[allocations[c].pool].policy].generation
               e == allocations[c]
    <3>2. allocations'[c] = [e EXCEPT !.pool_generation = m, !.queue_generation = n,
                                      !.policy_generation = o, !.last_touched = tick]
      BY <2>1, <3>1
    <3>3. e \in AllocationRecord
      BY <3>1
    <3>4. /\ allocations'[c].state = e.state
          /\ allocations'[c].pool = e.pool
          /\ allocations'[c].pool_generation = m
          /\ allocations'[c].policy_generation = o
      <4> HIDE DEF m, n, o, e
      <4> QED  BY <3>2, <3>3, ZenonT(30) DEF AllocationRecord
    <3> QED  BY <3>4, Zenon
  <2> QED  BY <2>1, <2>3, <2>4 DEF SameBindings, Holding, is_stale_binding
<1> QED  BY <1>2, <1>3, <1>4, <1>5, MembersStay

\* register_pool and remove_pool leave the pool they are about without members.
LEMMA PoolSetFit ==
    ASSUME IInv, MembersFit, NEW x \in Pools,
           (\E r \in PoolRegistrations : RegisterPool(x, r)) \/ RemovePool(x)
    PROVE  MembersFit'
<1>1. /\ members' = [members EXCEPT ![x] = {}]
      /\ allocations' = allocations
      /\ policies' = policies
      /\ \A p \in Pools \ {x} : pools'[p] = pools[p]
  BY DEF RegisterPool, RemovePool, IInv, StructOK
<1> SUFFICES ASSUME NEW p \in Pools, NEW a \in members'[p]
             PROVE  (Fit(p, a))'
  BY DEF MembersFit
<1>2. members \in [Pools -> SUBSET AllocIds]
  BY DEF IInv, StructOK
<1>3. p # x /\ a \in members[p] /\ a \in AllocIds
  BY <1>1, <1>2
<1>4. SameBindings(a)
  BY <1>1 DEF SameBindings, Holding
<1> QED  BY <1>1, <1>3, <1>4, StaysFit DEF MembersFit

\* The other operations leave pools and policies alone, and take members away
\* or leave those alone, too.
LEMMA OtherStepsFit ==
    ASSUME IInv, MembersFit,
           \/ \E p \in Pools : FenceStale(p) \/ ExpireReservations(p)
           \/ \E p \in Pools, n \in ReclaimTargets : ApplyReclaim(p, n)
           \/ \E q \in Queues : RetireQueue(q)
           \/ \E q \in Queues, p \in Pools : RetargetQueue(q, p)
           \/ \E n \in Capacities : SetCapacity(n)
           \/ \E q \in Queues, r \in QueueRegistrations : RegisterQueue(q, r)
           \/ \E q \in Queues, n \in Demands : UpdateQueueDemand(q, n)
           \/ \E p \in Pools, r \in PressureReports : ObservePressure(p, r)
           \/ BeginShutdown \/ Close \/ Open \/ Tick \/ UNCHANGED vars
    PROVE  MembersFit'
<1> DEFINE Revokes == \E V, st : Revoke(V, st)
<1>1. RevokingStep => Revokes
  BY RevokingVictims, Zenon
<1>2. /\ pools' = pools
      /\ policies' = policies
      /\ Revokes \/ UNCHANGED <<members, allocations>>
  <2>1. CASE \E p \in Pools : FenceStale(p) \/ ExpireReservations(p)
    BY <1>1, <2>1 DEF RevokingStep, FenceStale, ExpireReservations, topology
  <2>2. CASE \E p \in Pools, n \in ReclaimTargets : ApplyReclaim(p, n)
    BY <1>1, <2>2 DEF RevokingStep, ApplyReclaim, topology
  <2>3. CASE \E q \in Queues : RetireQueue(q)
    BY <1>1, <2>3 DEF RevokingStep, RetireQueue
  <2>4. CASE \E q \in Queues, p \in Pools : RetargetQueue(q, p)
    BY <1>1, <2>4 DEF RevokingStep, RetargetQueue
  <2>5. CASE \/ \E n \in Capacities : SetCapacity(n)
             \/ \E q \in Queues, r \in QueueRegistrations : RegisterQueue(q, r)
             \/ \E q \in Queues, n \in Demands : UpdateQueueDemand(q, n)
             \/ \E p \in Pools, r \in PressureReports : ObservePressure(p, r)
             \/ BeginShutdown \/ Close \/ Open \/ Tick \/ UNCHANGED vars
    BY <2>5 DEF SetCapacity, RegisterQueue, UpdateQueueDemand, ObservePressure,
                BeginShutdown, Close, Open, Tick, vars, topology, ledger
  <2> QED  BY <2>1, <2>2, <2>3, <2>4, <2>5
<1>3. ASSUME NEW p \in Pools, NEW a \in members'[p]
      PROVE  a \in members[p] /\ SameBindings(a)
  <2>1. CASE Revokes
    BY <2>1, <1>3, RevokedRest
  <2>2. CASE UNCHANGED <<members, allocations>>
    BY <2>2, <1>3 DEF SameBindings, Holding
  <2> QED  BY <1>2, <2>1, <2>2
<1> QED  BY <1>2, <1>3, MembersStay

\* Every step keeps the members fit.
LEMMA NextKeepsFit ==
    ASSUME TInv, MembersFit, [Next]_vars
    PROVE  MembersFit'
<1>1. IInv
  BY DEF TInv
<1>2. CASE \E x \in Policies, b \in PolicyBodies : PublishPolicy(x, b)
  BY <1>2, PublishFit
<1>3. CASE \E p \in Pools, s \in Resizes : ResizePool(p, s)
  BY <1>1, <1>3, ResizeFit
<1>4. CASE \E p \in Pools, q \in Queues, r \in AllocateRequests : Allocate(p, q, r)
  BY <1>1, <1>4, AllocateFit
<1>5. CASE \E c \in AllocIds : \/ Commit(c)
                               \/ \E n \in 1..UnitsHeld[c] : Release(c, n)
                               \/ Revalidate(c)
  BY <1>1, <1>5, RecordStepFit
<1>6. CASE \E p \in Pools : (\E r \in PoolRegistrations : RegisterPool(p, r)) \/ RemovePool(p)
  BY <1>1, <1>6, PoolSetFit
<1> QED  BY <1>1, <1>2, <1>3, <1>4, <1>5, <1>6, OtherStepsFit DEF Next

\* So they are always fit.
LEMMA MembersAlwaysFit == SmallRequests => (Spec => []MembersFit)
<1> SUFFICES ASSUME SmallRequests
             PROVE  Spec => []MembersFit
  OBVIOUS
<1>1. Init => MembersFit
  BY DEF Init, MembersFit
<1>2. TInv /\ MembersFit /\ [Next]_vars => MembersFit'
  BY NextKeepsFit
<1>3. Spec => []TInv
  BY TopologyInvariant
<1> QED  BY <1>1, <1>2, <1>3, PTL DEF Spec

\* What a pool enumerates holds its units and, where the policy asks for it,
\* is bound to the generations in force.
THEOREM MembersStayCurrent == SmallRequests => (Spec => []MembersCurrent)
<1>1. MembersFit => MembersCurrent
  <2> SUFFICES ASSUME MembersFit, NEW p \in Pools, NEW a \in members[p]
               PROVE  /\ Holding(a)
                      /\ allocations[a].pool = p
                      /\ PolicyOf(p).fence_on_generation_change => ~is_stale_binding(a)
    BY Zenon DEF MembersCurrent
  <2>1. Fit(p, a)
    BY Zenon DEF MembersFit
  <2> QED  BY <2>1, Zenon DEF Fit, is_stale_binding
<1> QED  BY <1>1, MembersAlwaysFit, PTL
=============================================================================
