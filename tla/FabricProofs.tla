---------------------------- MODULE FabricProofs ----------------------------
(***************************************************************************)
(* The invariant IInv of LedgerProofs is inductive: Init establishes it    *)
(* and every operation of the fabric preserves it, as long as the product  *)
(* in a partial release stays below the word (SmallRequests).  At the end, *)
(* that pools partition the capacity, which needs an invariant of its own. *)
(***************************************************************************)
EXTENDS LedgerProofs

\* A leaf that names no backend is tried with Zenon, then with arithmetic.
USE ZenonT(10), SMTT(15)

(* allocate: what it grants is bounded by the request, and what it borrows *)
(* comes from a live lender.                                               *)

\* What compute_grant may grant is a natural number, no more than the pool, the
\* overcommit headroom and the lender have, and fits the queue's cap.
LEMMA LimitTyped ==
    ASSUME IInv, NEW p \in Pools, Registered(p), NEW q \in Queues,
           NEW l \in Pools \cup {NoPool}, IsLender(p, l)
    PROVE  /\ Free(p) \in Nat
           /\ Borrowable(p, l) \in Nat
           /\ QueueCap(q) \in Nat
           /\ QueueHeld(p, q) \in Nat
           /\ CapLimit(p, q, l) \in Nat
           /\ MaxGrant(p, l) \in Nat
           /\ CapLimit(p, q, l) <= MaxGrant(p, l)
           /\ SoftRoom(p) \in Nat
           /\ GrantLimit(p, q, l) \in Nat
           /\ QueueCap(q) # 0 => GrantLimit(p, q, l) <= Monus(QueueCap(q), QueueHeld(p, q))
<1>1. TypeOK
  BY InvariantTypes
<1>2. pools[p].policy \in Policies
  BY DEF IInv, PoolsSound, Registered
<1>3. PolicyOf(p) \in PolicyBody
  BY <1>1, <1>2 DEF PolicyOf, TypeOK, PolicyEntry
<1>4. \A x \in Pools : /\ Usable(pools[x]) \in Nat
                       /\ usage[x].own_usage \in Nat
                       /\ usage[x].borrowed_in \in Nat
  BY <1>1 DEF TypeOK, PoolDescriptor, Usage, Usable, Monus
<1>5. \A x \in Pools : Free(x) \in Nat
  BY <1>4 DEF Free, FreeUnits, OvercommitUsed, Monus
<1>6. /\ PolicyOf(p).overcommit_limit \in Nat
      /\ PolicyOf(p).borrow_limit \in Nat
      /\ PolicyOf(p).max_single_request_units \in Nat
      /\ PolicyOf(p).max_single_allocation_units \in Nat
      /\ PolicyOf(p).soft_limit_bp \in Nat
  BY <1>3 DEF PolicyBody
<1>7. Borrowable(p, l) \in Nat
  BY <1>4, <1>5, <1>6 DEF Borrowable, When, AtMost, Monus
<1>8. MaxGrant(p, l) \in Nat
  <2>1. OvercommitUsed(pools[p], usage[p]) \in Nat
    BY <1>4 DEF OvercommitUsed, Monus
  <2>2. Monus(OvercommitLimit(p), OvercommitUsed(pools[p], usage[p])) \in Nat
    BY <1>6, <2>1 DEF OvercommitLimit, Monus
  <2> QED  BY <1>5, <1>7, <2>2 DEF MaxGrant
<1>9. QueueCap(q) \in Nat /\ QueueHeld(p, q) \in Nat
  BY <1>1 DEF TypeOK, QueueDescriptor, QueueCap, QueueHeld
<1>10. \A c \in BOOLEAN, x, y \in Nat : apply_cap(x, c, y) \in Nat
  BY DEF apply_cap, AtMost
<1>11. /\ CapLimit(p, q, l) \in Nat
       /\ CapLimit(p, q, l) <= MaxGrant(p, l)
       /\ SoftRoom(p) \in Nat
       /\ GrantLimit(p, q, l) \in Nat
       /\ QueueCap(q) # 0 => GrantLimit(p, q, l) <= Monus(QueueCap(q), QueueHeld(p, q))
  <2> DEFINE b == PolicyOf(p)
             c1 == apply_cap(MaxGrant(p, l), b.max_single_request_units # 0,
                             b.max_single_request_units)
             c2 == apply_cap(c1, b.max_single_allocation_units # 0,
                             b.max_single_allocation_units)
  <2>1. SoftRoom(p) \in Nat
    <3> DEFINE soft == (Usable(pools[p]) * b.soft_limit_bp) \div kScale
    <3>1. Usable(pools[p]) * b.soft_limit_bp \in Nat
      BY <1>4, <1>6
    <3>2. soft \in Nat
      <4> HIDE DEF b
      <4> QED  BY <3>1 DEF kScale
    <3>3. SoftRoom(p) = Monus(soft, usage[p].own_usage)
      BY DEF SoftRoom
    <3> HIDE DEF soft
    <3> QED  BY <1>4, <3>2, <3>3 DEF Monus
  <2>2. c1 \in Nat /\ c1 <= MaxGrant(p, l)
    BY <1>6, <1>8 DEF apply_cap, AtMost
  <2>3. c2 \in Nat /\ c2 <= c1
    <3> HIDE DEF c1
    <3> QED  BY <1>6, <2>2 DEF apply_cap, AtMost
  <2>4. /\ CapLimit(p, q, l) \in Nat
        /\ CapLimit(p, q, l) <= c2
        /\ QueueCap(q) # 0 => CapLimit(p, q, l) <= Monus(QueueCap(q), QueueHeld(p, q))
    <3>1. CapLimit(p, q, l) = apply_cap(c2, QueueCap(q) # 0, Monus(QueueCap(q), QueueHeld(p, q)))
      BY DEF CapLimit
    <3> HIDE DEF c2
    <3> QED  BY <1>9, <2>3, <3>1 DEF apply_cap, AtMost, Monus
  <2>5. Monus(QueueCap(q), QueueHeld(p, q)) \in Nat
    BY <1>9 DEF Monus
  <2>6. CapLimit(p, q, l) <= MaxGrant(p, l)
    <3> HIDE DEF c1, c2
    <3> QED  BY <1>8, <2>2, <2>3, <2>4
  <2> QED  BY <2>1, <2>4, <2>5, <2>6 DEF GrantLimit, apply_cap, AtMost
<1> QED  BY <1>5, <1>7, <1>8, <1>9, <1>11

\* A grant is between nothing and what was asked for, fits what is left of the
\* queue's cap, and no more of it is borrowed than granted.
LEMMA GrantTyped ==
    ASSUME IInv, NEW p \in Pools, Registered(p), NEW q \in Queues,
           NEW l \in Pools \cup {NoPool}, IsLender(p, l),
           NEW n \in Nat \ {0}
    PROVE  /\ Grant(p, q, l, n) \in 0..n
           /\ Borrowable(p, l) \in Nat
           /\ BorrowPart(p, l, Grant(p, q, l, n)) \in 0..Grant(p, q, l, n)
           /\ QueueCap(q) # 0 =>
                 Grant(p, q, l, n) <= Monus(QueueCap(q), QueueHeld(p, q))
<1>1. /\ Free(p) \in Nat
      /\ Borrowable(p, l) \in Nat
      /\ Monus(QueueCap(q), QueueHeld(p, q)) \in Nat
      /\ GrantLimit(p, q, l) \in Nat
      /\ QueueCap(q) # 0 => GrantLimit(p, q, l) <= Monus(QueueCap(q), QueueHeld(p, q))
  <2>1. QueueCap(q) \in Nat /\ QueueHeld(p, q) \in Nat
    BY LimitTyped
  <2>2. Monus(QueueCap(q), QueueHeld(p, q)) \in Nat
    BY <2>1 DEF Monus
  <2> QED  BY <2>2, LimitTyped
<1>2. /\ Grant(p, q, l, n) \in 0..n
      /\ QueueCap(q) # 0 => Grant(p, q, l, n) <= Monus(QueueCap(q), QueueHeld(p, q))
  BY <1>1 DEF Grant, AllOrPart, AtMost
<1>3. BorrowPart(p, l, Grant(p, q, l, n)) \in 0..Grant(p, q, l, n)
  <2> DEFINE g == Grant(p, q, l, n)
  <2>1. g \in Nat
    BY <1>2
  <2> HIDE DEF g
  <2>2. BorrowPart(p, l, g) \in 0..g
    BY <1>1, <2>1 DEF BorrowPart, AtMost, Monus
  <2> QED  BY <2>2 DEF g
<1> QED  BY <1>1, <1>2, <1>3

\* Only a registered pool has free units to lend.
LEMMA LenderLive ==
    ASSUME IInv, NEW p \in Pools, NEW l \in Pools, IsLender(p, l)
    PROVE  pools[l].generation # 0
<1>1. Free(l) # 0
  BY IdAssumption DEF IsLender, IsNearestFree
<1>2. ASSUME pools[l].generation = 0
      PROVE  FALSE
  <2>1. pools[l] = Erased /\ Allocated(usage[l]) = 0 /\ usage[l].lent_out = 0
    BY <1>2 DEF IInv, PoolsSound
  <2>2. Usable(pools[l]) = 0
    BY <2>1 DEF Erased, Usable, Monus
  <2>3. usage[l].own_usage \in Nat
    BY InvariantTypes DEF TypeOK, Usage
  <2> QED  BY <1>1, <2>2, <2>3 DEF Free, FreeUnits, OvercommitUsed, Monus
<1> QED  BY <1>2

\* allocate keeps the invariant: the new record accounts for every unit that
\* the grant adds to the pool, to its lender and to the queue.
LEMMA GrantStep ==
    ASSUME IInv, NEW p \in Pools, Registered(p), NEW q \in Queues,
           NEW l \in Pools \cup {NoPool}, NEW r \in AllocateRequests,
           NEW a \in AllocIds, a = next_allocation_id,
           NEW g \in 1..r.requested_units, NEW b \in 0..g,
           b # 0 => l \in Pools /\ pools[l].generation # 0,
           ApplyGrant(p, q, l, r, g, b)
    PROVE  IInv'
<1> DEFINE rec == NewRecord(p, q, l, r, g, b)
<1> USE DEF IInv
<1>1. /\ r.requested_units \in Nat
      /\ r.commit_immediately \in BOOLEAN
      /\ r.reclaim_class \in {"Pinned", "Reclaimable"}
      /\ r.reclaim_priority \in Nat
      /\ r.ttl_ticks \in Nat
  BY InputAssumption DEF AllocateRequest
<1>2. g \in Nat /\ b \in Nat /\ g # 0 /\ b <= g /\ g <= r.requested_units
  BY <1>1
<1>3. rec \in AllocationRecord
  <2>1. /\ pools[p].generation \in Nat
        /\ queues[q].generation \in Nat
        /\ tick \in Nat
    BY DEF StructOK, PoolDescriptor, QueueDescriptor
  <2>2. policies[pools[p].policy].generation \in Nat
    BY DEF StructOK, PoolsSound, Registered, PolicyEntry
  <2>3. When(r.ttl_ticks # 0, tick + r.ttl_ticks) \in Nat
    BY <1>1, <2>1 DEF When
  <2> QED  BY <1>1, <1>2, <2>1, <2>2, <2>3 DEF NewRecord, AllocationRecord, AllocationState
<1>4. /\ rec.state = IF r.commit_immediately THEN "Committed" ELSE "Reserved"
      /\ rec.pool = p
      /\ rec.queue = q
      /\ rec.units = g
      /\ rec.borrow_units = b
      /\ rec.lender = IF b # 0 THEN l ELSE NoPool
      /\ rec.reclaim_class = r.reclaim_class
  BY DEF NewRecord
<1> HIDE DEF rec
<1>5. /\ allocations' \in [AllocIds -> AllocationRecord]
      /\ allocations'[a] = rec
      /\ \A x \in AllocIds \ {a} : allocations'[x] = allocations[x]
  BY <1>3 DEF ApplyGrant, StructOK, rec
<1>6. allocations[a].state = "None"
  BY DEF RecordsSound, StructOK
<1>7. next_allocation_id' = a + 1
  BY DEF ApplyGrant
<1>8. UnitsHeld'[a] = g /\ BorrowHeld'[a] = b
  BY <1>2, <1>4, <1>5 DEF UnitsHeld, BorrowHeld, AtMost
<1>9. ASSUME NEW x \in Pools
      PROVE  /\ a \notin HeldIn(x, "Reserved")
             /\ a \notin HeldIn(x, "Committed")
             /\ a \notin HeldAs(x, "Pinned")
             /\ a \notin HeldAs(x, "Reclaimable")
             /\ a \notin HeldAny(x)
             /\ a \notin LentBy(x)
             /\ \A y : /\ a \notin HeldBy(x, y, "Reserved")
                       /\ a \notin HeldBy(x, y, "Committed")
  BY <1>6 DEF HeldIn, HeldAs, HeldAny, LentBy, HeldBy, Holding, allocation_holds_units
<1>10. ASSUME NEW x \in Pools
       PROVE  /\ (a \in HeldIn(x, "Reserved"))' <=> x = p /\ ~r.commit_immediately
              /\ (a \in HeldIn(x, "Committed"))' <=> x = p /\ r.commit_immediately
              /\ (a \in HeldAs(x, "Pinned"))' <=> x = p /\ r.reclaim_class = "Pinned"
              /\ (a \in HeldAs(x, "Reclaimable"))' <=> x = p /\ r.reclaim_class # "Pinned"
              /\ (a \in HeldAny(x))' <=> x = p
              /\ (a \in LentBy(x))' <=> x = l /\ b # 0
              /\ \A y : /\ (a \in HeldBy(x, y, "Reserved"))'
                              <=> x = p /\ y = q /\ ~r.commit_immediately
                        /\ (a \in HeldBy(x, y, "Committed"))'
                              <=> x = p /\ y = q /\ r.commit_immediately
  <2>1. rec.state \in {"Committed", "Reserved"}
    BY <1>4
  <2>2. (a \in HeldIn(x, "Reserved"))' <=> x = p /\ ~r.commit_immediately
    BY <1>1, <1>4, <1>5 DEF HeldIn
  <2>3. (a \in HeldIn(x, "Committed"))' <=> x = p /\ r.commit_immediately
    BY <1>1, <1>4, <1>5 DEF HeldIn
  <2>4. (Holding(a))'
    BY <1>5, <2>1 DEF Holding, allocation_holds_units
  <2>5. /\ (a \in HeldAs(x, "Pinned"))' <=> x = p /\ r.reclaim_class = "Pinned"
        /\ (a \in HeldAs(x, "Reclaimable"))' <=> x = p /\ r.reclaim_class # "Pinned"
        /\ (a \in HeldAny(x))' <=> x = p
    BY <1>1, <1>4, <1>5, <2>4 DEF HeldAs, HeldAny
  <2>6. (a \in LentBy(x))' <=> x = l /\ b # 0
    BY <1>4, <1>5, <2>4, IdAssumption DEF LentBy
  <2>7. \A y : /\ (a \in HeldBy(x, y, "Reserved"))'
                      <=> x = p /\ y = q /\ ~r.commit_immediately
               /\ (a \in HeldBy(x, y, "Committed"))'
                      <=> x = p /\ y = q /\ r.commit_immediately
    BY <1>4, <1>5, <2>2, <2>3 DEF HeldBy
  <2> QED  BY <2>2, <2>3, <2>5, <2>6, <2>7
<1>11. ASSUME NEW x \in Pools
       PROVE  /\ usage'[x].reserved_units
                    = usage[x].reserved_units + When(x = p /\ ~r.commit_immediately, g)
              /\ usage'[x].committed_units
                    = usage[x].committed_units + When(x = p /\ r.commit_immediately, g)
              /\ usage'[x].pinned_units
                    = usage[x].pinned_units + When(x = p /\ r.reclaim_class = "Pinned", g)
              /\ usage'[x].reclaimable_units
                    = usage[x].reclaimable_units + When(x = p /\ r.reclaim_class # "Pinned", g)
              /\ usage'[x].own_usage
                    = usage[x].own_usage + When(x = p, g - b) + When(x = l, b)
              /\ usage'[x].borrowed_in = usage[x].borrowed_in + When(x = p, b)
              /\ usage'[x].lent_out = usage[x].lent_out + When(x = l, b)
              /\ usage[x] \in IntUsage
              /\ usage'[x] \in IntUsage
  <2>1. usage[x] \in IntUsage
    BY DEF StructOK
  <2>2. usage'[x] =
        [reserved_units |->
             usage[x].reserved_units + When(x = p /\ ~r.commit_immediately, g),
         committed_units |->
             usage[x].committed_units + When(x = p /\ r.commit_immediately, g),
         pinned_units |->
             usage[x].pinned_units + When(x = p /\ r.reclaim_class = "Pinned", g),
         reclaimable_units |->
             usage[x].reclaimable_units + When(x = p /\ r.reclaim_class # "Pinned", g),
         own_usage |->
             usage[x].own_usage + When(x = p, g - b) + When(x = l, b),
         borrowed_in |-> usage[x].borrowed_in + When(x = p, b),
         lent_out |-> usage[x].lent_out + When(x = l, b)]
    BY DEF ApplyGrant, UsageAfterGrant
  <2>3. /\ When(x = p /\ ~r.commit_immediately, g) \in Int
        /\ When(x = p /\ r.commit_immediately, g) \in Int
        /\ When(x = p /\ r.reclaim_class = "Pinned", g) \in Int
        /\ When(x = p /\ r.reclaim_class # "Pinned", g) \in Int
        /\ When(x = p, g - b) \in Int
        /\ When(x = p, b) \in Int
        /\ When(x = l, b) \in Int
    BY <1>2 DEF When
  <2>4. usage'[x] \in IntUsage
    BY <2>1, <2>2, <2>3 DEF IntUsage
  <2> QED  BY <2>1, <2>2, <2>4
<1>12. PointMoved(a)
  <2>1. ASSUME NEW x \in Pools
        PROVE  /\ usage'[x].reserved_units = usage[x].reserved_units
                    - When(a \in HeldIn(x, "Reserved"), UnitsHeld[a])
                    + When((a \in HeldIn(x, "Reserved"))', UnitsHeld'[a])
               /\ usage'[x].committed_units = usage[x].committed_units
                    - When(a \in HeldIn(x, "Committed"), UnitsHeld[a])
                    + When((a \in HeldIn(x, "Committed"))', UnitsHeld'[a])
               /\ usage'[x].pinned_units = usage[x].pinned_units
                    - When(a \in HeldAs(x, "Pinned"), UnitsHeld[a])
                    + When((a \in HeldAs(x, "Pinned"))', UnitsHeld'[a])
               /\ usage'[x].reclaimable_units = usage[x].reclaimable_units
                    - When(a \in HeldAs(x, "Reclaimable"), UnitsHeld[a])
                    + When((a \in HeldAs(x, "Reclaimable"))', UnitsHeld'[a])
               /\ usage'[x].borrowed_in = usage[x].borrowed_in
                    - When(a \in HeldAny(x), BorrowHeld[a])
                    + When((a \in HeldAny(x))', BorrowHeld'[a])
               /\ usage'[x].lent_out = usage[x].lent_out
                    - When(a \in LentBy(x), BorrowHeld[a])
                    + When((a \in LentBy(x))', BorrowHeld'[a])
    <3>1. usage[x] \in IntUsage
      BY <1>11
    <3>2. /\ usage'[x].reserved_units = usage[x].reserved_units
                  - When(a \in HeldIn(x, "Reserved"), UnitsHeld[a])
                  + When((a \in HeldIn(x, "Reserved"))', UnitsHeld'[a])
          /\ usage'[x].committed_units = usage[x].committed_units
                  - When(a \in HeldIn(x, "Committed"), UnitsHeld[a])
                  + When((a \in HeldIn(x, "Committed"))', UnitsHeld'[a])
      BY <1>2, <1>8, <1>9, <1>10, <1>11, <3>1, UsageFields DEF When
    <3>3. /\ usage'[x].pinned_units = usage[x].pinned_units
                  - When(a \in HeldAs(x, "Pinned"), UnitsHeld[a])
                  + When((a \in HeldAs(x, "Pinned"))', UnitsHeld'[a])
          /\ usage'[x].reclaimable_units = usage[x].reclaimable_units
                  - When(a \in HeldAs(x, "Reclaimable"), UnitsHeld[a])
                  + When((a \in HeldAs(x, "Reclaimable"))', UnitsHeld'[a])
      BY <1>2, <1>8, <1>9, <1>10, <1>11, <3>1, UsageFields DEF When
    <3>4. /\ usage'[x].borrowed_in = usage[x].borrowed_in
                  - When(a \in HeldAny(x), BorrowHeld[a])
                  + When((a \in HeldAny(x))', BorrowHeld'[a])
          /\ usage'[x].lent_out = usage[x].lent_out
                  - When(a \in LentBy(x), BorrowHeld[a])
                  + When((a \in LentBy(x))', BorrowHeld'[a])
      BY <1>2, <1>8, <1>9, <1>10, <1>11, <3>1, UsageFields DEF When
    <3> QED  BY <3>2, <3>3, <3>4
  <2>2. ASSUME NEW x \in Pools, NEW y \in Queues
        PROVE  /\ queue_reserved'[x][y] = queue_reserved[x][y]
                    - When(a \in HeldBy(x, y, "Reserved"), UnitsHeld[a])
                    + When((a \in HeldBy(x, y, "Reserved"))', UnitsHeld'[a])
               /\ queue_committed'[x][y] = queue_committed[x][y]
                    - When(a \in HeldBy(x, y, "Committed"), UnitsHeld[a])
                    + When((a \in HeldBy(x, y, "Committed"))', UnitsHeld'[a])
    <3>1. /\ queue_reserved[x][y] \in Int
          /\ queue_committed[x][y] \in Int
      BY DEF StructOK
    <3>2. /\ queue_reserved'[x][y] = queue_reserved[x][y]
                + When(x = p /\ y = q /\ ~r.commit_immediately, g)
          /\ queue_committed'[x][y] = queue_committed[x][y]
                + When(x = p /\ y = q /\ r.commit_immediately, g)
      BY <1>2, <3>1 DEF ApplyGrant, StructOK, When
    <3> QED  BY <1>2, <1>8, <1>9, <1>10, <3>1, <3>2 DEF When
  <2> QED  BY <2>1, <2>2 DEF PointMoved
<1>13. AggregatesMatchRecords'
  BY <1>5, <1>12, PointStep
<1>14. OwnUsageMatches'
  <2> SUFFICES ASSUME NEW x \in Pools
               PROVE  usage'[x].own_usage + usage'[x].borrowed_in
                        = usage'[x].reserved_units + usage'[x].committed_units
                            + usage'[x].lent_out
    BY DEF OwnUsageMatches
  <2>1. usage[x].own_usage + usage[x].borrowed_in
          = usage[x].reserved_units + usage[x].committed_units + usage[x].lent_out
    BY DEF OwnUsageMatches
  <2>2. /\ usage[x].reserved_units \in Int
        /\ usage[x].committed_units \in Int
        /\ usage[x].own_usage \in Int
        /\ usage[x].borrowed_in \in Int
        /\ usage[x].lent_out \in Int
    BY DEF StructOK, IntUsage
  <2>3. usage'[x].reserved_units + usage'[x].committed_units
          = usage[x].reserved_units + usage[x].committed_units + When(x = p, g)
    BY <1>1, <1>2, <1>11, <2>2 DEF When
  <2>4. /\ usage'[x].own_usage = usage[x].own_usage + When(x = p, g - b) + When(x = l, b)
        /\ usage'[x].borrowed_in = usage[x].borrowed_in + When(x = p, b)
        /\ usage'[x].lent_out = usage[x].lent_out + When(x = l, b)
    BY <1>11
  <2> QED  BY <1>2, <2>1, <2>2, <2>3, <2>4 DEF When
<1>15. StructOK'
  <2>1. usage' \in [Pools -> IntUsage]
    BY <1>11 DEF ApplyGrant, UsageAfterGrant
  <2>2. /\ queue_reserved' \in [Pools -> [Queues -> Int]]
        /\ queue_committed' \in [Pools -> [Queues -> Int]]
    BY <1>2 DEF ApplyGrant, StructOK, When
  <2>3. members' \in [Pools -> SUBSET AllocIds]
    BY DEF ApplyGrant, StructOK
  <2>4. next_allocation_id' \in 1..(kMaxAllocationCount + 1)
    BY <1>7, BoundAssumption DEF AllocIds
  <2>5. shutting_down' \in BOOLEAN
    BY DEF ApplyGrant, LatchUnlessClosed
  <2> QED  BY <1>5, <2>1, <2>2, <2>3, <2>4, <2>5 DEF ApplyGrant, StructOK, topology
<1>16. PoolsSound'
  <2> SUFFICES ASSUME NEW x \in Pools
               PROVE  IF pools'[x].generation = 0
                      THEN /\ pools'[x] = Erased
                           /\ Allocated(usage'[x]) = 0
                           /\ usage'[x].lent_out = 0
                      ELSE pools'[x].policy \in Policies
    BY DEF PoolsSound
  <2>1. pools' = pools
    BY DEF ApplyGrant, topology
  <2>2. CASE pools[x].generation = 0
    <3>1. x # p /\ (b # 0 => x # l)
      BY <2>2 DEF Registered
    <3>2. /\ usage'[x].reserved_units = usage[x].reserved_units
          /\ usage'[x].committed_units = usage[x].committed_units
          /\ usage'[x].lent_out = usage[x].lent_out
      BY <1>2, <1>11, <3>1 DEF When, IntUsage
    <3> QED  BY <2>1, <2>2, <3>2 DEF PoolsSound, Allocated
  <2> QED  BY <2>1, <2>2 DEF PoolsSound
<1>17. RecordsSound'
  <2> SUFFICES ASSUME NEW x \in AllocIds
               PROVE  /\ x >= next_allocation_id' => allocations'[x].state = "None"
                      /\ (Holding(x))' =>
                            /\ allocations'[x].pool \in Pools
                            /\ allocations'[x].queue \in Queues
                            /\ allocations'[x].borrow_units <= allocations'[x].units
                            /\ allocations'[x].borrow_units # 0
                                  => allocations'[x].lender \in Pools
                            /\ \E s \in AllocateRequests :
                                  allocations'[x].units <= s.requested_units
    BY DEF RecordsSound
  <2>1. CASE x = a
    BY <1>2, <1>4, <1>5, <1>7, <2>1 DEF AllocIds
  <2>2. CASE x # a
    <3>1. allocations'[x] = allocations[x] /\ (x >= a + 1 => x >= a)
      BY <1>5, <2>2, BoundAssumption DEF AllocIds
    <3> QED  BY <1>7, <3>1 DEF RecordsSound, Holding
  <2> QED  BY <2>1, <2>2
<1> QED  BY <1>13, <1>14, <1>15, <1>16, <1>17

\* What allocate applies: a grant of g units, b of them lent by l.
Grants(p, q, r, l, g, b) ==
    /\ IsLender(p, l)
    /\ g = Grant(p, q, l, r.requested_units)
    /\ b = BorrowPart(p, l, g)
    /\ g \in 1..r.requested_units
    /\ b \in 0..g
    /\ b # 0 => l \in Pools /\ pools[l].generation # 0
    /\ PlanCloses(p, l, r, g)
    /\ ApplyGrant(p, q, l, r, g, b)

\* allocate applies such a grant, from a lender that is registered.
LEMMA AllocateGrants ==
    ASSUME IInv, NEW p \in Pools, NEW q \in Queues, NEW r \in AllocateRequests,
           Allocate(p, q, r)
    PROVE  \E l \in Pools \cup {NoPool} : \E g, b : Grants(p, q, r, l, g, b)
<1>1. PICK l \in Pools \cup {NoPool} :
         /\ IsLender(p, l)
         /\ LET g == Granted(p, q, l, r) IN
            /\ g # 0
            /\ ApplyGrant(p, q, l, r, g, BorrowPart(p, l, g))
  BY DEF Allocate
<1> DEFINE g == Grant(p, q, l, r.requested_units)
           b == BorrowPart(p, l, g)
<1>2. /\ Registered(p)
      /\ next_allocation_id \in AllocIds
      /\ g # 0
      /\ PlanCloses(p, l, r, g)
      /\ ApplyGrant(p, q, l, r, g, b)
  <2>1. Granted(p, q, l, r) # 0 => Granted(p, q, l, r) = g /\ PlanCloses(p, l, r, g)
    BY DEF Granted, When
  <2> QED  BY <1>1, <2>1 DEF Allocate
<1>3. r.requested_units \in Nat \ {0}
  BY InputAssumption DEF AllocateRequest
<1>4. g \in 0..r.requested_units /\ b \in 0..g /\ Borrowable(p, l) \in Nat
  BY <1>1, <1>2, <1>3, GrantTyped
<1>5. g # 0
  BY <1>2
<1>6. b # 0 => l \in Pools /\ pools[l].generation # 0
  <2>1. l = NoPool => Borrowable(p, l) = 0
    BY DEF Borrowable, When
  <2>2. Borrowable(p, l) = 0 => b <= 0
    <3> DEFINE m == Monus(g, Free(p))
    <3>1. b = IF m <= Borrowable(p, l) THEN m ELSE Borrowable(p, l)
      BY DEF BorrowPart, AtMost
    <3> HIDE DEF b, g, m
    <3> QED  BY <3>1
  <2> HIDE DEF b, g
  <2>3. l = NoPool => b = 0
    BY <1>4, <2>1, <2>2
  <2> QED  BY <1>1, <2>3, LenderLive
<1>7. g = Grant(p, q, l, r.requested_units) /\ b = BorrowPart(p, l, g)
  OBVIOUS
<1> HIDE DEF g, b
<1>8. g \in 1..r.requested_units
  BY <1>3, <1>4, <1>5
<1>9. Grants(p, q, r, l, g, b)
  BY <1>1, <1>2, <1>4, <1>6, <1>7, <1>8 DEF Grants
<1> QED  BY <1>9

\* allocate keeps the invariant.
LEMMA AllocateStep ==
    ASSUME IInv, NEW p \in Pools, NEW q \in Queues, NEW r \in AllocateRequests,
           Allocate(p, q, r)
    PROVE  IInv'
<1>1. PICK l \in Pools \cup {NoPool} : \E g, b : Grants(p, q, r, l, g, b)
  BY AllocateGrants
<1>2. PICK g, b : Grants(p, q, r, l, g, b)
  BY <1>1
<1>3. /\ g \in 1..r.requested_units
      /\ b \in 0..g
      /\ b # 0 => l \in Pools /\ pools[l].generation # 0
      /\ ApplyGrant(p, q, l, r, g, b)
  BY <1>2 DEF Grants
<1>4. Registered(p) /\ next_allocation_id \in AllocIds
  BY DEF Allocate
<1> QED  BY <1>3, <1>4, GrantStep
-----------------------------------------------------------------------------
(* commit, revocations, and the operations that leave the ledger alone.    *)

\* Fencing held allocations is never refused half way, so each loop over
\* apply_release_units takes all of them.
LEMMA RevokesAll ==
    ASSUME IInv, NEW V \in SUBSET AllocIds, NEW st, \A a \in V : Holding(a),
           RevokeInTurn(V, st)
    PROVE  Revocable(V) /\ Revoke(V, st)
BY HeldRevocable, Zenon DEF RevokeInTurn

\* commit never takes more from reserved_units than the pool has reserved, so
\* its difference of two u64 does not wrap.
LEMMA ReservedCovers ==
    ASSUME IInv, NEW a \in AllocIds, allocations[a].state = "Reserved",
           allocations[a].pool \in Pools
    PROVE  LET w == usage[allocations[a].pool] IN
           Wrapped(w.reserved_units - allocations[a].units)
              = w.reserved_units - allocations[a].units
<1> DEFINE p == allocations[a].pool
           S == HeldIn(p, "Reserved")
<1>1. a \in S /\ S \in SUBSET AllocIds
  BY HeldSets DEF HeldIn
<1>2. usage[p].reserved_units = Total(S, UnitsHeld)
  BY DEF IInv, AggregatesMatchRecords
<1>3. UnitsHeld[a] = allocations[a].units /\ UnitsHeld[a] \in Nat
  BY HeldTyped DEF UnitsHeld, IInv
<1> HIDE DEF S, p
<1>4. /\ Total(S, UnitsHeld) = Total(S \ {a}, UnitsHeld) + When(a \in S, UnitsHeld[a])
      /\ Total(S \ {a}, UnitsHeld) \in Nat
  BY <1>1, TotalLess DEF IInv
<1>5. usage[p].reserved_units - allocations[a].units \in Nat
  BY <1>1, <1>2, <1>3, <1>4 DEF When
<1> QED  BY <1>5 DEF Wrapped, p

\* commit keeps the invariant: the units move from reserved to committed, in
\* the pool and in the queue's bucket.
LEMMA CommitStep ==
    ASSUME IInv, NEW a \in AllocIds, Commit(a)
    PROVE  IInv'
<1> USE DEF IInv
<1> DEFINE r == allocations[a]
<1>1. /\ r.state = "Reserved"
      /\ r.pool \in Pools
      /\ r.queue \in Queues
      /\ r.units \in Nat
      /\ pools[r.pool].generation # 0
      /\ r.reclaim_class \in {"Pinned", "Reclaimable"}
  BY DEF Commit, RecordsSound, Holding, allocation_holds_units, StructOK, AllocationRecord,
         Registered
<1>2. /\ allocations' \in [AllocIds -> AllocationRecord]
      /\ allocations'[a] = [r EXCEPT !.state = "Committed", !.last_touched = tick]
      /\ \A x \in AllocIds \ {a} : allocations'[x] = allocations[x]
  <2>1. r \in AllocationRecord /\ "Committed" \in AllocationState /\ tick \in Nat
    BY DEF StructOK, AllocationState
  <2>2. allocations' = [allocations EXCEPT
                           ![a] = [r EXCEPT !.state = "Committed", !.last_touched = tick]]
    BY DEF Commit, StructOK
  <2>3. [r EXCEPT !.state = "Committed", !.last_touched = tick] \in AllocationRecord
    BY <2>1, RecordTouched
  <2> QED  BY <2>2, <2>3 DEF StructOK
<1>3. /\ allocations'[a].state = "Committed"
      /\ allocations'[a].pool = r.pool
      /\ allocations'[a].queue = r.queue
      /\ allocations'[a].units = r.units
      /\ allocations'[a].borrow_units = r.borrow_units
      /\ allocations'[a].lender = r.lender
      /\ allocations'[a].reclaim_class = r.reclaim_class
  <2>1. r \in AllocationRecord
    BY DEF StructOK
  <2> QED  BY <1>2, <2>1 DEF AllocationRecord
<1>4. /\ UnitsHeld'[a] = UnitsHeld[a]
      /\ UnitsHeld[a] = r.units
      /\ BorrowHeld'[a] = BorrowHeld[a]
      /\ BorrowHeld[a] \in Nat
  BY <1>3, HeldTyped DEF UnitsHeld, BorrowHeld
<1>5. ASSUME NEW x \in Pools
      PROVE  /\ a \in HeldIn(x, "Reserved") <=> x = r.pool
             /\ a \notin HeldIn(x, "Committed")
             /\ ~(a \in HeldIn(x, "Reserved"))'
             /\ (a \in HeldIn(x, "Committed"))' <=> x = r.pool
             /\ (a \in HeldAs(x, "Pinned"))' <=> a \in HeldAs(x, "Pinned")
             /\ (a \in HeldAs(x, "Reclaimable"))' <=> a \in HeldAs(x, "Reclaimable")
             /\ (a \in HeldAny(x))' <=> a \in HeldAny(x)
             /\ (a \in LentBy(x))' <=> a \in LentBy(x)
             /\ \A y : /\ a \in HeldBy(x, y, "Reserved") <=> x = r.pool /\ y = r.queue
                       /\ a \notin HeldBy(x, y, "Committed")
                       /\ ~(a \in HeldBy(x, y, "Reserved"))'
                       /\ (a \in HeldBy(x, y, "Committed"))' <=> x = r.pool /\ y = r.queue
  <2>1. Holding(a) /\ (Holding(a))'
    BY <1>1, <1>3 DEF Holding, allocation_holds_units
  <2>2. /\ a \in HeldIn(x, "Reserved") <=> x = r.pool
        /\ a \notin HeldIn(x, "Committed")
        /\ ~(a \in HeldIn(x, "Reserved"))'
        /\ (a \in HeldIn(x, "Committed"))' <=> x = r.pool
    BY <1>1, <1>3 DEF HeldIn
  <2>3. /\ (a \in HeldAs(x, "Pinned"))' <=> a \in HeldAs(x, "Pinned")
        /\ (a \in HeldAs(x, "Reclaimable"))' <=> a \in HeldAs(x, "Reclaimable")
        /\ (a \in HeldAny(x))' <=> a \in HeldAny(x)
        /\ (a \in LentBy(x))' <=> a \in LentBy(x)
    BY <1>3, <2>1 DEF HeldAs, HeldAny, LentBy
  <2>4. \A y : /\ a \in HeldBy(x, y, "Reserved") <=> x = r.pool /\ y = r.queue
               /\ a \notin HeldBy(x, y, "Committed")
               /\ ~(a \in HeldBy(x, y, "Reserved"))'
               /\ (a \in HeldBy(x, y, "Committed"))' <=> x = r.pool /\ y = r.queue
    BY <1>3, <2>2 DEF HeldBy
  <2> QED  BY <2>2, <2>3, <2>4
<1>6. ASSUME NEW x \in Pools
      PROVE  /\ usage'[x].reserved_units = usage[x].reserved_units - When(x = r.pool, r.units)
             /\ usage'[x].committed_units = usage[x].committed_units + When(x = r.pool, r.units)
             /\ usage'[x].pinned_units = usage[x].pinned_units
             /\ usage'[x].reclaimable_units = usage[x].reclaimable_units
             /\ usage'[x].own_usage = usage[x].own_usage
             /\ usage'[x].borrowed_in = usage[x].borrowed_in
             /\ usage'[x].lent_out = usage[x].lent_out
             /\ usage[x] \in IntUsage
             /\ usage'[x] \in IntUsage
  <2>1. usage[x] \in IntUsage
    BY DEF StructOK
  <2>2. CASE x = r.pool
    <3>1. usage'[x] = [usage[x] EXCEPT !.reserved_units = usage[x].reserved_units - r.units,
                                       !.committed_units = usage[x].committed_units + r.units]
      <4>1. usage'[x] = [usage[x] EXCEPT
                            !.reserved_units = Wrapped(usage[x].reserved_units - r.units),
                            !.committed_units = usage[x].committed_units + r.units]
        BY <1>1, <2>1, <2>2 DEF Commit, StructOK, IntUsage
      <4>2. Wrapped(usage[x].reserved_units - r.units) = usage[x].reserved_units - r.units
        BY <1>1, <2>2, ReservedCovers
      <4> QED  BY <4>1, <4>2
    <3>2. usage[x].reserved_units - r.units \in Int /\ usage[x].committed_units + r.units \in Int
      BY <1>1, <2>1 DEF IntUsage
    <3>3. usage'[x] \in IntUsage
      BY <2>1, <3>1, <3>2 DEF IntUsage
    <3>4. /\ usage'[x].reserved_units = usage[x].reserved_units - r.units
          /\ usage'[x].committed_units = usage[x].committed_units + r.units
          /\ usage'[x].pinned_units = usage[x].pinned_units
          /\ usage'[x].reclaimable_units = usage[x].reclaimable_units
          /\ usage'[x].own_usage = usage[x].own_usage
          /\ usage'[x].borrowed_in = usage[x].borrowed_in
          /\ usage'[x].lent_out = usage[x].lent_out
      BY <2>1, <3>1 DEF IntUsage
    <3> QED  BY <2>1, <2>2, <3>3, <3>4 DEF When
  <2>3. CASE x # r.pool
    <3>1. usage'[x] = usage[x]
      BY <1>1, <2>3 DEF Commit, StructOK
    <3> QED  BY <2>1, <2>3, <3>1 DEF IntUsage, When
  <2> QED  BY <2>2, <2>3
<1>7. queue_reserved[r.pool][r.queue] >= r.units
  <2> DEFINE S == HeldBy(r.pool, r.queue, "Reserved")
  <2>1. a \in S /\ IsFiniteSet(S) /\ S \in SUBSET AllocIds /\ S \ {a} \in SUBSET AllocIds
    BY <1>1, <1>5, AllocationsFinite, HeldSets
  <2>2. queue_reserved[r.pool][r.queue] = Total(S, UnitsHeld)
    BY <1>1 DEF AggregatesMatchRecords
  <2>3. \A x \in S : UnitsHeld[x] \in Nat
    BY <2>1, HeldTyped
  <2> HIDE DEF S
  <2>4. Total(S, UnitsHeld) = Total(S \ {a}, UnitsHeld) + UnitsHeld[a]
    BY <2>1, <2>3, TotalWithout
  <2>5. Total(S \ {a}, UnitsHeld) \in Nat
    BY <2>1, TotalsTyped
  <2> QED  BY <1>1, <1>4, <2>2, <2>4, <2>5
<1>8. ASSUME NEW x \in Pools, NEW y \in Queues
      PROVE  /\ queue_reserved'[x][y] = queue_reserved[x][y]
                    - When(x = r.pool /\ y = r.queue, r.units)
             /\ queue_committed'[x][y] = queue_committed[x][y]
                    + When(x = r.pool /\ y = r.queue, r.units)
             /\ queue_reserved[x][y] \in Int
             /\ queue_committed[x][y] \in Int
  <2>1. queue_reserved[x][y] \in Int /\ queue_committed[x][y] \in Int
    BY DEF StructOK
  <2>2. Monus(queue_reserved[r.pool][r.queue], r.units) = queue_reserved[r.pool][r.queue] - r.units
    <3>1. queue_reserved[r.pool][r.queue] \in Int
      BY <1>1 DEF StructOK
    <3> QED  BY <1>1, <1>7, <3>1 DEF Monus
  <2>3. /\ queue_reserved' = [queue_reserved EXCEPT ![r.pool][r.queue] =
                                 Monus(queue_reserved[r.pool][r.queue], r.units)]
        /\ queue_committed' = [queue_committed EXCEPT ![r.pool][r.queue] =
                                 queue_committed[r.pool][r.queue] + r.units]
    BY <1>1 DEF Commit, StructOK
  <2> QED  BY <1>1, <2>1, <2>2, <2>3 DEF StructOK, When
<1>9. PointMoved(a)
  <2>1. ASSUME NEW x \in Pools
        PROVE  /\ usage'[x].reserved_units = usage[x].reserved_units
                    - When(a \in HeldIn(x, "Reserved"), UnitsHeld[a])
                    + When((a \in HeldIn(x, "Reserved"))', UnitsHeld'[a])
               /\ usage'[x].committed_units = usage[x].committed_units
                    - When(a \in HeldIn(x, "Committed"), UnitsHeld[a])
                    + When((a \in HeldIn(x, "Committed"))', UnitsHeld'[a])
               /\ usage'[x].pinned_units = usage[x].pinned_units
                    - When(a \in HeldAs(x, "Pinned"), UnitsHeld[a])
                    + When((a \in HeldAs(x, "Pinned"))', UnitsHeld'[a])
               /\ usage'[x].reclaimable_units = usage[x].reclaimable_units
                    - When(a \in HeldAs(x, "Reclaimable"), UnitsHeld[a])
                    + When((a \in HeldAs(x, "Reclaimable"))', UnitsHeld'[a])
               /\ usage'[x].borrowed_in = usage[x].borrowed_in
                    - When(a \in HeldAny(x), BorrowHeld[a])
                    + When((a \in HeldAny(x))', BorrowHeld'[a])
               /\ usage'[x].lent_out = usage[x].lent_out
                    - When(a \in LentBy(x), BorrowHeld[a])
                    + When((a \in LentBy(x))', BorrowHeld'[a])
    <3>1. /\ usage[x].reserved_units \in Int
          /\ usage[x].committed_units \in Int
          /\ usage[x].pinned_units \in Int
          /\ usage[x].reclaimable_units \in Int
          /\ usage[x].borrowed_in \in Int
          /\ usage[x].lent_out \in Int
      BY <1>6, UsageFields
    <3>2. /\ When(a \in HeldIn(x, "Reserved"), UnitsHeld[a]) = When(x = r.pool, r.units)
          /\ When((a \in HeldIn(x, "Reserved"))', UnitsHeld'[a]) = 0
      BY <1>4, <1>5 DEF When
    <3>3. /\ When(a \in HeldIn(x, "Committed"), UnitsHeld[a]) = 0
          /\ When((a \in HeldIn(x, "Committed"))', UnitsHeld'[a]) = When(x = r.pool, r.units)
      BY <1>4, <1>5 DEF When
    <3>4. /\ When((a \in HeldAs(x, "Pinned"))', UnitsHeld'[a])
               = When(a \in HeldAs(x, "Pinned"), UnitsHeld[a])
          /\ When((a \in HeldAs(x, "Reclaimable"))', UnitsHeld'[a])
               = When(a \in HeldAs(x, "Reclaimable"), UnitsHeld[a])
      BY <1>4, <1>5 DEF When
    <3>5. /\ When((a \in HeldAny(x))', BorrowHeld'[a]) = When(a \in HeldAny(x), BorrowHeld[a])
          /\ When((a \in LentBy(x))', BorrowHeld'[a]) = When(a \in LentBy(x), BorrowHeld[a])
      BY <1>4, <1>5 DEF When
    <3>6. /\ When(x = r.pool, r.units) \in Int
          /\ When(a \in HeldAs(x, "Pinned"), UnitsHeld[a]) \in Int
          /\ When(a \in HeldAs(x, "Reclaimable"), UnitsHeld[a]) \in Int
          /\ When(a \in HeldAny(x), BorrowHeld[a]) \in Int
          /\ When(a \in LentBy(x), BorrowHeld[a]) \in Int
      BY <1>1, <1>4 DEF When
    <3>7. /\ usage'[x].reserved_units = usage[x].reserved_units
                  - When(a \in HeldIn(x, "Reserved"), UnitsHeld[a])
                  + When((a \in HeldIn(x, "Reserved"))', UnitsHeld'[a])
          /\ usage'[x].committed_units = usage[x].committed_units
                  - When(a \in HeldIn(x, "Committed"), UnitsHeld[a])
                  + When((a \in HeldIn(x, "Committed"))', UnitsHeld'[a])
      <4> DEFINE u == usage[x].reserved_units
                 v == usage[x].committed_units
                 m == When(x = r.pool, r.units)
      <4>1. u \in Int /\ v \in Int /\ m \in Int
        BY <3>1, <3>6, Zenon
      <4>2. usage'[x].reserved_units = u - m /\ usage'[x].committed_units = v + m
        BY <1>6, Zenon
      <4> HIDE DEF u, v, m
      <4>3. u - m + 0 = u - m /\ v - 0 + m = v + m
        BY <4>1
      <4>4. usage'[x].reserved_units = u - m + 0 /\ usage'[x].committed_units = v - 0 + m
        BY <4>2, <4>3, Zenon
      <4> QED  BY <3>2, <3>3, <4>4, Zenon DEF u, v, m
    <3>8. /\ usage'[x].pinned_units = usage[x].pinned_units
                  - When(a \in HeldAs(x, "Pinned"), UnitsHeld[a])
                  + When((a \in HeldAs(x, "Pinned"))', UnitsHeld'[a])
          /\ usage'[x].reclaimable_units = usage[x].reclaimable_units
                  - When(a \in HeldAs(x, "Reclaimable"), UnitsHeld[a])
                  + When((a \in HeldAs(x, "Reclaimable"))', UnitsHeld'[a])
      <4> DEFINE u == usage[x].pinned_units
                 v == usage[x].reclaimable_units
                 m == When(a \in HeldAs(x, "Pinned"), UnitsHeld[a])
                 n == When(a \in HeldAs(x, "Reclaimable"), UnitsHeld[a])
      <4>1. u - m + m = u /\ v - n + n = v
        BY <3>1, <3>6, Cancels, Zenon
      <4>2. usage'[x].pinned_units = u /\ usage'[x].reclaimable_units = v
        BY <1>6, Zenon
      <4> QED  BY <3>4, <4>1, <4>2, Zenon
    <3>9. /\ usage'[x].borrowed_in = usage[x].borrowed_in
                  - When(a \in HeldAny(x), BorrowHeld[a])
                  + When((a \in HeldAny(x))', BorrowHeld'[a])
          /\ usage'[x].lent_out = usage[x].lent_out
                  - When(a \in LentBy(x), BorrowHeld[a])
                  + When((a \in LentBy(x))', BorrowHeld'[a])
      <4> DEFINE u == usage[x].borrowed_in
                 v == usage[x].lent_out
                 m == When(a \in HeldAny(x), BorrowHeld[a])
                 n == When(a \in LentBy(x), BorrowHeld[a])
      <4>1. u - m + m = u /\ v - n + n = v
        BY <3>1, <3>6, Cancels, Zenon
      <4>2. usage'[x].borrowed_in = u /\ usage'[x].lent_out = v
        BY <1>6, Zenon
      <4> QED  BY <3>5, <4>1, <4>2, Zenon
    <3> QED  BY <3>7, <3>8, <3>9
  <2>2. ASSUME NEW x \in Pools, NEW y \in Queues
        PROVE  /\ queue_reserved'[x][y] = queue_reserved[x][y]
                    - When(a \in HeldBy(x, y, "Reserved"), UnitsHeld[a])
                    + When((a \in HeldBy(x, y, "Reserved"))', UnitsHeld'[a])
               /\ queue_committed'[x][y] = queue_committed[x][y]
                    - When(a \in HeldBy(x, y, "Committed"), UnitsHeld[a])
                    + When((a \in HeldBy(x, y, "Committed"))', UnitsHeld'[a])
    <3>1. /\ When(a \in HeldBy(x, y, "Reserved"), UnitsHeld[a])
               = When(x = r.pool /\ y = r.queue, r.units)
          /\ When((a \in HeldBy(x, y, "Reserved"))', UnitsHeld'[a]) = 0
      BY <1>4, <1>5 DEF When
    <3>2. /\ When(a \in HeldBy(x, y, "Committed"), UnitsHeld[a]) = 0
          /\ When((a \in HeldBy(x, y, "Committed"))', UnitsHeld'[a])
               = When(x = r.pool /\ y = r.queue, r.units)
      BY <1>4, <1>5 DEF When
    <3>3. When(x = r.pool /\ y = r.queue, r.units) \in Int
      BY <1>1 DEF When
    <3>4. queue_reserved'[x][y] = queue_reserved[x][y]
             - When(a \in HeldBy(x, y, "Reserved"), UnitsHeld[a])
             + When((a \in HeldBy(x, y, "Reserved"))', UnitsHeld'[a])
      BY <1>8, <3>1, <3>3
    <3>5. queue_committed'[x][y] = queue_committed[x][y]
             - When(a \in HeldBy(x, y, "Committed"), UnitsHeld[a])
             + When((a \in HeldBy(x, y, "Committed"))', UnitsHeld'[a])
      BY <1>8, <3>2, <3>3
    <3> QED  BY <3>4, <3>5
  <2> QED  BY <2>1, <2>2 DEF PointMoved
<1>10. AggregatesMatchRecords'
  BY <1>2, <1>9, PointStep
<1>11. OwnUsageMatches'
  <2> SUFFICES ASSUME NEW x \in Pools
               PROVE  usage'[x].own_usage + usage'[x].borrowed_in
                        = usage'[x].reserved_units + usage'[x].committed_units
                            + usage'[x].lent_out
    BY DEF OwnUsageMatches
  <2>1. usage[x].own_usage + usage[x].borrowed_in
          = usage[x].reserved_units + usage[x].committed_units + usage[x].lent_out
    BY DEF OwnUsageMatches
  <2>2. /\ usage[x].reserved_units \in Int
        /\ usage[x].committed_units \in Int
        /\ usage[x].lent_out \in Int
    BY <1>6, UsageFields
  <2>3. When(x = r.pool, r.units) \in Int
    BY <1>1 DEF When
  <2> QED  BY <1>6, <2>1, <2>2, <2>3
<1>12. StructOK'
  <2>1. usage' \in [Pools -> IntUsage]
    BY <1>6 DEF Commit, StructOK
  <2>2. \A x \in Pools, y \in Queues : /\ queue_reserved'[x][y] \in Int
                                       /\ queue_committed'[x][y] \in Int
    BY <1>1, <1>8 DEF When
  <2>3. /\ queue_reserved' \in [Pools -> [Queues -> Int]]
        /\ queue_committed' \in [Pools -> [Queues -> Int]]
    BY <1>1, <2>2 DEF Commit, StructOK
  <2>4. shutting_down' \in BOOLEAN
    BY DEF Commit, LatchUnlessClosed
  <2> QED  BY <1>2, <2>1, <2>3, <2>4 DEF Commit, StructOK, topology
<1>13. PoolsSound'
  <2>1. pools' = pools
    BY DEF Commit, topology
  <2>2. \A x \in Pools : /\ Allocated(usage'[x]) = Allocated(usage[x])
                         /\ usage'[x].lent_out = usage[x].lent_out
    BY <1>1, <1>6 DEF Allocated, When, IntUsage
  <2> QED  BY <2>1, <2>2 DEF PoolsSound
<1>14. RecordsSound'
  <2> SUFFICES ASSUME NEW x \in AllocIds
               PROVE  /\ x >= next_allocation_id' => allocations'[x].state = "None"
                      /\ (Holding(x))' =>
                            /\ allocations'[x].pool \in Pools
                            /\ allocations'[x].queue \in Queues
                            /\ allocations'[x].borrow_units <= allocations'[x].units
                            /\ allocations'[x].borrow_units # 0
                                  => allocations'[x].lender \in Pools
                            /\ \E s \in AllocateRequests :
                                  allocations'[x].units <= s.requested_units
    BY DEF RecordsSound
  <2>1. next_allocation_id' = next_allocation_id
    BY DEF Commit
  <2>2. CASE x = a
    <3>1. Holding(a) /\ ~(a >= next_allocation_id)
      BY <1>1 DEF RecordsSound, Holding, allocation_holds_units
    <3> QED  BY <1>3, <2>1, <2>2, <3>1 DEF RecordsSound
  <2>3. CASE x # a
    <3>1. allocations'[x] = allocations[x]
      BY <1>2, <2>3
    <3> QED  BY <2>1, <3>1 DEF RecordsSound, Holding
  <2> QED  BY <2>2, <2>3
<1> QED  BY <1>10, <1>11, <1>12, <1>13, <1>14

\* No record changes in what the aggregates are made of.
SameHoldings ==
    /\ allocations' \in [AllocIds -> AllocationRecord]
    /\ \A a \in AllocIds :
          /\ allocations'[a].state = allocations[a].state
          /\ allocations'[a].pool = allocations[a].pool
          /\ allocations'[a].queue = allocations[a].queue
          /\ allocations'[a].units = allocations[a].units
          /\ allocations'[a].borrow_units = allocations[a].borrow_units
          /\ allocations'[a].lender = allocations[a].lender
          /\ allocations'[a].reclaim_class = allocations[a].reclaim_class

\* What is left to show of the invariant when the ledger is as RevokeStep
\* leaves it, or the same but for the members.
LEMMA RestOfStep ==
    ASSUME IInv,
           \/ /\ \E V \in SUBSET AllocIds, st \in {"Fenced", "Reclaimed", "Expired"} :
                    Revoke(V, st) /\ \A a \in V : Holding(a)
           \/ /\ UNCHANGED <<usage, queue_reserved, queue_committed>>
              /\ SameHoldings
              /\ members' \in [Pools -> SUBSET AllocIds],
           next_allocation_id' = next_allocation_id,
           policies' \in [Policies -> PolicyEntry],
           pools' \in [Pools -> PoolDescriptor],
           \A p \in Pools : IF pools'[p].generation = 0
                            THEN /\ pools'[p] = Erased
                                 /\ Allocated(usage[p]) = 0
                                 /\ usage[p].lent_out = 0
                            ELSE pools'[p].policy \in Policies,
           queues' \in [Queues -> QueueDescriptor],
           pressure' \in [Pools -> PressureSnapshot],
           capacity' \in Nat,
           open' \in BOOLEAN,
           shutting_down' \in BOOLEAN,
           tick' \in Nat
    PROVE  IInv'
<1> USE DEF IInv
<1>1. /\ usage' \in [Pools -> IntUsage]
      /\ queue_reserved' \in [Pools -> [Queues -> Int]]
      /\ queue_committed' \in [Pools -> [Queues -> Int]]
      /\ members' \in [Pools -> SUBSET AllocIds]
      /\ allocations' \in [AllocIds -> AllocationRecord]
      /\ RecordsSound'
      /\ AggregatesMatchRecords'
      /\ OwnUsageMatches'
      /\ \A p \in Pools : /\ Allocated(usage'[p]) <= Allocated(usage[p])
                          /\ usage'[p].lent_out <= usage[p].lent_out
  <2>1. CASE \E V \in SUBSET AllocIds, st \in {"Fenced", "Reclaimed", "Expired"} :
                Revoke(V, st) /\ \A a \in V : Holding(a)
    BY <2>1, RevokeStep
  <2>2. CASE /\ UNCHANGED <<usage, queue_reserved, queue_committed>>
             /\ SameHoldings
             /\ members' \in [Pools -> SUBSET AllocIds]
    <3>1. /\ usage' = usage
          /\ queue_reserved' = queue_reserved
          /\ queue_committed' = queue_committed
      BY <2>2
    <3>2. AggregatesMatchRecords'
      <4>1. UnitsHeld' = UnitsHeld /\ BorrowHeld' = BorrowHeld
        BY <2>2 DEF UnitsHeld, BorrowHeld, SameHoldings
      <4>2. \A p, s : /\ HeldIn(p, s)' = HeldIn(p, s)
                      /\ HeldAs(p, s)' = HeldAs(p, s)
                      /\ HeldAny(p)' = HeldAny(p)
                      /\ LentBy(p)' = LentBy(p)
        BY <2>2 DEF HeldIn, HeldAs, HeldAny, LentBy, Holding, SameHoldings
      <4>3. \A p, q, s : HeldBy(p, q, s)' = HeldBy(p, q, s)
        BY <2>2, <4>2, HeldSets DEF HeldBy, SameHoldings
      <4> QED  BY <3>1, <4>1, <4>2, <4>3 DEF AggregatesMatchRecords
    <3>3. RecordsSound' /\ OwnUsageMatches'
      <4>1. RecordsSound'
        BY <2>2, Zenon DEF RecordsSound, Holding, SameHoldings
      <4>2. OwnUsageMatches'
        BY <3>1, Zenon DEF OwnUsageMatches
      <4> QED  BY <4>1, <4>2
    <3>4. \A p \in Pools : /\ Allocated(usage[p]) \in Int
                           /\ usage[p].lent_out \in Int
      BY DEF StructOK, IntUsage, Allocated
    <3> QED  BY <2>2, <3>1, <3>2, <3>3, <3>4 DEF StructOK, SameHoldings
  <2> QED  BY <2>1, <2>2
<1>2. StructOK'
  BY <1>1 DEF StructOK
<1>3. PoolsSound'
  <2> SUFFICES ASSUME NEW p \in Pools, pools'[p].generation = 0
               PROVE  Allocated(usage'[p]) = 0 /\ usage'[p].lent_out = 0
    BY DEF PoolsSound
  <2>1. Allocated(usage[p]) = 0 /\ usage[p].lent_out = 0
    OBVIOUS
  <2>2. /\ usage'[p].lent_out = Total(LentBy(p)', BorrowHeld')
        /\ usage'[p].reserved_units = Total(HeldIn(p, "Reserved")', UnitsHeld')
        /\ usage'[p].committed_units = Total(HeldIn(p, "Committed")', UnitsHeld')
    BY <1>1 DEF AggregatesMatchRecords
  <2>3. /\ usage'[p].lent_out \in Nat
        /\ usage'[p].reserved_units \in Nat
        /\ usage'[p].committed_units \in Nat
    <3>1. \A z \in AllocIds : UnitsHeld'[z] \in Nat /\ BorrowHeld'[z] \in Nat
      BY <1>1 DEF UnitsHeld, BorrowHeld, AllocationRecord, AtMost
    <3>2. /\ LentBy(p)' \in SUBSET AllocIds
          /\ HeldIn(p, "Reserved")' \in SUBSET AllocIds
          /\ HeldIn(p, "Committed")' \in SUBSET AllocIds
      BY DEF LentBy, HeldIn
    <3>3. /\ IsFiniteSet(LentBy(p)')
          /\ IsFiniteSet(HeldIn(p, "Reserved")')
          /\ IsFiniteSet(HeldIn(p, "Committed")')
      BY <3>2, AllocationsFinite
    <3>4. /\ Total(LentBy(p)', BorrowHeld') \in Nat
          /\ Total(HeldIn(p, "Reserved")', UnitsHeld') \in Nat
          /\ Total(HeldIn(p, "Committed")', UnitsHeld') \in Nat
      BY <3>1, <3>2, <3>3, TotalType
    <3> QED  BY <2>2, <3>4
  <2>4. Allocated(usage'[p]) <= 0 /\ usage'[p].lent_out <= 0
    BY <1>1, <2>1
  <2> QED  BY <2>3, <2>4, SumOfNone, NoneAtMost, Zenon DEF Allocated
<1> QED  BY <1>1, <1>2, <1>3
-----------------------------------------------------------------------------
(* Every step.                                                             *)

\* A fabric that was just opened accounts for its units.
LEMMA InitEstablishes ==
    ASSUME Init
    PROVE  IInv
<1> USE DEF Init
<1>1. StructOK
  <2>1. policies \in [Policies -> PolicyEntry]
    BY InputAssumption DEF PolicyEntry
  <2>2. pools \in [Pools -> PoolDescriptor] /\ queues \in [Queues -> QueueDescriptor]
    BY DEF Erased, PoolDescriptor, NoDescriptor, QueueDescriptor
  <2>3. usage \in [Pools -> IntUsage]
    BY DEF NoUsage, IntUsage
  <2>4. /\ queue_reserved \in [Pools -> [Queues -> Int]]
        /\ queue_committed \in [Pools -> [Queues -> Int]]
    BY DEF EmptyBuckets
  <2>5. allocations \in [AllocIds -> AllocationRecord]
    BY DEF NoRecord, AllocationRecord, AllocationState
  <2>6. pressure \in [Pools -> PressureSnapshot]
    BY DEF NoSnapshot, PressureSnapshot
  <2>7. next_allocation_id \in 1..(kMaxAllocationCount + 1)
    BY BoundAssumption
  <2> QED  BY <2>1, <2>2, <2>3, <2>4, <2>5, <2>6, <2>7 DEF StructOK
<1>2. PoolsSound
  BY DEF PoolsSound, Erased, NoUsage, Allocated
<1>3. \A a \in AllocIds : allocations[a].state = "None" /\ ~Holding(a)
  BY DEF NoRecord, Holding, allocation_holds_units
<1>4. RecordsSound
  BY <1>3 DEF RecordsSound
<1>5. AggregatesMatchRecords
  <2>1. \A p, q : /\ HeldIn(p, "Reserved") = {}
                  /\ HeldIn(p, "Committed") = {}
                  /\ HeldBy(p, q, "Reserved") = {}
                  /\ HeldBy(p, q, "Committed") = {}
                  /\ HeldAs(p, "Pinned") = {}
                  /\ HeldAs(p, "Reclaimable") = {}
                  /\ HeldAny(p) = {}
                  /\ LentBy(p) = {}
    BY <1>3 DEF HeldIn, HeldBy, HeldAs, HeldAny, LentBy
  <2>2. Total({}, UnitsHeld) = 0 /\ Total({}, BorrowHeld) = 0
    BY TotalEmpty
  <2> QED  BY <2>1, <2>2 DEF AggregatesMatchRecords, NoUsage, EmptyBuckets
<1>6. OwnUsageMatches
  BY DEF OwnUsageMatches, NoUsage
<1> QED  BY <1>1, <1>2, <1>4, <1>5, <1>6 DEF IInv

\* A pool that holds and lends nothing has nothing in any aggregate.
LEMMA EmptyPool ==
    ASSUME IInv, NEW p \in Pools, Allocated(usage[p]) = 0, usage[p].lent_out = 0
    PROVE  /\ usage[p] = NoUsage
           /\ queue_reserved[p] = EmptyBuckets
           /\ queue_committed[p] = EmptyBuckets
<1> USE DEF IInv
<1>1. usage[p] \in Usage
  BY InvariantTypes DEF TypeOK
<1>2. usage[p].reserved_units = 0 /\ usage[p].committed_units = 0
  BY <1>1 DEF Usage, Allocated
<1>3. /\ Total(HeldIn(p, "Reserved"), UnitsHeld) = 0
      /\ Total(HeldIn(p, "Committed"), UnitsHeld) = 0
  BY <1>2 DEF AggregatesMatchRecords
<1>4. Total(HeldAny(p), UnitsHeld) = 0
  BY <1>3, HeldSplit
<1>5. \A S \in SUBSET AllocIds : \A T \in SUBSET S :
         Total(S, UnitsHeld) = 0 => Total(T, UnitsHeld) = 0 /\ Total(T, BorrowHeld) = 0
  <2> SUFFICES ASSUME NEW S \in SUBSET AllocIds, NEW T \in SUBSET S, Total(S, UnitsHeld) = 0
               PROVE  Total(T, UnitsHeld) = 0 /\ Total(T, BorrowHeld) = 0
    OBVIOUS
  <2>1. IsFiniteSet(S)
    BY AllocationsFinite
  <2>2. \A a \in S : UnitsHeld[a] \in Nat /\ BorrowHeld[a] \in Nat /\ BorrowHeld[a] <= UnitsHeld[a]
    BY HeldTyped
  <2>3. \A a \in S : UnitsHeld[a] <= UnitsHeld[a]
    BY <2>2
  <2>4. Total(T, UnitsHeld) <= Total(S, UnitsHeld) /\ Total(T, BorrowHeld) <= Total(S, UnitsHeld)
    BY <2>1, <2>2, <2>3, TotalMonotone
  <2>5. Total(T, UnitsHeld) \in Nat /\ Total(T, BorrowHeld) \in Nat
    BY TotalsTyped
  <2> QED  BY <2>4, <2>5
<1>6. /\ Total(HeldAny(p), BorrowHeld) = 0
      /\ Total(HeldAs(p, "Pinned"), UnitsHeld) = 0
      /\ Total(HeldAs(p, "Reclaimable"), UnitsHeld) = 0
  <2>1. /\ HeldAny(p) \in SUBSET AllocIds
        /\ HeldAs(p, "Pinned") \in SUBSET HeldAny(p)
        /\ HeldAs(p, "Reclaimable") \in SUBSET HeldAny(p)
        /\ HeldAny(p) \in SUBSET HeldAny(p)
    BY DEF HeldAny, HeldAs
  <2> QED  BY <1>4, <1>5, <2>1
<1>7. \A q : /\ Total(HeldBy(p, q, "Reserved"), UnitsHeld) = 0
             /\ Total(HeldBy(p, q, "Committed"), UnitsHeld) = 0
  <2>1. \A q : /\ HeldBy(p, q, "Reserved") \in SUBSET HeldIn(p, "Reserved")
               /\ HeldBy(p, q, "Committed") \in SUBSET HeldIn(p, "Committed")
    BY DEF HeldBy
  <2> QED  BY <1>3, <1>5, <2>1, HeldSets
<1>8. /\ usage[p].pinned_units = 0
      /\ usage[p].reclaimable_units = 0
      /\ usage[p].borrowed_in = 0
  BY <1>6 DEF AggregatesMatchRecords
<1>9. usage[p].own_usage = 0
  BY <1>1, <1>2, <1>8 DEF OwnUsageMatches, Usage
<1>10. usage[p] = NoUsage
  BY <1>1, <1>2, <1>8, <1>9 DEF Usage, NoUsage
<1>11. \A q \in Queues : queue_reserved[p][q] = 0 /\ queue_committed[p][q] = 0
  BY <1>7 DEF AggregatesMatchRecords
<1>12. queue_reserved[p] = EmptyBuckets /\ queue_committed[p] = EmptyBuckets
  BY <1>11 DEF StructOK, EmptyBuckets
<1> QED  BY <1>10, <1>12

\* The parts of the state that an operation leaves alone keep their shape.
LEMMA Frame ==
    ASSUME IInv
    PROVE  /\ policies \in [Policies -> PolicyEntry]
           /\ pools \in [Pools -> PoolDescriptor]
           /\ queues \in [Queues -> QueueDescriptor]
           /\ members \in [Pools -> SUBSET AllocIds]
           /\ pressure \in [Pools -> PressureSnapshot]
           /\ capacity \in Nat
           /\ open \in BOOLEAN
           /\ shutting_down \in BOOLEAN
           /\ tick \in Nat
           /\ \A p \in Pools : IF pools[p].generation = 0
                               THEN /\ pools[p] = Erased
                                    /\ Allocated(usage[p]) = 0
                                    /\ usage[p].lent_out = 0
                               ELSE pools[p].policy \in Policies
           /\ UNCHANGED allocations => SameHoldings
BY DEF IInv, StructOK, PoolsSound, SameHoldings

\* The operations that revoke allocations of their own choice.
LEMMA RevokingSteps ==
    ASSUME IInv,
           \/ \E p \in Pools : FenceStale(p) \/ ExpireReservations(p)
           \/ \E p \in Pools, n \in ReclaimTargets : ApplyReclaim(p, n)
           \/ \E q \in Queues : RetireQueue(q) \/ \E p \in Pools : RetargetQueue(q, p)
           \/ \E x \in Policies, b \in PolicyBodies : PublishPolicy(x, b)
           \/ \E p \in Pools, s \in Resizes : ResizePool(p, s)
    PROVE  IInv'
<1> DEFINE Revokes == \E V \in SUBSET AllocIds, st \in {"Fenced", "Reclaimed", "Expired"} :
                         Revoke(V, st) /\ \A a \in V : Holding(a)
<1>1. ASSUME NEW p \in Pools, FenceStale(p)
      PROVE  IInv'
  <2>1. Revokes
    <3>1. {a \in members[p] : Holding(a) /\ is_stale_binding(a)} \in SUBSET AllocIds
      BY Frame
    <3> QED  BY <1>1, <3>1, RevokesAll DEF FenceStale
  <2>2. UNCHANGED <<topology, next_allocation_id, pressure, lifecycle, tick>>
    BY <1>1 DEF FenceStale
  <2> QED  BY <2>1, <2>2, Frame, RestOfStep DEF topology, lifecycle
<1>2. ASSUME NEW p \in Pools, ExpireReservations(p)
      PROVE  IInv'
  <2>1. Revokes
    <3> DEFINE V == {a \in members[p] : /\ allocations[a].state = "Reserved"
                                        /\ ExpiryOf(p, a) # 0
                                        /\ tick >= ExpiryOf(p, a)}
    <3>1. V \in SUBSET AllocIds
      BY Frame
    <3>2. \A a \in V : Holding(a)
      BY DEF Holding, allocation_holds_units
    <3>3. RevokeInTurn(V, "Expired")
      BY <1>2 DEF ExpireReservations
    <3> HIDE DEF V
    <3> QED  BY <3>1, <3>2, <3>3, RevokesAll
  <2>2. UNCHANGED <<topology, next_allocation_id, pressure, lifecycle, tick>>
    BY <1>2 DEF ExpireReservations
  <2> QED  BY <2>1, <2>2, Frame, RestOfStep DEF topology, lifecycle
<1>3. ASSUME NEW p \in Pools, NEW n \in ReclaimTargets, ApplyReclaim(p, n)
      PROVE  IInv'
  <2>1. Revokes
    <3>1. \A c : /\ Candidates(p, c) \in SUBSET AllocIds
                 /\ \A a \in Candidates(p, c) : Holding(a)
      BY Frame DEF Candidates
    <3>2. \A C, Z : Accepted(p, n, C, Z) \subseteq C
      BY DEF Accepted
    <3>3. /\ ReclaimPlan(p, n) \in SUBSET AllocIds
          /\ \A a \in ReclaimPlan(p, n) : Holding(a)
      BY <3>1, <3>2 DEF ReclaimPlan
    <3> QED  BY <1>3, <3>3, RevokesAll DEF ApplyReclaim
  <2>2. /\ UNCHANGED <<topology, next_allocation_id, pressure, open, tick>>
        /\ shutting_down' \in BOOLEAN
    BY <1>3, Frame DEF ApplyReclaim, LatchAfter, LatchUnlessClosed
  <2> QED  BY <2>1, <2>2, Frame, RestOfStep DEF topology
<1>4. \A q : /\ HeldByQueue(q) \in SUBSET AllocIds
             /\ \A a \in HeldByQueue(q) : Holding(a)
  BY DEF HeldByQueue
<1>5. ASSUME NEW q \in Queues, RetireQueue(q)
      PROVE  IInv'
  <2>1. Revokes
    <3> DEFINE V == IF auto_fence_on_queue_retirement THEN HeldByQueue(q) ELSE {}
    <3>1. V \in SUBSET AllocIds /\ \A a \in V : Holding(a)
      BY <1>4
    <3>2. RevokeInTurn(V, "Fenced")
      BY <1>5 DEF RetireQueue
    <3> HIDE DEF V
    <3> QED  BY <3>1, <3>2, RevokesAll
  <2>2. /\ UNCHANGED <<policies, pools, capacity, next_allocation_id, pressure, lifecycle, tick>>
        /\ queues' = [queues EXCEPT ![q].retired = TRUE, ![q].generation = @ + 1]
    BY <1>5 DEF RetireQueue
  <2>3. queues' \in [Queues -> QueueDescriptor]
    BY <2>2, Frame DEF QueueDescriptor
  <2> QED  BY <2>1, <2>2, <2>3, Frame, RestOfStep DEF lifecycle
<1>6. ASSUME NEW q \in Queues, NEW p \in Pools, RetargetQueue(q, p)
      PROVE  IInv'
  <2>1. Revokes
    BY <1>4, <1>6, RevokesAll DEF RetargetQueue
  <2>2. /\ UNCHANGED <<policies, pools, capacity, next_allocation_id, pressure, lifecycle, tick>>
        /\ queues' = [queues EXCEPT ![q].pool = p, ![q].generation = @ + 1]
    BY <1>4, <1>6, HeldRevocable DEF RetargetQueue
  <2>3. queues' \in [Queues -> QueueDescriptor]
    BY <2>2, Frame DEF QueueDescriptor
  <2> QED  BY <2>1, <2>2, <2>3, Frame, RestOfStep DEF lifecycle
<1>7. ASSUME NEW x \in Policies, NEW b \in PolicyBodies, PublishPolicy(x, b)
      PROVE  IInv'
  <2> DEFINE generation == policies[x].generation + 1
             victims == {a \in UNION {members[p] : p \in {y \in Pools : pools[y].policy = x}} :
                            Holding(a) /\ allocations[a].policy_generation # generation}
  <2>1. Revokes
    <3>1. victims \in SUBSET AllocIds /\ \A a \in victims : Holding(a)
      BY Frame
    <3>2. RevokeInTurn(IF b.fence_on_generation_change THEN victims ELSE {}, "Fenced")
      BY <1>7 DEF PublishPolicy
    <3> HIDE DEF victims
    <3> QED  BY <3>1, <3>2, RevokesAll
  <2>2. /\ UNCHANGED <<pools, queues, capacity, next_allocation_id, pressure, lifecycle, tick>>
        /\ policies' = [policies EXCEPT ![x] = [generation |-> generation, body |-> b]]
    BY <1>7 DEF PublishPolicy
  <2>3. policies' \in [Policies -> PolicyEntry]
    <3>1. policies[x].generation \in Nat
      BY Frame, Zenon DEF PolicyEntry
    <3>2. generation \in Nat
      BY <3>1, Successor, Zenon
    <3>3. b \in PolicyBody
      BY InputAssumption, Zenon
    <3> HIDE DEF generation
    <3>4. [generation |-> generation, body |-> b] \in PolicyEntry
      BY <3>2, <3>3, Zenon DEF PolicyEntry
    <3> QED  BY <2>2, <3>4, Frame, Zenon
  <2> QED  BY <2>1, <2>2, <2>3, Frame, RestOfStep DEF lifecycle
<1>8. ASSUME NEW p \in Pools, NEW s \in Resizes, ResizePool(p, s)
      PROVE  IInv'
  <2> DEFINE d == [pools[p] EXCEPT !.raw_units = s.raw_units,
                                   !.protected_units = s.protected_units,
                                   !.generation = @ + 1]
  <2>1. Revokes
    <3>1. /\ EnforceVictims(p, d) \in SUBSET AllocIds
          /\ \A a \in EnforceVictims(p, d) : Holding(a)
      BY Frame DEF EnforceVictims
    <3>2. RevokeInTurn(EnforceVictims(p, d), "Fenced")
      BY <1>8 DEF ResizePool
    <3> HIDE DEF d
    <3> QED  BY <3>1, <3>2, RevokesAll
  <2>2. /\ UNCHANGED <<policies, queues, capacity, next_allocation_id, pressure, open, tick>>
        /\ pools' = [pools EXCEPT ![p] = d]
        /\ shutting_down' \in BOOLEAN
        /\ pools[p].generation # 0
    BY <1>8, Frame DEF ResizePool, LatchAfter, LatchUnlessClosed, Registered
  <2>3. /\ d \in PoolDescriptor
        /\ d.generation # 0
        /\ d.policy = pools[p].policy
    <3>1. pools[p] \in PoolDescriptor /\ s \in Resize
      BY Frame, InputAssumption
    <3>2. /\ s.raw_units \in Nat
          /\ s.protected_units \in Nat
          /\ pools[p].generation + 1 \in Nat
          /\ pools[p].generation + 1 # 0
      BY <3>1 DEF PoolDescriptor, Resize
    <3> QED  BY <3>1, <3>2 DEF PoolDescriptor
  <2> HIDE DEF d
  <2>4. pools' \in [Pools -> PoolDescriptor]
    BY <2>2, <2>3, Frame
  <2>5. \A x \in Pools : IF pools'[x].generation = 0
                         THEN /\ pools'[x] = Erased
                              /\ Allocated(usage[x]) = 0
                              /\ usage[x].lent_out = 0
                         ELSE pools'[x].policy \in Policies
    BY <2>2, <2>3, Frame
  <2> QED  BY <2>1, <2>2, <2>4, <2>5, Frame, RestOfStep
<1> QED  BY <1>1, <1>2, <1>3, <1>5, <1>6, <1>7, <1>8

\* Registering and removing pools: the aggregates they reset are zero already.
LEMMA PoolSetSteps ==
    ASSUME IInv,
           \/ \E p \in Pools, r \in PoolRegistrations : RegisterPool(p, r)
           \/ \E p \in Pools : RemovePool(p)
    PROVE  IInv'
<1>1. ASSUME NEW p \in Pools, NEW r \in PoolRegistrations, RegisterPool(p, r)
      PROVE  IInv'
  <2>1. /\ pools[p].generation = 0
        /\ policies[r.policy].generation # 0
        /\ pools' = [pools EXCEPT ![p] =
                        [generation |-> 1, raw_units |-> r.raw_units,
                         protected_units |-> r.protected_units, parent |-> r.parent,
                         policy |-> r.policy]]
        /\ usage' = [usage EXCEPT ![p] = NoUsage]
        /\ queue_reserved' = [queue_reserved EXCEPT ![p] = EmptyBuckets]
        /\ queue_committed' = [queue_committed EXCEPT ![p] = EmptyBuckets]
        /\ members' = [members EXCEPT ![p] = {}]
        /\ UNCHANGED <<policies, queues, capacity, allocations, next_allocation_id, pressure,
                       lifecycle, tick>>
    BY <1>1 DEF RegisterPool
  <2>2. /\ usage[p] = NoUsage
        /\ queue_reserved[p] = EmptyBuckets
        /\ queue_committed[p] = EmptyBuckets
    BY <2>1, Frame, EmptyPool
  <2>3. UNCHANGED <<usage, queue_reserved, queue_committed>>
    BY <2>1, <2>2 DEF IInv, StructOK
  <2>4. members' \in [Pools -> SUBSET AllocIds]
    BY <2>1, Frame
  <2>5. r \in PoolRegistration
    BY InputAssumption
  <2>6. pools' \in [Pools -> PoolDescriptor]
    BY <2>1, <2>5, Frame DEF PoolRegistration, PoolDescriptor
  <2>7. \A x \in Pools : IF pools'[x].generation = 0
                         THEN /\ pools'[x] = Erased
                              /\ Allocated(usage[x]) = 0
                              /\ usage[x].lent_out = 0
                         ELSE pools'[x].policy \in Policies
    BY <2>1, <2>5, Frame DEF PoolRegistration
  <2> QED  BY <2>1, <2>3, <2>4, <2>6, <2>7, Frame, RestOfStep DEF lifecycle
<1>2. ASSUME NEW p \in Pools, RemovePool(p)
      PROVE  IInv'
  <2>1. /\ usage[p].lent_out = 0
        /\ Allocated(usage[p]) = 0
        /\ pools' = [pools EXCEPT ![p] = Erased]
        /\ usage' = [usage EXCEPT ![p] = NoUsage]
        /\ queue_reserved' = [queue_reserved EXCEPT ![p] = EmptyBuckets]
        /\ queue_committed' = [queue_committed EXCEPT ![p] = EmptyBuckets]
        /\ members' = [members EXCEPT ![p] = {}]
        /\ pressure' = [pressure EXCEPT ![p] = NoSnapshot]
        /\ queues' = [q \in Queues |-> IF queues[q].pool = p THEN NoDescriptor ELSE queues[q]]
        /\ UNCHANGED <<policies, capacity, allocations, next_allocation_id, lifecycle, tick>>
    BY <1>2 DEF RemovePool
  <2>2. /\ usage[p] = NoUsage
        /\ queue_reserved[p] = EmptyBuckets
        /\ queue_committed[p] = EmptyBuckets
    BY <2>1, EmptyPool
  <2>3. UNCHANGED <<usage, queue_reserved, queue_committed>>
    BY <2>1, <2>2 DEF IInv, StructOK
  <2>4. members' \in [Pools -> SUBSET AllocIds]
    BY <2>1, Frame
  <2>5. /\ pools' \in [Pools -> PoolDescriptor]
        /\ pressure' \in [Pools -> PressureSnapshot]
        /\ queues' \in [Queues -> QueueDescriptor]
    <3>1. Erased \in PoolDescriptor
      BY DEF Erased, PoolDescriptor
    <3>2. NoSnapshot \in PressureSnapshot
      BY DEF NoSnapshot, PressureSnapshot
    <3>3. NoDescriptor \in QueueDescriptor
      BY DEF NoDescriptor, QueueDescriptor
    <3> QED  BY <2>1, <3>1, <3>2, <3>3, Frame
  <2>6. \A x \in Pools : IF pools'[x].generation = 0
                         THEN /\ pools'[x] = Erased
                              /\ Allocated(usage[x]) = 0
                              /\ usage[x].lent_out = 0
                         ELSE pools'[x].policy \in Policies
    <3>1. Erased.generation = 0
      BY DEF Erased
    <3> QED  BY <2>1, <3>1, Frame
  <2> QED  BY <2>1, <2>3, <2>4, <2>5, <2>6, Frame, RestOfStep DEF lifecycle
<1> QED  BY <1>1, <1>2

\* Operations that leave every aggregate and every holding alone.
LEMMA QuietSteps ==
    ASSUME IInv,
           \/ \E n \in Capacities : SetCapacity(n)
           \/ \E q \in Queues, r \in QueueRegistrations : RegisterQueue(q, r)
           \/ \E q \in Queues, n \in Demands : UpdateQueueDemand(q, n)
           \/ \E p \in Pools, r \in PressureReports : ObservePressure(p, r)
           \/ \E a \in AllocIds : Revalidate(a)
           \/ BeginShutdown \/ Close \/ Open \/ Tick
    PROVE  IInv'
<1>1. ASSUME UNCHANGED ledger
      PROVE  /\ UNCHANGED <<usage, queue_reserved, queue_committed>>
             /\ SameHoldings
             /\ members' \in [Pools -> SUBSET AllocIds]
  BY <1>1, Frame DEF ledger
<1>2. ASSUME NEW n \in Capacities, SetCapacity(n)
      PROVE  IInv'
  <2>1. /\ UNCHANGED <<policies, pools, queues, ledger, next_allocation_id, pressure,
                       lifecycle, tick>>
        /\ capacity' \in Nat
    BY <1>2, InputAssumption DEF SetCapacity
  <2> QED  BY <1>1, <2>1, Frame, RestOfStep DEF lifecycle
<1>3. ASSUME NEW q \in Queues, NEW r \in QueueRegistrations, RegisterQueue(q, r)
      PROVE  IInv'
  <2>1. /\ UNCHANGED <<policies, pools, capacity, ledger, next_allocation_id, pressure,
                       lifecycle, tick>>
        /\ queues' = [queues EXCEPT ![q] =
                         [generation |-> 1, pool |-> r.pool, retired |-> FALSE,
                          demand_units |-> r.demand_units,
                          max_committed_units |-> r.max_committed_units]]
    BY <1>3 DEF RegisterQueue
  <2>2. queues' \in [Queues -> QueueDescriptor]
    BY <2>1, Frame, InputAssumption DEF QueueRegistration, QueueDescriptor
  <2> QED  BY <1>1, <2>1, <2>2, Frame, RestOfStep DEF lifecycle
<1>4. ASSUME NEW q \in Queues, NEW n \in Demands, UpdateQueueDemand(q, n)
      PROVE  IInv'
  <2>1. /\ UNCHANGED <<policies, pools, capacity, ledger, next_allocation_id, pressure,
                       lifecycle, tick>>
        /\ queues' = [queues EXCEPT ![q].demand_units = n]
    BY <1>4 DEF UpdateQueueDemand
  <2>2. queues' \in [Queues -> QueueDescriptor]
    BY <2>1, Frame, InputAssumption DEF QueueDescriptor
  <2> QED  BY <1>1, <2>1, <2>2, Frame, RestOfStep DEF lifecycle
<1>5. ASSUME NEW p \in Pools, NEW r \in PressureReports, ObservePressure(p, r)
      PROVE  IInv'
  <2> DEFINE s == [generation |-> pools[p].generation,
                   observed_at |-> IF r.observed_at = 0 THEN tick ELSE r.observed_at,
                   ttl_ticks |-> IF r.ttl_ticks = 0 THEN PolicyOf(p).evidence_ttl_ticks
                                 ELSE r.ttl_ticks,
                   committed |-> r.committed]
  <2>1. /\ UNCHANGED <<topology, ledger, next_allocation_id, lifecycle, tick>>
        /\ pressure' = [pressure EXCEPT ![p] = s]
        /\ pools[p].generation # 0
    BY <1>5 DEF ObservePressure, Registered
  <2>2. PolicyOf(p).evidence_ttl_ticks \in Nat
    <3>1. pools[p].policy \in Policies
      BY <2>1, Frame
    <3> QED  BY <3>1, Frame DEF PolicyOf, PolicyEntry, PolicyBody
  <2>3. s \in PressureSnapshot
    BY <2>2, Frame, InputAssumption DEF PoolDescriptor, PressureReport, PressureSnapshot
  <2> HIDE DEF s
  <2>4. pressure' \in [Pools -> PressureSnapshot]
    BY <2>1, <2>3, Frame
  <2> QED  BY <1>1, <2>1, <2>4, Frame, RestOfStep DEF topology, lifecycle
<1>6. ASSUME NEW a \in AllocIds, Revalidate(a)
      PROVE  IInv'
  <2> DEFINE r == allocations[a]
             t == [r EXCEPT !.pool_generation = pools[r.pool].generation,
                            !.queue_generation = queues[r.queue].generation,
                            !.policy_generation = policies[pools[r.pool].policy].generation,
                            !.last_touched = tick]
  <2>1. /\ UNCHANGED <<topology, usage, queue_reserved, queue_committed, members,
                       next_allocation_id, pressure, lifecycle, tick>>
        /\ r \in AllocationRecord
        /\ Holding(a)
        /\ pools[r.pool].generation # 0
    BY <1>6 DEF Revalidate, Registered, IInv, StructOK
  <2>2. allocations' = [allocations EXCEPT ![a] = t]
    BY <1>6 DEF Revalidate, IInv, StructOK
  <2>3. /\ r.pool \in Pools
        /\ r.queue \in Queues
    BY <2>1 DEF IInv, RecordsSound
  <2>4. /\ pools[r.pool].generation \in Nat
        /\ queues[r.queue].generation \in Nat
        /\ policies[pools[r.pool].policy].generation \in Nat
        /\ tick \in Nat
    BY <2>1, <2>3, Frame DEF PoolDescriptor, QueueDescriptor, PolicyEntry
  <2>5. t \in AllocationRecord
    BY <2>1, <2>4 DEF AllocationRecord
  <2>6. /\ t.state = r.state
        /\ t.pool = r.pool
        /\ t.queue = r.queue
        /\ t.units = r.units
        /\ t.borrow_units = r.borrow_units
        /\ t.lender = r.lender
        /\ t.reclaim_class = r.reclaim_class
    BY <2>1 DEF AllocationRecord
  <2> HIDE DEF t
  <2>7. SameHoldings
    BY <2>2, <2>5, <2>6 DEF SameHoldings, IInv, StructOK
  <2> QED  BY <2>1, <2>7, Frame, RestOfStep DEF topology, lifecycle
<1>7. ASSUME BeginShutdown \/ Close \/ Open \/ Tick
      PROVE  IInv'
  <2>1. /\ UNCHANGED <<topology, ledger, next_allocation_id, pressure>>
        /\ open' \in BOOLEAN
        /\ shutting_down' \in BOOLEAN
        /\ tick' \in Nat
    <3>1. CASE BeginShutdown
      BY <3>1, Frame DEF BeginShutdown
    <3>2. CASE Close
      BY <3>2, Frame DEF Close
    <3>3. CASE Open
      BY <3>3, Frame DEF Open
    <3>4. CASE Tick
      <4>1. /\ UNCHANGED <<topology, ledger, next_allocation_id, pressure>>
            /\ UNCHANGED <<open, shutting_down>>
            /\ tick' = tick + 1
        BY <3>4, Zenon DEF Tick, lifecycle
      <4>2. open \in BOOLEAN /\ shutting_down \in BOOLEAN /\ tick \in Nat
        BY Frame, Zenon
      <4>3. tick + 1 \in Nat
        BY <4>2, Successor, Zenon
      <4> QED  BY <4>1, <4>2, <4>3, Zenon
    <3> QED  BY <1>7, <3>1, <3>2, <3>3, <3>4
  <2> QED  BY <1>1, <2>1, Frame, RestOfStep DEF topology
<1> QED  BY <1>2, <1>3, <1>4, <1>5, <1>6, <1>7

\* Every step of the fabric preserves the invariant.
LEMMA NextPreserves ==
    ASSUME SmallRequests, IInv, [Next]_vars
    PROVE  IInv'
<1>1. CASE UNCHANGED vars
  <2>1. UNCHANGED <<topology, ledger, next_allocation_id, pressure, lifecycle, tick>>
    BY <1>1 DEF vars
  <2> QED  BY <2>1, Frame, RestOfStep DEF topology, ledger, lifecycle
<1>2. CASE Next
  BY <1>2, AllocateStep, CommitStep, ReleaseStep, RevokingSteps, PoolSetSteps, QuietSteps
     DEF Next
<1> QED  BY <1>1, <1>2
-----------------------------------------------------------------------------
(* The partition of the resource.                                          *)

\* What the pools have been given is what all but p have, and what p has.
LEMMA PartitionWithout ==
    ASSUME NEW f \in [Pools -> PoolDescriptor], NEW p \in Pools,
           NEW S, S = {x \in Pools : f[x].generation # 0},
           NEW raw, raw = [x \in Pools |-> f[x].raw_units]
    PROVE  /\ Total(S \ {p}, raw) \in Nat
           /\ Total(S, raw) = Total(S \ {p}, raw)
                                 + When(f[p].generation # 0, f[p].raw_units)
<1>1. IsFiniteSet(S) /\ IsFiniteSet(S \ {p})
  BY IdAssumption, FS_Subset
<1>2. \A x \in S : raw[x] \in Nat
  BY DEF PoolDescriptor
<1>3. Total(S \ {p}, raw) \in Nat
  BY <1>1, <1>2, TotalType
<1>4. CASE p \in S
  <2>1. Total(S, raw) = Total(S \ {p}, raw) + raw[p]
    BY <1>1, <1>2, <1>4, TotalWithout
  <2> QED  BY <1>3, <1>4, <2>1 DEF When
<1>5. CASE p \notin S
  <2>1. S \ {p} = S
    BY <1>5
  <2> QED  BY <1>3, <1>5, <2>1 DEF When
<1> QED  BY <1>3, <1>4, <1>5

\* register_pool, remove_pool, resize_pool and set_capacity, the operations
\* that move the two sides, all look at the sum first.
LEMMA PartitionStep ==
    ASSUME IInv, IInv', PartitionBounded, [Next]_vars
    PROVE  PartitionBounded'
<1> DEFINE S == {x \in Pools : pools[x].generation # 0}
           T == {x \in Pools : pools'[x].generation # 0}
<1>1. /\ pools \in [Pools -> PoolDescriptor]
      /\ pools' \in [Pools -> PoolDescriptor]
      /\ capacity \in Nat
  BY DEF IInv, StructOK
<1>2. /\ Partitioned(Pools) = Total(S, RawUnits)
      /\ Partitioned(Pools)' = Total(T, RawUnits')
      /\ \A p \in Pools : Partitioned(Pools \ {p}) = Total(S \ {p}, RawUnits)
  <2>1. {x \in Pools : Registered(x)} = S /\ {x \in Pools : (Registered(x))'} = T
    BY DEF Registered
  <2>2. \A p \in Pools : {x \in Pools \ {p} : Registered(x)} = S \ {p}
    BY DEF Registered
  <2> HIDE DEF S, T
  <2>3. Partitioned(Pools) = Total(S, RawUnits)
    BY <2>1 DEF Partitioned
  <2>4. Partitioned(Pools)' = Total(T, RawUnits')
    BY <2>1 DEF Partitioned
  <2>5. \A p \in Pools : Partitioned(Pools \ {p}) = Total(S \ {p}, RawUnits)
    BY <2>2 DEF Partitioned
  <2> QED  BY <2>3, <2>4, <2>5
<1>3. RawUnits = [x \in Pools |-> pools[x].raw_units]
  BY DEF RawUnits
<1>4. RawUnits' = [x \in Pools |-> pools'[x].raw_units]
  BY DEF RawUnits
<1> HIDE DEF S, T
<1>5. ASSUME NEW p \in Pools, \A x \in Pools \ {p} : pools'[x] = pools[x]
      PROVE  /\ Partitioned(Pools \ {p}) \in Nat
             /\ Partitioned(Pools) = Partitioned(Pools \ {p})
                   + When(pools[p].generation # 0, pools[p].raw_units)
             /\ Partitioned(Pools)' = Partitioned(Pools \ {p})
                   + When(pools'[p].generation # 0, pools'[p].raw_units)
  <2>1. /\ Total(S \ {p}, RawUnits) \in Nat
        /\ Total(S, RawUnits) = Total(S \ {p}, RawUnits)
              + When(pools[p].generation # 0, pools[p].raw_units)
    BY <1>1, <1>3, PartitionWithout DEF S
  <2>2. Total(T, RawUnits') = Total(T \ {p}, RawUnits')
              + When(pools'[p].generation # 0, pools'[p].raw_units)
    BY <1>1, <1>4, PartitionWithout DEF T
  <2>3. Total(T \ {p}, RawUnits') = Total(S \ {p}, RawUnits)
    <3>1. T \ {p} = S \ {p}
      BY <1>5 DEF S, T
    <3>2. \A x \in S \ {p} : RawUnits[x] = RawUnits'[x]
      BY <1>3, <1>4, <1>5 DEF S
    <3> QED  BY <3>1, <3>2, TotalSame
  <2> QED  BY <1>2, <2>1, <2>2, <2>3
<1>6. ASSUME NEW p \in Pools, NEW r \in PoolRegistrations, RegisterPool(p, r)
      PROVE  PartitionBounded'
  <2>1. /\ \A x \in Pools \ {p} : pools'[x] = pools[x]
        /\ pools'[p].generation # 0
        /\ pools'[p].raw_units = r.raw_units
        /\ pools[p].generation = 0
        /\ Partitioned(Pools) + r.raw_units <= capacity
        /\ capacity' = capacity
    <3>1. pools' = [pools EXCEPT ![p] =
                       [generation |-> 1, raw_units |-> r.raw_units,
                        protected_units |-> r.protected_units, parent |-> r.parent,
                        policy |-> r.policy]]
      BY <1>6 DEF RegisterPool
    <3>2. /\ pools[p].generation = 0
          /\ Partitioned(Pools) + r.raw_units <= capacity
          /\ capacity' = capacity
      BY <1>6 DEF RegisterPool
    <3> QED  BY <1>1, <3>1, <3>2
  <2>2. /\ When(pools[p].generation # 0, pools[p].raw_units) = 0
        /\ When(pools'[p].generation # 0, pools'[p].raw_units) = r.raw_units
    BY <2>1 DEF When
  <2>3. Partitioned(Pools)' = Partitioned(Pools) + r.raw_units
    <3>1. /\ Partitioned(Pools \ {p}) \in Nat
          /\ Partitioned(Pools) = Partitioned(Pools \ {p})
                + When(pools[p].generation # 0, pools[p].raw_units)
          /\ Partitioned(Pools)' = Partitioned(Pools \ {p})
                + When(pools'[p].generation # 0, pools'[p].raw_units)
      BY <1>5, <2>1
    <3> QED  BY <2>2, <3>1
  <2> QED  BY <2>1, <2>3 DEF PartitionBounded
<1>7. ASSUME NEW p \in Pools, RemovePool(p)
      PROVE  PartitionBounded'
  <2>1. /\ \A x \in Pools \ {p} : pools'[x] = pools[x]
        /\ pools'[p].generation = 0
        /\ capacity' = capacity
    <3>1. pools' = [pools EXCEPT ![p] = Erased] /\ capacity' = capacity
      BY <1>7 DEF RemovePool
    <3> QED  BY <1>1, <3>1 DEF Erased
  <2>2. /\ When(pools[p].generation # 0, pools[p].raw_units) \in Nat
        /\ When(pools'[p].generation # 0, pools'[p].raw_units) = 0
    BY <1>1, <2>1 DEF When, PoolDescriptor
  <2>3. /\ Partitioned(Pools)' \in Nat
        /\ Partitioned(Pools) = Partitioned(Pools)'
              + When(pools[p].generation # 0, pools[p].raw_units)
    <3>1. /\ Partitioned(Pools \ {p}) \in Nat
          /\ Partitioned(Pools) = Partitioned(Pools \ {p})
                + When(pools[p].generation # 0, pools[p].raw_units)
          /\ Partitioned(Pools)' = Partitioned(Pools \ {p})
                + When(pools'[p].generation # 0, pools'[p].raw_units)
      BY <1>5, <2>1
    <3> QED  BY <2>2, <3>1
  <2> QED  BY <1>1, <2>1, <2>2, <2>3 DEF PartitionBounded
<1>8. ASSUME NEW p \in Pools, NEW s \in Resizes, ResizePool(p, s)
      PROVE  PartitionBounded'
  <2> DEFINE d == [pools[p] EXCEPT !.raw_units = s.raw_units,
                                   !.protected_units = s.protected_units,
                                   !.generation = @ + 1]
  <2>1. /\ pools' = [pools EXCEPT ![p] = d]
        /\ Partitioned(Pools \ {p}) + s.raw_units <= capacity
        /\ capacity' = capacity
    BY <1>8 DEF ResizePool
  <2>2. d.raw_units = s.raw_units /\ d.generation = pools[p].generation + 1
    BY <1>1 DEF PoolDescriptor
  <2> HIDE DEF d
  <2>3. /\ \A x \in Pools \ {p} : pools'[x] = pools[x]
        /\ pools'[p].raw_units = s.raw_units
        /\ pools'[p].generation # 0
    BY <1>1, <2>1, <2>2 DEF PoolDescriptor
  <2>4. When(pools'[p].generation # 0, pools'[p].raw_units) = s.raw_units
    BY <2>3 DEF When
  <2>5. Partitioned(Pools)' = Partitioned(Pools \ {p}) + s.raw_units
    BY <1>5, <2>3, <2>4
  <2> QED  BY <2>1, <2>5 DEF PartitionBounded
<1>9. ASSUME NEW n \in Capacities, SetCapacity(n)
      PROVE  PartitionBounded'
  <2>1. pools' = pools /\ capacity' = n /\ Partitioned(Pools) <= n
    BY <1>9 DEF SetCapacity
  <2> QED  BY <2>1 DEF PartitionBounded, Partitioned, Registered, RawUnits
<1>10. CASE UNCHANGED <<pools, capacity>>
  BY <1>10 DEF PartitionBounded, Partitioned, Registered, RawUnits
<1>11. \/ UNCHANGED <<pools, capacity>>
       \/ \E n \in Capacities : SetCapacity(n)
       \/ \E p \in Pools, r \in PoolRegistrations : RegisterPool(p, r)
       \/ \E p \in Pools : RemovePool(p)
       \/ \E p \in Pools, s \in Resizes : ResizePool(p, s)
  <2>1. ASSUME NEW x \in Policies, NEW b \in PolicyBodies, PublishPolicy(x, b)
        PROVE  UNCHANGED <<pools, capacity>>
    BY <2>1 DEF PublishPolicy
  <2>2. ASSUME NEW q \in Queues, RetireQueue(q)
        PROVE  UNCHANGED <<pools, capacity>>
    BY <2>2 DEF RetireQueue
  <2>3. ASSUME NEW q \in Queues, NEW p \in Pools, RetargetQueue(q, p)
        PROVE  UNCHANGED <<pools, capacity>>
    BY <2>3 DEF RetargetQueue
  <2>4. ASSUME NEW p \in Pools, NEW n \in ReclaimTargets, ApplyReclaim(p, n)
        PROVE  UNCHANGED <<pools, capacity>>
    BY <2>4 DEF ApplyReclaim, topology
  <2>5. ASSUME NEW p \in Pools, FenceStale(p) \/ ExpireReservations(p)
        PROVE  UNCHANGED <<pools, capacity>>
    BY <2>5 DEF FenceStale, ExpireReservations, topology
  <2>6. ASSUME NEW p \in Pools, NEW q \in Queues, NEW r \in AllocateRequests, Allocate(p, q, r)
        PROVE  UNCHANGED <<pools, capacity>>
    BY <2>6 DEF Allocate, ApplyGrant, topology
  <2>7. ASSUME NEW q \in Queues, NEW r \in QueueRegistrations, RegisterQueue(q, r)
        PROVE  UNCHANGED <<pools, capacity>>
    BY <2>7 DEF RegisterQueue
  <2>8. ASSUME NEW q \in Queues, NEW n \in Demands, UpdateQueueDemand(q, n)
        PROVE  UNCHANGED <<pools, capacity>>
    BY <2>8 DEF UpdateQueueDemand
  <2>9. ASSUME NEW p \in Pools, NEW r \in PressureReports, ObservePressure(p, r)
        PROVE  UNCHANGED <<pools, capacity>>
    BY <2>9 DEF ObservePressure, topology
  <2>10. ASSUME NEW a \in AllocIds, Commit(a) \/ Revalidate(a)
         PROVE  UNCHANGED <<pools, capacity>>
    <3>1. Commit(a) => UNCHANGED <<pools, capacity>>
      BY DEF Commit, topology
    <3>2. Revalidate(a) => UNCHANGED <<pools, capacity>>
      BY DEF Revalidate, topology
    <3> QED  BY <2>10, <3>1, <3>2
  <2>11. ASSUME NEW a \in AllocIds, NEW n \in 1..UnitsHeld[a], Release(a, n)
         PROVE  UNCHANGED <<pools, capacity>>
    BY <2>11 DEF Release, topology
  <2>12. BeginShutdown \/ Close \/ Open \/ Tick \/ UNCHANGED vars
         => UNCHANGED <<pools, capacity>>
    BY DEF BeginShutdown, Close, Open, Tick, topology, vars
  <2> QED  BY <2>1, <2>2, <2>3, <2>4, <2>5, <2>6, <2>7, <2>8, <2>9, <2>10, <2>11, <2>12 DEF Next
<1> QED  BY <1>6, <1>7, <1>8, <1>9, <1>10, <1>11
-----------------------------------------------------------------------------
(* Theorems.                                                               *)

\* As long as no request is so large that the product in a partial release
\* wraps, the aggregates are always the sums over the records.
THEOREM LedgerInvariant == SmallRequests => (Spec => []IInv)
<1> SUFFICES ASSUME SmallRequests
             PROVE  Spec => []IInv
  OBVIOUS
<1>1. Init => IInv
  BY InitEstablishes
<1>2. IInv /\ [Next]_vars => IInv'
  BY NextPreserves
<1> QED  BY <1>1, <1>2, PTL DEF Spec

\* Types hold in every reachable state: in particular commit never wraps the
\* unsigned reserved_units.
THEOREM TypeCorrect == SmallRequests => (Spec => []TypeOK)
<1>1. IInv => TypeOK
  BY InvariantTypes
<1> QED  BY <1>1, LedgerInvariant, PTL

\* In every reachable state the incrementally maintained aggregates are the
\* sums over the allocation records, for any number of pools, queues and
\* allocations and for any policies.
THEOREM AggregatesCorrect == SmallRequests => (Spec => []AggregatesMatchRecords)
<1>1. IInv => AggregatesMatchRecords
  BY DEF IInv
<1> QED  BY <1>1, LedgerInvariant, PTL

\* In every reachable state apply_release_units would accept any part of any
\* allocation and any set of allocations fenced together: its refusals, which
\* leave a pool half updated, are never met.
THEOREM ReturnsAccepted == SmallRequests => (Spec => []AlwaysReturnable)
<1> SUFFICES ASSUME SmallRequests
             PROVE  Spec => []AlwaysReturnable
  OBVIOUS
<1>1. IInv => AlwaysReturnable
  <2> SUFFICES ASSUME IInv
               PROVE  AlwaysReturnable
    OBVIOUS
  <2>1. \A a \in AllocIds : Holding(a) => \A n \in 1..UnitsHeld[a] : Releasable(a, n)
    BY HeldReleasable, Zenon
  <2>2. \A V \in SUBSET {a \in AllocIds : Holding(a)} : Revocable(V)
    BY HeldRevocable, Zenon
  <2> QED  BY <2>1, <2>2, Zenon DEF AlwaysReturnable
<1> QED  BY <1>1, LedgerInvariant, PTL

\* The pools never add up to more than the capacity of the resource.
THEOREM PartitionSound == SmallRequests => (Spec => []PartitionBounded)
<1> SUFFICES ASSUME SmallRequests
             PROVE  Spec => []PartitionBounded
  OBVIOUS
<1>1. Init => IInv /\ PartitionBounded
  <2> SUFFICES ASSUME Init
               PROVE  PartitionBounded
    BY InitEstablishes
  <2>1. {p \in Pools : Registered(p)} = {} /\ capacity = 0
    BY DEF Init, Erased, Registered
  <2> QED  BY <2>1, TotalEmpty DEF PartitionBounded, Partitioned
<1>2. (IInv /\ PartitionBounded) /\ [Next]_vars => (IInv /\ PartitionBounded)'
  BY NextPreserves, PartitionStep
<1> QED  BY <1>1, <1>2, PTL DEF Spec
=============================================================================
