---------------------------- MODULE LedgerProofs ----------------------------
(***************************************************************************)
(* Proofs about Fabric, for every set of pools and queues, every policy    *)
(* and every bound.                                                        *)
(*                                                                         *)
(* The inductive invariant IInv says that the aggregates of each pool are  *)
(* the sums over its allocation records.  From it follow the types: no     *)
(* aggregate is negative, because a sum of units is a natural number.      *)
(***************************************************************************)
EXTENDS Fabric, FiniteSetTheorems, TLAPS

\* A leaf that names no backend is tried with Zenon, then with arithmetic.
USE ZenonT(10), SMTT(15)

\* Arithmetic that larger steps cite: clocks and generations stay natural
\* numbers, units taken out and put back leave a sum alone, and counters that
\* do not exceed zero are zero.
LEMMA Successor ==
    ASSUME NEW n \in Nat
    PROVE  n + 1 \in Nat
OBVIOUS

LEMMA Cancels == \A u, m \in Int : u - m + m = u
OBVIOUS

LEMMA SumOfNone ==
    ASSUME NEW m \in Nat, NEW n \in Nat, m + n <= 0
    PROVE  m + n = 0
OBVIOUS

LEMMA NoneAtMost ==
    ASSUME NEW n \in Nat, n <= 0
    PROVE  n = 0
OBVIOUS

(***************************************************************************)
(* Facts about sums of units.  Because a sum is the number of elements of  *)
(* a set, each follows from a fact about finite sets, without induction.   *)
(***************************************************************************)

\* Only finitely many units are held by finitely many holders, so every sum
\* the accounting takes over allocation records is a natural number.
LEMMA TotalType ==
    ASSUME NEW S, IsFiniteSet(S), NEW f, \A a \in S : f[a] \in Nat
    PROVE  /\ IsFiniteSet(UnitsOf(S, f))
           /\ Total(S, f) \in Nat
<1> DEFINE F == {{a} \X (1..f[a]) : a \in S}
           g == [a \in S |-> {a} \X (1..f[a])]
<1>1. g \in Surjection(S, F)
  BY DEF Surjection
<1>2. IsFiniteSet(F)
  <2> HIDE DEF F, g
  <2> QED  BY <1>1, FS_Surjection
<1>3. \A T \in F : IsFiniteSet(T)
  <2> SUFFICES ASSUME NEW a \in S
               PROVE  IsFiniteSet({a} \X (1..f[a]))
    OBVIOUS
  <2>1. IsFiniteSet({a}) /\ IsFiniteSet(1..f[a])
    <3>1. f[a] \in Int /\ 1 \in Int
      OBVIOUS
    <3>2. IsFiniteSet(1..f[a])
      BY <3>1, FS_Interval
    <3> QED  BY <3>2, FS_Singleton
  <2> QED  BY <2>1, FS_Product
<1>4. IsFiniteSet(UNION F)
  <2> HIDE DEF F
  <2> QED  BY <1>2, <1>3, FS_UNION
<1>5. UnitsOf(S, f) = UNION F
  BY DEF UnitsOf
<1> QED
  <2> HIDE DEF F
  <2> QED  BY <1>4, <1>5, FS_CardinalityType DEF Total

\* Sums over disjoint holders add up.
LEMMA TotalDisjoint ==
    ASSUME NEW S, IsFiniteSet(S), NEW T, IsFiniteSet(T), S \cap T = {},
           NEW f, \A a \in S \cup T : f[a] \in Nat
    PROVE  Total(S \cup T, f) = Total(S, f) + Total(T, f)
<1>1. IsFiniteSet(UnitsOf(S, f)) /\ IsFiniteSet(UnitsOf(T, f))
  BY TotalType
<1>2. UnitsOf(S \cup T, f) = UnitsOf(S, f) \cup UnitsOf(T, f)
  BY DEF UnitsOf
<1>3. UnitsOf(S, f) \cap UnitsOf(T, f) = {}
  BY DEF UnitsOf
<1>4. Cardinality({}) = 0
  BY FS_EmptySet
<1>5. /\ Cardinality(UnitsOf(S, f)) \in Nat
      /\ Cardinality(UnitsOf(T, f)) \in Nat
  BY <1>1, FS_CardinalityType
<1>6. Cardinality(UnitsOf(S, f) \cup UnitsOf(T, f))
        = Cardinality(UnitsOf(S, f)) + Cardinality(UnitsOf(T, f))
            - Cardinality(UnitsOf(S, f) \cap UnitsOf(T, f))
  BY <1>1, FS_Union
<1>7. Cardinality(UnitsOf(S, f) \cap UnitsOf(T, f)) = 0
  BY <1>3, <1>4, Zenon
<1>8. Cardinality(UnitsOf(S \cup T, f)) = Cardinality(UnitsOf(S, f) \cup UnitsOf(T, f))
  BY <1>2, Zenon
<1>9. Cardinality(UnitsOf(S \cup T, f))
        = Cardinality(UnitsOf(S, f)) + Cardinality(UnitsOf(T, f))
  BY <1>5, <1>6, <1>7, <1>8
<1> QED  BY <1>9 DEF Total

\* A sum splits along any set of holders V, as when V returns its units.
LEMMA TotalSplit ==
    ASSUME NEW S, IsFiniteSet(S), NEW V, NEW f, \A a \in S : f[a] \in Nat
    PROVE  Total(S, f) = Total(S \ V, f) + Total(S \cap V, f)
<1>1. IsFiniteSet(S \ V) /\ IsFiniteSet(S \cap V)
  BY FS_Subset, S \ V \in SUBSET S, S \cap V \in SUBSET S
<1>2. S = (S \ V) \cup (S \cap V) /\ (S \ V) \cap (S \cap V) = {}
  OBVIOUS
<1> DEFINE A == S \ V
           B == S \cap V
<1>3. \A a \in A \cup B : f[a] \in Nat
  OBVIOUS
<1>4. Total(A \cup B, f) = Total(A, f) + Total(B, f)
  <2> HIDE DEF A, B
  <2>1. IsFiniteSet(A) /\ IsFiniteSet(B) /\ A \cap B = {}
    BY <1>1, <1>2 DEF A, B
  <2> QED  BY <2>1, <1>3, TotalDisjoint
<1>5. A \cup B = S
  OBVIOUS
<1> QED  BY <1>4, <1>5

\* One holder contributes exactly the units it holds.
LEMMA TotalSingleton ==
    ASSUME NEW a, NEW f, f[a] \in Nat
    PROVE  Total({a}, f) = f[a]
<1>1. UnitsOf({a}, f) = {a} \X (1..f[a])
  BY DEF UnitsOf
<1>2. IsFiniteSet({a}) /\ Cardinality({a}) = 1
  BY FS_Singleton
<1>3. IsFiniteSet(1..f[a]) /\ Cardinality(1..f[a]) = f[a]
  BY FS_Interval
<1>4. Cardinality({a} \X (1..f[a])) = Cardinality({a}) * Cardinality(1..f[a])
  BY <1>2, <1>3, FS_Product
<1>5. Cardinality({a} \X (1..f[a])) = f[a]
  BY <1>2, <1>3, <1>4
<1>6. Cardinality(UnitsOf({a}, f)) = f[a]
  BY <1>1, <1>5, Zenon
<1> QED  BY <1>6 DEF Total

\* Nobody holds nothing.
LEMMA TotalEmpty ==
    ASSUME NEW f
    PROVE  Total({}, f) = 0
<1>1. UnitsOf({}, f) = {}
  BY DEF UnitsOf
<1> QED  BY <1>1, FS_EmptySet DEF Total

\* A sum depends only on what its own holders hold.
LEMMA TotalSame ==
    ASSUME NEW S, NEW f, NEW g, \A a \in S : f[a] = g[a]
    PROVE  Total(S, f) = Total(S, g)
BY DEF Total, UnitsOf

\* Fewer holders, each holding no more, hold no more in total.
LEMMA TotalMonotone ==
    ASSUME NEW S, IsFiniteSet(S), NEW T \in SUBSET S, NEW f, NEW g,
           \A a \in S : f[a] \in Nat /\ g[a] \in Nat,
           \A a \in T : f[a] <= g[a]
    PROVE  Total(T, f) <= Total(S, g)
<1>1. IsFiniteSet(UnitsOf(S, g))
  BY TotalType
<1>2. UnitsOf(T, f) \subseteq UnitsOf(S, g)
  <2> SUFFICES ASSUME NEW a \in T, NEW i \in 1..f[a]
               PROVE  i \in 1..g[a]
    BY DEF UnitsOf
  <2>1. a \in S /\ f[a] \in Nat /\ g[a] \in Nat /\ f[a] <= g[a]
    OBVIOUS
  <2> QED  BY <2>1
<1> QED  BY <1>1, <1>2, FS_Subset DEF Total

\* Taking out one holder takes out the units it holds.
LEMMA TotalWithout ==
    ASSUME NEW S, IsFiniteSet(S), NEW a \in S, NEW f, \A x \in S : f[x] \in Nat
    PROVE  Total(S, f) = Total(S \ {a}, f) + f[a]
<1>1. Total(S, f) = Total(S \ {a}, f) + Total(S \cap {a}, f)
  BY TotalSplit
<1>2. S \cap {a} = {a}
  OBVIOUS
<1> QED  BY <1>1, <1>2, TotalSingleton

\* A change at one holder a, which may join, leave, or hold another amount,
\* changes a sum by what a held before and what it holds after.
LEMMA TotalPoint ==
    ASSUME NEW S, IsFiniteSet(S), NEW T, IsFiniteSet(T), NEW a,
           S \ {a} = T \ {a}, NEW f, NEW g,
           \A x \in S : f[x] \in Nat,
           \A x \in T : g[x] \in Nat,
           \A x \in S \ {a} : f[x] = g[x]
    PROVE  Total(T, g) = Total(S, f) - (IF a \in S THEN f[a] ELSE 0)
                                     + (IF a \in T THEN g[a] ELSE 0)
<1> DEFINE R == S \ {a}
<1>1. Total(R, f) = Total(R, g)
  BY TotalSame
<1>2. /\ Total(S, f) \in Nat
      /\ Total(T, g) \in Nat
  BY TotalType
<1>3. Total(S, f) = Total(R, f) + (IF a \in S THEN f[a] ELSE 0)
  <2>1. CASE a \in S
    BY <2>1, TotalWithout
  <2>2. CASE a \notin S
    <3>1. R = S
      BY <2>2
    <3> QED  BY <3>1, <2>2, <1>2
  <2> QED  BY <2>1, <2>2
<1>4. Total(T, g) = Total(R, g) + (IF a \in T THEN g[a] ELSE 0)
  <2>1. CASE a \in T
    <3>1. Total(T, g) = Total(T \ {a}, g) + g[a]
      BY <2>1, TotalWithout
    <3> QED  BY <3>1, <2>1
  <2>2. CASE a \notin T
    <3>1. R = T
      BY <2>2
    <3>2. Total(R, g) = Total(T, g)
      BY <3>1, Zenon
    <3> HIDE DEF R
    <3> QED  BY <3>2, <2>2, <1>2
  <2> QED  BY <2>1, <2>2
<1>5. Total(R, f) \in Nat
  <2>1. IsFiniteSet(R)
    BY FS_Subset, R \in SUBSET S
  <2> QED  BY <2>1, TotalType
<1>6. /\ (IF a \in S THEN f[a] ELSE 0) \in Nat
      /\ (IF a \in T THEN g[a] ELSE 0) \in Nat
  OBVIOUS
<1> HIDE DEF R
<1> QED  BY <1>1, <1>2, <1>3, <1>4, <1>5, <1>6
-----------------------------------------------------------------------------
(* Partial returns.                                                        *)

\* Products of natural numbers grow with their factors.
LEMMA ProductMonotone ==
    ASSUME NEW x \in Nat, NEW y \in Nat, NEW z \in Nat, x <= y
    PROVE  /\ x * z <= y * z
           /\ z * x <= z * y
           /\ x * z \in Nat
           /\ z * x = x * z
OBVIOUS

\* Giving back n of u units, b of them borrowed, gives back the proportional
\* part of the loan: no more than was borrowed, no more than is given back,
\* and what stays borrowed fits what stays held.
LEMMA ProportionalReturn ==
    ASSUME NEW b \in Nat, NEW u \in Nat, NEW n \in Nat, NEW R \in Nat, NEW W \in Nat,
           b <= u, n < u, u <= R, R * R < W
    PROVE  LET k == ((b * n) % W) \div u IN
           k \in Nat /\ k <= b /\ k <= n /\ b - k <= u - n
<1>1. b * n \in Nat /\ b * n < W
  <2>1. b * n <= R * n /\ b * n \in Nat /\ n * R = R * n
    BY ProductMonotone
  <2>2. n * R <= R * R
    BY ProductMonotone
  <2>3. R * R \in Nat
    BY ProductMonotone
  <2>4. R * n \in Nat
    BY ProductMonotone
  <2> QED  BY <2>1, <2>2, <2>3, <2>4
<1>2. (b * n) % W = b * n
  <2> DEFINE x == b * n
  <2>1. x \in Nat /\ x < W
    BY <1>1
  <2> HIDE DEF x
  <2>2. x % W = x
    BY <2>1
  <2> QED  BY <2>2 DEF x
<1> DEFINE k == (b * n) \div u
<1>3. k \in Nat /\ u * k <= b * n /\ b * n < u * (k + 1)
  <2> DEFINE x == b * n
  <2>1. x \in Nat
    BY <1>1
  <2> HIDE DEF x
  <2>2. x \div u \in Nat /\ u * (x \div u) <= x /\ x < u * ((x \div u) + 1)
    BY <2>1
  <2> QED  BY <2>2 DEF x
<1> HIDE DEF k
<1>4. k <= b
  <2> SUFFICES ASSUME k >= b + 1
               PROVE  FALSE
    BY <1>3
  <2>1. u * (b + 1) <= u * k
    BY <1>3, ProductMonotone
  <2>2. b * n <= b * u
    BY ProductMonotone
  <2>3. u * (b + 1) = b * u + u
    OBVIOUS
  <2> QED  BY <1>1, <1>3, <2>1, <2>2, <2>3
<1>5. k <= n
  <2> SUFFICES ASSUME k >= n + 1
               PROVE  FALSE
    BY <1>3
  <2>1. u * (n + 1) <= u * k
    BY <1>3, ProductMonotone
  <2>2. b * n <= u * n
    BY ProductMonotone
  <2>3. u * (n + 1) = u * n + u
    OBVIOUS
  <2> QED  BY <1>1, <1>3, <2>1, <2>2, <2>3
<1>6. b - k <= u - n
  <2> SUFFICES ASSUME k + 1 <= b + n - u
               PROVE  FALSE
    BY <1>3
  <2>1. u * (k + 1) <= u * (b + n - u)
    <3>1. b + n - u \in Nat /\ k + 1 \in Nat
      BY <1>3
    <3> QED  BY <1>3, <3>1, ProductMonotone
  <2>2. (u - b) * (u - n) >= 0
    <3>1. u - b \in Nat /\ u - n \in Nat
      OBVIOUS
    <3> DEFINE c == u - b
               d == u - n
    <3> HIDE DEF c, d
    <3>2. c \in Nat /\ d \in Nat
      BY <3>1 DEF c, d
    <3>3. c * d >= 0
      BY <3>2
    <3> QED  BY <3>3 DEF c, d
  <2>3. (u - b) * (u - n) = b * n - u * (b + n - u)
    OBVIOUS
  <2> QED  BY <1>1, <1>3, <2>1, <2>2, <2>3
<1> QED  BY <1>2, <1>3, <1>4, <1>5, <1>6 DEF k
-----------------------------------------------------------------------------
(* The ledger.                                                             *)

\* The product in a partial release does not wrap: no request is for more
\* than the square root of the word.
SmallRequests ==
    \A r \in AllocateRequests : r.requested_units * r.requested_units < Word

IntUsage ==
    [reserved_units : Int, committed_units : Int, pinned_units : Int,
     reclaimable_units : Int, own_usage : Int, borrowed_in : Int, lent_out : Int]

\* TypeOK, with aggregates that might be negative.
StructOK ==
    /\ policies \in [Policies -> PolicyEntry]
    /\ pools \in [Pools -> PoolDescriptor]
    /\ usage \in [Pools -> IntUsage]
    /\ queue_reserved \in [Pools -> [Queues -> Int]]
    /\ queue_committed \in [Pools -> [Queues -> Int]]
    /\ members \in [Pools -> SUBSET AllocIds]
    /\ queues \in [Queues -> QueueDescriptor]
    /\ allocations \in [AllocIds -> AllocationRecord]
    /\ next_allocation_id \in 1..(kMaxAllocationCount + 1)
    /\ pressure \in [Pools -> PressureSnapshot]
    /\ capacity \in Nat
    /\ open \in BOOLEAN
    /\ shutting_down \in BOOLEAN
    /\ tick \in Nat

\* Ids are handed out in order, and what holds units was granted by a request
\* to a pool and a queue.
RecordsSound ==
    \A a \in AllocIds :
        /\ a >= next_allocation_id => allocations[a].state = "None"
        /\ Holding(a) =>
              /\ allocations[a].pool \in Pools
              /\ allocations[a].queue \in Queues
              /\ allocations[a].borrow_units <= allocations[a].units
              /\ allocations[a].borrow_units # 0 => allocations[a].lender \in Pools
              /\ \E r \in AllocateRequests : allocations[a].units <= r.requested_units

OwnUsageMatches ==
    \A p \in Pools :
        usage[p].own_usage + usage[p].borrowed_in
            = usage[p].reserved_units + usage[p].committed_units + usage[p].lent_out

\* A pool that is not registered has no capacity, holds nothing and lends
\* nothing; one that is registered has a policy.
PoolsSound ==
    \A p \in Pools :
        IF pools[p].generation = 0
        THEN pools[p] = Erased /\ Allocated(usage[p]) = 0 /\ usage[p].lent_out = 0
        ELSE pools[p].policy \in Policies

IInv ==
    /\ StructOK
    /\ PoolsSound
    /\ RecordsSound
    /\ AggregatesMatchRecords
    /\ OwnUsageMatches
-----------------------------------------------------------------------------
(* What the invariant gives.                                               *)

\* The allocation table is finite, and so is every set of allocations.
LEMMA AllocationsFinite ==
    \A S \in SUBSET AllocIds : IsFiniteSet(S)
<1>1. IsFiniteSet(AllocIds)
  <2>1. 1 \in Int /\ kMaxAllocationCount \in Int
    BY BoundAssumption
  <2> QED  BY <2>1, FS_Interval DEF AllocIds
<1> QED  BY <1>1, FS_Subset

\* The units and the borrowed units of a record are natural numbers, and a
\* record borrows no more than it holds (apply_release_units clamps).
LEMMA HeldTyped ==
    ASSUME StructOK
    PROVE  /\ UnitsHeld \in [AllocIds -> Nat]
           /\ BorrowHeld \in [AllocIds -> Nat]
           /\ \A a \in AllocIds : BorrowHeld[a] <= UnitsHeld[a]
BY DEF StructOK, AllocationRecord, UnitsHeld, BorrowHeld, AtMost

\* The sets the aggregates sum over are sets of allocations.
LEMMA HeldSets ==
    \A p, q, s :
        /\ HeldIn(p, s) \in SUBSET AllocIds
        /\ HeldAs(p, s) \in SUBSET AllocIds
        /\ HeldBy(p, q, s) \in SUBSET AllocIds
        /\ HeldAny(p) \in SUBSET AllocIds
        /\ LentBy(p) \in SUBSET AllocIds
BY DEF HeldIn, HeldAs, HeldBy, HeldAny, LentBy

\* Every sum over allocations is a natural number.
LEMMA TotalsTyped ==
    ASSUME StructOK
    PROVE  \A S \in SUBSET AllocIds :
              /\ Total(S, UnitsHeld) \in Nat
              /\ Total(S, BorrowHeld) \in Nat
<1> SUFFICES ASSUME NEW S \in SUBSET AllocIds
             PROVE  Total(S, UnitsHeld) \in Nat /\ Total(S, BorrowHeld) \in Nat
  OBVIOUS
<1>1. IsFiniteSet(S)
  BY AllocationsFinite
<1>2. \A a \in S : UnitsHeld[a] \in Nat /\ BorrowHeld[a] \in Nat
  BY HeldTyped
<1> QED  BY <1>1, <1>2, TotalType

\* What a pool holds is its reserved and its committed units, and it is its
\* pinned and its reclaimable units.
LEMMA HeldSplit ==
    ASSUME StructOK, NEW p \in Pools
    PROVE  /\ Total(HeldAny(p), UnitsHeld)
                = Total(HeldIn(p, "Reserved"), UnitsHeld)
                    + Total(HeldIn(p, "Committed"), UnitsHeld)
           /\ Total(HeldAny(p), UnitsHeld)
                = Total(HeldAs(p, "Pinned"), UnitsHeld)
                    + Total(HeldAs(p, "Reclaimable"), UnitsHeld)
<1>1. /\ IsFiniteSet(HeldIn(p, "Reserved"))
      /\ IsFiniteSet(HeldIn(p, "Committed"))
      /\ IsFiniteSet(HeldAs(p, "Pinned"))
      /\ IsFiniteSet(HeldAs(p, "Reclaimable"))
  BY HeldSets, AllocationsFinite
<1>2. \A a \in AllocIds : UnitsHeld[a] \in Nat
  BY HeldTyped
<1>3. /\ HeldAny(p) = HeldIn(p, "Reserved") \cup HeldIn(p, "Committed")
      /\ HeldIn(p, "Reserved") \cap HeldIn(p, "Committed") = {}
  BY DEF HeldAny, HeldIn, Holding, allocation_holds_units
<1>4. /\ HeldAny(p) = HeldAs(p, "Pinned") \cup HeldAs(p, "Reclaimable")
      /\ HeldAs(p, "Pinned") \cap HeldAs(p, "Reclaimable") = {}
  BY DEF HeldAny, HeldAs, StructOK, AllocationRecord
<1>5. Total(HeldIn(p, "Reserved") \cup HeldIn(p, "Committed"), UnitsHeld)
        = Total(HeldIn(p, "Reserved"), UnitsHeld) + Total(HeldIn(p, "Committed"), UnitsHeld)
  <2>1. \A a \in HeldIn(p, "Reserved") \cup HeldIn(p, "Committed") : UnitsHeld[a] \in Nat
    BY <1>2, HeldSets
  <2> QED  BY <1>1, <1>3, <2>1, TotalDisjoint
<1>6. Total(HeldAs(p, "Pinned") \cup HeldAs(p, "Reclaimable"), UnitsHeld)
        = Total(HeldAs(p, "Pinned"), UnitsHeld) + Total(HeldAs(p, "Reclaimable"), UnitsHeld)
  <2>1. \A a \in HeldAs(p, "Pinned") \cup HeldAs(p, "Reclaimable") : UnitsHeld[a] \in Nat
    BY <1>2, HeldSets
  <2> QED  BY <1>1, <1>4, <2>1, TotalDisjoint
<1> QED  BY <1>3, <1>4, <1>5, <1>6

\* No aggregate is negative.
LEMMA InvariantTypes ==
    ASSUME IInv
    PROVE  TypeOK
<1>1. \A p \in Pools : usage[p] \in Usage
  <2> SUFFICES ASSUME NEW p \in Pools
               PROVE  usage[p] \in Usage
    OBVIOUS
  <2>1. /\ usage[p].reserved_units \in Nat
        /\ usage[p].committed_units \in Nat
        /\ usage[p].pinned_units \in Nat
        /\ usage[p].reclaimable_units \in Nat
        /\ usage[p].borrowed_in \in Nat
        /\ usage[p].lent_out \in Nat
    BY TotalsTyped, HeldSets DEF IInv, AggregatesMatchRecords
  <2>2. usage[p].borrowed_in <= usage[p].reserved_units + usage[p].committed_units
    <3>1. Total(HeldAny(p), BorrowHeld) <= Total(HeldAny(p), UnitsHeld)
      <4>1. IsFiniteSet(HeldAny(p)) /\ HeldAny(p) \in SUBSET HeldAny(p)
        BY HeldSets, AllocationsFinite
      <4>2. \A a \in HeldAny(p) : /\ BorrowHeld[a] \in Nat
                                  /\ UnitsHeld[a] \in Nat
                                  /\ BorrowHeld[a] <= UnitsHeld[a]
        BY HeldTyped, HeldSets DEF IInv
      <4> QED  BY <4>1, <4>2, TotalMonotone
    <3> QED  BY <3>1, HeldSplit DEF IInv, AggregatesMatchRecords
  <2>3. usage[p].own_usage \in Nat
    <3>1. usage[p].own_usage \in Int
      BY DEF IInv, StructOK, IntUsage
    <3> QED  BY <3>1, <2>1, <2>2 DEF IInv, OwnUsageMatches
  <2> QED  BY <2>1, <2>3 DEF IInv, StructOK, IntUsage, Usage
<1>2. \A p \in Pools, q \in Queues : /\ queue_reserved[p][q] \in Nat
                                     /\ queue_committed[p][q] \in Nat
  BY TotalsTyped, HeldSets DEF IInv, AggregatesMatchRecords
<1>3. /\ queue_reserved \in [Pools -> [Queues -> Nat]]
      /\ queue_committed \in [Pools -> [Queues -> Nat]]
  BY <1>2 DEF IInv, StructOK
<1>4. usage \in [Pools -> Usage]
  BY <1>1 DEF IInv, StructOK
<1> QED  BY <1>3, <1>4 DEF IInv, StructOK, TypeOK
-----------------------------------------------------------------------------
(* Steps on the ledger.                                                    *)

\* Sums over allocations split along the set V of those that are revoked.
LEMMA SplitAlong ==
    ASSUME StructOK, NEW V
    PROVE  \A S \in SUBSET AllocIds :
              /\ Total(S, UnitsHeld) = Total(S \ V, UnitsHeld) + Total(S \cap V, UnitsHeld)
              /\ Total(S, BorrowHeld) = Total(S \ V, BorrowHeld) + Total(S \cap V, BorrowHeld)
<1> SUFFICES ASSUME NEW S \in SUBSET AllocIds
             PROVE  /\ Total(S, UnitsHeld)
                         = Total(S \ V, UnitsHeld) + Total(S \cap V, UnitsHeld)
                    /\ Total(S, BorrowHeld)
                         = Total(S \ V, BorrowHeld) + Total(S \cap V, BorrowHeld)
  OBVIOUS
<1>1. IsFiniteSet(S)
  BY AllocationsFinite
<1>2. \A a \in S : UnitsHeld[a] \in Nat /\ BorrowHeld[a] \in Nat
  BY HeldTyped
<1> QED  BY <1>1, <1>2, TotalSplit

\* A record that changes state stays a record.
LEMMA RecordTouched ==
    ASSUME NEW r \in AllocationRecord, NEW st \in AllocationState, NEW t \in Nat
    PROVE  [r EXCEPT !.state = st, !.last_touched = t] \in AllocationRecord
BY DEF AllocationRecord

\* The entry w is what revoking V leaves of the aggregates of p.
TakenBack(w, p, V) ==
    /\ w.reserved_units = usage[p].reserved_units
          - Total(HeldIn(p, "Reserved") \cap V, UnitsHeld)
    /\ w.committed_units = usage[p].committed_units
          - Total(HeldIn(p, "Committed") \cap V, UnitsHeld)
    /\ w.pinned_units = usage[p].pinned_units
          - Total(HeldAs(p, "Pinned") \cap V, UnitsHeld)
    /\ w.reclaimable_units = usage[p].reclaimable_units
          - Total(HeldAs(p, "Reclaimable") \cap V, UnitsHeld)
    /\ w.own_usage = usage[p].own_usage
          - (Total(HeldAny(p) \cap V, UnitsHeld)
               - Total(HeldAny(p) \cap V, BorrowHeld))
          - Total(LentBy(p) \cap V, BorrowHeld)
    /\ w.borrowed_in = usage[p].borrowed_in
          - Total(HeldAny(p) \cap V, BorrowHeld)
    /\ w.lent_out = usage[p].lent_out
          - Total(LentBy(p) \cap V, BorrowHeld)

\* What apply_release_units takes for the allocations V from the pool p is what
\* they contributed to it.
LEMMA TakenForAll ==
    ASSUME IInv, NEW V \in SUBSET AllocIds, \A a \in V : Holding(a), NEW p \in Pools
    PROVE  LET w == UsageAfterReturn(V, V, V, UnitsHeld, BorrowHeld)[p]
           IN  TakenBack(w, p, V) /\ w \in IntUsage
<1> USE DEF IInv
<1> DEFINE w == UsageAfterReturn(V, V, V, UnitsHeld, BorrowHeld)[p]
<1> DEFINE mine == {a \in V : allocations[a].pool = p}
           lent == {a \in V : allocations[a].lender = p}
<1>1. mine = HeldAny(p) \cap V /\ lent = LentBy(p) \cap V
  BY DEF HeldAny, LentBy
<1>2. /\ {a \in mine : allocations[a].state = "Reserved"} = HeldIn(p, "Reserved") \cap V
      /\ {a \in mine : allocations[a].state # "Reserved"} = HeldIn(p, "Committed") \cap V
  BY DEF HeldIn, Holding, allocation_holds_units
<1>3. /\ {a \in mine : allocations[a].reclaim_class = "Pinned"} = HeldAs(p, "Pinned") \cap V
      /\ {a \in mine : allocations[a].reclaim_class # "Pinned"}
            = HeldAs(p, "Reclaimable") \cap V
  BY DEF HeldAs, StructOK, AllocationRecord
<1>4. w =
        [reserved_units |-> usage[p].reserved_units
             - Total({a \in mine : allocations[a].state = "Reserved"}, UnitsHeld),
         committed_units |-> usage[p].committed_units
             - Total({a \in mine : allocations[a].state # "Reserved"}, UnitsHeld),
         pinned_units |-> usage[p].pinned_units
             - Total({a \in mine : allocations[a].reclaim_class = "Pinned"}, UnitsHeld),
         reclaimable_units |-> usage[p].reclaimable_units
             - Total({a \in mine : allocations[a].reclaim_class # "Pinned"}, UnitsHeld),
         own_usage |-> usage[p].own_usage
             - (Total(mine, UnitsHeld) - Total(mine, BorrowHeld)) - Total(lent, BorrowHeld),
         borrowed_in |-> usage[p].borrowed_in - Total(mine, BorrowHeld),
         lent_out |-> usage[p].lent_out - Total(lent, BorrowHeld)]
  BY DEF UsageAfterReturn
<1> HIDE DEF mine, lent, w
<1>5. usage[p] \in IntUsage
  BY DEF StructOK
<1>6. /\ Total(HeldIn(p, "Reserved") \cap V, UnitsHeld) \in Int
      /\ Total(HeldIn(p, "Committed") \cap V, UnitsHeld) \in Int
      /\ Total(HeldAs(p, "Pinned") \cap V, UnitsHeld) \in Int
      /\ Total(HeldAs(p, "Reclaimable") \cap V, UnitsHeld) \in Int
      /\ Total(HeldAny(p) \cap V, UnitsHeld) \in Int
      /\ Total(HeldAny(p) \cap V, BorrowHeld) \in Int
      /\ Total(LentBy(p) \cap V, BorrowHeld) \in Int
  BY TotalsTyped
<1>7. /\ usage[p].reserved_units \in Int
      /\ usage[p].committed_units \in Int
      /\ usage[p].pinned_units \in Int
      /\ usage[p].reclaimable_units \in Int
      /\ usage[p].own_usage \in Int
      /\ usage[p].borrowed_in \in Int
      /\ usage[p].lent_out \in Int
  BY <1>5 DEF IntUsage
<1>8. w =
        [reserved_units |-> usage[p].reserved_units
             - Total(HeldIn(p, "Reserved") \cap V, UnitsHeld),
         committed_units |-> usage[p].committed_units
             - Total(HeldIn(p, "Committed") \cap V, UnitsHeld),
         pinned_units |-> usage[p].pinned_units
             - Total(HeldAs(p, "Pinned") \cap V, UnitsHeld),
         reclaimable_units |-> usage[p].reclaimable_units
             - Total(HeldAs(p, "Reclaimable") \cap V, UnitsHeld),
         own_usage |-> usage[p].own_usage
             - (Total(HeldAny(p) \cap V, UnitsHeld) - Total(HeldAny(p) \cap V, BorrowHeld))
             - Total(LentBy(p) \cap V, BorrowHeld),
         borrowed_in |-> usage[p].borrowed_in - Total(HeldAny(p) \cap V, BorrowHeld),
         lent_out |-> usage[p].lent_out - Total(LentBy(p) \cap V, BorrowHeld)]
  BY <1>1, <1>2, <1>3, <1>4, Zenon
<1>9. w \in IntUsage
  BY <1>6, <1>7, <1>8 DEF IntUsage
<1> QED  BY <1>8, <1>9 DEF TakenBack, w

\* A pool's own usage covers the own part of what leaves it, tu units of which
\* tb are borrowed, together with what goes back to it as a lender, tl.
LEMMA OwnUsageCovers ==
    ASSUME NEW own \in Int, NEW held \in Int, NEW borrowed \in Int, NEW lent \in Int,
           own + borrowed = held + lent,
           NEW tu \in Int, NEW tb \in Int, NEW tl \in Int,
           borrowed - tb <= held - tu, tl <= lent
    PROVE  own - (tu - tb) - tl \in Nat
OBVIOUS

\* Whichever of the holding allocations are fenced together, their pools and
\* lenders have what apply_release_units takes from them.
LEMMA HeldRevocable ==
    ASSUME IInv, NEW V \in SUBSET AllocIds, \A a \in V : Holding(a)
    PROVE  Revocable(V)
<1> USE DEF IInv
<1> DEFINE W == UsageAfterReturn(V, V, V, UnitsHeld, BorrowHeld)
<1>1. ASSUME NEW p \in Pools
      PROVE  W[p] \in Usage
  <2> DEFINE w == W[p]
             Split(S, f) == /\ Total(S, f) = Total(S \ V, f) + Total(S \cap V, f)
                            /\ Total(S \ V, f) \in Nat
                            /\ Total(S \cap V, f) \in Nat
  <2>1. TakenBack(w, p, V) /\ w \in IntUsage
    BY TakenForAll
  <2> HIDE DEF w
  <2>2. /\ Split(HeldIn(p, "Reserved"), UnitsHeld)
        /\ Split(HeldIn(p, "Committed"), UnitsHeld)
        /\ Split(HeldAs(p, "Pinned"), UnitsHeld)
        /\ Split(HeldAs(p, "Reclaimable"), UnitsHeld)
        /\ Split(HeldAny(p), UnitsHeld)
        /\ Split(HeldAny(p), BorrowHeld)
        /\ Split(LentBy(p), BorrowHeld)
    BY SplitAlong, TotalsTyped, HeldSets
  <2>3. \A S, f, x : Split(S, f) /\ x = Total(S, f) - Total(S \cap V, f) => x \in Nat
    OBVIOUS
  <2>4. /\ usage[p].reserved_units = Total(HeldIn(p, "Reserved"), UnitsHeld)
        /\ usage[p].committed_units = Total(HeldIn(p, "Committed"), UnitsHeld)
        /\ usage[p].pinned_units = Total(HeldAs(p, "Pinned"), UnitsHeld)
        /\ usage[p].reclaimable_units = Total(HeldAs(p, "Reclaimable"), UnitsHeld)
        /\ usage[p].borrowed_in = Total(HeldAny(p), BorrowHeld)
        /\ usage[p].lent_out = Total(LentBy(p), BorrowHeld)
    BY DEF AggregatesMatchRecords
  <2>5. /\ Total(HeldAny(p), UnitsHeld)
             = Total(HeldAny(p) \ V, UnitsHeld) + Total(HeldAny(p) \cap V, UnitsHeld)
        /\ Total(HeldAny(p), BorrowHeld)
             = Total(HeldAny(p) \ V, BorrowHeld) + Total(HeldAny(p) \cap V, BorrowHeld)
        /\ Total(LentBy(p), BorrowHeld)
             = Total(LentBy(p) \ V, BorrowHeld) + Total(LentBy(p) \cap V, BorrowHeld)
        /\ Total(HeldAny(p) \ V, UnitsHeld) \in Nat
        /\ Total(HeldAny(p) \cap V, UnitsHeld) \in Nat
        /\ Total(HeldAny(p) \ V, BorrowHeld) \in Nat
        /\ Total(HeldAny(p) \cap V, BorrowHeld) \in Nat
        /\ Total(LentBy(p) \ V, BorrowHeld) \in Nat
        /\ Total(LentBy(p) \cap V, BorrowHeld) \in Nat
    BY <2>2
  <2> HIDE DEF Split
  <2>6. /\ w.reserved_units \in Nat
        /\ w.committed_units \in Nat
    BY <2>1, <2>2, <2>3, <2>4 DEF TakenBack
  <2>7. /\ w.pinned_units \in Nat
        /\ w.reclaimable_units \in Nat
    BY <2>1, <2>2, <2>3, <2>4 DEF TakenBack
  <2>8. /\ w.borrowed_in \in Nat
        /\ w.lent_out \in Nat
    BY <2>1, <2>2, <2>3, <2>4 DEF TakenBack
  <2>9. Total(HeldAny(p) \ V, BorrowHeld) <= Total(HeldAny(p) \ V, UnitsHeld)
    <3>1. IsFiniteSet(HeldAny(p) \ V)
      BY HeldSets, AllocationsFinite
    <3>2. \A a \in HeldAny(p) \ V : /\ BorrowHeld[a] \in Nat
                                    /\ UnitsHeld[a] \in Nat
                                    /\ BorrowHeld[a] <= UnitsHeld[a]
      BY HeldTyped, HeldSets
    <3> QED  BY <3>1, <3>2, TotalMonotone
  <2>10. w.own_usage \in Nat
    <3> DEFINE own == usage[p].own_usage
               held == Total(HeldAny(p), UnitsHeld)
               borrowed == Total(HeldAny(p), BorrowHeld)
               lent == Total(LentBy(p), BorrowHeld)
               tu == Total(HeldAny(p) \cap V, UnitsHeld)
               tb == Total(HeldAny(p) \cap V, BorrowHeld)
               tl == Total(LentBy(p) \cap V, BorrowHeld)
    <3>1. /\ held \in Int /\ borrowed \in Int /\ lent \in Int
          /\ tu \in Int /\ tb \in Int /\ tl \in Int
          /\ borrowed - tb <= held - tu
          /\ tl <= lent
      BY <2>5, <2>9
    <3>2. own \in Int
      BY DEF StructOK, IntUsage
    <3>3. own + borrowed = held + lent
      BY <2>4, HeldSplit DEF OwnUsageMatches
    <3>4. w.own_usage = own - (tu - tb) - tl
      BY <2>1 DEF TakenBack
    <3> HIDE DEF own, held, borrowed, lent, tu, tb, tl
    <3> QED  BY <3>1, <3>2, <3>3, <3>4, OwnUsageCovers
  <2> QED  BY <2>1, <2>6, <2>7, <2>8, <2>10 DEF IntUsage, Usage, w
<1>2. W = [p \in Pools |-> W[p]]
  BY DEF UsageAfterReturn
<1> HIDE DEF W
<1>3. W \in [Pools -> Usage]
  BY <1>1, <1>2
<1> QED  BY <1>3 DEF W, Revocable, Returnable

\* Revoking allocations V, whatever the reason and whoever they belong to,
\* takes from every aggregate exactly what they contributed to it.
LEMMA RevokeStep ==
    ASSUME IInv, NEW V \in SUBSET AllocIds, \A a \in V : Holding(a),
           NEW st \in {"Fenced", "Reclaimed", "Expired"}, Revoke(V, st),
           next_allocation_id' = next_allocation_id
    PROVE  /\ usage' \in [Pools -> IntUsage]
           /\ queue_reserved' \in [Pools -> [Queues -> Int]]
           /\ queue_committed' \in [Pools -> [Queues -> Int]]
           /\ members' \in [Pools -> SUBSET AllocIds]
           /\ allocations' \in [AllocIds -> AllocationRecord]
           /\ RecordsSound'
           /\ AggregatesMatchRecords'
           /\ OwnUsageMatches'
           /\ \A p \in Pools : /\ Allocated(usage'[p]) <= Allocated(usage[p])
                               /\ usage'[p].lent_out <= usage[p].lent_out
<1> USE DEF IInv
<1>1. allocations' \in [AllocIds -> AllocationRecord]
  <2>1. st \in AllocationState /\ tick \in Nat
    BY DEF AllocationState, StructOK
  <2>2. \A a \in AllocIds : allocations[a] \in AllocationRecord
    BY DEF StructOK
  <2>3. \A a \in AllocIds :
           [allocations[a] EXCEPT !.state = st, !.last_touched = tick] \in AllocationRecord
    BY <2>1, <2>2, RecordTouched
  <2> QED  BY <2>2, <2>3 DEF Revoke, MarkRevoked
<1>2. \A a \in AllocIds :
         /\ a \in V => /\ ~Holding(a)'
                       /\ allocations'[a].state = st
         /\ a \notin V => allocations'[a] = allocations[a]
         /\ allocations'[a].pool = allocations[a].pool
         /\ allocations'[a].queue = allocations[a].queue
         /\ allocations'[a].units = allocations[a].units
         /\ allocations'[a].borrow_units = allocations[a].borrow_units
         /\ allocations'[a].lender = allocations[a].lender
         /\ allocations'[a].reclaim_class = allocations[a].reclaim_class
  <2> SUFFICES ASSUME NEW a \in AllocIds
               PROVE  /\ a \in V => /\ ~Holding(a)'
                                    /\ allocations'[a].state = st
                      /\ a \notin V => allocations'[a] = allocations[a]
                      /\ \A f \in {"pool", "queue", "units", "borrow_units", "lender",
                                  "reclaim_class"} : allocations'[a][f] = allocations[a][f]
    OBVIOUS
  <2>1. allocations[a] \in AllocationRecord
    BY DEF StructOK
  <2>2. allocations'[a] =
           IF a \in V THEN [allocations[a] EXCEPT !.state = st, !.last_touched = tick]
           ELSE allocations[a]
    BY DEF Revoke, MarkRevoked
  <2> QED  BY <2>1, <2>2 DEF AllocationRecord, Holding, allocation_holds_units
<1>3. UnitsHeld' = UnitsHeld /\ BorrowHeld' = BorrowHeld
  BY <1>2 DEF UnitsHeld, BorrowHeld
<1>4. \A a \in AllocIds : Holding(a)' <=> Holding(a) /\ a \notin V
  BY <1>2 DEF Holding
<1>5. RecordsSound'
  BY <1>2, <1>4 DEF RecordsSound, Holding, allocation_holds_units
<1>6. ASSUME NEW p \in Pools
      PROVE  /\ HeldIn(p, "Reserved")' = HeldIn(p, "Reserved") \ V
             /\ HeldIn(p, "Committed")' = HeldIn(p, "Committed") \ V
             /\ HeldAs(p, "Pinned")' = HeldAs(p, "Pinned") \ V
             /\ HeldAs(p, "Reclaimable")' = HeldAs(p, "Reclaimable") \ V
             /\ HeldAny(p)' = HeldAny(p) \ V
             /\ LentBy(p)' = LentBy(p) \ V
             /\ \A q \in Queues :
                   /\ HeldBy(p, q, "Reserved")' = HeldBy(p, q, "Reserved") \ V
                   /\ HeldBy(p, q, "Committed")' = HeldBy(p, q, "Committed") \ V
  <2>1. /\ HeldIn(p, "Reserved")' = HeldIn(p, "Reserved") \ V
        /\ HeldIn(p, "Committed")' = HeldIn(p, "Committed") \ V
    BY <1>2 DEF HeldIn
  <2>2. /\ HeldAs(p, "Pinned")' = HeldAs(p, "Pinned") \ V
        /\ HeldAs(p, "Reclaimable")' = HeldAs(p, "Reclaimable") \ V
    BY <1>2, <1>4 DEF HeldAs
  <2>3. /\ HeldAny(p)' = HeldAny(p) \ V
        /\ LentBy(p)' = LentBy(p) \ V
    BY <1>2, <1>4 DEF HeldAny, LentBy
  <2>4. \A q \in Queues :
           /\ HeldBy(p, q, "Reserved")' = HeldBy(p, q, "Reserved") \ V
           /\ HeldBy(p, q, "Committed")' = HeldBy(p, q, "Committed") \ V
    BY <1>2, <2>1, HeldSets DEF HeldBy
  <2> QED  BY <2>1, <2>2, <2>3, <2>4
<1>7. ASSUME NEW p \in Pools
      PROVE  /\ TakenBack(usage'[p], p, V)
             /\ usage'[p] \in IntUsage
  <2>1. usage'[p] = UsageAfterReturn(V, V, V, UnitsHeld, BorrowHeld)[p]
    BY DEF Revoke, ReturnUnits
  <2> QED  BY <2>1, TakenForAll
<1>8. ASSUME NEW p \in Pools, NEW q \in Queues
      PROVE  /\ queue_reserved'[p][q] = Total(HeldBy(p, q, "Reserved")', UnitsHeld')
             /\ queue_committed'[p][q] = Total(HeldBy(p, q, "Committed")', UnitsHeld')
  <2> DEFINE res == {a \in {b \in V : allocations[b].state = "Reserved"} :
                        allocations[a].pool = p /\ allocations[a].queue = q}
             com == {a \in {b \in V : allocations[b].state # "Reserved"} :
                        allocations[a].pool = p /\ allocations[a].queue = q}
  <2>1. res = HeldBy(p, q, "Reserved") \cap V /\ com = HeldBy(p, q, "Committed") \cap V
    BY DEF HeldBy, HeldIn, Holding, allocation_holds_units
  <2>2. /\ queue_reserved'[p][q] = Monus(queue_reserved[p][q], Total(res, UnitsHeld))
        /\ queue_committed'[p][q] = Monus(queue_committed[p][q], Total(com, UnitsHeld))
    BY DEF Revoke, ReturnUnits, LeaveQueues, BucketsAfterReturn
  <2> HIDE DEF res, com
  <2>3. /\ queue_reserved[p][q] = Total(HeldBy(p, q, "Reserved"), UnitsHeld)
        /\ queue_committed[p][q] = Total(HeldBy(p, q, "Committed"), UnitsHeld)
    BY DEF AggregatesMatchRecords
  <2>4. /\ Total(HeldBy(p, q, "Reserved"), UnitsHeld)
             = Total(HeldBy(p, q, "Reserved") \ V, UnitsHeld) + Total(res, UnitsHeld)
        /\ Total(HeldBy(p, q, "Committed"), UnitsHeld)
             = Total(HeldBy(p, q, "Committed") \ V, UnitsHeld) + Total(com, UnitsHeld)
    BY <2>1, SplitAlong, HeldSets
  <2>5. /\ Total(HeldBy(p, q, "Reserved") \ V, UnitsHeld) \in Nat
        /\ Total(HeldBy(p, q, "Committed") \ V, UnitsHeld) \in Nat
        /\ Total(res, UnitsHeld) \in Nat
        /\ Total(com, UnitsHeld) \in Nat
    BY <2>1, TotalsTyped, HeldSets
  <2>6. /\ queue_reserved'[p][q] = Total(HeldBy(p, q, "Reserved") \ V, UnitsHeld)
        /\ queue_committed'[p][q] = Total(HeldBy(p, q, "Committed") \ V, UnitsHeld)
    BY <2>2, <2>3, <2>4, <2>5 DEF Monus
  <2> QED  BY <2>6, <1>3, <1>6
<1>9. ASSUME NEW p \in Pools
      PROVE  /\ usage'[p].reserved_units = Total(HeldIn(p, "Reserved")', UnitsHeld')
             /\ usage'[p].committed_units = Total(HeldIn(p, "Committed")', UnitsHeld')
             /\ usage'[p].pinned_units = Total(HeldAs(p, "Pinned")', UnitsHeld')
             /\ usage'[p].reclaimable_units = Total(HeldAs(p, "Reclaimable")', UnitsHeld')
             /\ usage'[p].borrowed_in = Total(HeldAny(p)', BorrowHeld')
             /\ usage'[p].lent_out = Total(LentBy(p)', BorrowHeld')
  <2> DEFINE Split(S, f) == /\ Total(S, f) = Total(S \ V, f) + Total(S \cap V, f)
                            /\ Total(S \ V, f) \in Nat
                            /\ Total(S \cap V, f) \in Nat
  <2>1. /\ Split(HeldIn(p, "Reserved"), UnitsHeld)
        /\ Split(HeldIn(p, "Committed"), UnitsHeld)
        /\ Split(HeldAs(p, "Pinned"), UnitsHeld)
        /\ Split(HeldAs(p, "Reclaimable"), UnitsHeld)
        /\ Split(HeldAny(p), BorrowHeld)
        /\ Split(LentBy(p), BorrowHeld)
    BY SplitAlong, TotalsTyped, HeldSets
  <2>2. /\ usage'[p].reserved_units = Total(HeldIn(p, "Reserved") \ V, UnitsHeld)
        /\ usage'[p].committed_units = Total(HeldIn(p, "Committed") \ V, UnitsHeld)
        /\ usage'[p].pinned_units = Total(HeldAs(p, "Pinned") \ V, UnitsHeld)
        /\ usage'[p].reclaimable_units = Total(HeldAs(p, "Reclaimable") \ V, UnitsHeld)
        /\ usage'[p].borrowed_in = Total(HeldAny(p) \ V, BorrowHeld)
        /\ usage'[p].lent_out = Total(LentBy(p) \ V, BorrowHeld)
    <3>1. /\ usage[p].reserved_units = Total(HeldIn(p, "Reserved"), UnitsHeld)
          /\ usage[p].committed_units = Total(HeldIn(p, "Committed"), UnitsHeld)
          /\ usage[p].pinned_units = Total(HeldAs(p, "Pinned"), UnitsHeld)
          /\ usage[p].reclaimable_units = Total(HeldAs(p, "Reclaimable"), UnitsHeld)
          /\ usage[p].borrowed_in = Total(HeldAny(p), BorrowHeld)
          /\ usage[p].lent_out = Total(LentBy(p), BorrowHeld)
      BY DEF AggregatesMatchRecords
    <3>2. TakenBack(usage'[p], p, V)
      BY <1>7
    <3>3. \A S, f, x : Split(S, f) /\ x = Total(S, f) - Total(S \cap V, f)
                           => x = Total(S \ V, f)
      OBVIOUS
    <3> HIDE DEF Split
    <3>4. /\ usage'[p].reserved_units = Total(HeldIn(p, "Reserved") \ V, UnitsHeld)
          /\ usage'[p].committed_units = Total(HeldIn(p, "Committed") \ V, UnitsHeld)
      BY <2>1, <3>1, <3>2, <3>3 DEF TakenBack
    <3>5. /\ usage'[p].pinned_units = Total(HeldAs(p, "Pinned") \ V, UnitsHeld)
          /\ usage'[p].reclaimable_units = Total(HeldAs(p, "Reclaimable") \ V, UnitsHeld)
      BY <2>1, <3>1, <3>2, <3>3 DEF TakenBack
    <3>6. /\ usage'[p].borrowed_in = Total(HeldAny(p) \ V, BorrowHeld)
          /\ usage'[p].lent_out = Total(LentBy(p) \ V, BorrowHeld)
      BY <2>1, <3>1, <3>2, <3>3 DEF TakenBack
    <3> QED  BY <3>4, <3>5, <3>6
  <2> QED  BY <2>2, <1>3, <1>6
<1>10. AggregatesMatchRecords'
  BY <1>8, <1>9 DEF AggregatesMatchRecords
<1>11. OwnUsageMatches'
  <2> SUFFICES ASSUME NEW p \in Pools
               PROVE  usage'[p].own_usage + usage'[p].borrowed_in
                        = usage'[p].reserved_units + usage'[p].committed_units
                            + usage'[p].lent_out
    BY DEF OwnUsageMatches
  <2>1. Total(HeldAny(p) \cap V, UnitsHeld)
          = Total(HeldIn(p, "Reserved") \cap V, UnitsHeld)
              + Total(HeldIn(p, "Committed") \cap V, UnitsHeld)
    <3> DEFINE A == HeldIn(p, "Reserved") \cap V
               B == HeldIn(p, "Committed") \cap V
    <3>1. HeldAny(p) \cap V = A \cup B /\ A \cap B = {}
      BY DEF HeldAny, HeldIn, Holding, allocation_holds_units
    <3>2. IsFiniteSet(A) /\ IsFiniteSet(B)
      BY AllocationsFinite, HeldSets
    <3>3. \A a \in A \cup B : UnitsHeld[a] \in Nat
      BY HeldTyped
    <3> HIDE DEF A, B
    <3>4. Total(A \cup B, UnitsHeld) = Total(A, UnitsHeld) + Total(B, UnitsHeld)
      BY <3>1, <3>2, <3>3, TotalDisjoint
    <3> QED  BY <3>1, <3>4 DEF A, B
  <2>2. /\ Total(HeldIn(p, "Reserved") \cap V, UnitsHeld) \in Int
        /\ Total(HeldIn(p, "Committed") \cap V, UnitsHeld) \in Int
        /\ Total(HeldAny(p) \cap V, BorrowHeld) \in Int
        /\ Total(LentBy(p) \cap V, BorrowHeld) \in Int
    BY TotalsTyped
  <2>3. /\ usage[p].reserved_units \in Int
        /\ usage[p].committed_units \in Int
        /\ usage[p].own_usage \in Int
        /\ usage[p].borrowed_in \in Int
        /\ usage[p].lent_out \in Int
    BY DEF StructOK, IntUsage
  <2>4. usage[p].own_usage + usage[p].borrowed_in
          = usage[p].reserved_units + usage[p].committed_units + usage[p].lent_out
    BY DEF OwnUsageMatches
  <2>5. TakenBack(usage'[p], p, V)
    BY <1>7
  <2>6. /\ usage'[p].reserved_units = usage[p].reserved_units
              - Total(HeldIn(p, "Reserved") \cap V, UnitsHeld)
        /\ usage'[p].committed_units = usage[p].committed_units
              - Total(HeldIn(p, "Committed") \cap V, UnitsHeld)
        /\ usage'[p].own_usage = usage[p].own_usage
              - (Total(HeldAny(p) \cap V, UnitsHeld) - Total(HeldAny(p) \cap V, BorrowHeld))
              - Total(LentBy(p) \cap V, BorrowHeld)
        /\ usage'[p].borrowed_in = usage[p].borrowed_in
              - Total(HeldAny(p) \cap V, BorrowHeld)
        /\ usage'[p].lent_out = usage[p].lent_out
              - Total(LentBy(p) \cap V, BorrowHeld)
    BY <2>5 DEF TakenBack
  <2> QED  BY <2>1, <2>2, <2>3, <2>4, <2>6
<1>12. usage' \in [Pools -> IntUsage]
  BY <1>7 DEF Revoke, ReturnUnits, UsageAfterReturn
<1>13. \A p \in Pools, q \in Queues : /\ queue_reserved'[p][q] \in Int
                                      /\ queue_committed'[p][q] \in Int
  <2>1. \A p \in Pools, q \in Queues :
           /\ Total(HeldBy(p, q, "Reserved") \ V, UnitsHeld) \in Int
           /\ Total(HeldBy(p, q, "Committed") \ V, UnitsHeld) \in Int
    BY TotalsTyped, HeldSets
  <2> QED  BY <2>1, <1>3, <1>6, <1>8
<1>14. /\ queue_reserved' \in [Pools -> [Queues -> Int]]
       /\ queue_committed' \in [Pools -> [Queues -> Int]]
  BY <1>13 DEF Revoke, ReturnUnits, LeaveQueues, BucketsAfterReturn
<1>15. members' \in [Pools -> SUBSET AllocIds]
  BY DEF Revoke, ReturnUnits, LeaveQueues, StructOK
<1>16. ASSUME NEW p \in Pools
       PROVE  /\ Allocated(usage'[p]) <= Allocated(usage[p])
              /\ usage'[p].lent_out <= usage[p].lent_out
  <2>1. /\ Total(HeldIn(p, "Reserved") \cap V, UnitsHeld) \in Nat
        /\ Total(HeldIn(p, "Committed") \cap V, UnitsHeld) \in Nat
        /\ Total(LentBy(p) \cap V, BorrowHeld) \in Nat
    BY TotalsTyped, HeldSets
  <2>2. /\ usage[p].reserved_units \in Int
        /\ usage[p].committed_units \in Int
        /\ usage[p].lent_out \in Int
    BY DEF StructOK, IntUsage
  <2>3. TakenBack(usage'[p], p, V)
    BY <1>7
  <2> QED  BY <2>1, <2>2, <2>3 DEF TakenBack, Allocated
<1> QED  BY <1>1, <1>5, <1>10, <1>11, <1>12, <1>14, <1>15, <1>16

\* When the record of one allocation a changes, every sum over allocations
\* changes by what a contributed before and contributes now.
LEMMA PointSums ==
    ASSUME StructOK, allocations' \in [AllocIds -> AllocationRecord],
           NEW a \in AllocIds,
           \A x \in AllocIds \ {a} : allocations'[x] = allocations[x],
           NEW S \in SUBSET AllocIds, NEW T \in SUBSET AllocIds, S \ {a} = T \ {a}
    PROVE  /\ Total(T, UnitsHeld') = Total(S, UnitsHeld) - When(a \in S, UnitsHeld[a])
                                                        + When(a \in T, UnitsHeld'[a])
           /\ Total(T, BorrowHeld') = Total(S, BorrowHeld) - When(a \in S, BorrowHeld[a])
                                                          + When(a \in T, BorrowHeld'[a])
<1>1. IsFiniteSet(S) /\ IsFiniteSet(T)
  BY AllocationsFinite
<1>2. \A x \in AllocIds : UnitsHeld[x] \in Nat /\ BorrowHeld[x] \in Nat
  BY HeldTyped
<1>3. \A x \in AllocIds : UnitsHeld'[x] \in Nat /\ BorrowHeld'[x] \in Nat
  BY DEF AllocationRecord, UnitsHeld, BorrowHeld, AtMost
<1>4. \A x \in AllocIds \ {a} : UnitsHeld[x] = UnitsHeld'[x] /\ BorrowHeld[x] = BorrowHeld'[x]
  BY DEF UnitsHeld, BorrowHeld
<1> DEFINE u == UnitsHeld
           v == UnitsHeld'
           b == BorrowHeld
           c == BorrowHeld'
<1>5. /\ \A x \in S : u[x] \in Nat /\ b[x] \in Nat
      /\ \A x \in T : v[x] \in Nat /\ c[x] \in Nat
      /\ \A x \in S \ {a} : u[x] = v[x] /\ b[x] = c[x]
  BY <1>2, <1>3, <1>4
<1> HIDE DEF u, v, b, c
<1>6. Total(T, v) = Total(S, u) - (IF a \in S THEN u[a] ELSE 0) + (IF a \in T THEN v[a] ELSE 0)
  BY <1>1, <1>5, TotalPoint
<1>7. Total(T, c) = Total(S, b) - (IF a \in S THEN b[a] ELSE 0) + (IF a \in T THEN c[a] ELSE 0)
  BY <1>1, <1>5, TotalPoint
<1> QED  BY <1>6, <1>7 DEF u, v, b, c, When

\* The aggregates of every pool move by what the record of a says.
PointMoved(a) ==
    \A p \in Pools :
        /\ usage'[p].reserved_units = usage[p].reserved_units
              - When(a \in HeldIn(p, "Reserved"), UnitsHeld[a])
              + When((a \in HeldIn(p, "Reserved"))', UnitsHeld'[a])
        /\ usage'[p].committed_units = usage[p].committed_units
              - When(a \in HeldIn(p, "Committed"), UnitsHeld[a])
              + When((a \in HeldIn(p, "Committed"))', UnitsHeld'[a])
        /\ usage'[p].pinned_units = usage[p].pinned_units
              - When(a \in HeldAs(p, "Pinned"), UnitsHeld[a])
              + When((a \in HeldAs(p, "Pinned"))', UnitsHeld'[a])
        /\ usage'[p].reclaimable_units = usage[p].reclaimable_units
              - When(a \in HeldAs(p, "Reclaimable"), UnitsHeld[a])
              + When((a \in HeldAs(p, "Reclaimable"))', UnitsHeld'[a])
        /\ usage'[p].borrowed_in = usage[p].borrowed_in
              - When(a \in HeldAny(p), BorrowHeld[a])
              + When((a \in HeldAny(p))', BorrowHeld'[a])
        /\ usage'[p].lent_out = usage[p].lent_out
              - When(a \in LentBy(p), BorrowHeld[a])
              + When((a \in LentBy(p))', BorrowHeld'[a])
        /\ \A q \in Queues :
              /\ queue_reserved'[p][q] = queue_reserved[p][q]
                    - When(a \in HeldBy(p, q, "Reserved"), UnitsHeld[a])
                    + When((a \in HeldBy(p, q, "Reserved"))', UnitsHeld'[a])
              /\ queue_committed'[p][q] = queue_committed[p][q]
                    - When(a \in HeldBy(p, q, "Committed"), UnitsHeld[a])
                    + When((a \in HeldBy(p, q, "Committed"))', UnitsHeld'[a])

\* An operation on one allocation that moves the aggregates by what its record
\* says keeps them equal to the sums.
LEMMA PointStep ==
    ASSUME StructOK, AggregatesMatchRecords,
           allocations' \in [AllocIds -> AllocationRecord],
           NEW a \in AllocIds,
           \A x \in AllocIds \ {a} : allocations'[x] = allocations[x],
           PointMoved(a)
    PROVE  AggregatesMatchRecords'
<1> DEFINE Moved(S, T, f, g) == Total(T, g) = Total(S, f) - When(a \in S, f[a])
                                                       + When(a \in T, g[a])
<1>1. ASSUME NEW p \in Pools
      PROVE  /\ Moved(HeldIn(p, "Reserved"), HeldIn(p, "Reserved")', UnitsHeld, UnitsHeld')
             /\ Moved(HeldIn(p, "Committed"), HeldIn(p, "Committed")', UnitsHeld, UnitsHeld')
             /\ Moved(HeldAs(p, "Pinned"), HeldAs(p, "Pinned")', UnitsHeld, UnitsHeld')
             /\ Moved(HeldAs(p, "Reclaimable"), HeldAs(p, "Reclaimable")', UnitsHeld, UnitsHeld')
             /\ Moved(HeldAny(p), HeldAny(p)', BorrowHeld, BorrowHeld')
             /\ Moved(LentBy(p), LentBy(p)', BorrowHeld, BorrowHeld')
  <2>1. Moved(HeldIn(p, "Reserved"), HeldIn(p, "Reserved")', UnitsHeld, UnitsHeld')
    <3>1. /\ HeldIn(p, "Reserved") \in SUBSET AllocIds
          /\ HeldIn(p, "Reserved")' \in SUBSET AllocIds
          /\ HeldIn(p, "Reserved") \ {a} = HeldIn(p, "Reserved")' \ {a}
      BY DEF HeldIn
    <3> QED  BY <3>1, PointSums
  <2>2. Moved(HeldIn(p, "Committed"), HeldIn(p, "Committed")', UnitsHeld, UnitsHeld')
    <3>1. /\ HeldIn(p, "Committed") \in SUBSET AllocIds
          /\ HeldIn(p, "Committed")' \in SUBSET AllocIds
          /\ HeldIn(p, "Committed") \ {a} = HeldIn(p, "Committed")' \ {a}
      BY DEF HeldIn
    <3> QED  BY <3>1, PointSums
  <2>3. Moved(HeldAs(p, "Pinned"), HeldAs(p, "Pinned")', UnitsHeld, UnitsHeld')
    <3>1. /\ HeldAs(p, "Pinned") \in SUBSET AllocIds
          /\ HeldAs(p, "Pinned")' \in SUBSET AllocIds
          /\ HeldAs(p, "Pinned") \ {a} = HeldAs(p, "Pinned")' \ {a}
      BY DEF HeldAs, Holding
    <3> QED  BY <3>1, PointSums
  <2>4. Moved(HeldAs(p, "Reclaimable"), HeldAs(p, "Reclaimable")', UnitsHeld, UnitsHeld')
    <3>1. /\ HeldAs(p, "Reclaimable") \in SUBSET AllocIds
          /\ HeldAs(p, "Reclaimable")' \in SUBSET AllocIds
          /\ HeldAs(p, "Reclaimable") \ {a} = HeldAs(p, "Reclaimable")' \ {a}
      BY DEF HeldAs, Holding
    <3> QED  BY <3>1, PointSums
  <2>5. Moved(HeldAny(p), HeldAny(p)', BorrowHeld, BorrowHeld')
    <3>1. /\ HeldAny(p) \in SUBSET AllocIds
          /\ HeldAny(p)' \in SUBSET AllocIds
          /\ HeldAny(p) \ {a} = HeldAny(p)' \ {a}
      BY DEF HeldAny, Holding
    <3> QED  BY <3>1, PointSums
  <2>6. Moved(LentBy(p), LentBy(p)', BorrowHeld, BorrowHeld')
    <3>1. /\ LentBy(p) \in SUBSET AllocIds
          /\ LentBy(p)' \in SUBSET AllocIds
          /\ LentBy(p) \ {a} = LentBy(p)' \ {a}
      BY DEF LentBy, Holding
    <3> QED  BY <3>1, PointSums
  <2> QED  BY <2>1, <2>2, <2>3, <2>4, <2>5, <2>6
<1>2. ASSUME NEW p \in Pools, NEW q \in Queues, NEW s \in {"Reserved", "Committed"}
      PROVE  Moved(HeldBy(p, q, s), HeldBy(p, q, s)', UnitsHeld, UnitsHeld')
  <2>1. /\ HeldBy(p, q, s) \in SUBSET AllocIds
        /\ HeldBy(p, q, s)' \in SUBSET AllocIds
        /\ HeldBy(p, q, s) \ {a} = HeldBy(p, q, s)' \ {a}
    BY DEF HeldBy, HeldIn
  <2> QED  BY <2>1, PointSums
<1> HIDE DEF Moved
<1>3. ASSUME NEW p \in Pools
      PROVE  /\ usage'[p].reserved_units = Total(HeldIn(p, "Reserved")', UnitsHeld')
             /\ usage'[p].committed_units = Total(HeldIn(p, "Committed")', UnitsHeld')
             /\ usage'[p].pinned_units = Total(HeldAs(p, "Pinned")', UnitsHeld')
             /\ usage'[p].reclaimable_units = Total(HeldAs(p, "Reclaimable")', UnitsHeld')
             /\ usage'[p].borrowed_in = Total(HeldAny(p)', BorrowHeld')
             /\ usage'[p].lent_out = Total(LentBy(p)', BorrowHeld')
  <2>1. usage'[p].reserved_units = Total(HeldIn(p, "Reserved")', UnitsHeld')
    BY <1>1 DEF Moved, PointMoved, AggregatesMatchRecords
  <2>2. usage'[p].committed_units = Total(HeldIn(p, "Committed")', UnitsHeld')
    BY <1>1 DEF Moved, PointMoved, AggregatesMatchRecords
  <2>3. usage'[p].pinned_units = Total(HeldAs(p, "Pinned")', UnitsHeld')
    BY <1>1 DEF Moved, PointMoved, AggregatesMatchRecords
  <2>4. usage'[p].reclaimable_units = Total(HeldAs(p, "Reclaimable")', UnitsHeld')
    BY <1>1 DEF Moved, PointMoved, AggregatesMatchRecords
  <2>5. usage'[p].borrowed_in = Total(HeldAny(p)', BorrowHeld')
    BY <1>1 DEF Moved, PointMoved, AggregatesMatchRecords
  <2>6. usage'[p].lent_out = Total(LentBy(p)', BorrowHeld')
    BY <1>1 DEF Moved, PointMoved, AggregatesMatchRecords
  <2> QED  BY <2>1, <2>2, <2>3, <2>4, <2>5, <2>6
<1>4. ASSUME NEW p \in Pools, NEW q \in Queues
      PROVE  /\ queue_reserved'[p][q] = Total(HeldBy(p, q, "Reserved")', UnitsHeld')
             /\ queue_committed'[p][q] = Total(HeldBy(p, q, "Committed")', UnitsHeld')
  <2>1. queue_reserved'[p][q] = Total(HeldBy(p, q, "Reserved")', UnitsHeld')
    <3>1. queue_reserved[p][q] = Total(HeldBy(p, q, "Reserved"), UnitsHeld)
      BY DEF AggregatesMatchRecords
    <3>2. queue_reserved'[p][q] = queue_reserved[p][q]
             - When(a \in HeldBy(p, q, "Reserved"), UnitsHeld[a])
             + When((a \in HeldBy(p, q, "Reserved"))', UnitsHeld'[a])
      BY DEF PointMoved
    <3>3. Moved(HeldBy(p, q, "Reserved"), HeldBy(p, q, "Reserved")', UnitsHeld, UnitsHeld')
      BY <1>2
    <3> QED  BY <3>1, <3>2, <3>3 DEF Moved
  <2>2. queue_committed'[p][q] = Total(HeldBy(p, q, "Committed")', UnitsHeld')
    <3>1. queue_committed[p][q] = Total(HeldBy(p, q, "Committed"), UnitsHeld)
      BY DEF AggregatesMatchRecords
    <3>2. queue_committed'[p][q] = queue_committed[p][q]
             - When(a \in HeldBy(p, q, "Committed"), UnitsHeld[a])
             + When((a \in HeldBy(p, q, "Committed"))', UnitsHeld'[a])
      BY DEF PointMoved
    <3>3. Moved(HeldBy(p, q, "Committed"), HeldBy(p, q, "Committed")', UnitsHeld, UnitsHeld')
      BY <1>2
    <3> QED  BY <3>1, <3>2, <3>3 DEF Moved
  <2> QED  BY <2>1, <2>2
<1> QED  BY <1>3, <1>4 DEF AggregatesMatchRecords

\* The fields of a ledger entry are integers, and an entry is made of them.
LEMMA UsageFields ==
    ASSUME NEW w \in IntUsage
    PROVE  /\ w.reserved_units \in Int
           /\ w.committed_units \in Int
           /\ w.pinned_units \in Int
           /\ w.reclaimable_units \in Int
           /\ w.own_usage \in Int
           /\ w.borrowed_in \in Int
           /\ w.lent_out \in Int
BY DEF IntUsage

\* What holder z contributes to a sum over the set S.
Share(z, S, m) == When(z \in S, m)

\* A share of an integer is an integer.
LEMMA ShareTyped ==
    ASSUME NEW z, NEW S, NEW m \in Int
    PROVE  Share(z, S, m) \in Int
BY DEF Share, When
-----------------------------------------------------------------------------
(* release, of a whole allocation and of a part of one.                    *)

\* A sum over no more than one holder.
LEMMA TotalOne ==
    ASSUME NEW a, NEW f, f[a] \in Nat, NEW S, NEW T,
           S = IF a \in T THEN {a} ELSE {}
    PROVE  Total(S, f) = When(a \in T, f[a])
BY TotalSingleton, TotalEmpty DEF When

\* release gives back part of the loan with part of the units.
LEMMA ReleasedBorrowFits ==
    ASSUME IInv, SmallRequests, NEW a \in AllocIds, Holding(a), NEW n \in 1..UnitsHeld[a]
    PROVE  /\ ReleasedBorrow(a, n) \in Nat
           /\ ReleasedBorrow(a, n) <= BorrowHeld[a]
           /\ ReleasedBorrow(a, n) <= n
           /\ BorrowHeld[a] - ReleasedBorrow(a, n) <= UnitsHeld[a] - n
           /\ n = UnitsHeld[a] => ReleasedBorrow(a, n) = BorrowHeld[a]
<1> DEFINE u == UnitsHeld[a]
           b == BorrowHeld[a]
<1>1. u \in Nat /\ b \in Nat /\ b <= u /\ n \in Nat /\ n <= u /\ Word \in Nat
  BY HeldTyped, BoundAssumption DEF IInv
<1>2. CASE n = u
  BY <1>1, <1>2 DEF ReleasedBorrow
<1>3. CASE n # u
  <2>1. PICK s \in AllocateRequests : u <= s.requested_units
    BY DEF IInv, RecordsSound, UnitsHeld
  <2>2. s.requested_units \in Nat /\ s.requested_units * s.requested_units < Word
    BY InputAssumption DEF AllocateRequest, SmallRequests
  <2>3. n < u
    BY <1>1, <1>3
  <2>4. ReleasedBorrow(a, n) = ((b * n) % Word) \div u
    BY <1>3 DEF ReleasedBorrow
  <2> HIDE DEF u, b
  <2>5. LET k == ((b * n) % Word) \div u IN k \in Nat /\ k <= b /\ k <= n /\ b - k <= u - n
    BY <1>1, <2>1, <2>2, <2>3, ProportionalReturn
  <2> QED  BY <1>3, <2>4, <2>5 DEF u, b
<1> QED  BY <1>2, <1>3

\* The entry w is what giving back n units of a leaves of the aggregates of x.
GivenBack(w, x, a, n) ==
    /\ w.reserved_units = usage[x].reserved_units - When(a \in HeldIn(x, "Reserved"), n)
    /\ w.committed_units = usage[x].committed_units - When(a \in HeldIn(x, "Committed"), n)
    /\ w.pinned_units = usage[x].pinned_units - When(a \in HeldAs(x, "Pinned"), n)
    /\ w.reclaimable_units
          = usage[x].reclaimable_units - When(a \in HeldAs(x, "Reclaimable"), n)
    /\ w.own_usage = usage[x].own_usage
          - (When(a \in HeldAny(x), n) - When(a \in HeldAny(x), ReleasedBorrow(a, n)))
          - When(a \in LentBy(x), ReleasedBorrow(a, n))
    /\ w.borrowed_in = usage[x].borrowed_in - When(a \in HeldAny(x), ReleasedBorrow(a, n))
    /\ w.lent_out = usage[x].lent_out - When(a \in LentBy(x), ReleasedBorrow(a, n))

\* What apply_release_units takes from the pool x when n units of a go back.
LEMMA TakenForOne ==
    ASSUME IInv, SmallRequests, NEW a \in AllocIds, Holding(a), NEW n \in 1..UnitsHeld[a],
           NEW x \in Pools
    PROVE  LET w == UsageAfterReturn({a}, {a}, {a}, Each(n), LentPart(a, n))[x]
           IN  GivenBack(w, x, a, n) /\ w \in IntUsage
<1> USE DEF IInv
<1> DEFINE ns == Each(n)
           bs == LentPart(a, n)
           back == ReleasedBorrow(a, n)
           w == UsageAfterReturn({a}, {a}, {a}, ns, bs)[x]
<1>1. /\ Holding(a)
      /\ allocations[a].state \in {"Reserved", "Committed"}
      /\ allocations[a].reclaim_class \in {"Pinned", "Reclaimable"}
  BY DEF Holding, allocation_holds_units, StructOK, AllocationRecord
<1>2. n \in Nat /\ back \in Nat /\ back <= n
  BY HeldTyped, ReleasedBorrowFits
<1>3. ns[a] = n /\ bs[a] = back
  BY <1>2 DEF Each, LentPart, AtMost
<1> DEFINE mine == {y \in {a} : allocations[y].pool = x}
           lent == {y \in {a} : allocations[y].lender = x}
           res == {y \in mine : allocations[y].state = "Reserved"}
           com == {y \in mine : allocations[y].state # "Reserved"}
           pin == {y \in mine : allocations[y].reclaim_class = "Pinned"}
           rec == {y \in mine : allocations[y].reclaim_class # "Pinned"}
<1>4. w =
        [reserved_units |-> usage[x].reserved_units - Total(res, ns),
         committed_units |-> usage[x].committed_units - Total(com, ns),
         pinned_units |-> usage[x].pinned_units - Total(pin, ns),
         reclaimable_units |-> usage[x].reclaimable_units - Total(rec, ns),
         own_usage |-> usage[x].own_usage - (Total(mine, ns) - Total(mine, bs))
                           - Total(lent, bs),
         borrowed_in |-> usage[x].borrowed_in - Total(mine, bs),
         lent_out |-> usage[x].lent_out - Total(lent, bs)]
  BY DEF UsageAfterReturn
<1>5. /\ res = IF a \in HeldIn(x, "Reserved") THEN {a} ELSE {}
      /\ com = IF a \in HeldIn(x, "Committed") THEN {a} ELSE {}
  BY <1>1 DEF HeldIn
<1>6. /\ pin = IF a \in HeldAs(x, "Pinned") THEN {a} ELSE {}
      /\ rec = IF a \in HeldAs(x, "Reclaimable") THEN {a} ELSE {}
      /\ mine = IF a \in HeldAny(x) THEN {a} ELSE {}
      /\ lent = IF a \in LentBy(x) THEN {a} ELSE {}
  BY <1>1 DEF HeldAs, HeldAny, LentBy
<1> HIDE DEF mine, lent, res, com, pin, rec, ns, bs, back, w
<1>7. /\ Total(res, ns) = When(a \in HeldIn(x, "Reserved"), n)
      /\ Total(com, ns) = When(a \in HeldIn(x, "Committed"), n)
      /\ Total(pin, ns) = When(a \in HeldAs(x, "Pinned"), n)
      /\ Total(rec, ns) = When(a \in HeldAs(x, "Reclaimable"), n)
      /\ Total(mine, ns) = When(a \in HeldAny(x), n)
      /\ Total(mine, bs) = When(a \in HeldAny(x), back)
      /\ Total(lent, bs) = When(a \in LentBy(x), back)
  BY <1>2, <1>3, <1>5, <1>6, TotalOne
<1>8. usage[x] \in IntUsage
  BY DEF StructOK
<1>9. /\ When(a \in HeldIn(x, "Reserved"), n) \in Int
      /\ When(a \in HeldIn(x, "Committed"), n) \in Int
      /\ When(a \in HeldAs(x, "Pinned"), n) \in Int
      /\ When(a \in HeldAs(x, "Reclaimable"), n) \in Int
      /\ When(a \in HeldAny(x), n) \in Int
      /\ When(a \in HeldAny(x), back) \in Int
      /\ When(a \in LentBy(x), back) \in Int
  <2>1. n \in Int /\ back \in Int
    BY <1>2
  <2>2. /\ Share(a, HeldIn(x, "Reserved"), n) \in Int
        /\ Share(a, HeldIn(x, "Committed"), n) \in Int
        /\ Share(a, HeldAs(x, "Pinned"), n) \in Int
        /\ Share(a, HeldAs(x, "Reclaimable"), n) \in Int
        /\ Share(a, HeldAny(x), n) \in Int
        /\ Share(a, HeldAny(x), back) \in Int
        /\ Share(a, LentBy(x), back) \in Int
    BY <2>1, ShareTyped
  <2> QED  BY <2>2 DEF Share
<1>10. /\ w.reserved_units
            = usage[x].reserved_units - When(a \in HeldIn(x, "Reserved"), n)
      /\ w.committed_units
            = usage[x].committed_units - When(a \in HeldIn(x, "Committed"), n)
      /\ w.pinned_units
            = usage[x].pinned_units - When(a \in HeldAs(x, "Pinned"), n)
      /\ w.reclaimable_units
            = usage[x].reclaimable_units - When(a \in HeldAs(x, "Reclaimable"), n)
      /\ w.own_usage = usage[x].own_usage
            - (When(a \in HeldAny(x), n) - When(a \in HeldAny(x), back))
            - When(a \in LentBy(x), back)
      /\ w.borrowed_in = usage[x].borrowed_in - When(a \in HeldAny(x), back)
      /\ w.lent_out = usage[x].lent_out - When(a \in LentBy(x), back)
  BY <1>4, <1>7
<1>11. /\ w.reserved_units \in Int
      /\ w.committed_units \in Int
      /\ w.pinned_units \in Int
      /\ w.reclaimable_units \in Int
      /\ w.own_usage \in Int
      /\ w.borrowed_in \in Int
      /\ w.lent_out \in Int
  BY <1>8, <1>9, <1>10, UsageFields
<1>12. w \in IntUsage
  BY <1>4, <1>11 DEF IntUsage
<1> QED  BY <1>10, <1>12 DEF GivenBack, back, w, ns, bs

\* A sum over S with the part m of what a contributes to it taken out.
LEMMA TotalLess ==
    ASSUME StructOK, NEW a \in AllocIds, NEW S \in SUBSET AllocIds
    PROVE  /\ Total(S, UnitsHeld)
                = Total(S \ {a}, UnitsHeld) + When(a \in S, UnitsHeld[a])
           /\ Total(S, BorrowHeld)
                = Total(S \ {a}, BorrowHeld) + When(a \in S, BorrowHeld[a])
           /\ Total(S \ {a}, UnitsHeld) \in Nat
           /\ Total(S \ {a}, BorrowHeld) \in Nat
<1>1. IsFiniteSet(S) /\ \A z \in S : UnitsHeld[z] \in Nat /\ BorrowHeld[z] \in Nat
  BY AllocationsFinite, HeldTyped
<1>2. /\ Total(S \ {a}, UnitsHeld) \in Nat
      /\ Total(S \ {a}, BorrowHeld) \in Nat
  BY TotalsTyped
<1>3. CASE a \in S
  <2>1. Total(S, UnitsHeld) = Total(S \ {a}, UnitsHeld) + UnitsHeld[a]
    BY <1>1, <1>3, TotalWithout, ZenonT(30)
  <2>2. Total(S, BorrowHeld) = Total(S \ {a}, BorrowHeld) + BorrowHeld[a]
    BY <1>1, <1>3, TotalWithout, ZenonT(30)
  <2> QED  BY <1>2, <1>3, <2>1, <2>2 DEF When
<1>4. CASE a \notin S
  <2>1. S \ {a} = S
    BY <1>4
  <2> QED  BY <1>2, <1>4, <2>1 DEF When
<1> QED  BY <1>2, <1>3, <1>4

\* Any number of the units of a holding allocation can be released: its pool
\* and its lender have what apply_release_units takes from them.
LEMMA HeldReleasable ==
    ASSUME IInv, SmallRequests, NEW a \in AllocIds, Holding(a), NEW n \in 1..UnitsHeld[a]
    PROVE  Releasable(a, n)
<1> USE DEF IInv
<1> DEFINE W == UsageAfterReturn({a}, {a}, {a}, Each(n), LentPart(a, n))
           u == UnitsHeld[a]
           b == BorrowHeld[a]
           back == ReleasedBorrow(a, n)
<1>1. /\ u \in Nat /\ b \in Nat /\ n \in Nat /\ back \in Nat
      /\ n <= u /\ back <= b /\ b - back <= u - n
  BY HeldTyped, ReleasedBorrowFits
<1>2. ASSUME NEW x \in Pools
      PROVE  W[x] \in Usage
  <2> DEFINE w == W[x]
             Less(S) ==
                 /\ Total(S, UnitsHeld) = Total(S \ {a}, UnitsHeld) + When(a \in S, u)
                 /\ Total(S, BorrowHeld) = Total(S \ {a}, BorrowHeld) + When(a \in S, b)
                 /\ Total(S \ {a}, UnitsHeld) \in Nat
                 /\ Total(S \ {a}, BorrowHeld) \in Nat
  <2>1. GivenBack(w, x, a, n) /\ w \in IntUsage
    BY TakenForOne
  <2>2. \A S \in SUBSET AllocIds : Less(S)
    BY TotalLess
  <2> HIDE DEF w, u, b, back
  <2>3. ASSUME NEW S \in SUBSET AllocIds
        PROVE  /\ Total(S, UnitsHeld) - When(a \in S, n) \in Nat
               /\ Total(S, BorrowHeld) - When(a \in S, back) \in Nat
    <3>1. Less(S)
      BY <2>2
    <3> QED  BY <1>1, <3>1 DEF When
  <2>4. /\ usage[x].reserved_units = Total(HeldIn(x, "Reserved"), UnitsHeld)
        /\ usage[x].committed_units = Total(HeldIn(x, "Committed"), UnitsHeld)
        /\ usage[x].pinned_units = Total(HeldAs(x, "Pinned"), UnitsHeld)
        /\ usage[x].reclaimable_units = Total(HeldAs(x, "Reclaimable"), UnitsHeld)
        /\ usage[x].borrowed_in = Total(HeldAny(x), BorrowHeld)
        /\ usage[x].lent_out = Total(LentBy(x), BorrowHeld)
    BY DEF AggregatesMatchRecords
  <2>5. /\ w.reserved_units \in Nat
        /\ w.committed_units \in Nat
    BY <2>1, <2>3, <2>4, HeldSets DEF GivenBack
  <2>6. /\ w.pinned_units \in Nat
        /\ w.reclaimable_units \in Nat
    BY <2>1, <2>3, <2>4, HeldSets DEF GivenBack
  <2>7. /\ w.borrowed_in \in Nat
        /\ w.lent_out \in Nat
    BY <2>1, <2>3, <2>4, HeldSets DEF GivenBack, back
  <2>8. w.own_usage \in Nat
    <3> DEFINE own == usage[x].own_usage
               held == Total(HeldAny(x), UnitsHeld)
               borrowed == Total(HeldAny(x), BorrowHeld)
               lent == Total(LentBy(x), BorrowHeld)
               tu == When(a \in HeldAny(x), n)
               tb == When(a \in HeldAny(x), back)
               tl == When(a \in LentBy(x), back)
    <3>1. Total(HeldAny(x) \ {a}, BorrowHeld) <= Total(HeldAny(x) \ {a}, UnitsHeld)
      <4>1. IsFiniteSet(HeldAny(x) \ {a})
        BY HeldSets, AllocationsFinite
      <4>2. \A z \in HeldAny(x) \ {a} : /\ BorrowHeld[z] \in Nat
                                        /\ UnitsHeld[z] \in Nat
                                        /\ BorrowHeld[z] <= UnitsHeld[z]
        BY HeldTyped, HeldSets
      <4> QED  BY <4>1, <4>2, TotalMonotone
    <3>2. /\ held \in Int /\ borrowed \in Int /\ tu \in Int /\ tb \in Int
          /\ borrowed - tb <= held - tu
      <4>1. Less(HeldAny(x))
        BY <2>2, HeldSets
      <4> QED  BY <1>1, <3>1, <4>1 DEF When
    <3>3. lent \in Int /\ tl \in Int /\ tl <= lent
      <4>1. Less(LentBy(x))
        BY <2>2, HeldSets
      <4> QED  BY <1>1, <4>1 DEF When
    <3>4. own \in Int
      BY DEF StructOK, IntUsage
    <3>5. own + borrowed = held + lent
      BY <2>4, HeldSplit DEF OwnUsageMatches
    <3>6. w.own_usage = own - (tu - tb) - tl
      BY <2>1 DEF GivenBack, back
    <3> HIDE DEF own, held, borrowed, lent, tu, tb, tl
    <3> QED  BY <3>2, <3>3, <3>4, <3>5, <3>6, OwnUsageCovers
  <2> QED  BY <2>1, <2>5, <2>6, <2>7, <2>8 DEF IntUsage, Usage, w
<1>3. W = [x \in Pools |-> W[x]]
  BY DEF UsageAfterReturn
<1> HIDE DEF W
<1>4. W \in [Pools -> Usage]
  BY <1>2, <1>3
<1> QED  BY <1>4 DEF W, Releasable, Returnable

\* release keeps the invariant, for all of the units or for some of them.
LEMMA ReleaseStep ==
    ASSUME IInv, SmallRequests, NEW a \in AllocIds, NEW n \in 1..UnitsHeld[a], Release(a, n)
    PROVE  IInv'
<1> USE DEF IInv
<1> DEFINE r == allocations[a]
           u == UnitsHeld[a]
           b == BorrowHeld[a]
           back == ReleasedBorrow(a, n)
           ns == Each(n)
           bs == LentPart(a, n)
<1>1. /\ Holding(a)
      /\ r.state \in {"Reserved", "Committed"}
      /\ r.pool \in Pools
      /\ r.queue \in Queues
      /\ pools[r.pool].generation # 0
      /\ r.reclaim_class \in {"Pinned", "Reclaimable"}
      /\ r.borrow_units # 0 => r.lender \in Pools
      /\ ~(a >= next_allocation_id)
  BY DEF Release, RecordsSound, Holding, allocation_holds_units, StructOK, AllocationRecord,
         Registered
<1>2. /\ u = r.units
      /\ b = r.borrow_units
      /\ u \in Nat
      /\ b \in Nat
      /\ n \in Nat
      /\ n # 0
      /\ n <= u
  BY <1>1, HeldTyped DEF RecordsSound, UnitsHeld, BorrowHeld, AtMost, StructOK, AllocationRecord
<1>3. back \in Nat /\ back <= b /\ back <= n /\ b - back <= u - n /\ (n = u => back = b)
  BY <1>1, ReleasedBorrowFits
<1>4. ns[a] = n /\ bs[a] = back
  BY <1>2, <1>3 DEF AtMost, Each, LentPart
<1>5. /\ ReturnUnits({a}, ns, bs)
      /\ allocations' =
            [allocations EXCEPT ![a] =
                [r EXCEPT !.state = IF u = n THEN "Released" ELSE r.state,
                          !.units = u - n,
                          !.borrow_units = b - back,
                          !.lender = IF u = n THEN NoPool ELSE r.lender,
                          !.last_touched = tick]]
  <2>1. /\ (r.units - n = 0) <=> (u = n)
        /\ When(r.units - n # 0, b - back) = b - back
    BY <1>2, <1>3 DEF When
  <2>2. Releasable(a, n)
    BY <1>1, HeldReleasable
  <2> QED  BY <1>2, <2>1, <2>2 DEF Release
<1> HIDE DEF u, b, back
<1>6. /\ allocations' \in [AllocIds -> AllocationRecord]
      /\ \A x \in AllocIds \ {a} : allocations'[x] = allocations[x]
      /\ allocations'[a].state = IF u = n THEN "Released" ELSE r.state
      /\ allocations'[a].pool = r.pool
      /\ allocations'[a].queue = r.queue
      /\ allocations'[a].units = u - n
      /\ allocations'[a].borrow_units = b - back
      /\ allocations'[a].lender = IF u = n THEN NoPool ELSE r.lender
      /\ allocations'[a].reclaim_class = r.reclaim_class
  <2> DEFINE nr == [r EXCEPT !.state = IF u = n THEN "Released" ELSE r.state,
                             !.units = u - n,
                             !.borrow_units = b - back,
                             !.lender = IF u = n THEN NoPool ELSE r.lender,
                             !.last_touched = tick]
  <2>1. /\ r \in AllocationRecord
        /\ tick \in Nat
        /\ u - n \in Nat
        /\ b - back \in Nat
    BY <1>2, <1>3 DEF StructOK
  <2>2. nr \in AllocationRecord
    BY <2>1 DEF AllocationRecord, AllocationState
  <2>3. /\ nr.state = IF u = n THEN "Released" ELSE r.state
        /\ nr.pool = r.pool
        /\ nr.queue = r.queue
        /\ nr.units = u - n
        /\ nr.borrow_units = b - back
        /\ nr.lender = IF u = n THEN NoPool ELSE r.lender
        /\ nr.reclaim_class = r.reclaim_class
    BY <2>1 DEF AllocationRecord
  <2> HIDE DEF nr
  <2>4. allocations' = [allocations EXCEPT ![a] = nr]
    BY <1>5 DEF nr
  <2> QED  BY <2>2, <2>3, <2>4 DEF StructOK
<1>7. /\ UnitsHeld'[a] = u - n
      /\ BorrowHeld'[a] = b - back
      /\ UnitsHeld[a] = u
      /\ BorrowHeld[a] = b
  <2>1. UnitsHeld[a] = u /\ BorrowHeld[a] = b
    BY DEF u, b
  <2> QED  BY <1>2, <1>3, <1>6, <2>1 DEF UnitsHeld, BorrowHeld, AtMost
<1>8. (Holding(a))' <=> u # n
  BY <1>1, <1>6 DEF Holding, allocation_holds_units
<1>9. ASSUME NEW x \in Pools
      PROVE  /\ (a \in HeldIn(x, "Reserved"))' <=> a \in HeldIn(x, "Reserved") /\ u # n
             /\ (a \in HeldIn(x, "Committed"))' <=> a \in HeldIn(x, "Committed") /\ u # n
             /\ (a \in HeldAs(x, "Pinned"))' <=> a \in HeldAs(x, "Pinned") /\ u # n
             /\ (a \in HeldAs(x, "Reclaimable"))' <=> a \in HeldAs(x, "Reclaimable") /\ u # n
             /\ (a \in HeldAny(x))' <=> a \in HeldAny(x) /\ u # n
             /\ (a \in LentBy(x))' <=> a \in LentBy(x) /\ u # n
             /\ \A y : /\ (a \in HeldBy(x, y, "Reserved"))'
                             <=> a \in HeldBy(x, y, "Reserved") /\ u # n
                       /\ (a \in HeldBy(x, y, "Committed"))'
                             <=> a \in HeldBy(x, y, "Committed") /\ u # n
  <2>1. /\ (a \in HeldIn(x, "Reserved"))' <=> a \in HeldIn(x, "Reserved") /\ u # n
        /\ (a \in HeldIn(x, "Committed"))' <=> a \in HeldIn(x, "Committed") /\ u # n
    BY <1>6 DEF HeldIn
  <2>2. /\ (a \in HeldAs(x, "Pinned"))' <=> a \in HeldAs(x, "Pinned") /\ u # n
        /\ (a \in HeldAs(x, "Reclaimable"))' <=> a \in HeldAs(x, "Reclaimable") /\ u # n
        /\ (a \in HeldAny(x))' <=> a \in HeldAny(x) /\ u # n
        /\ (a \in LentBy(x))' <=> a \in LentBy(x) /\ u # n
    BY <1>1, <1>6, <1>8 DEF HeldAs, HeldAny, LentBy
  <2>3. \A y : /\ (a \in HeldBy(x, y, "Reserved"))'
                     <=> a \in HeldBy(x, y, "Reserved") /\ u # n
               /\ (a \in HeldBy(x, y, "Committed"))'
                     <=> a \in HeldBy(x, y, "Committed") /\ u # n
    BY <1>6, <2>1 DEF HeldBy
  <2> QED  BY <2>1, <2>2, <2>3
<1>10. ASSUME NEW x \in Pools
       PROVE  /\ usage'[x].reserved_units
                    = usage[x].reserved_units - When(a \in HeldIn(x, "Reserved"), n)
              /\ usage'[x].committed_units
                    = usage[x].committed_units - When(a \in HeldIn(x, "Committed"), n)
              /\ usage'[x].pinned_units
                    = usage[x].pinned_units - When(a \in HeldAs(x, "Pinned"), n)
              /\ usage'[x].reclaimable_units
                    = usage[x].reclaimable_units - When(a \in HeldAs(x, "Reclaimable"), n)
              /\ usage'[x].own_usage = usage[x].own_usage
                    - (When(a \in HeldAny(x), n) - When(a \in HeldAny(x), back))
                    - When(a \in LentBy(x), back)
              /\ usage'[x].borrowed_in = usage[x].borrowed_in - When(a \in HeldAny(x), back)
              /\ usage'[x].lent_out = usage[x].lent_out - When(a \in LentBy(x), back)
              /\ usage[x] \in IntUsage
              /\ usage'[x] \in IntUsage
  <2>1. usage'[x] = UsageAfterReturn({a}, {a}, {a}, ns, bs)[x]
    BY <1>5 DEF ReturnUnits
  <2>2. usage[x] \in IntUsage
    BY DEF StructOK
  <2>3. GivenBack(usage'[x], x, a, n) /\ usage'[x] \in IntUsage
    BY <1>1, <2>1, TakenForOne
  <2> QED  BY <2>2, <2>3 DEF GivenBack, back
<1>11. ASSUME NEW x \in Pools, NEW y \in Queues
       PROVE  /\ queue_reserved'[x][y] = queue_reserved[x][y]
                    - When(a \in HeldBy(x, y, "Reserved"), n)
              /\ queue_committed'[x][y] = queue_committed[x][y]
                    - When(a \in HeldBy(x, y, "Committed"), n)
              /\ queue_reserved[x][y] \in Int
              /\ queue_committed[x][y] \in Int
  <2>1. queue_reserved[x][y] \in Int /\ queue_committed[x][y] \in Int
    BY DEF StructOK
  <2> DEFINE R == HeldBy(x, y, "Reserved")
             C == HeldBy(x, y, "Committed")
             res == {z \in {w \in {a} : allocations[w].state = "Reserved"} :
                        allocations[z].pool = x /\ allocations[z].queue = y}
             com == {z \in {w \in {a} : allocations[w].state # "Reserved"} :
                        allocations[z].pool = x /\ allocations[z].queue = y}
  <2>2. /\ queue_reserved'[x][y] = Monus(queue_reserved[x][y], Total(res, ns))
        /\ queue_committed'[x][y] = Monus(queue_committed[x][y], Total(com, ns))
    BY <1>5 DEF ReturnUnits, LeaveQueues, BucketsAfterReturn
  <2>3. /\ res = IF a \in R THEN {a} ELSE {}
        /\ com = IF a \in C THEN {a} ELSE {}
    BY <1>1 DEF HeldBy, HeldIn
  <2>4. /\ queue_reserved[x][y] = Total(R, UnitsHeld)
        /\ queue_committed[x][y] = Total(C, UnitsHeld)
    BY DEF AggregatesMatchRecords
  <2>5. /\ R \in SUBSET AllocIds
        /\ C \in SUBSET AllocIds
    BY HeldSets
  <2> HIDE DEF res, com, R, C, ns
  <2>6. /\ Total(res, ns) = When(a \in R, n)
        /\ Total(com, ns) = When(a \in C, n)
    BY <1>2, <1>4, <2>3, TotalOne
  <2>7. ASSUME NEW S \in SUBSET AllocIds
        PROVE  Total(S, UnitsHeld) >= When(a \in S, n) /\ Total(S, UnitsHeld) \in Nat
    <3>1. IsFiniteSet(S) /\ \A z \in S : UnitsHeld[z] \in Nat
      BY AllocationsFinite, HeldTyped
    <3>2. Total(S \ {a}, UnitsHeld) \in Nat /\ Total(S, UnitsHeld) \in Nat
      BY TotalsTyped
    <3>3. CASE a \in S
      <4>1. Total(S, UnitsHeld) = Total(S \ {a}, UnitsHeld) + UnitsHeld[a]
        BY <3>1, <3>3, TotalWithout
      <4> QED  BY <1>2, <1>7, <3>2, <3>3, <4>1 DEF When
    <3>4. CASE a \notin S
      BY <3>2, <3>4 DEF When
    <3> QED  BY <3>3, <3>4
  <2>8. /\ queue_reserved[x][y] >= When(a \in R, n)
        /\ queue_committed[x][y] >= When(a \in C, n)
    BY <2>4, <2>5, <2>7
  <2>9. When(a \in R, n) \in Int /\ When(a \in C, n) \in Int
    BY <1>2 DEF When
  <2>10. /\ queue_reserved'[x][y] = queue_reserved[x][y] - When(a \in R, n)
         /\ queue_committed'[x][y] = queue_committed[x][y] - When(a \in C, n)
    BY <2>1, <2>2, <2>6, <2>8, <2>9 DEF Monus
  <2> QED  BY <2>1, <2>10 DEF R, C
<1>12. PointMoved(a)
  <2>1. ASSUME NEW x \in Pools
        PROVE  /\ usage'[x].reserved_units = usage[x].reserved_units
                    - When(a \in HeldIn(x, "Reserved"), UnitsHeld[a])
                    + When((a \in HeldIn(x, "Reserved"))', UnitsHeld'[a])
               /\ usage'[x].committed_units = usage[x].committed_units
                    - When(a \in HeldIn(x, "Committed"), UnitsHeld[a])
                    + When((a \in HeldIn(x, "Committed"))', UnitsHeld'[a])
               /\ usage'[x].pinned_units = usage[x].pinned_units
                    - When(a \in HeldAs(x, "Pinned"), UnitsHeld[a])
                    + When((a \in HeldAs(x, "Pinned"))', UnitsHeld'[a])
               /\ usage'[x].reclaimable_units = usage[x].reclaimable_units
                    - When(a \in HeldAs(x, "Reclaimable"), UnitsHeld[a])
                    + When((a \in HeldAs(x, "Reclaimable"))', UnitsHeld'[a])
               /\ usage'[x].borrowed_in = usage[x].borrowed_in
                    - When(a \in HeldAny(x), BorrowHeld[a])
                    + When((a \in HeldAny(x))', BorrowHeld'[a])
               /\ usage'[x].lent_out = usage[x].lent_out
                    - When(a \in LentBy(x), BorrowHeld[a])
                    + When((a \in LentBy(x))', BorrowHeld'[a])
    <3>1. /\ usage[x].reserved_units \in Int
          /\ usage[x].committed_units \in Int
          /\ usage[x].pinned_units \in Int
          /\ usage[x].reclaimable_units \in Int
          /\ usage[x].borrowed_in \in Int
          /\ usage[x].lent_out \in Int
      BY <1>10 DEF IntUsage
    <3>2. /\ u \in Int /\ n \in Int /\ b \in Int /\ back \in Int
          /\ u = n => b = back
      BY <1>2, <1>3
    <3>3. usage'[x].reserved_units = usage[x].reserved_units - Share(a, HeldIn(x, "Reserved"), u)
               + Share(a, HeldIn(x, "Reserved")', u - n)
      <4>1. usage'[x].reserved_units = usage[x].reserved_units - Share(a, HeldIn(x, "Reserved"), n)
        BY <1>10 DEF Share
      <4>2. /\ a \in HeldIn(x, "Reserved")' => a \in HeldIn(x, "Reserved")
            /\ a \in HeldIn(x, "Reserved") /\ a \notin HeldIn(x, "Reserved")' => u = n
        BY <1>9
      <4> QED  BY <3>1, <3>2, <4>1, <4>2 DEF Share, When
    <3>4. usage'[x].committed_units = usage[x].committed_units - Share(a, HeldIn(x, "Committed"), u)
               + Share(a, HeldIn(x, "Committed")', u - n)
      <4>1. usage'[x].committed_units = usage[x].committed_units - Share(a, HeldIn(x, "Committed"), n)
        BY <1>10 DEF Share
      <4>2. /\ a \in HeldIn(x, "Committed")' => a \in HeldIn(x, "Committed")
            /\ a \in HeldIn(x, "Committed") /\ a \notin HeldIn(x, "Committed")' => u = n
        BY <1>9
      <4> QED  BY <3>1, <3>2, <4>1, <4>2 DEF Share, When
    <3>5. usage'[x].pinned_units = usage[x].pinned_units - Share(a, HeldAs(x, "Pinned"), u)
               + Share(a, HeldAs(x, "Pinned")', u - n)
      <4>1. usage'[x].pinned_units = usage[x].pinned_units - Share(a, HeldAs(x, "Pinned"), n)
        BY <1>10 DEF Share
      <4>2. /\ a \in HeldAs(x, "Pinned")' => a \in HeldAs(x, "Pinned")
            /\ a \in HeldAs(x, "Pinned") /\ a \notin HeldAs(x, "Pinned")' => u = n
        BY <1>9
      <4> QED  BY <3>1, <3>2, <4>1, <4>2 DEF Share, When
    <3>6. usage'[x].reclaimable_units = usage[x].reclaimable_units - Share(a, HeldAs(x, "Reclaimable"), u)
               + Share(a, HeldAs(x, "Reclaimable")', u - n)
      <4>1. usage'[x].reclaimable_units = usage[x].reclaimable_units - Share(a, HeldAs(x, "Reclaimable"), n)
        BY <1>10 DEF Share
      <4>2. /\ a \in HeldAs(x, "Reclaimable")' => a \in HeldAs(x, "Reclaimable")
            /\ a \in HeldAs(x, "Reclaimable") /\ a \notin HeldAs(x, "Reclaimable")' => u = n
        BY <1>9
      <4> QED  BY <3>1, <3>2, <4>1, <4>2 DEF Share, When
    <3>7. usage'[x].borrowed_in = usage[x].borrowed_in - Share(a, HeldAny(x), b)
               + Share(a, HeldAny(x)', b - back)
      <4>1. usage'[x].borrowed_in = usage[x].borrowed_in - Share(a, HeldAny(x), back)
        BY <1>10 DEF Share
      <4>2. /\ a \in HeldAny(x)' => a \in HeldAny(x)
            /\ a \in HeldAny(x) /\ a \notin HeldAny(x)' => b = back
        BY <1>9, <3>2
      <4> QED  BY <3>1, <3>2, <4>1, <4>2 DEF Share, When
    <3>8. usage'[x].lent_out = usage[x].lent_out - Share(a, LentBy(x), b)
               + Share(a, LentBy(x)', b - back)
      <4>1. usage'[x].lent_out = usage[x].lent_out - Share(a, LentBy(x), back)
        BY <1>10 DEF Share
      <4>2. /\ a \in LentBy(x)' => a \in LentBy(x)
            /\ a \in LentBy(x) /\ a \notin LentBy(x)' => b = back
        BY <1>9, <3>2
      <4> QED  BY <3>1, <3>2, <4>1, <4>2 DEF Share, When
    <3> QED  BY <1>7, <3>3, <3>4, <3>5, <3>6, <3>7, <3>8 DEF Share
  <2>2. ASSUME NEW x \in Pools, NEW y \in Queues
        PROVE  /\ queue_reserved'[x][y] = queue_reserved[x][y]
                    - When(a \in HeldBy(x, y, "Reserved"), UnitsHeld[a])
                    + When((a \in HeldBy(x, y, "Reserved"))', UnitsHeld'[a])
               /\ queue_committed'[x][y] = queue_committed[x][y]
                    - When(a \in HeldBy(x, y, "Committed"), UnitsHeld[a])
                    + When((a \in HeldBy(x, y, "Committed"))', UnitsHeld'[a])
    <3>1. u \in Int /\ n \in Int
      BY <1>2
    <3>2. queue_reserved[x][y] \in Int /\ queue_committed[x][y] \in Int
      BY <1>11
    <3>3. queue_reserved'[x][y] = queue_reserved[x][y] - Share(a, HeldBy(x, y, "Reserved"), u)
               + Share(a, HeldBy(x, y, "Reserved")', u - n)
      <4>1. queue_reserved'[x][y] = queue_reserved[x][y] - Share(a, HeldBy(x, y, "Reserved"), n)
        BY <1>11 DEF Share
      <4>2. /\ a \in HeldBy(x, y, "Reserved")' => a \in HeldBy(x, y, "Reserved")
            /\ a \in HeldBy(x, y, "Reserved") /\ a \notin HeldBy(x, y, "Reserved")' => u = n
        BY <1>9
      <4> QED  BY <3>1, <3>2, <4>1, <4>2 DEF Share, When
    <3>4. queue_committed'[x][y] = queue_committed[x][y] - Share(a, HeldBy(x, y, "Committed"), u)
               + Share(a, HeldBy(x, y, "Committed")', u - n)
      <4>1. queue_committed'[x][y] = queue_committed[x][y] - Share(a, HeldBy(x, y, "Committed"), n)
        BY <1>11 DEF Share
      <4>2. /\ a \in HeldBy(x, y, "Committed")' => a \in HeldBy(x, y, "Committed")
            /\ a \in HeldBy(x, y, "Committed") /\ a \notin HeldBy(x, y, "Committed")' => u = n
        BY <1>9
      <4> QED  BY <3>1, <3>2, <4>1, <4>2 DEF Share, When
    <3> QED  BY <1>7, <3>3, <3>4 DEF Share
  <2> QED  BY <2>1, <2>2 DEF PointMoved
<1>13. AggregatesMatchRecords'
  BY <1>6, <1>12, PointStep
<1>14. OwnUsageMatches'
  <2> SUFFICES ASSUME NEW x \in Pools
               PROVE  usage'[x].own_usage + usage'[x].borrowed_in
                        = usage'[x].reserved_units + usage'[x].committed_units
                            + usage'[x].lent_out
    BY DEF OwnUsageMatches
  <2>1. usage[x].own_usage + usage[x].borrowed_in
          = usage[x].reserved_units + usage[x].committed_units + usage[x].lent_out
    BY DEF OwnUsageMatches
  <2>2. /\ usage[x].reserved_units \in Int
        /\ usage[x].committed_units \in Int
        /\ usage[x].own_usage \in Int
        /\ usage[x].borrowed_in \in Int
        /\ usage[x].lent_out \in Int
    BY <1>10 DEF IntUsage
  <2>3. When(a \in HeldAny(x), n) = When(a \in HeldIn(x, "Reserved"), n)
                                      + When(a \in HeldIn(x, "Committed"), n)
    BY <1>1, <1>2 DEF HeldAny, HeldIn, When
  <2>4. /\ When(a \in HeldIn(x, "Reserved"), n) \in Int
        /\ When(a \in HeldIn(x, "Committed"), n) \in Int
        /\ When(a \in HeldAny(x), back) \in Int
        /\ When(a \in LentBy(x), back) \in Int
    BY <1>2, <1>3 DEF When
  <2>5. /\ usage'[x].reserved_units
              = usage[x].reserved_units - When(a \in HeldIn(x, "Reserved"), n)
        /\ usage'[x].committed_units
              = usage[x].committed_units - When(a \in HeldIn(x, "Committed"), n)
        /\ usage'[x].own_usage = usage[x].own_usage
              - (When(a \in HeldAny(x), n) - When(a \in HeldAny(x), back))
              - When(a \in LentBy(x), back)
        /\ usage'[x].borrowed_in = usage[x].borrowed_in - When(a \in HeldAny(x), back)
        /\ usage'[x].lent_out = usage[x].lent_out - When(a \in LentBy(x), back)
    BY <1>10
  <2> DEFINE i == When(a \in HeldIn(x, "Reserved"), n)
             j == When(a \in HeldIn(x, "Committed"), n)
             k == When(a \in HeldAny(x), n)
             v == When(a \in HeldAny(x), back)
             w == When(a \in LentBy(x), back)
  <2> HIDE DEF i, j, k, v, w
  <2>6. k = i + j /\ i \in Int /\ j \in Int /\ v \in Int /\ w \in Int
    BY <2>3, <2>4 DEF i, j, k, v, w
  <2>7. /\ usage'[x].reserved_units = usage[x].reserved_units - i
        /\ usage'[x].committed_units = usage[x].committed_units - j
        /\ usage'[x].own_usage = usage[x].own_usage - (k - v) - w
        /\ usage'[x].borrowed_in = usage[x].borrowed_in - v
        /\ usage'[x].lent_out = usage[x].lent_out - w
    BY <2>5 DEF i, j, k, v, w
  <2>8. (usage[x].own_usage - ((i + j) - v) - w) + (usage[x].borrowed_in - v)
          = (usage[x].reserved_units - i) + (usage[x].committed_units - j)
              + (usage[x].lent_out - w)
    <3> DEFINE own == usage[x].own_usage
               borrowed == usage[x].borrowed_in
               reserved == usage[x].reserved_units
               committed == usage[x].committed_units
               lent == usage[x].lent_out
    <3>1. /\ own \in Int /\ borrowed \in Int /\ reserved \in Int
          /\ committed \in Int /\ lent \in Int
          /\ own + borrowed = reserved + committed + lent
      BY <2>1, <2>2
    <3> HIDE DEF own, borrowed, reserved, committed, lent
    <3>2. (own - ((i + j) - v) - w) + (borrowed - v)
            = (reserved - i) + (committed - j) + (lent - w)
      BY <2>6, <3>1, SMTT(15)
    <3> QED  BY <3>2 DEF own, borrowed, reserved, committed, lent
  <2> QED  BY <2>6, <2>7, <2>8
<1>15. StructOK'
  <2>1. usage' \in [Pools -> IntUsage]
    BY <1>5, <1>10 DEF ReturnUnits, UsageAfterReturn
  <2>2. \A x \in Pools, y \in Queues : /\ queue_reserved'[x][y] \in Int
                                       /\ queue_committed'[x][y] \in Int
    BY <1>2, <1>11 DEF When
  <2>3. /\ queue_reserved' \in [Pools -> [Queues -> Int]]
        /\ queue_committed' \in [Pools -> [Queues -> Int]]
    BY <1>5, <2>2 DEF ReturnUnits, LeaveQueues, BucketsAfterReturn
  <2>4. members' \in [Pools -> SUBSET AllocIds]
    BY <1>5 DEF ReturnUnits, LeaveQueues, StructOK
  <2>5. shutting_down' \in BOOLEAN
    BY DEF Release, LatchUnlessClosed, StructOK
  <2>6. UNCHANGED <<topology, next_allocation_id, pressure, open, tick>>
    BY DEF Release
  <2> QED  BY <1>6, <2>1, <2>3, <2>4, <2>5, <2>6 DEF StructOK, topology
<1>16. PoolsSound'
  <2>1. pools' = pools
    BY DEF Release, topology
  <2>2. ASSUME NEW x \in Pools, pools[x].generation = 0
        PROVE  Allocated(usage'[x]) = 0 /\ usage'[x].lent_out = 0
    <3>1. /\ usage[x].reserved_units \in Nat
          /\ usage[x].committed_units \in Nat
          /\ usage[x].lent_out \in Nat
      BY InvariantTypes DEF TypeOK, Usage
    <3>2. /\ usage[x].reserved_units + usage[x].committed_units = 0
          /\ usage[x].lent_out = 0
      BY <2>2 DEF PoolsSound, Allocated
    <3>3. /\ usage'[x].reserved_units = usage[x].reserved_units
          /\ usage'[x].committed_units = usage[x].committed_units
      <4>1. x # r.pool
        BY <1>1, <2>2
      <4>2. a \notin HeldIn(x, "Reserved") /\ a \notin HeldIn(x, "Committed")
        BY <4>1 DEF HeldIn
      <4> QED  BY <1>10, <3>1, <4>2 DEF When
    <3>4. usage'[x].lent_out <= usage[x].lent_out
      BY <1>3, <1>10, <3>1 DEF When
    <3>5. usage'[x].lent_out \in Nat
      <4>1. usage'[x].lent_out = Total(LentBy(x)', BorrowHeld')
        BY <1>13 DEF AggregatesMatchRecords
      <4>2. \A z \in LentBy(x)' : BorrowHeld'[z] \in Nat
        BY <1>6 DEF LentBy, BorrowHeld, AllocationRecord, AtMost
      <4>3. LentBy(x)' \in SUBSET AllocIds
        BY DEF LentBy
      <4>4. IsFiniteSet(LentBy(x)')
        BY <4>3, AllocationsFinite
      <4> QED  BY <4>1, <4>2, <4>4, TotalType
    <3> QED  BY <3>1, <3>2, <3>3, <3>4, <3>5 DEF Allocated
  <2> QED  BY <2>1, <2>2 DEF PoolsSound
<1>17. RecordsSound'
  <2> SUFFICES ASSUME NEW x \in AllocIds
               PROVE  /\ x >= next_allocation_id' => allocations'[x].state = "None"
                      /\ (Holding(x))' =>
                            /\ allocations'[x].pool \in Pools
                            /\ allocations'[x].queue \in Queues
                            /\ allocations'[x].borrow_units <= allocations'[x].units
                            /\ allocations'[x].borrow_units # 0
                                  => allocations'[x].lender \in Pools
                            /\ \E s \in AllocateRequests :
                                  allocations'[x].units <= s.requested_units
    BY DEF RecordsSound
  <2>1. next_allocation_id' = next_allocation_id
    BY DEF Release
  <2>2. CASE x = a
    <3>1. PICK s \in AllocateRequests : u <= s.requested_units
      BY <1>1, <1>2 DEF RecordsSound
    <3>2. s.requested_units \in Nat
      BY InputAssumption DEF AllocateRequest
    <3>3. u - n <= s.requested_units
      BY <1>2, <3>1, <3>2
    <3>4. (Holding(a))' => (b - back # 0 => allocations'[a].lender \in Pools)
      <4>1. b - back # 0 => r.borrow_units # 0
        BY <1>2, <1>3
      <4>2. (Holding(a))' => allocations'[a].lender = r.lender
        BY <1>6, <1>8
      <4> QED  BY <1>1, <4>1, <4>2
    <3> QED  BY <1>1, <1>3, <1>6, <2>1, <2>2, <3>3, <3>4
  <2>3. CASE x # a
    <3>1. allocations'[x] = allocations[x]
      BY <1>6, <2>3
    <3> QED  BY <2>1, <3>1 DEF RecordsSound, Holding
  <2> QED  BY <2>2, <2>3
<1> QED  BY <1>13, <1>14, <1>15, <1>16, <1>17
=============================================================================
