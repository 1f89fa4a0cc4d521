--------------------------- MODULE AccountingProofs ---------------------------
(***************************************************************************)
(* Proofs about what the accounting of a fabric adds up to: the identity   *)
(* of each pool and of the resource, what evaluate may promise, and what   *)
(* one reclaim may take.                                                   *)
(***************************************************************************)
EXTENDS PromiseProofs

USE ZenonT(10), SMTT(15)
-----------------------------------------------------------------------------
(* Sums of sums.                                                           *)

\* Summing two amounts holder by holder sums both.
LEMMA TotalPlus ==
    ASSUME NEW S, IsFiniteSet(S), NEW f, NEW g, NEW h,
           \A a \in S : f[a] \in Nat /\ g[a] \in Nat /\ h[a] = f[a] + g[a]
    PROVE  Total(S, h) = Total(S, f) + Total(S, g)
<1> DEFINE F == UnitsOf(S, f)
           G == UnitsOf(S, g)
           H == UnitsOf(S, h)
           B == {x \in H : x[2] > f[x[1]]}
           shift == [x \in G |-> <<x[1], f[x[1]] + x[2]>>]
<1>1. \A a \in S : h[a] \in Nat
  OBVIOUS
<1>2. IsFiniteSet(F) /\ IsFiniteSet(G) /\ IsFiniteSet(H)
  BY <1>1, TotalType
<1>3. \A a, i : /\ <<a, i>> \in F <=> a \in S /\ i \in 1..f[a]
                /\ <<a, i>> \in G <=> a \in S /\ i \in 1..g[a]
                /\ <<a, i>> \in H <=> a \in S /\ i \in 1..h[a]
  BY DEF UnitsOf
<1>4. \A x \in F \cup G \cup H : x = <<x[1], x[2]>>
  BY DEF UnitsOf
<1> HIDE DEF F, G, H
<1>5. shift \in Bijection(G, B)
  <2>1. \A x \in G : shift[x] \in B
    <3> SUFFICES ASSUME NEW x \in G
                 PROVE  <<x[1], f[x[1]] + x[2]>> \in B
      OBVIOUS
    <3>1. x[1] \in S /\ x[2] \in 1..g[x[1]]
      BY <1>3, <1>4
    <3>2. f[x[1]] + x[2] \in 1..h[x[1]] /\ f[x[1]] + x[2] > f[x[1]]
      BY <3>1
    <3> QED  BY <1>3, <3>1, <3>2
  <2>2. ASSUME NEW x \in G, NEW y \in G, shift[x] = shift[y]
        PROVE  x = y
    <3>1. x[1] \in S /\ x[2] \in 1..g[x[1]] /\ y[1] \in S /\ y[2] \in 1..g[y[1]]
      BY <1>3, <1>4
    <3>2. x[1] = y[1] /\ f[x[1]] + x[2] = f[y[1]] + y[2]
      BY <2>2
    <3>3. x[2] = y[2]
      BY <3>1, <3>2
    <3> QED  BY <1>4, <3>2, <3>3
  <2>3. ASSUME NEW y \in B
        PROVE  \E x \in G : shift[x] = y
    <3> DEFINE x == <<y[1], y[2] - f[y[1]]>>
    <3>1. y[1] \in S /\ y[2] \in 1..h[y[1]] /\ y[2] > f[y[1]]
      BY <1>3, <1>4
    <3>2. y[2] - f[y[1]] \in 1..g[y[1]] /\ f[y[1]] + (y[2] - f[y[1]]) = y[2]
      BY <3>1
    <3>3. x \in G
      BY <1>3, <3>1, <3>2
    <3>4. shift[x] = <<y[1], y[2]>>
      BY <3>2, <3>3
    <3>5. y = <<y[1], y[2]>>
      BY <1>4
    <3> QED  BY <3>3, <3>4, <3>5
  <2> HIDE DEF B
  <2>4. shift \in [G -> B]
    BY <2>1
  <2> HIDE DEF shift
  <2>5. shift \in Injection(G, B) /\ shift \in Surjection(G, B)
    BY <2>2, <2>3, <2>4 DEF Bijection, Injection, Surjection, IsInjective
  <2> QED  BY <2>5 DEF Bijection
<1>6. Cardinality(B) = Cardinality(G) /\ IsFiniteSet(B)
  <2> HIDE DEF B, shift
  <2>1. ExistsBijection(G, B)
    BY <1>5 DEF ExistsBijection
  <2> QED  BY <1>2, <2>1, FS_Bijection
<1>7. F \cup B = H /\ F \cap B = {}
  <2>1. F \subseteq H
    <3> SUFFICES ASSUME NEW x \in F PROVE x \in H
      OBVIOUS
    <3>1. x = <<x[1], x[2]>> /\ x[1] \in S /\ x[2] \in 1..f[x[1]]
      BY <1>3, <1>4
    <3>2. x[2] \in 1..h[x[1]]
      BY <3>1
    <3> QED  BY <1>3, <3>1, <3>2
  <2>2. H \subseteq F \cup B
    <3> SUFFICES ASSUME NEW x \in H, ~(x[2] > f[x[1]]) PROVE x \in F
      OBVIOUS
    <3>1. x = <<x[1], x[2]>> /\ x[1] \in S /\ x[2] \in 1..h[x[1]]
      BY <1>3, <1>4
    <3>2. x[2] \in 1..f[x[1]]
      BY <3>1
    <3> QED  BY <1>3, <3>1, <3>2
  <2>3. \A x \in F : ~(x[2] > f[x[1]])
    <3> SUFFICES ASSUME NEW x \in F PROVE ~(x[2] > f[x[1]])
      OBVIOUS
    <3>1. x[1] \in S /\ x[2] \in 1..f[x[1]]
      BY <1>3, <1>4
    <3> QED  BY <3>1
  <2> QED  BY <2>1, <2>2, <2>3
<1>8. Cardinality(H) = Cardinality(F) + Cardinality(B)
  <2> HIDE DEF B
  <2>1. Cardinality(F \cup B) = Cardinality(F) + Cardinality(B) - Cardinality(F \cap B)
    BY <1>2, <1>6, FS_Union
  <2>2. Cardinality(F \cap B) = 0
    BY <1>7, FS_EmptySet, Zenon
  <2>3. Cardinality(F) \in Nat /\ Cardinality(B) \in Nat
    BY <1>2, <1>6, FS_CardinalityType
  <2>4. Cardinality(F \cup B) = Cardinality(H)
    BY <1>7, Zenon
  <2> QED  BY <2>1, <2>2, <2>3, <2>4
<1>9. Cardinality(H) = Cardinality(F) + Cardinality(G)
  BY <1>6, <1>8, Zenon
<1> QED  BY <1>9, Zenon DEF Total, F, G, H

\* Summing over disjoint groups, then over the groups, sums over all.
LEMMA TotalOfTotals ==
    ASSUME NEW P, IsFiniteSet(P), NEW S, NEW f, NEW F,
           \A p \in P : IsFiniteSet(S[p]) /\ F[p] = Total(S[p], f),
           \A p \in P : \A a \in S[p] : f[a] \in Nat,
           \A p, q \in P : p # q => S[p] \cap S[q] = {}
    PROVE  Total(P, F) = Total(UNION {S[p] : p \in P}, f)
<1> DEFINE A == UNION {S[p] : p \in P}
           U == UnitsOf(P, F)
           V == UnitsOf(A, f)
           count == [p \in P |-> CHOOSE b : b \in Bijection(1..F[p], UnitsOf(S[p], f))]
           G == [x \in U |-> count[x[1]][x[2]]]
<1>1. \A p \in P : IsFiniteSet(UnitsOf(S[p], f)) /\ F[p] \in Nat
  BY TotalType
<1>2. \A p \in P : count[p] \in Bijection(1..F[p], UnitsOf(S[p], f))
  <2> SUFFICES ASSUME NEW p \in P
               PROVE  \E b : b \in Bijection(1..F[p], UnitsOf(S[p], f))
    OBVIOUS
  <2>1. ExistsBijection(1..F[p], UnitsOf(S[p], f))
    BY <1>1, FS_CardinalityType DEF Total
  <2> QED  BY <2>1 DEF ExistsBijection
<1>3. \A p, i : <<p, i>> \in U <=> p \in P /\ i \in 1..F[p]
  BY DEF UnitsOf
<1>4. \A x \in U : x = <<x[1], x[2]>> /\ x[1] \in P /\ x[2] \in 1..F[x[1]]
  BY DEF UnitsOf
<1>5. V = UNION {UnitsOf(S[p], f) : p \in P}
  BY DEF UnitsOf
<1>6. \A p, q \in P : p # q => UnitsOf(S[p], f) \cap UnitsOf(S[q], f) = {}
  BY DEF UnitsOf
<1> HIDE DEF U, V, count, A
<1>7. G \in Bijection(U, V)
  <2>1. \A p \in P : /\ count[p] \in [1..F[p] -> UnitsOf(S[p], f)]
                     /\ \A i, j \in 1..F[p] : count[p][i] = count[p][j] => i = j
                     /\ \A t \in UnitsOf(S[p], f) : \E i \in 1..F[p] : count[p][i] = t
    <3> SUFFICES ASSUME NEW p \in P, NEW c, c = count[p]
                 PROVE  /\ c \in [1..F[p] -> UnitsOf(S[p], f)]
                        /\ \A i, j \in 1..F[p] : c[i] = c[j] => i = j
                        /\ \A t \in UnitsOf(S[p], f) : \E i \in 1..F[p] : c[i] = t
      OBVIOUS
    <3>1. c \in Bijection(1..F[p], UnitsOf(S[p], f))
      BY <1>2
    <3>2. c \in Injection(1..F[p], UnitsOf(S[p], f)) /\ c \in Surjection(1..F[p], UnitsOf(S[p], f))
      BY <3>1 DEF Bijection
    <3>3. c \in [1..F[p] -> UnitsOf(S[p], f)] /\ IsInjective(c)
      BY <3>2 DEF Injection
    <3>4. DOMAIN c = 1..F[p]
      BY <3>3
    <3> QED  BY <3>2, <3>3, <3>4 DEF Surjection, IsInjective
  <2>2. \A x \in U : G[x] \in UnitsOf(S[x[1]], f) /\ G[x] \in V
    <3> SUFFICES ASSUME NEW x \in U
                 PROVE  count[x[1]][x[2]] \in UnitsOf(S[x[1]], f) /\ count[x[1]][x[2]] \in V
      OBVIOUS
    <3>1. x[1] \in P /\ x[2] \in 1..F[x[1]]
      BY <1>4
    <3>2. count[x[1]] \in [1..F[x[1]] -> UnitsOf(S[x[1]], f)]
      BY <2>1, <3>1
    <3>3. count[x[1]][x[2]] \in UnitsOf(S[x[1]], f)
      BY <3>1, <3>2
    <3> QED  BY <1>5, <3>1, <3>3
  <2>3. G \in [U -> V]
    BY <2>2
  <2>4. ASSUME NEW x \in U, NEW y \in U, G[x] = G[y]
        PROVE  x = y
    <3>1. x[1] = y[1]
      BY <1>4, <1>6, <2>2, <2>4
    <3>2. count[x[1]][x[2]] = count[x[1]][y[2]]
      BY <2>4, <3>1
    <3>3. x[2] = y[2]
      BY <1>4, <2>1, <3>1, <3>2
    <3> QED  BY <1>4, <3>1, <3>3
  <2>5. ASSUME NEW t \in V
        PROVE  \E x \in U : G[x] = t
    <3>1. PICK p \in P : t \in UnitsOf(S[p], f)
      BY <1>5
    <3>2. PICK i \in 1..F[p] : count[p][i] = t
      BY <2>1, <3>1
    <3>3. <<p, i>> \in U /\ G[<<p, i>>] = t
      BY <1>3, <3>2
    <3> QED  BY <3>3
  <2> HIDE DEF G
  <2>6. G \in Injection(U, V) /\ G \in Surjection(U, V)
    BY <2>3, <2>4, <2>5 DEF Bijection, Injection, Surjection, IsInjective
  <2> QED  BY <2>6 DEF Bijection
<1>8. IsFiniteSet(U)
  BY <1>1, TotalType DEF U
<1>9. Cardinality(V) = Cardinality(U)
  <2> HIDE DEF G
  <2>1. ExistsBijection(U, V)
    BY <1>7 DEF ExistsBijection
  <2> QED  BY <1>8, <2>1, FS_Bijection
<1> QED  BY <1>9 DEF Total, U, V, A

\* Holders that hold nothing do not count.
LEMMA TotalIdle ==
    ASSUME NEW S, NEW T \in SUBSET S, NEW f, \A a \in S \ T : f[a] = 0
    PROVE  Total(S, f) = Total(T, f)
<1>1. \A a \in S \ T : 1..f[a] = {}
  OBVIOUS
<1>2. UnitsOf(S, f) = UnitsOf(T, f)
  BY <1>1 DEF UnitsOf
<1> QED  BY <1>2, Zenon DEF Total
-----------------------------------------------------------------------------
(* The identity of each pool and of the resource.                          *)

\* No pool protects more than it has: PoolDescriptor::validate is run on every
\* registration and every resize.
UnitsValid == \A p \in Pools : pools[p].protected_units <= pools[p].raw_units

\* Registering and resizing are the only ways to describe a pool anew, and
\* both validate.
LEMMA UnitsStayValid ==
    ASSUME IInv, UnitsValid, [Next]_vars
    PROVE  UnitsValid'
<1> USE DEF IInv
<1>1. CASE pools' = pools
  BY <1>1 DEF UnitsValid
<1>2. ASSUME NEW p \in Pools, NEW r \in PoolRegistrations, RegisterPool(p, r)
      PROVE  UnitsValid'
  <2>1. r.protected_units <= r.raw_units
    <3>1. r \in PoolRegistration
      BY InputAssumption
    <3>2. r.protected_units \in Nat /\ r.raw_units \in Nat
      BY <3>1 DEF PoolRegistration
    <3> QED  BY <1>2, <3>2 DEF RegisterPool, ValidUnits
  <2>2. pools' = [pools EXCEPT ![p] =
                    [generation |-> 1, raw_units |-> r.raw_units,
                     protected_units |-> r.protected_units, parent |-> r.parent,
                     policy |-> r.policy]]
    BY <1>2 DEF RegisterPool
  <2> QED  BY <2>1, <2>2 DEF UnitsValid, StructOK
<1>3. ASSUME NEW p \in Pools, RemovePool(p)
      PROVE  UnitsValid'
  <2>1. pools' = [pools EXCEPT ![p] = Erased]
    BY <1>3 DEF RemovePool
  <2>2. Erased.protected_units <= Erased.raw_units
    BY DEF Erased
  <2> QED  BY <2>1, <2>2 DEF UnitsValid, StructOK
<1>4. ASSUME NEW p \in Pools, NEW s \in Resizes, ResizePool(p, s)
      PROVE  UnitsValid'
  <2> DEFINE d == [pools[p] EXCEPT !.raw_units = s.raw_units,
                                   !.protected_units = s.protected_units,
                                   !.generation = @ + 1]
  <2>1. s.protected_units <= s.raw_units
    <3>1. s \in Resize
      BY InputAssumption
    <3>2. s.protected_units \in Nat /\ s.raw_units \in Nat
      BY <3>1 DEF Resize
    <3> QED  BY <1>4, <3>2 DEF ResizePool, ValidUnits
  <2>2. pools' = [pools EXCEPT ![p] = d]
    BY <1>4 DEF ResizePool
  <2>3. pools[p] \in PoolDescriptor
    BY DEF StructOK
  <2>4. d.protected_units <= d.raw_units
    BY <2>1, <2>3 DEF PoolDescriptor
  <2> HIDE DEF d
  <2> QED  BY <2>2, <2>4 DEF UnitsValid, StructOK
<1>5. \/ pools' = pools
      \/ \E p \in Pools, r \in PoolRegistrations : RegisterPool(p, r)
      \/ \E p \in Pools : RemovePool(p)
      \/ \E p \in Pools, s \in Resizes : ResizePool(p, s)
  <2>1. CASE RevokingStep
    BY <2>1 DEF RevokingStep, FenceStale, ExpireReservations, ApplyReclaim, PublishPolicy,
                RetireQueue, RetargetQueue, topology
  <2>2. CASE TableKeptStep
    BY <2>2 DEF TableKeptStep, SetCapacity, RegisterQueue, UpdateQueueDemand, ObservePressure,
                BeginShutdown, Close, Open, Tick, topology
  <2>3. CASE \/ \E a \in AllocIds : Commit(a)
             \/ \E a \in AllocIds : \E n \in 1..UnitsHeld[a] : Release(a, n)
             \/ \E a \in AllocIds : Revalidate(a)
             \/ UNCHANGED vars
    BY <2>3 DEF Commit, Release, Revalidate, vars, topology
  <2>4. ASSUME NEW p \in Pools, NEW q \in Queues, NEW r \in AllocateRequests, Allocate(p, q, r)
        PROVE  pools' = pools
    BY <2>4 DEF Allocate, ApplyGrant, topology
  <2> QED  BY <2>1, <2>2, <2>3, <2>4 DEF Next, RevokingStep, TableKeptStep
<1> QED  BY <1>1, <1>2, <1>3, <1>4, <1>5

\* The identity of one pool.
LEMMA PoolIdentity ==
    ASSUME IInv, UnitsValid, NEW p \in Pools
    PROVE  /\ PoolClosure(pools[p], usage[p])
           /\ usage[p].own_usage + usage[p].borrowed_in
                 = Allocated(usage[p]) + usage[p].lent_out
           /\ usage[p].pinned_units + usage[p].reclaimable_units = Allocated(usage[p])
<1>1. /\ pools[p].raw_units \in Nat
      /\ pools[p].protected_units \in Nat
      /\ pools[p].protected_units <= pools[p].raw_units
  BY DEF IInv, StructOK, PoolDescriptor, UnitsValid
<1>2. usage[p] \in Usage
  BY InvariantTypes DEF TypeOK
<1>3. usage[p].own_usage + usage[p].borrowed_in
        = usage[p].reserved_units + usage[p].committed_units + usage[p].lent_out
  BY DEF IInv, OwnUsageMatches
<1>4. usage[p].pinned_units + usage[p].reclaimable_units
        = usage[p].reserved_units + usage[p].committed_units
  BY HeldSplit DEF IInv, AggregatesMatchRecords
<1>5. /\ usage[p].reserved_units \in Nat
      /\ usage[p].committed_units \in Nat
      /\ usage[p].own_usage \in Nat
      /\ usage[p].borrowed_in \in Nat
      /\ usage[p].lent_out \in Nat
  BY <1>2 DEF Usage
<1>6. PoolClosure(pools[p], usage[p])
  BY <1>1, <1>3, <1>5
     DEF PoolClosure, OvercommitUsed, FreeUnits, Usable, Allocated, Monus
<1> QED  BY <1>3, <1>4, <1>6 DEF Allocated

\* Every loan is counted twice, once by who lends and once by who borrows, so
\* that over all pools loans cancel out.
LEMMA LoansCancel ==
    ASSUME IInv
    PROVE  Total(Pools, [p \in Pools |-> usage[p].borrowed_in])
             = Total(Pools, [p \in Pools |-> usage[p].lent_out])
<1> DEFINE borrowed == [p \in Pools |-> usage[p].borrowed_in]
           lent == [p \in Pools |-> usage[p].lent_out]
           borrowers == [p \in Pools |-> HeldAny(p)]
           lenders == [p \in Pools |-> LentBy(p)]
           all == UNION {borrowers[p] : p \in Pools}
           loans == UNION {lenders[p] : p \in Pools}
<1>1. \A a \in AllocIds : BorrowHeld[a] \in Nat
  BY HeldTyped DEF IInv
<1>2. \A p \in Pools : /\ IsFiniteSet(borrowers[p]) /\ borrowers[p] \in SUBSET AllocIds
                       /\ IsFiniteSet(lenders[p]) /\ lenders[p] \in SUBSET AllocIds
  BY HeldSets, AllocationsFinite
<1>3. \A p \in Pools : /\ borrowed[p] = Total(borrowers[p], BorrowHeld)
                       /\ lent[p] = Total(lenders[p], BorrowHeld)
  BY DEF IInv, AggregatesMatchRecords
<1>4. \A p, q \in Pools : p # q => /\ borrowers[p] \cap borrowers[q] = {}
                                   /\ lenders[p] \cap lenders[q] = {}
  BY DEF HeldAny, LentBy
<1>5. loans \in SUBSET all /\ \A a \in all \ loans : BorrowHeld[a] = 0
  <2>1. \A a \in AllocIds : Holding(a) => allocations[a].pool \in Pools
    BY DEF IInv, RecordsSound
  <2>2. \A a \in AllocIds : Holding(a) /\ allocations[a].lender \notin Pools => BorrowHeld[a] = 0
    <3> SUFFICES ASSUME NEW a \in AllocIds, Holding(a), allocations[a].lender \notin Pools
                 PROVE  BorrowHeld[a] = 0
      OBVIOUS
    <3>1. allocations[a].borrow_units = 0
      BY DEF IInv, RecordsSound
    <3>2. allocations[a].units \in Nat
      BY DEF IInv, StructOK, AllocationRecord
    <3> QED  BY <3>1, <3>2 DEF BorrowHeld, AtMost
  <2> QED  BY <2>1, <2>2 DEF HeldAny, LentBy
<1> HIDE DEF borrowed, lent, borrowers, lenders
<1>6. Total(Pools, borrowed) = Total(all, BorrowHeld)
  <2>1. \A p \in Pools : \A a \in borrowers[p] : BorrowHeld[a] \in Nat
    BY <1>1, <1>2
  <2>2. \A p \in Pools : IsFiniteSet(borrowers[p]) /\ borrowed[p] = Total(borrowers[p], BorrowHeld)
    BY <1>2, <1>3
  <2>3. \A p, q \in Pools : p # q => borrowers[p] \cap borrowers[q] = {}
    BY <1>4
  <2> QED  BY <2>1, <2>2, <2>3, IdAssumption, TotalOfTotals
<1>7. Total(Pools, lent) = Total(loans, BorrowHeld)
  <2>1. \A p \in Pools : \A a \in lenders[p] : BorrowHeld[a] \in Nat
    BY <1>1, <1>2
  <2>2. \A p \in Pools : IsFiniteSet(lenders[p]) /\ lent[p] = Total(lenders[p], BorrowHeld)
    BY <1>2, <1>3
  <2>3. \A p, q \in Pools : p # q => lenders[p] \cap lenders[q] = {}
    BY <1>4
  <2> QED  BY <2>1, <2>2, <2>3, IdAssumption, TotalOfTotals
<1> HIDE DEF all, loans
<1>8. Total(all, BorrowHeld) = Total(loans, BorrowHeld)
  BY <1>5, TotalIdle
<1>9. Total(Pools, borrowed) = Total(Pools, lent)
  BY <1>6, <1>7, <1>8
<1> QED  BY <1>9 DEF borrowed, lent

\* The identities of the pools add up to the identity of the resource.
LEMMA GlobalIdentity ==
    ASSUME IInv, UnitsValid
    PROVE  CheckGlobalAccounting(Pools, pools, usage)
<1> DEFINE raw == [p \in Pools |-> pools[p].raw_units]
           borrowed == [p \in Pools |-> usage[p].borrowed_in]
           over == [p \in Pools |-> OvercommitUsed(pools[p], usage[p])]
           protected == [p \in Pools |-> pools[p].protected_units]
           allocated == [p \in Pools |-> Allocated(usage[p])]
           free == [p \in Pools |-> FreeUnits(pools[p], usage[p])]
           lent == [p \in Pools |-> usage[p].lent_out]
           rb == [p \in Pools |-> raw[p] + borrowed[p]]
           left == [p \in Pools |-> rb[p] + over[p]]
           pa == [p \in Pools |-> protected[p] + allocated[p]]
           paf == [p \in Pools |-> pa[p] + free[p]]
           right == [p \in Pools |-> paf[p] + lent[p]]
<1>1. \A p \in Pools : /\ raw[p] \in Nat /\ borrowed[p] \in Nat /\ over[p] \in Nat
                       /\ protected[p] \in Nat /\ allocated[p] \in Nat
                       /\ free[p] \in Nat /\ lent[p] \in Nat
  <2> SUFFICES ASSUME NEW p \in Pools
               PROVE  /\ pools[p].raw_units \in Nat /\ usage[p].borrowed_in \in Nat
                      /\ OvercommitUsed(pools[p], usage[p]) \in Nat
                      /\ pools[p].protected_units \in Nat /\ Allocated(usage[p]) \in Nat
                      /\ FreeUnits(pools[p], usage[p]) \in Nat
                      /\ usage[p].lent_out \in Nat
    OBVIOUS
  <2>1. pools[p].raw_units \in Nat /\ pools[p].protected_units \in Nat
    BY DEF IInv, StructOK, PoolDescriptor
  <2>2. usage[p] \in Usage
    BY InvariantTypes DEF TypeOK
  <2>3. /\ usage[p].reserved_units \in Nat
        /\ usage[p].committed_units \in Nat
        /\ usage[p].own_usage \in Nat
        /\ usage[p].borrowed_in \in Nat
        /\ usage[p].lent_out \in Nat
    BY <2>2 DEF Usage
  <2> QED  BY <2>1, <2>3 DEF OvercommitUsed, Allocated, FreeUnits, Usable, Monus
<1>2. \A p \in Pools : left[p] = right[p]
  <2> SUFFICES ASSUME NEW p \in Pools
               PROVE  left[p] = right[p]
    OBVIOUS
  <2>1. PoolClosure(pools[p], usage[p])
    BY PoolIdentity
  <2> QED  BY <2>1 DEF PoolClosure
<1>3. \A p \in Pools : /\ rb[p] = raw[p] + borrowed[p] /\ left[p] = rb[p] + over[p]
                       /\ pa[p] = protected[p] + allocated[p] /\ paf[p] = pa[p] + free[p]
                       /\ right[p] = paf[p] + lent[p]
  OBVIOUS
<1>4. Total(Pools, borrowed) = Total(Pools, lent)
  BY LoansCancel
<1> HIDE DEF raw, borrowed, over, protected, allocated, free, lent, rb, left, pa, paf, right
<1>5. \A p \in Pools : rb[p] \in Nat /\ pa[p] \in Nat /\ paf[p] \in Nat
  BY <1>1, <1>3
<1>6. IsFiniteSet(Pools)
  BY IdAssumption
<1>7. /\ Total(Pools, rb) = Total(Pools, raw) + Total(Pools, borrowed)
      /\ Total(Pools, left) = Total(Pools, rb) + Total(Pools, over)
  <2>1. Total(Pools, rb) = Total(Pools, raw) + Total(Pools, borrowed)
    <3>1. \A p \in Pools : raw[p] \in Nat /\ borrowed[p] \in Nat /\ rb[p] = raw[p] + borrowed[p]
      BY <1>1, <1>3, <1>5
    <3> QED  BY <1>6, <3>1, TotalPlus
  <2>2. Total(Pools, left) = Total(Pools, rb) + Total(Pools, over)
    <3>1. \A p \in Pools : rb[p] \in Nat /\ over[p] \in Nat /\ left[p] = rb[p] + over[p]
      BY <1>1, <1>3, <1>5
    <3> QED  BY <1>6, <3>1, TotalPlus
  <2> QED  BY <2>1, <2>2
<1>8. /\ Total(Pools, pa) = Total(Pools, protected) + Total(Pools, allocated)
      /\ Total(Pools, paf) = Total(Pools, pa) + Total(Pools, free)
      /\ Total(Pools, right) = Total(Pools, paf) + Total(Pools, lent)
  <2>1. Total(Pools, pa) = Total(Pools, protected) + Total(Pools, allocated)
    <3>1. \A p \in Pools : protected[p] \in Nat /\ allocated[p] \in Nat /\ pa[p] = protected[p] + allocated[p]
      BY <1>1, <1>3, <1>5
    <3> QED  BY <1>6, <3>1, TotalPlus
  <2>2. Total(Pools, paf) = Total(Pools, pa) + Total(Pools, free)
    <3>1. \A p \in Pools : pa[p] \in Nat /\ free[p] \in Nat /\ paf[p] = pa[p] + free[p]
      BY <1>1, <1>3, <1>5
    <3> QED  BY <1>6, <3>1, TotalPlus
  <2>3. Total(Pools, right) = Total(Pools, paf) + Total(Pools, lent)
    <3>1. \A p \in Pools : paf[p] \in Nat /\ lent[p] \in Nat /\ right[p] = paf[p] + lent[p]
      BY <1>1, <1>3, <1>5
    <3> QED  BY <1>6, <3>1, TotalPlus
  <2> QED  BY <2>1, <2>2, <2>3
<1>9. Total(Pools, left) = Total(Pools, right)
  BY <1>2, TotalSame
<1>10. /\ Total(Pools, raw) \in Nat /\ Total(Pools, borrowed) \in Nat
       /\ Total(Pools, over) \in Nat /\ Total(Pools, protected) \in Nat
       /\ Total(Pools, allocated) \in Nat /\ Total(Pools, free) \in Nat
       /\ Total(Pools, lent) \in Nat
  BY <1>1, <1>6, TotalType
<1>11. Total(Pools, raw) + Total(Pools, over)
         = Total(Pools, protected) + Total(Pools, allocated) + Total(Pools, free)
  BY <1>4, <1>7, <1>8, <1>9, <1>10, SMT
<1> QED
  BY <1>4, <1>11
     DEF CheckGlobalAccounting, raw, borrowed, over, protected, allocated, free, lent
-----------------------------------------------------------------------------
(* What evaluate promises.                                                 *)

\* A pool borrows no more than it holds.
LEMMA BorrowedFits ==
    ASSUME IInv, NEW p \in Pools
    PROVE  usage[p].borrowed_in <= usage[p].reserved_units + usage[p].committed_units
<1>1. IsFiniteSet(HeldAny(p)) /\ HeldAny(p) \in SUBSET HeldAny(p)
  BY HeldSets, AllocationsFinite
<1>2. \A a \in HeldAny(p) : /\ BorrowHeld[a] \in Nat
                            /\ UnitsHeld[a] \in Nat
                            /\ BorrowHeld[a] <= UnitsHeld[a]
  BY HeldTyped, HeldSets DEF IInv
<1>3. Total(HeldAny(p), BorrowHeld) <= Total(HeldAny(p), UnitsHeld)
  BY <1>1, <1>2, TotalMonotone
<1> QED  BY <1>3, HeldSplit DEF IInv, AggregatesMatchRecords

\* The arithmetic of a grant of g units, b of them borrowed, to a pool that
\* stays within its allowance: v passes the closure check.
LEMMA GrantCloses ==
    ASSUME NEW d, NEW u, NEW v, NEW limit \in Nat, NEW g \in Nat, NEW b \in 0..g,
           d.raw_units \in Nat /\ d.protected_units \in Nat,
           d.protected_units <= d.raw_units,
           u.own_usage \in Nat /\ u.borrowed_in \in Nat /\ u.lent_out \in Nat,
           Allocated(u) \in Nat,
           u.own_usage + u.borrowed_in = Allocated(u) + u.lent_out,
           u.borrowed_in <= Allocated(u),
           u.own_usage + g - b <= Usable(d) + limit,
           Allocated(v) = Allocated(u) + g,
           v.pinned_units + v.reclaimable_units = Allocated(u) + g,
           v.own_usage = u.own_usage + (g - b),
           v.borrowed_in = u.borrowed_in + b,
           v.lent_out = u.lent_out
    PROVE  CheckPoolAccounting(d, v, limit)
<1> DEFINE raw == d.raw_units
           protected == d.protected_units
           allocated == Allocated(u)
           own == u.own_usage
           borrowed == u.borrowed_in
           lent == u.lent_out
           room == Monus(raw, protected)
           now == own + (g - b)
           used == Monus(now, room)
           free == room + used - now
<1>0. /\ raw \in Nat /\ protected \in Nat /\ protected <= raw
      /\ own \in Nat /\ borrowed \in Nat /\ lent \in Nat /\ allocated \in Nat
      /\ own + borrowed = allocated + lent
      /\ borrowed <= allocated
      /\ own + g - b <= room + limit
  BY DEF Usable
<1>1. /\ Usable(d) = room /\ OvercommitUsed(d, v) = used /\ FreeUnits(d, v) = free
      /\ PoolClosure(d, v)
           <=> raw + (borrowed + b) + used = protected + (allocated + g) + free + lent
      /\ OwnUsage(v) = Monus(allocated + g, borrowed + b) + lent
  BY DEF Usable, OvercommitUsed, FreeUnits, PoolClosure, OwnUsage
<1> HIDE DEF raw, protected, allocated, own, borrowed, lent
<1>2. room \in Nat /\ room + protected = raw
  BY <1>0 DEF Monus
<1> HIDE DEF room
<1>3. now \in Nat /\ now + (borrowed + b) = (allocated + g) + lent /\ now <= room + limit
  BY <1>0, <1>2
<1> HIDE DEF now
<1>4. /\ used \in Nat
      /\ free \in Nat
      /\ free + now = room + used
      /\ free = 0 \/ used = 0
      /\ used <= limit
      /\ free <= room + used
  BY <1>2, <1>3 DEF Monus
<1> HIDE DEF used, free
<1>5. PoolClosure(d, v)
  <2>1. raw + (borrowed + b) + used = protected + (allocated + g) + free + lent
    BY <1>0, <1>2, <1>3, <1>4
  <2> QED  BY <1>1, <2>1
<1>6. OwnUsage(v) <= room + limit
  <2>1. borrowed + b <= allocated + g
    BY <1>0
  <2>2. Monus(allocated + g, borrowed + b) + lent = now
    BY <1>0, <1>3, <2>1 DEF Monus
  <2> QED  BY <1>1, <1>3, <2>2
<1>7. d.protected_units <= d.raw_units /\ v.pinned_units + v.reclaimable_units = Allocated(v)
  OBVIOUS
<1> QED  BY <1>1, <1>4, <1>5, <1>6, <1>7 DEF CheckPoolAccounting

\* The planned accounting of a computed grant closes, unless a revision has
\* left the pool past its allowance.
LEMMA PlanPasses ==
    ASSUME TInv, UnitsValid, NEW p \in Pools, Registered(p),
           NEW l \in Pools \cup {NoPool}, IsLender(p, l),
           NEW r \in AllocateRequests, NEW g \in Nat, g <= MaxGrant(p, l),
           Borrowable(p, l) \in Nat, Free(p) \in Nat,
           usage[p].own_usage <= Usable(pools[p]) + OvercommitLimit(p)
    PROVE  PlanCloses(p, l, r, g)
<1> DEFINE b == BorrowPart(p, l, g)
           u == usage[p]
           v == UsageAfterGrant(p, l, r, g, b)[p]
           d == pools[p]
           limit == OvercommitLimit(p)
<1>1. IInv
  BY DEF TInv
<1>2. l # p
  <2>1. ASSUME l = p
        PROVE  p \in Ancestors(p)
    <3>1. IsNearestFree(p, p)
      BY <2>1, IdAssumption DEF IsLender
    <3> QED  BY <3>1 DEF IsNearestFree, Ancestors
  <2> QED  BY <2>1 DEF TInv, Forest
<1>3. u \in Usage
  BY <1>1, InvariantTypes DEF TypeOK
<1>4. d.raw_units \in Nat /\ d.protected_units \in Nat /\ d.protected_units <= d.raw_units
  BY <1>1 DEF IInv, StructOK, PoolDescriptor, UnitsValid
<1>5. limit \in Nat
  <2>1. PolicyOf(p) \in PolicyBody
    BY <1>1 DEF IInv, StructOK, PoolsSound, Registered, PolicyOf, PolicyEntry
  <2> QED  BY <2>1 DEF OvercommitLimit, PolicyBody
<1>6. /\ u.own_usage \in Nat
      /\ u.reserved_units \in Nat
      /\ u.committed_units \in Nat
      /\ u.pinned_units \in Nat
      /\ u.reclaimable_units \in Nat
  BY <1>3 DEF Usage
<1>7. /\ b \in 0..g
      /\ g - b <= Free(p) + Monus(limit, OvercommitUsed(d, u))
  <2>1. OvercommitUsed(d, u) \in Nat
    BY <1>4, <1>6 DEF OvercommitUsed, Usable, Monus
  <2>2. Monus(limit, OvercommitUsed(d, u)) \in Nat
    BY <1>5, <2>1 DEF Monus
  <2>3. g <= Free(p) + Monus(limit, OvercommitUsed(d, u)) + Borrowable(p, l)
    BY DEF MaxGrant
  <2> DEFINE m == Monus(limit, OvercommitUsed(d, u))
  <2> HIDE DEF m
  <2>4. m \in Nat /\ g <= Free(p) + m + Borrowable(p, l)
    BY <2>2, <2>3 DEF m
  <2>5. b \in 0..g /\ g - b <= Free(p) + m
    BY <2>4 DEF BorrowPart, AtMost, Monus
  <2> QED  BY <2>5 DEF m
<1>8. u.own_usage + g - b <= Usable(d) + limit
  <2>1. Usable(d) \in Nat
    BY <1>4 DEF Usable, Monus
  <2>2. Free(p) + Monus(limit, OvercommitUsed(d, u)) = Usable(d) + limit - u.own_usage
    BY <1>5, <1>6, <2>1 DEF Free, FreeUnits, OvercommitUsed, Monus
  <2> HIDE DEF b
  <2> QED  BY <1>5, <1>6, <1>7, <2>1, <2>2
<1>9. /\ v.reserved_units = u.reserved_units + When(~r.commit_immediately, g)
      /\ v.committed_units = u.committed_units + When(r.commit_immediately, g)
      /\ v.pinned_units = u.pinned_units + When(r.reclaim_class = "Pinned", g)
      /\ v.reclaimable_units = u.reclaimable_units + When(r.reclaim_class # "Pinned", g)
      /\ v.own_usage = u.own_usage + (g - b) + 0
      /\ v.borrowed_in = u.borrowed_in + b
      /\ v.lent_out = u.lent_out + 0
  <2> HIDE DEF b
  <2> QED  BY <1>2 DEF UsageAfterGrant, When
<1>10. PlanCloses(p, l, r, g) <=> CheckPoolAccounting(d, v, limit)
  BY DEF PlanCloses
<1>11. /\ u.own_usage + u.borrowed_in = Allocated(u) + u.lent_out
       /\ u.pinned_units + u.reclaimable_units = Allocated(u)
       /\ u.borrowed_in <= Allocated(u)
  BY <1>1, PoolIdentity, BorrowedFits DEF Allocated
<1> HIDE DEF b, v, d, limit
<1>12. /\ u.lent_out \in Nat
       /\ u.borrowed_in \in Nat
       /\ Allocated(u) \in Nat
  BY <1>3 DEF Usage, Allocated
<1> HIDE DEF u
<1>13. /\ Allocated(v) = Allocated(u) + g
       /\ v.pinned_units + v.reclaimable_units = Allocated(u) + g
       /\ v.own_usage = u.own_usage + (g - b)
       /\ v.lent_out = u.lent_out
  BY <1>6, <1>7, <1>9, <1>11, <1>12 DEF Allocated, When
<1>14. v.borrowed_in = u.borrowed_in + b
  BY <1>9
<1>15. CheckPoolAccounting(d, v, limit)
  BY <1>4, <1>5, <1>6, <1>7, <1>8, <1>11, <1>12, <1>13, <1>14, GrantCloses
<1> QED  BY <1>10, <1>15

\* What evaluate answers about a request, allocate would do.
LEMMA Foretold ==
    ASSUME TInv, UnitsValid
    PROVE  EvaluateForetells
<1> SUFFICES ASSUME NEW p \in Pools, NEW q \in Queues, NEW l \in Pools \cup {NoPool},
                    Registered(p), IsLender(p, l), NEW r \in AllocateRequests
             PROVE  /\ Granted(p, q, l, r) <= evaluate(p, q, l, r.requested_units)
                    /\ /\ ~SoftLimited(p)
                       /\ usage[p].own_usage <= Usable(pools[p]) + OvercommitLimit(p)
                       => Granted(p, q, l, r) = evaluate(p, q, l, r.requested_units)
  BY DEF EvaluateForetells
<1> DEFINE n == r.requested_units
           g == Grant(p, q, l, n)
           c == AllOrPart(p, n, CapLimit(p, q, l))
<1>1. IInv
  BY DEF TInv
<1>2. n \in Nat
  BY InputAssumption DEF AllocateRequest
<1>3. /\ Free(p) \in Nat
      /\ Borrowable(p, l) \in Nat
      /\ CapLimit(p, q, l) \in Nat
      /\ CapLimit(p, q, l) <= MaxGrant(p, l)
      /\ MaxGrant(p, l) \in Nat
      /\ SoftRoom(p) \in Nat
  BY <1>1, LimitTyped
<1>4. GrantLimit(p, q, l) \in Nat /\ GrantLimit(p, q, l) <= CapLimit(p, q, l)
  BY <1>3 DEF GrantLimit, apply_cap, AtMost
<1>5. g \in Nat /\ c \in Nat /\ g <= c /\ g <= CapLimit(p, q, l)
  BY <1>2, <1>3, <1>4 DEF Grant, AllOrPart, AtMost
<1>6. ~SoftLimited(p) => g = c
  BY DEF Grant, GrantLimit, apply_cap
<1>7. usage[p].own_usage <= Usable(pools[p]) + OvercommitLimit(p) => PlanCloses(p, l, r, g)
  <2> HIDE DEF g
  <2>1. g <= MaxGrant(p, l)
    BY <1>3, <1>5
  <2> QED  BY <1>3, <1>5, <2>1, PlanPasses
<1>8. evaluate(p, q, l, n) = When(~queues[q].retired /\ PressureAllows(p), c)
  BY DEF evaluate
<1>9. Granted(p, q, l, r)
        = When(~queues[q].retired /\ PressureAllows(p) /\ PlanCloses(p, l, r, g), g)
  BY DEF Granted
<1> HIDE DEF n, g, c
<1> QED  BY <1>5, <1>6, <1>7, <1>8, <1>9 DEF When, n
-----------------------------------------------------------------------------
(* What one reclaim takes.                                                 *)

\* Nothing was touched in the future: the clock never runs backwards.
TouchedInPast == \A a \in AllocIds : allocations[a].last_touched <= tick

\* The order of reclamation is a strict total order.
LEMMA ReclaimOrder ==
    ASSUME StructOK
    PROVE  /\ \A a \in AllocIds : ~ReclaimedBefore(a, a)
           /\ \A a, b, c \in AllocIds :
                 ReclaimedBefore(a, b) /\ ReclaimedBefore(b, c) => ReclaimedBefore(a, c)
           /\ \A a, b \in AllocIds : a = b \/ ReclaimedBefore(a, b) \/ ReclaimedBefore(b, a)
<1>1. \A a \in AllocIds : /\ allocations[a].reclaim_priority \in Nat
                          /\ allocations[a].last_touched \in Nat
                          /\ a \in Nat
  BY BoundAssumption DEF StructOK, AllocationRecord, AllocIds
<1>2. \A a \in AllocIds : ~ReclaimedBefore(a, a)
  BY <1>1 DEF ReclaimedBefore
<1>3. ASSUME NEW a \in AllocIds, NEW b \in AllocIds, NEW c \in AllocIds,
             ReclaimedBefore(a, b), ReclaimedBefore(b, c)
      PROVE  ReclaimedBefore(a, c)
  BY <1>1, <1>3 DEF ReclaimedBefore
<1>4. ASSUME NEW a \in AllocIds, NEW b \in AllocIds
      PROVE  a = b \/ ReclaimedBefore(a, b) \/ ReclaimedBefore(b, a)
  BY <1>1 DEF ReclaimedBefore
<1> QED  BY <1>2, <1>3, <1>4

\* Some allocation of a set comes last in that order.
LEMMA SomeComesLast ==
    ASSUME StructOK, NEW S \in SUBSET AllocIds, S # {}
    PROVE  \E a \in S : \A b \in S : b = a \/ ReclaimedBefore(b, a)
<1> DEFINE after(a) == {b \in S : ReclaimedBefore(a, b)}
           T == {after(a) : a \in S}
<1>1. IsWellFoundedOn(StrictSubsetOrdering(S), FiniteSubsetsOf(S))
  BY FS_StrictSubsetOrderingWellFounded
<1>2. T \subseteq FiniteSubsetsOf(S) /\ T # {}
  BY AllocationsFinite DEF FiniteSubsetsOf
<1>3. PICK X \in T : \A Y \in T : ~(<<Y, X>> \in StrictSubsetOrdering(S))
  <2> HIDE DEF T
  <2> QED  BY <1>1, <1>2, WFMin
<1>4. PICK a \in S : X = after(a)
  OBVIOUS
<1>5. ASSUME NEW c \in after(a)
      PROVE  FALSE
  <2>1. c \in S /\ c \in AllocIds /\ a \in AllocIds /\ ReclaimedBefore(a, c)
    BY <1>4
  <2>2. after(c) \subseteq after(a)
    BY <2>1, ReclaimOrder
  <2>3. c \in after(a) /\ c \notin after(c)
    BY <2>1, ReclaimOrder
  <2>4. <<after(c), after(a)>> \in StrictSubsetOrdering(S)
    BY <2>2, <2>3 DEF StrictSubsetOrdering
  <2> QED  BY <1>3, <1>4, <2>1, <2>4
<1>6. \A b \in S : b = a \/ ReclaimedBefore(b, a)
  BY <1>4, <1>5, ReclaimOrder
<1> QED  BY <1>4, <1>6

\* The bounds of a pool's policy.
LEMMA ReclaimBounds ==
    ASSUME IInv, NEW p \in Pools, Registered(p)
    PROVE  /\ PolicyOf(p).max_units_per_operation \in Nat
           /\ PolicyOf(p).reserve_units \in Nat
           /\ PolicyOf(p).min_hold_ticks \in Nat
           /\ Free(p) \in Int
<1>1. PolicyOf(p) \in PolicyBody
  BY DEF IInv, StructOK, PoolsSound, Registered, PolicyOf, PolicyEntry
<1>2. usage[p].own_usage \in Int
  BY UsageFields DEF IInv, StructOK
<1>3. pools[p].raw_units \in Nat /\ pools[p].protected_units \in Nat
  BY DEF IInv, StructOK, PoolDescriptor
<1>4. Free(p) \in Int
  BY <1>2, <1>3 DEF Free, FreeUnits, Usable, OvercommitUsed, Monus
<1> QED  BY <1>1, <1>4 DEF PolicyBody

\* A pass that accepts an allocation has accepted all candidates before it.
LEMMA AcceptedClosed ==
    ASSUME IInv, NEW p \in Pools, Registered(p), NEW target \in Nat,
           NEW C \in SUBSET AllocIds, NEW Z \in SUBSET AllocIds, Z \cap C = {},
           NEW a \in Accepted(p, target, C, Z), NEW c \in C, ReclaimedBefore(c, a)
    PROVE  c \in Accepted(p, target, C, Z)
<1> DEFINE before(x) == Z \cup {b \in C : ReclaimedBefore(b, x)}
           A == before(a)
           B == before(c)
           max == PolicyOf(p).max_units_per_operation
<1>1. a \in C /\ a \in AllocIds /\ c \in AllocIds /\ StructOK
  BY DEF Accepted, IInv
<1>2. /\ needs_more(p, target, Total(A, UnitsHeld))
      /\ Cardinality(A) < kMaxReclaimVictims
      /\ Total(A, UnitsHeld) + UnitsHeld[a] <= max
  BY DEF Accepted
<1>3. B \cup {c} \in SUBSET A /\ c \notin B
  BY <1>1, ReclaimOrder
<1>4. A \in SUBSET AllocIds /\ B \in SUBSET AllocIds
  OBVIOUS
<1>5. c \in Accepted(p, target, C, Z)
        <=> /\ needs_more(p, target, Total(B, UnitsHeld))
            /\ Cardinality(B) < kMaxReclaimVictims
            /\ Total(B, UnitsHeld) + UnitsHeld[c] <= max
  BY DEF Accepted
<1> HIDE DEF A, B, max
<1>6. IsFiniteSet(A) /\ IsFiniteSet(B) /\ IsFiniteSet(B \cup {c})
  BY <1>1, <1>4, AllocationsFinite
<1>7. \A x \in AllocIds : UnitsHeld[x] \in Nat
  BY <1>1, HeldTyped
<1>8. Total(B \cup {c}, UnitsHeld) = Total(B, UnitsHeld) + UnitsHeld[c]
  <2>1. B \cap {c} = {}
    BY <1>3
  <2>2. IsFiniteSet({c})
    BY FS_Singleton
  <2>3. Total({c}, UnitsHeld) = UnitsHeld[c]
    BY <1>1, <1>7, TotalSingleton
  <2>4. \A x \in B \cup {c} : UnitsHeld[x] \in Nat
    BY <1>1, <1>4, <1>7
  <2> QED  BY <1>6, <2>1, <2>2, <2>3, <2>4, TotalDisjoint
<1>9. Total(B \cup {c}, UnitsHeld) <= Total(A, UnitsHeld)
  <2>1. \A x \in A : UnitsHeld[x] \in Nat /\ UnitsHeld[x] \in Nat
    BY <1>4, <1>7
  <2>2. \A x \in B \cup {c} : UnitsHeld[x] <= UnitsHeld[x]
    BY <1>1, <1>4, <1>7
  <2> QED  BY <1>3, <1>6, <2>1, <2>2, TotalMonotone
<1>10. Total(A, UnitsHeld) \in Nat /\ Total(B, UnitsHeld) \in Nat
  BY <1>1, <1>4, TotalsTyped
<1>11. /\ Cardinality(B) <= Cardinality(A)
       /\ Cardinality(A) \in Nat
       /\ Cardinality(B) \in Nat
  <2>1. B \in SUBSET A
    BY <1>3
  <2> QED  BY <1>6, <2>1, FS_Subset, FS_CardinalityType
<1>12. /\ max \in Nat
       /\ PolicyOf(p).reserve_units \in Nat
       /\ Free(p) \in Int
  BY ReclaimBounds DEF max
<1>13. /\ UnitsHeld[a] \in Nat
       /\ UnitsHeld[c] \in Nat
       /\ kMaxReclaimVictims \in Nat
  BY <1>1, <1>7, BoundAssumption
<1>14. Total(B, UnitsHeld) <= Total(A, UnitsHeld)
  BY <1>8, <1>9, <1>10, <1>13
<1>15. needs_more(p, target, Total(B, UnitsHeld))
  BY <1>2, <1>10, <1>12, <1>14 DEF needs_more
<1>16. Total(B, UnitsHeld) + UnitsHeld[c] <= max
  BY <1>2, <1>8, <1>9, <1>10, <1>12, <1>13
<1>17. Cardinality(B) < kMaxReclaimVictims
  BY <1>2, <1>11, <1>13
<1> QED  BY <1>5, <1>15, <1>16, <1>17

\* A pass that accepts anything keeps the operation within its bound.
LEMMA AcceptedFits ==
    ASSUME IInv, NEW p \in Pools, Registered(p), NEW target \in Nat,
           NEW C \in SUBSET AllocIds, NEW Z \in SUBSET AllocIds,
           Accepted(p, target, C, Z) # {}
    PROVE  Total(Z \cup Accepted(p, target, C, Z), UnitsHeld)
             <= PolicyOf(p).max_units_per_operation
<1> DEFINE S == Accepted(p, target, C, Z)
           max == PolicyOf(p).max_units_per_operation
<1>1. S \in SUBSET C /\ S \in SUBSET AllocIds /\ StructOK
  BY DEF Accepted, IInv
<1>2. PICK a \in S : \A b \in S : b = a \/ ReclaimedBefore(b, a)
  <2> HIDE DEF S
  <2>1. S # {}
    BY DEF S
  <2> QED  BY <1>1, <2>1, SomeComesLast
<1> DEFINE A == Z \cup {b \in C : ReclaimedBefore(b, a)}
<1>3. Total(A, UnitsHeld) + UnitsHeld[a] <= max
  BY <1>2 DEF Accepted
<1>4. Z \cup S \in SUBSET (A \cup {a})
  BY <1>1, <1>2
<1>5. A \in SUBSET AllocIds /\ a \in AllocIds
  BY <1>1
<1>6. max \in Nat
  BY ReclaimBounds
<1> HIDE DEF S, A, max
<1>7. \A x \in AllocIds : UnitsHeld[x] \in Nat
  BY <1>1, HeldTyped
<1>8. IsFiniteSet(A) /\ IsFiniteSet(A \cup {a})
  BY <1>5, AllocationsFinite
<1>9. Total(Z \cup S, UnitsHeld) <= Total(A \cup {a}, UnitsHeld)
  <2>1. \A x \in A \cup {a} : UnitsHeld[x] \in Nat /\ UnitsHeld[x] \in Nat
    BY <1>5, <1>7
  <2>2. \A x \in Z \cup S : UnitsHeld[x] <= UnitsHeld[x]
    BY <1>1, <1>7
  <2> QED  BY <1>4, <1>8, <2>1, <2>2, TotalMonotone
<1>10. Total(A \cup {a}, UnitsHeld) <= Total(A, UnitsHeld) + UnitsHeld[a]
  <2>1. /\ Total(A, UnitsHeld) \in Nat
        /\ Total(A \cup {a}, UnitsHeld) \in Nat
        /\ UnitsHeld[a] \in Nat
    BY <1>1, <1>5, <1>7, TotalsTyped
  <2>2. CASE a \in A
    <3>1. A \cup {a} = A
      BY <2>2
    <3>2. Total(A \cup {a}, UnitsHeld) = Total(A, UnitsHeld)
      BY <3>1, Zenon
    <3> QED  BY <2>1, <3>2
  <2>3. CASE a \notin A
    <3>1. A \cap {a} = {} /\ IsFiniteSet({a})
      BY <2>3, FS_Singleton
    <3>2. \A x \in A \cup {a} : UnitsHeld[x] \in Nat
      BY <1>5, <1>7
    <3>3. Total(A \cup {a}, UnitsHeld) = Total(A, UnitsHeld) + Total({a}, UnitsHeld)
      BY <1>8, <3>1, <3>2, TotalDisjoint
    <3>4. Total({a}, UnitsHeld) = UnitsHeld[a]
      BY <2>1, TotalSingleton
    <3> QED  BY <2>1, <3>3, <3>4
  <2> QED  BY <2>2, <2>3
<1>11. /\ Total(A, UnitsHeld) \in Nat
       /\ Total(A \cup {a}, UnitsHeld) \in Nat
       /\ Total(Z \cup S, UnitsHeld) \in Nat
       /\ UnitsHeld[a] \in Nat
  BY <1>1, <1>5, <1>7, TotalsTyped
<1>12. Total(Z \cup S, UnitsHeld) <= max
  BY <1>3, <1>6, <1>9, <1>10, <1>11
<1> QED  BY <1>12 DEF S, max

\* What a plan may contain, and what it may not leave out.
LEMMA PlanRespectsPolicy ==
    ASSUME TInv, MembersFit, TouchedInPast, NEW p \in Pools, Registered(p),
           NEW target \in Nat, NEW a \in ReclaimPlan(p, target)
    PROVE  /\ allocations[a].pool = p
           /\ tick - allocations[a].last_touched >= PolicyOf(p).min_hold_ticks
           /\ allocations[a].reclaim_class = "Pinned" => PolicyOf(p).allow_protected_reclaim
           /\ Total(ReclaimPlan(p, target), UnitsHeld) <= PolicyOf(p).max_units_per_operation
           /\ \A c \in Candidates(p, allocations[a].reclaim_class) :
                 ReclaimedBefore(c, a) => c \in ReclaimPlan(p, target)
<1> DEFINE R == Candidates(p, "Reclaimable")
           P == Candidates(p, "Pinned")
           first == Accepted(p, target, R, {})
           second == Accepted(p, target, P, first)
           plan == ReclaimPlan(p, target)
<1>1. IInv /\ members[p] \in SUBSET AllocIds
  BY DEF TInv, IInv, StructOK
<1>2. R \in SUBSET AllocIds /\ P \in SUBSET AllocIds
  BY <1>1 DEF Candidates
<1>3. \A x \in R \cup P :
         /\ allocations[x].pool = p
         /\ HeldLongEnough(p, x)
         /\ x \in R <=> allocations[x].reclaim_class = "Reclaimable"
         /\ x \in P <=> allocations[x].reclaim_class = "Pinned"
  BY DEF Candidates, MembersFit, Fit
<1>4. first \in SUBSET R /\ second \in SUBSET P
  BY DEF Accepted
<1>5. \/ plan = first
      \/ plan = first \cup second /\ PolicyOf(p).allow_protected_reclaim
  BY DEF ReclaimPlan
<1>6. /\ first # {} => Total({} \cup first, UnitsHeld) <= PolicyOf(p).max_units_per_operation
      /\ second # {} =>
            Total(first \cup second, UnitsHeld) <= PolicyOf(p).max_units_per_operation
  <2>1. first \in SUBSET AllocIds
    BY <1>2, <1>4
  <2> HIDE DEF R, P
  <2>2. first # {} =>
           Total({} \cup first, UnitsHeld) <= PolicyOf(p).max_units_per_operation
    <3>1. {} \in SUBSET AllocIds
      OBVIOUS
    <3> QED  BY <1>1, <1>2, <3>1, AcceptedFits
  <2> DEFINE Z == first
  <2>3. Z \in SUBSET AllocIds
    BY <2>1
  <2> HIDE DEF Z
  <2>4. Accepted(p, target, P, Z) # {} =>
           Total(Z \cup Accepted(p, target, P, Z), UnitsHeld)
             <= PolicyOf(p).max_units_per_operation
    BY <1>1, <1>2, <2>3, AcceptedFits
  <2> QED  BY <2>2, <2>4 DEF Z
<1>7. /\ \A x \in first : \A c \in R : ReclaimedBefore(c, x) => c \in first
      /\ \A x \in second : \A c \in P : ReclaimedBefore(c, x) => c \in second
  <2>1. first \in SUBSET AllocIds /\ first \cap P = {}
    BY <1>2, <1>3, <1>4
  <2> HIDE DEF R, P
  <2>2. \A x \in first : \A c \in R : ReclaimedBefore(c, x) => c \in first
    <3>1. {} \in SUBSET AllocIds /\ {} \cap R = {}
      OBVIOUS
    <3> QED  BY <1>1, <1>2, <3>1, AcceptedClosed
  <2> DEFINE Z == first
  <2>3. Z \in SUBSET AllocIds /\ Z \cap P = {}
    BY <2>1
  <2> HIDE DEF Z
  <2>4. \A x \in Accepted(p, target, P, Z) : \A c \in P :
           ReclaimedBefore(c, x) => c \in Accepted(p, target, P, Z)
    BY <1>1, <1>2, <2>3, AcceptedClosed
  <2> QED  BY <2>2, <2>4 DEF Z
<1> HIDE DEF first, second
<1>8. a \in plan /\ (a \in first \/ (a \in second /\ PolicyOf(p).allow_protected_reclaim))
  BY <1>5
<1>9. allocations[a].pool = p /\ HeldLongEnough(p, a) /\ a \in AllocIds
  BY <1>2, <1>3, <1>4, <1>8
<1>10. tick - allocations[a].last_touched >= PolicyOf(p).min_hold_ticks
  <2>1. /\ allocations[a].last_touched \in Nat
        /\ tick \in Nat
        /\ allocations[a].last_touched <= tick
    BY <1>1, <1>9 DEF IInv, StructOK, AllocationRecord, TouchedInPast
  <2>2. PolicyOf(p).min_hold_ticks \in Nat
    BY <1>1, ReclaimBounds
  <2> QED  BY <1>9, <2>1, <2>2 DEF HeldLongEnough, Monus
<1>11. allocations[a].reclaim_class = "Pinned" => PolicyOf(p).allow_protected_reclaim
  BY <1>3, <1>4, <1>8
<1>12. Total(plan, UnitsHeld) <= PolicyOf(p).max_units_per_operation
  <2> HIDE DEF plan
  <2>1. CASE plan = first \cup second /\ second # {}
    BY <2>1, <1>6
  <2>2. CASE plan = first \/ second = {}
    <3>1. plan = {} \cup first /\ first # {}
      BY <2>2, <1>5, <1>8
    <3> QED  BY <3>1, <1>6
  <2> QED  BY <2>1, <2>2, <1>5
<1>13. ASSUME NEW c \in Candidates(p, allocations[a].reclaim_class), ReclaimedBefore(c, a)
       PROVE  c \in plan
  <2>1. CASE a \in first
    <3>1. c \in R
      BY <2>1, <1>3, <1>4, <1>13
    <3> QED  BY <2>1, <3>1, <1>5, <1>7, <1>13
  <2>2. CASE a \in second /\ a \notin first
    <3>1. c \in P
      BY <2>2, <1>3, <1>4, <1>13
    <3> QED  BY <2>2, <3>1, <1>5, <1>7, <1>8, <1>13
  <2> QED  BY <2>1, <2>2, <1>8
<1> QED  BY <1>9, <1>10, <1>11, <1>12, <1>13

\* release ends a record or leaves its state, and stamps it unless the units
\* are refused.
LEMMA ReleasedRecord ==
    ASSUME allocations \in [AllocIds -> AllocationRecord],
           NEW c \in AllocIds, NEW n \in 1..UnitsHeld[c], Release(c, n)
    PROVE  /\ allocations'[c].state \in {"Released", allocations[c].state}
           /\ allocations'[c].last_touched \in {allocations[c].last_touched, tick}
<1> DEFINE r == allocations[c]
           rest == r.units - n
           e == [r EXCEPT !.state = IF rest = 0 THEN "Released" ELSE r.state,
                          !.units = rest,
                          !.borrow_units = When(rest # 0, BorrowHeld[c] - ReleasedBorrow(c, n)),
                          !.lender = IF rest = 0 THEN NoPool ELSE r.lender,
                          !.last_touched = tick]
<1>1. allocations' = allocations \/ allocations' = [allocations EXCEPT ![c] = e]
  BY Zenon DEF Release
<1>2. r \in AllocationRecord
  OBVIOUS
<1>3. e.state \in {"Released", r.state} /\ e.last_touched = tick
  <2> HIDE DEF r, rest
  <2> QED  BY <1>2 DEF AllocationRecord
<1> HIDE DEF e
<1> QED  BY <1>1, <1>3

\* Only apply_reclaim reclaims, and it reclaims its plan.
LEMMA ReclaimedByPlan ==
    ASSUME IInv, [Next]_vars, ReclaimedNow # {}
    PROVE  \E p \in Pools, n \in ReclaimTargets :
              Registered(p) /\ ReclaimedNow = ReclaimPlan(p, n)
<1>1. allocations \in [AllocIds -> AllocationRecord]
  BY DEF IInv, StructOK
<1>2. ASSUME NEW V, NEW st, Revoke(V, st), NEW a \in AllocIds
      PROVE  allocations'[a].state = IF a \in V THEN st ELSE allocations[a].state
  <2>1. allocations[a] \in AllocationRecord
    BY <1>1
  <2>2. allocations'[a] = IF a \in V
                          THEN [allocations[a] EXCEPT !.state = st, !.last_touched = tick]
                          ELSE allocations[a]
    BY <1>2 DEF Revoke, MarkRevoked
  <2> QED  BY <2>1, <2>2 DEF AllocationRecord
<1>3. ASSUME NEW p \in Pools, NEW n \in ReclaimTargets, ApplyReclaim(p, n)
      PROVE  Registered(p) /\ ReclaimedNow = ReclaimPlan(p, n)
  <2>1. \A c : /\ Candidates(p, c) \in SUBSET AllocIds
               /\ \A a \in Candidates(p, c) : Holding(a)
    BY DEF Candidates, IInv, StructOK
  <2>2. \A C, Z : Accepted(p, n, C, Z) \subseteq C
    BY DEF Accepted
  <2>3. /\ ReclaimPlan(p, n) \in SUBSET AllocIds
        /\ \A a \in ReclaimPlan(p, n) : Holding(a)
    BY <2>1, <2>2 DEF ReclaimPlan
  <2>4. Registered(p) /\ Revoke(ReclaimPlan(p, n), "Reclaimed")
    BY <1>3, <2>3, RevokesAll DEF ApplyReclaim
  <2>5. \A a \in AllocIds : Holding(a) => allocations[a].state # "Reclaimed"
    BY DEF Holding, allocation_holds_units
  <2> QED  BY <1>2, <2>3, <2>4, <2>5 DEF ReclaimedNow
<1>4. ASSUME NEW V, NEW st \in {"Fenced", "Expired"}, Revoke(V, st)
      PROVE  ReclaimedNow = {}
  BY <1>2, <1>4 DEF ReclaimedNow
<1>5. RevokingStep => \/ \E p \in Pools, n \in ReclaimTargets : ApplyReclaim(p, n)
                      \/ \E V : \E st \in {"Fenced", "Expired"} : Revoke(V, st)
  BY RevokingVictims, Zenon
<1>6. allocations' = allocations => ReclaimedNow = {}
  BY DEF ReclaimedNow
<1>7. TableKeptStep \/ UNCHANGED vars => allocations' = allocations
  BY DEF TableKeptStep, SetCapacity, RegisterPool, RemovePool, RegisterQueue,
         UpdateQueueDemand, ObservePressure, BeginShutdown, Close, Open, Tick, vars, ledger
<1>8. ASSUME NEW p \in Pools, NEW q \in Queues, NEW r \in AllocateRequests, Allocate(p, q, r)
      PROVE  ReclaimedNow = {}
  <2>1. PICK l, g, b : ApplyGrant(p, q, l, r, g, b)
    BY <1>8 DEF Allocate
  <2>2. allocations' =
          [allocations EXCEPT ![next_allocation_id] = NewRecord(p, q, l, r, g, b)]
    BY <2>1 DEF ApplyGrant
  <2>3. NewRecord(p, q, l, r, g, b).state # "Reclaimed"
    BY DEF NewRecord
  <2> HIDE DEF NewRecord
  <2> QED  BY <1>1, <2>2, <2>3 DEF ReclaimedNow
<1>9. ASSUME NEW c \in AllocIds,
             \/ Commit(c)
             \/ \E n \in 1..UnitsHeld[c] : Release(c, n)
             \/ Revalidate(c)
      PROVE  ReclaimedNow = {}
  <2>1. \A a \in AllocIds \ {c} : allocations'[a] = allocations[a]
    BY <1>1, <1>9 DEF Commit, Release, Revalidate
  <2>2. allocations'[c].state \in {"Committed", "Released", allocations[c].state}
    <3>1. allocations[c] \in AllocationRecord
      BY <1>1
    <3>2. CASE Commit(c)
      BY <1>1, <3>1, <3>2 DEF Commit, AllocationRecord
    <3>3. CASE Revalidate(c)
      BY <1>1, <3>1, <3>3 DEF Revalidate, AllocationRecord
    <3>4. ASSUME NEW n \in 1..UnitsHeld[c], Release(c, n)
          PROVE  allocations'[c].state \in {"Released", allocations[c].state}
      BY <1>1, <3>4, ReleasedRecord, Zenon
    <3> QED  BY <1>9, <3>2, <3>3, <3>4
  <2> QED  BY <2>1, <2>2 DEF ReclaimedNow
<1>10. \/ RevokingStep
       \/ TableKeptStep
       \/ UNCHANGED vars
       \/ \E p \in Pools, q \in Queues, r \in AllocateRequests : Allocate(p, q, r)
       \/ \E c \in AllocIds : \/ Commit(c)
                              \/ \E n \in 1..UnitsHeld[c] : Release(c, n)
                              \/ Revalidate(c)
  BY DEF Next, RevokingStep, TableKeptStep
<1> QED  BY <1>3, <1>4, <1>5, <1>6, <1>7, <1>8, <1>9, <1>10

\* The clock never runs backwards, and operations stamp what they touch with
\* the time they run at.
LEMMA TouchesStayInPast ==
    ASSUME IInv, TouchedInPast, [Next]_vars
    PROVE  TouchedInPast'
<1>1. /\ allocations \in [AllocIds -> AllocationRecord]
      /\ tick \in Nat
      /\ \A a \in AllocIds : allocations[a].last_touched \in Nat
  BY DEF IInv, StructOK, AllocationRecord
<1>2. tick' \in Nat /\ tick <= tick'
  <2>1. CASE Tick
    BY <1>1, <2>1 DEF Tick
  <2>2. RevokingStep => tick' = tick
    BY DEF RevokingStep, FenceStale, ExpireReservations, ApplyReclaim, PublishPolicy,
           ResizePool, RetireQueue, RetargetQueue
  <2>3. TableKeptStep /\ ~Tick => tick' = tick
    BY DEF TableKeptStep, SetCapacity, RegisterPool, RemovePool, RegisterQueue,
           UpdateQueueDemand, ObservePressure, BeginShutdown, Close, Open
  <2>4. \A p \in Pools, q \in Queues, r \in AllocateRequests : Allocate(p, q, r) => tick' = tick
    BY DEF Allocate, ApplyGrant
  <2>5. \A c \in AllocIds : \/ Commit(c)
                            \/ \E n \in 1..UnitsHeld[c] : Release(c, n)
                            \/ Revalidate(c)
                            => tick' = tick
    BY DEF Commit, Release, Revalidate
  <2>6. UNCHANGED vars => tick' = tick
    BY DEF vars
  <2>7. Tick \/ tick' = tick
    BY <2>2, <2>3, <2>4, <2>5, <2>6 DEF Next, RevokingStep, TableKeptStep
  <2>8. tick' = tick => tick' \in Nat /\ tick <= tick'
    BY <1>1
  <2> QED  BY <2>1, <2>7, <2>8
<1>3. ASSUME NEW a \in AllocIds
      PROVE  allocations'[a].last_touched \in {allocations[a].last_touched, tick}
  <2>1. allocations[a] \in AllocationRecord
    BY <1>1
  <2>2. CASE RevokingStep
    <3>1. PICK V, st : Revoke(V, st)
      BY <2>2, RevokingVictims, Zenon
    <3>2. allocations'[a] = IF a \in V
                            THEN [allocations[a] EXCEPT !.state = st, !.last_touched = tick]
                            ELSE allocations[a]
      BY <3>1 DEF Revoke, MarkRevoked
    <3> QED  BY <2>1, <3>2 DEF AllocationRecord
  <2>3. CASE TableKeptStep \/ UNCHANGED vars
    BY <2>3 DEF TableKeptStep, SetCapacity, RegisterPool, RemovePool, RegisterQueue,
         UpdateQueueDemand, ObservePressure, BeginShutdown, Close, Open, Tick, vars, ledger
  <2>4. ASSUME NEW p \in Pools, NEW q \in Queues, NEW r \in AllocateRequests, Allocate(p, q, r)
        PROVE  allocations'[a].last_touched \in {allocations[a].last_touched, tick}
    <3>1. PICK l, g, b : ApplyGrant(p, q, l, r, g, b)
      BY <2>4 DEF Allocate
    <3>2. allocations' =
            [allocations EXCEPT ![next_allocation_id] = NewRecord(p, q, l, r, g, b)]
      BY <3>1 DEF ApplyGrant
    <3>3. NewRecord(p, q, l, r, g, b).last_touched = tick
      BY DEF NewRecord
    <3> HIDE DEF NewRecord
    <3> QED  BY <1>1, <3>2, <3>3
  <2>5. ASSUME NEW c \in AllocIds,
               \/ Commit(c)
               \/ \E n \in 1..UnitsHeld[c] : Release(c, n)
               \/ Revalidate(c)
        PROVE  allocations'[a].last_touched \in {allocations[a].last_touched, tick}
    <3>1. CASE a # c
      BY <1>1, <2>5, <3>1 DEF Commit, Release, Revalidate
    <3>2. CASE Commit(a)
      BY <1>1, <2>1, <3>2 DEF Commit, AllocationRecord
    <3>3. CASE Revalidate(a)
      BY <1>1, <2>1, <3>3 DEF Revalidate, AllocationRecord
    <3>4. ASSUME NEW n \in 1..UnitsHeld[a], Release(a, n)
          PROVE  allocations'[a].last_touched \in {allocations[a].last_touched, tick}
      BY <1>1, <3>4, ReleasedRecord, Zenon
    <3> QED  BY <2>5, <3>1, <3>2, <3>3, <3>4
  <2> QED  BY <2>2, <2>3, <2>4, <2>5 DEF Next, RevokingStep, TableKeptStep
<1> SUFFICES ASSUME NEW a \in AllocIds
             PROVE  allocations'[a].last_touched <= tick'
  BY DEF TouchedInPast
<1>4. allocations[a].last_touched <= tick
  BY DEF TouchedInPast
<1> QED  BY <1>1, <1>2, <1>3, <1>4
-----------------------------------------------------------------------------
(* Theorems.                                                               *)

\* Pools are described validly, and records were touched in the past.
LEMMA DescriptionsSound == SmallRequests => (Spec => [](UnitsValid /\ TouchedInPast))
<1> SUFFICES ASSUME SmallRequests
             PROVE  Spec => [](UnitsValid /\ TouchedInPast)
  OBVIOUS
<1>1. Init => UnitsValid /\ TouchedInPast
  BY DEF Init, UnitsValid, TouchedInPast, Erased, NoRecord
<1>2. IInv /\ UnitsValid /\ TouchedInPast /\ [Next]_vars => UnitsValid' /\ TouchedInPast'
  BY UnitsStayValid, TouchesStayInPast
<1>3. Spec => []IInv
  BY LedgerInvariant
<1> QED  BY <1>1, <1>2, <1>3, PTL DEF Spec

\* In every state the identity of every pool closes, and over all pools loans
\* cancel out: capacity moves between pools and is never made.
THEOREM AccountingCloses == SmallRequests => (Spec => []AccountingIdentity)
<1>1. IInv /\ UnitsValid => AccountingIdentity
  BY PoolIdentity, GlobalIdentity DEF AccountingIdentity
<1> QED  BY <1>1, LedgerInvariant, DescriptionsSound, PTL

\* In every state and for every request, allocate grants no more than evaluate
\* answers, and exactly that unless the soft limit applies or the pool is past
\* its allowance.
THEOREM EvaluateIsHonest == SmallRequests => (Spec => []EvaluateForetells)
<1>1. TInv /\ UnitsValid => EvaluateForetells
  BY Foretold
<1> QED  BY <1>1, TopologyInvariant, DescriptionsSound, PTL

\* No reclaim takes what is held too briefly, is pinned against the policy,
\* exceeds the bound of an operation, or is out of order.
THEOREM ReclaimKeepsPolicy == SmallRequests => (Spec => ReclaimRespectsPolicy)
<1> DEFINE A == \A a \in ReclaimedNow :
              LET p == allocations[a].pool
                  b == PolicyOf(p)
              IN
              /\ tick - allocations[a].last_touched >= b.min_hold_ticks
              /\ allocations[a].reclaim_class = "Pinned" => b.allow_protected_reclaim
              /\ Total(ReclaimedNow, UnitsHeld) <= b.max_units_per_operation
              /\ \A c \in AllocIds :
                    /\ c \in ReclaimedNow => allocations[c].pool = p
                    /\ /\ c \in Candidates(p, allocations[a].reclaim_class)
                       /\ ReclaimedBefore(c, a)
                       => c \in ReclaimedNow
<1>1. TInv /\ MembersFit /\ TouchedInPast /\ [Next]_vars => A
  <2> SUFFICES ASSUME TInv, MembersFit, TouchedInPast, [Next]_vars, NEW a \in ReclaimedNow
               PROVE  /\ tick - allocations[a].last_touched
                           >= PolicyOf(allocations[a].pool).min_hold_ticks
                      /\ allocations[a].reclaim_class = "Pinned"
                           => PolicyOf(allocations[a].pool).allow_protected_reclaim
                      /\ Total(ReclaimedNow, UnitsHeld)
                           <= PolicyOf(allocations[a].pool).max_units_per_operation
                      /\ \A c \in ReclaimedNow : allocations[c].pool = allocations[a].pool
                      /\ \A c \in Candidates(allocations[a].pool, allocations[a].reclaim_class) :
                            ReclaimedBefore(c, a) => c \in ReclaimedNow
    OBVIOUS
  <2>1. PICK p \in Pools, n \in ReclaimTargets :
           Registered(p) /\ ReclaimedNow = ReclaimPlan(p, n)
    BY ReclaimedByPlan DEF TInv
  <2>2. n \in Nat
    BY InputAssumption
  <2>3. \A c \in ReclaimedNow : allocations[c].pool = p
    BY <2>1, <2>2, PlanRespectsPolicy
  <2> QED  BY <2>1, <2>2, <2>3, PlanRespectsPolicy
<1>2. ReclaimRespectsPolicy <=> [][A]_vars
  BY DEF ReclaimRespectsPolicy
<1> HIDE DEF A
<1>3. TInv /\ MembersFit /\ TouchedInPast /\ [Next]_vars => [A]_vars
  BY <1>1
<1> QED  BY <1>2, <1>3, TopologyInvariant, MembersAlwaysFit, DescriptionsSound, PTL DEF Spec
=============================================================================
