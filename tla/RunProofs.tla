------------------------------ MODULE RunProofs ------------------------------
(***************************************************************************)
(* A worker that has finished holds nothing, unless one of its attempts    *)
(* was applied twice.  Until that happens all runs of a worker follow one  *)
(* course, which the history of applied attempts tells: each run is where  *)
(* the history leads it, because the replies it takes are answers to its   *)
(* own requests, and answers say what was applied.                         *)
(***************************************************************************)
EXTENDS ServiceProofs

(* The course of a worker's runs, as the history of applied attempts tells *)
(* it.  As long as no attempt of the worker was applied twice, each of its *)
(* runs in one life of the coordinator follows this one course.            *)

\* An attempt that ends a cycle: a release, or an allocation that was refused.
Ends(x) == x.op = "Release" \/ x.allocation = NoAllocation

Logged(A, w, n) == \E i \in DOMAIN A : A[i].attempt = <<w, n>>

EndedAt(A, w, n) == \E i \in DOMAIN A : A[i].attempt = <<w, n>> /\ Ends(A[i])

\* The cycles that were ended before attempt n.
Ended(A, w, n) == {m \in 1..(n - 1) : EndedAt(A, w, m)}

\* A release follows the grant of its allocation; an allocation follows the end
\* of a cycle.
Follows(A, w, n, op, al) ==
    \/ op = "Allocate" /\ al = NoAllocation /\ (n = 1 \/ EndedAt(A, w, n - 1))
    \/ /\ op = "Release"
       /\ \E i \in DOMAIN A : /\ A[i].attempt = <<w, n - 1>> /\ ~Ends(A[i])
                              /\ A[i].allocation = al

\* What was applied leads a worker to attempt n, and there to op.
Reached(A, w, n, op, al) ==
    /\ n \in Nat \ {0}
    /\ \A m \in 1..(n - 1) : Logged(A, w, m)
    /\ Cardinality(Ended(A, w, n)) < operations
    /\ Follows(A, w, n, op, al)

\* What was applied leads a worker to the end of its run.
Complete(A, w) ==
    \E n \in Nat \ {0} :
        /\ \A m \in 1..n : Logged(A, w, m)
        /\ EndedAt(A, w, n)
        /\ Cardinality(Ended(A, w, n + 1)) = operations

\* No attempt of the worker was applied twice.
Once(A, w) ==
    \A j, k \in DOMAIN A : A[j].attempt[1] = w /\ A[j].attempt = A[k].attempt => j = k

Asked(x) == IF x.op = "Release" THEN x.allocation ELSE NoAllocation

LogCourse(A, w) ==
    \A i \in DOMAIN A : A[i].attempt[1] = w =>
        /\ A[i].attempt = <<w, A[i].attempt[2]>>
        /\ Reached(A, w, A[i].attempt[2], A[i].op, Asked(A[i]))

LEMMA LongerLog ==
    ASSUME NEW A, IsSequence(A), NEW x, NEW w, NEW m, x.attempt # <<w, m>>
    PROVE  EndedAt(Append(A, x), w, m) <=> EndedAt(A, w, m)
  BY AppendFacts DEF EndedAt

LEMMA StillLogged ==
    ASSUME NEW A, IsSequence(A), NEW x, NEW w, NEW m, Logged(A, w, m)
    PROVE  Logged(Append(A, x), w, m)
  BY AppendFacts DEF Logged

LEMMA StillOnce ==
    ASSUME NEW A, IsSequence(A), NEW x, NEW w, Once(Append(A, x), w)
    PROVE  Once(A, w) /\ \A m : Logged(A, w, m) => x.attempt # <<w, m>>
  <1>1. Once(A, w)
      BY AppendFacts DEF Once
  <1>2. ASSUME NEW m, NEW i \in DOMAIN A, A[i].attempt = <<w, m>>, x.attempt = <<w, m>>
        PROVE  FALSE
    <2>1. /\ i \in DOMAIN Append(A, x) /\ Len(A) + 1 \in DOMAIN Append(A, x)
          /\ Append(A, x)[i] = A[i] /\ Append(A, x)[Len(A) + 1] = x
          /\ i # Len(A) + 1
        BY AppendFacts
    <2>2. QED  BY <1>2, <2>1 DEF Once
  <1>3. QED  BY <1>1, <1>2 DEF Logged

LEMMA ReachedLater ==
    ASSUME NEW A, IsSequence(A), NEW x, NEW w, Once(Append(A, x), w), NEW n, NEW op, NEW al,
           Reached(A, w, n, op, al)
    PROVE  /\ Reached(Append(A, x), w, n, op, al)
           /\ Ended(Append(A, x), w, n) = Ended(A, w, n)
  <1> DEFINE B == Append(A, x)
  <1>1. /\ n \in Nat \ {0}
        /\ \A m \in 1..(n - 1) : Logged(A, w, m) /\ x.attempt # <<w, m>>
      BY StillOnce DEF Reached
  <1>2. \A m \in 1..(n - 1) : Logged(B, w, m) /\ (EndedAt(B, w, m) <=> EndedAt(A, w, m))
      BY <1>1, StillLogged, LongerLog
  <1>3. Ended(B, w, n) = Ended(A, w, n)
      BY <1>2 DEF Ended
  <1>4. Follows(B, w, n, op, al)
    <2>1. Follows(A, w, n, op, al)
        BY DEF Reached
    <2>2. n = 1 \/ n - 1 \in 1..(n - 1)
        BY <1>1
    <2>3. CASE op = "Release"
        BY <2>1, <2>3, AppendFacts DEF Follows
    <2>4. CASE op = "Allocate"
        BY <1>2, <2>1, <2>2, <2>4 DEF Follows
    <2>5. QED  BY <2>1, <2>3, <2>4 DEF Follows
  <1>5. QED  BY <1>1, <1>2, <1>3, <1>4 DEF Reached

LEMMA CompleteLater ==
    ASSUME NEW A, IsSequence(A), NEW x, NEW w, Once(Append(A, x), w), Complete(A, w)
    PROVE  Complete(Append(A, x), w)
  <1> DEFINE B == Append(A, x)
  <1>1. PICK n \in Nat \ {0} :
          /\ \A m \in 1..n : Logged(A, w, m)
          /\ EndedAt(A, w, n)
          /\ Cardinality(Ended(A, w, n + 1)) = operations
      BY DEF Complete
  <1>2. \A m \in 1..n : Logged(B, w, m) /\ (EndedAt(B, w, m) <=> EndedAt(A, w, m))
      BY <1>1, StillOnce, StillLogged, LongerLog
  <1>3. (n + 1) - 1 = n /\ n \in 1..n
      BY <1>1
  <1>4. Ended(B, w, n + 1) = Ended(A, w, n + 1)
      BY <1>2, <1>3 DEF Ended
  <1>5. QED  BY <1>1, <1>2, <1>3, <1>4 DEF Complete

\* A cycle is counted once.
LEMMA EndedGrows ==
    ASSUME NEW A, NEW w, NEW n \in Nat \ {0}
    PROVE  /\ Ended(A, w, n + 1) =
                IF EndedAt(A, w, n) THEN Ended(A, w, n) \cup {n} ELSE Ended(A, w, n)
           /\ n \notin Ended(A, w, n)
           /\ IsFiniteSet(Ended(A, w, n)) /\ Cardinality(Ended(A, w, n)) \in Nat
  <1>1. 1..((n + 1) - 1) = 1..(n - 1) \cup {n} /\ n \notin 1..(n - 1)
      OBVIOUS
  <1>2. IsFiniteSet(1..(n - 1))
      BY FS_Interval
  <1>3. Ended(A, w, n) \subseteq 1..(n - 1)
      BY DEF Ended
  <1>4. IsFiniteSet(Ended(A, w, n)) /\ Cardinality(Ended(A, w, n)) \in Nat
      BY <1>2, <1>3, FS_Subset, FS_CardinalityType
  <1>5. QED  BY <1>1, <1>3, <1>4 DEF Ended

\* After a grant comes its release.
LEMMA ReachedGrant ==
    ASSUME NEW A, NEW w, Once(A, w), NEW n, NEW al, Reached(A, w, n, "Allocate", al),
           NEW i \in DOMAIN A, A[i].attempt = <<w, n>>, A[i].op = "Allocate",
           A[i].allocation # NoAllocation
    PROVE  /\ Reached(A, w, n + 1, "Release", A[i].allocation)
           /\ Ended(A, w, n + 1) = Ended(A, w, n)
  <1>1. n \in Nat \ {0} /\ n + 1 \in Nat \ {0} /\ (n + 1) - 1 = n
        /\ 1..n = 1..(n - 1) \cup {n}
      BY DEF Reached
  <1>2. ~EndedAt(A, w, n)
    <2>1. ASSUME NEW j \in DOMAIN A, A[j].attempt = <<w, n>>
          PROVE  j = i
        BY <2>1 DEF Once
    <2>2. QED  BY <2>1 DEF EndedAt, Ends
  <1>3. Ended(A, w, n + 1) = Ended(A, w, n)
      BY <1>1, <1>2, EndedGrows, ZenonT(30)
  <1>4. \A m \in 1..((n + 1) - 1) : Logged(A, w, m)
      BY <1>1 DEF Reached, Logged
  <1>5. Follows(A, w, n + 1, "Release", A[i].allocation)
      BY <1>1 DEF Follows, Ends
  <1>6. QED  BY <1>1, <1>3, <1>4, <1>5 DEF Reached

\* After the end of a cycle comes the next one, or the end of the run.
LEMMA ReachedEnd ==
    ASSUME NEW A, NEW w, NEW n, NEW op, NEW al, Reached(A, w, n, op, al), EndedAt(A, w, n)
    PROVE  /\ Cardinality(Ended(A, w, n + 1)) = Cardinality(Ended(A, w, n)) + 1
           /\ IF Cardinality(Ended(A, w, n)) + 1 = operations
              THEN Complete(A, w)
              ELSE Reached(A, w, n + 1, "Allocate", NoAllocation)
  <1>1. n \in Nat \ {0} /\ n + 1 \in Nat \ {0} /\ (n + 1) - 1 = n
        /\ 1..n = 1..(n - 1) \cup {n}
      BY DEF Reached
  <1> DEFINE d == Cardinality(Ended(A, w, n))
  <1>2. d \in Nat /\ d < operations /\ operations \in Nat
      BY <1>1, EndedGrows, ServiceAssumption, ZenonT(30) DEF Reached
  <1>3. Cardinality(Ended(A, w, n + 1)) = d + 1
      BY <1>1, EndedGrows, FS_AddElement, ZenonT(30)
  <1>4. \A m \in 1..n : Logged(A, w, m)
    <2>1. Logged(A, w, n)
        BY DEF EndedAt, Logged
    <2>2. QED  BY <1>1, <2>1 DEF Reached
  <1>5. CASE d + 1 = operations
      BY <1>1, <1>3, <1>4, <1>5 DEF Complete
  <1>6. CASE d + 1 # operations
    <2>1. d + 1 < operations
        BY <1>2, <1>6
    <2>2. Follows(A, w, n + 1, "Allocate", NoAllocation)
        BY <1>1 DEF Follows
    <2>3. Reached(A, w, n + 1, "Allocate", NoAllocation)
        BY <1>1, <1>3, <1>4, <2>1, <2>2 DEF Reached
    <2>4. QED  BY <1>3, <1>6, <2>3
  <1>7. QED  BY <1>3, <1>5, <1>6

\* The course reaches every grant and, before it is complete, the release.
LEMMA CompleteReleases ==
    ASSUME NEW A, NEW w, Once(A, w), LogCourse(A, w), Complete(A, w),
           NEW i \in DOMAIN A, A[i].attempt[1] = w, ~Ends(A[i])
    PROVE  \E j \in DOMAIN A : A[j].op = "Release" /\ A[j].allocation = A[i].allocation
  <1>1. PICK n \in Nat \ {0} :
          /\ \A m \in 1..n : Logged(A, w, m)
          /\ EndedAt(A, w, n)
          /\ Cardinality(Ended(A, w, n + 1)) = operations
      BY DEF Complete
  <1> DEFINE m == A[i].attempt[2]
  <1>2. A[i].attempt = <<w, m>> /\ Reached(A, w, m, A[i].op, Asked(A[i]))
      BY DEF LogCourse
  <1> HIDE DEF m
  <1>3. m \in Nat \ {0} /\ Cardinality(Ended(A, w, m)) < operations
      BY <1>2 DEF Reached
  <1>4. \A k \in DOMAIN A : A[k].attempt = <<w, m>> => k = i
      BY <1>2 DEF Once
  <1>5. ~EndedAt(A, w, m)
      BY <1>4 DEF EndedAt
  <1>6. ~(m > n)
    <2> SUFFICES ASSUME m > n PROVE FALSE
        OBVIOUS
    <2>1. Ended(A, w, n + 1) \subseteq Ended(A, w, m)
      <3>1. 1..((n + 1) - 1) \subseteq 1..(m - 1)
          BY <1>1, <1>3
      <3>2. QED  BY <3>1 DEF Ended
    <2>2. Cardinality(Ended(A, w, n + 1)) <= Cardinality(Ended(A, w, m))
        BY <1>3, <2>1, EndedGrows, FS_Subset, ZenonT(30)
    <2>3. Cardinality(Ended(A, w, m)) \in Nat /\ operations \in Nat
        BY <1>3, EndedGrows, ServiceAssumption, ZenonT(30)
    <2>4. QED  BY <1>1, <1>3, <2>2, <2>3
  <1>7. m + 1 \in 1..n /\ (m + 1) - 1 = m /\ m + 1 # 1
      BY <1>1, <1>3, <1>5, <1>6
  <1>8. PICK j \in DOMAIN A : A[j].attempt = <<w, m + 1>>
      BY <1>1, <1>7, ZenonT(30) DEF Logged
  <1>9. Follows(A, w, m + 1, A[j].op, Asked(A[j]))
      BY <1>8 DEF LogCourse, Reached
  <1>10. A[j].op = "Release"
      BY <1>5, <1>7, <1>9 DEF Follows
  <1>11. PICK k \in DOMAIN A : A[k].attempt = <<w, m>> /\ A[k].allocation = A[j].allocation
      BY <1>7, <1>9, <1>10 DEF Follows, Asked
  <1>12. QED  BY <1>4, <1>10, <1>11
-----------------------------------------------------------------------------
(* Answers and the history.                                                *)

\* The applied attempt x is what an answer to op says it is.
Tells(x, op, a) ==
    /\ x.op = op
    /\ a.status = "Refused" => op = "Allocate" /\ x.allocation = NoAllocation
    /\ a.status = "Ok" /\ op = "Allocate" =>
          x.allocation = a.allocation /\ x.allocation # NoAllocation

ToldBy(A, id, op, a) == \E i \in DOMAIN A : A[i].attempt = id /\ Tells(A[i], op, a)

\* What is remembered is what was applied, and what was released is not held.
Truthful(f) ==
    /\ \A k \in DOMAIN f.memory :
          ToldBy(f.applied, f.memory[k].id, f.memory[k].digest.op, f.memory[k].answer)
    /\ \A i \in DOMAIN f.applied :
          /\ f.applied[i].allocation \in 0..f.table
          /\ f.applied[i].op = "Release" => f.applied[i].allocation \notin f.held

LEMMA ToldLater ==
    ASSUME NEW A, IsSequence(A), NEW x, NEW id, NEW op, NEW a, ToldBy(A, id, op, a)
    PROVE  ToldBy(Append(A, x), id, op, a)
  BY AppendFacts DEF ToldBy

\* An operation answers from the memory or decides, and then it appends to the
\* history.
Applies(f, r, o) ==
    /\ Truthful(o.fabric)
    /\ \/ o.fabric.applied = f.applied
       \/ \E x : /\ o.fabric.applied = Append(f.applied, x)
                 /\ x.attempt = r.attempt /\ x.op = r.op
                 /\ r.op = "Release" => x.allocation = r.allocation
    /\ o.answer.status \in {"Ok", "Refused"} =>
          ToldBy(o.fabric.applied, r.attempt, r.op, o.answer)

LEMMA DecidedApplies ==
    ASSUME NEW f, NEW g, NEW r, NEW a, IsFabric(f), Truthful(f), IsFabric(g),
           g.memory = f.memory, g.applied = f.applied, g.table >= f.table,
           g.held \cap (1..f.table) \subseteq f.held,
           a.allocation \in 0..g.table,
           r.op = "Allocate" => a.status \in {"Ok", "Refused"}
                                /\ (a.status = "Ok" <=> a.allocation # NoAllocation),
           r.op = "Release" => a.status = "Ok" /\ a.allocation = r.allocation
                               /\ r.allocation \notin g.held,
           r.op \in {"Allocate", "Release"}
    PROVE  Applies(f, r, Decided(g, r, a))
  <1> DEFINE m == [id |-> r.attempt, digest |-> request_digest(r), answer |-> a]
             x == [attempt |-> r.attempt, op |-> r.op, epoch |-> r.epoch,
                   allocation |-> a.allocation]
             long == Append(f.memory, m)
             h == record_attempt(g, r, a)
             B == Append(f.applied, x)
  <1>0. h = [g EXCEPT !.memory = evict_attempts(long), !.applied = B]
      BY DEF record_attempt
  <1> HIDE DEF h, long, B
  <1>1. h = [free |-> g.free, held |-> g.held, table |-> g.table,
             memory |-> evict_attempts(long), applied |-> B]
      BY <1>0, ZenonT(30) DEF IsFabric
  <1>2. /\ h.held = g.held /\ h.table = g.table /\ h.memory = evict_attempts(long)
        /\ h.applied = B
      BY <1>1
  <1>3. x.attempt = r.attempt /\ x.op = r.op /\ x.allocation = a.allocation
        /\ m.id = r.attempt /\ m.digest.op = r.op /\ m.answer = a
      BY DEF request_digest
  <1> HIDE DEF x, m
  <1>4. /\ IsSequence(B) /\ DOMAIN B = 1..(Len(f.applied) + 1) /\ Len(f.applied) \in Nat
        /\ DOMAIN f.applied = 1..Len(f.applied)
        /\ B[Len(f.applied) + 1] = x
        /\ \A i \in 1..Len(f.applied) : B[i] = f.applied[i]
      BY AppendFacts DEF IsFabric, B
  <1>5. Tells(x, r.op, a)
      BY <1>3 DEF Tells
  <1>6. ToldBy(B, r.attempt, r.op, a)
      BY <1>3, <1>4, <1>5 DEF ToldBy
  <1>7. /\ IsSequence(long) /\ DOMAIN long = 1..(Len(f.memory) + 1) /\ Len(f.memory) \in Nat
        /\ DOMAIN f.memory = 1..Len(f.memory)
        /\ Len(long) = Len(f.memory) + 1
        /\ long[Len(f.memory) + 1] = m
        /\ \A k \in 1..Len(f.memory) : long[k] = f.memory[k]
      BY AppendFacts DEF IsFabric, long
  <1>8. ASSUME NEW k \in DOMAIN long
        PROVE  ToldBy(B, long[k].id, long[k].digest.op, long[k].answer)
    <2>1. CASE k = Len(f.memory) + 1
        BY <1>3, <1>6, <1>7, <2>1, ZenonT(30)
    <2>2. CASE k \in DOMAIN f.memory
      <3>1. ToldBy(f.applied, f.memory[k].id, f.memory[k].digest.op, f.memory[k].answer)
          BY <2>2 DEF Truthful
      <3>2. IsSequence(f.applied)
          BY DEF IsFabric
      <3>3. QED  BY <1>7, <2>2, <3>1, <3>2, ToldLater, ZenonT(30) DEF B
    <2>3. QED  BY <1>7, <2>1, <2>2
  <1>9. ASSUME NEW k \in DOMAIN h.memory
        PROVE  \E l \in DOMAIN long : h.memory[k] = long[l]
    <2>1. CASE Len(long) > attempt_memory_capacity
      <3>1. h.memory = Tail(long)
          BY <1>2, <2>1 DEF evict_attempts
      <3>2. /\ IsSequence(h.memory) /\ Len(h.memory) = Len(long) - 1
            /\ \A i \in 1..(Len(long) - 1) : h.memory[i] = long[i + 1]
        <4>1. Len(long) > 0
            BY <1>7
        <4>2. QED  BY <1>7, <3>1, <4>1, TailFacts
      <3>3. k \in 1..(Len(long) - 1)
          BY <3>2, AppendFacts, ZenonT(30)
      <3>4. k + 1 \in DOMAIN long
          BY <1>7, <3>3
      <3>5. QED  BY <3>2, <3>3, <3>4
    <2>2. CASE ~(Len(long) > attempt_memory_capacity)
      <3>1. h.memory = long
          BY <1>2, <2>2 DEF evict_attempts
      <3>2. QED  BY <3>1
    <2>3. QED  BY <2>1, <2>2
  <1>10. \A k \in DOMAIN h.memory :
            ToldBy(h.applied, h.memory[k].id, h.memory[k].digest.op, h.memory[k].answer)
      BY <1>2, <1>8, <1>9, Zenon
  <1>11. ASSUME NEW i \in DOMAIN B
         PROVE  B[i].allocation \in 0..g.table
                /\ (B[i].op = "Release" => B[i].allocation \notin g.held)
    <2>1. CASE i = Len(f.applied) + 1
        BY <1>3, <1>4, <2>1
    <2>2. CASE i \in DOMAIN f.applied
      <3>1. /\ f.applied[i].allocation \in 0..f.table
            /\ f.applied[i].op = "Release" => f.applied[i].allocation \notin f.held
          BY <2>2 DEF Truthful
      <3>2. f.table \in Nat /\ g.table \in Nat /\ g.held \subseteq 1..g.table
          BY DEF IsFabric
      <3>3. f.applied[i].allocation \in 0..g.table
          BY <3>1, <3>2
      <3>4. f.applied[i].op = "Release" => f.applied[i].allocation \notin g.held
          BY <3>1, <3>2
      <3>5. QED  BY <1>4, <2>2, <3>3, <3>4
    <2>3. QED  BY <1>4, <2>1, <2>2
  <1>12. Truthful(h)
      BY <1>2, <1>10, <1>11 DEF Truthful
  <1>13. Decided(g, r, a).fabric = h /\ Decided(g, r, a).answer = a
      BY DEF Decided, h
  <1>14. QED  BY <1>2, <1>3, <1>6, <1>12, <1>13, ZenonT(30) DEF Applies, B

LEMMA UnaffectedApplies ==
    ASSUME NEW f, Truthful(f), NEW r, NEW status, status \notin {"Ok", "Refused"}
    PROVE  Applies(f, r, Unaffected(f, status))
  BY DEF Applies, Unaffected, Answer

LEMMA ReplayedApplies ==
    ASSUME NEW f, Truthful(f), NEW r, IsReplay(f, r), ~IsConflict(f, r)
    PROVE  Applies(f, r, Replayed(f, r))
  <1> DEFINE m == CHOOSE m \in Remembered(f, r.attempt) : TRUE
  <1>1. m \in Remembered(f, r.attempt)
      BY DEF IsReplay
  <1> HIDE DEF m
  <1>2. m.digest = request_digest(r) /\ m.id = r.attempt
      BY <1>1 DEF IsConflict, Remembered
  <1>3. m.digest.op = r.op
      BY <1>2 DEF request_digest
  <1>4. PICK k \in DOMAIN f.memory : m = f.memory[k]
      BY <1>1 DEF Remembered
  <1>5. ToldBy(f.applied, r.attempt, r.op, m.answer)
      BY <1>2, <1>3, <1>4 DEF Truthful
  <1>6. Replayed(f, r).fabric = f /\ Replayed(f, r).answer = m.answer
      BY DEF Replayed, m
  <1>7. QED  BY <1>5, <1>6 DEF Applies

LEMMA AllocateApplies ==
    ASSUME NEW f, IsFabric(f), Truthful(f), NEW r, r.op = "Allocate"
    PROVE  Applies(f, r, allocate(f, r))
  <1> DEFINE id == f.table + 1
             free == f.free - 1
             held == f.held \cup {id}
             g == [f EXCEPT !.free = free, !.held = held, !.table = id]
  <1>1. CASE f.table >= kMaxAllocationCount \/ IsConflict(f, r)
      BY <1>1, UnaffectedApplies DEF allocate
  <1>2. CASE ~(f.table >= kMaxAllocationCount) /\ ~IsConflict(f, r) /\ IsReplay(f, r)
      BY <1>2, ReplayedApplies DEF allocate
  <1>3. CASE /\ ~(f.table >= kMaxAllocationCount) /\ ~IsConflict(f, r)
             /\ ~IsReplay(f, r) /\ f.free = 0
    <2> DEFINE a == Answer("Refused", 0, NoAllocation)
    <2>1. a.status = "Refused" /\ a.allocation = NoAllocation
        BY DEF Answer
    <2>2. allocate(f, r) = Decided(f, r, a)
        BY <1>3 DEF allocate
    <2> HIDE DEF a
    <2>3. NoAllocation \in 0..f.table /\ f.table >= f.table
        BY DEF IsFabric, NoAllocation
    <2>4. QED  BY <2>1, <2>2, <2>3, DecidedApplies
  <1>4. CASE /\ ~(f.table >= kMaxAllocationCount) /\ ~IsConflict(f, r)
             /\ ~IsReplay(f, r) /\ f.free # 0
    <2>1. /\ free \in Nat /\ id \in Nat /\ id <= kMaxAllocationCount
          /\ held \in SUBSET (1..id) /\ id >= f.table /\ held \cap (1..f.table) \subseteq f.held
          /\ id \in 0..id /\ id # NoAllocation
        BY <1>4, AttemptsAssumption DEF IsFabric, NoAllocation
    <2> DEFINE a == Answer("Ok", 1, id)
    <2>2. a.status = "Ok" /\ a.allocation = id
        BY DEF Answer
    <2>3. allocate(f, r) = Decided(g, r, a)
        BY <1>4 DEF allocate
    <2> HIDE DEF a, id, free, held
    <2>4. g = [f EXCEPT !.free = free, !.held = held, !.table = id]
        OBVIOUS
    <2> HIDE DEF g
    <2>5. g = [free |-> free, held |-> held, table |-> id,
               memory |-> f.memory, applied |-> f.applied]
        BY <2>4, ChangedPool, ZenonT(30) DEF IsFabric
    <2>6. /\ g.free = free /\ g.held = held /\ g.table = id
          /\ g.memory = f.memory /\ g.applied = f.applied
        BY <2>5
    <2>7. IsFabric(g)
        BY <2>1, <2>5, <2>6 DEF IsFabric
    <2>8. QED  BY <2>1, <2>2, <2>3, <2>6, <2>7, DecidedApplies
  <1>5. QED  BY <1>1, <1>2, <1>3, <1>4

LEMMA ReleaseApplies ==
    ASSUME NEW f, IsFabric(f), Truthful(f), NEW r, r.op = "Release"
    PROVE  Applies(f, r, release(f, r))
  <1> DEFINE free == f.free + 1
             held == f.held \ {r.allocation}
             g == [f EXCEPT !.free = free, !.held = held]
  <1>1. CASE IsConflict(f, r) \/ r.allocation \notin 1..f.table
      BY <1>1, UnaffectedApplies DEF release
  <1>2. CASE ~IsConflict(f, r) /\ r.allocation \in 1..f.table /\ IsReplay(f, r)
      BY <1>2, ReplayedApplies DEF release
  <1>3. CASE /\ ~IsConflict(f, r) /\ r.allocation \in 1..f.table /\ ~IsReplay(f, r)
             /\ r.allocation \notin f.held
    <2> DEFINE a == Answer("Ok", 0, r.allocation)
    <2>1. a.status = "Ok" /\ a.allocation = r.allocation
        BY DEF Answer
    <2>2. release(f, r) = Decided(f, r, a)
        BY <1>3 DEF release
    <2> HIDE DEF a
    <2>3. r.allocation \in 0..f.table /\ f.table >= f.table
        BY <1>3 DEF IsFabric
    <2>4. QED  BY <1>3, <2>1, <2>2, <2>3, DecidedApplies, ZenonT(30)
  <1>4. CASE /\ ~IsConflict(f, r) /\ r.allocation \in 1..f.table /\ ~IsReplay(f, r)
             /\ r.allocation \in f.held
    <2>1. /\ free \in Nat /\ f.table \in Nat /\ held \in SUBSET (1..f.table)
          /\ f.table >= f.table /\ held \cap (1..f.table) \subseteq f.held
          /\ r.allocation \in 0..f.table /\ r.allocation \notin held
        BY <1>4 DEF IsFabric
    <2> DEFINE a == Answer("Ok", 1, r.allocation)
    <2>2. a.status = "Ok" /\ a.allocation = r.allocation
        BY DEF Answer
    <2>3. release(f, r) = Decided(g, r, a)
        BY <1>4 DEF release
    <2> HIDE DEF a, free, held
    <2>4. g = [f EXCEPT !.free = free, !.held = held]
        OBVIOUS
    <2> HIDE DEF g
    <2>5. g = [free |-> free, held |-> held, table |-> f.table,
               memory |-> f.memory, applied |-> f.applied]
        BY <2>4, ChangedPool, Zenon DEF IsFabric
    <2>6. /\ g.free = free /\ g.held = held /\ g.table = f.table
          /\ g.memory = f.memory /\ g.applied = f.applied
        BY <2>5
    <2>7. IsFabric(g)
        BY <2>1, <2>5, <2>6 DEF IsFabric
    <2>8. QED  BY <2>1, <2>2, <2>3, <2>6, <2>7, DecidedApplies
  <1>5. QED  BY <1>1, <1>2, <1>3, <1>4

Works == {"Allocate", "Release"}

\* What dispatch() answers, and what it leaves in the history.
LEMMA OutcomeApplies ==
    ASSUME Memory, Truthful(fabric), NEW r
    PROVE  /\ Truthful(Outcome(r).fabric)
           /\ EpochCurrent(r) /\ r.op \in Works => Applies(fabric, r, Outcome(r))
           /\ ~(EpochCurrent(r) /\ r.op \in Works) =>
                 /\ Outcome(r).fabric = fabric
                 /\ Outcome(r).answer.status = IF EpochCurrent(r) THEN "Ok" ELSE "StaleEpoch"
  <1>1. IsFabric(fabric)
      BY DEF Memory, AttemptInv
  <1>2. CASE EpochCurrent(r) /\ r.op = "Allocate"
    <2>1. Outcome(r) = allocate(fabric, r)
        BY <1>2 DEF Outcome
    <2>2. Applies(fabric, r, Outcome(r))
        BY <1>1, <1>2, <2>1, AllocateApplies
    <2>3. QED  BY <1>2, <2>2 DEF Applies, Works
  <1>3. CASE EpochCurrent(r) /\ r.op = "Release"
    <2>1. Outcome(r) = release(fabric, r)
        BY <1>3 DEF Outcome
    <2>2. Applies(fabric, r, Outcome(r))
        BY <1>1, <1>3, <2>1, ReleaseApplies
    <2>3. QED  BY <1>3, <2>2 DEF Applies, Works
  <1>4. CASE ~(EpochCurrent(r) /\ r.op \in Works)
      BY <1>4 DEF Outcome, Unaffected, Answer, Works
  <1>5. QED  BY <1>2, <1>3, <1>4 DEF Works

LEMMA NextTruthful ==
    ASSUME Memory, Truthful(fabric), [Next]_vars
    PROVE  Truthful(fabric')
  <1>1. ASSUME NEW u
        PROVE  Truthful(EmptyFabric(u))
      BY DEF Truthful, EmptyFabric
  <1>2. CASE FabricKept
      BY <1>2 DEF FabricKept
  <1>3. CASE Start \/ Crash
    <2>1. PICK u : fabric' = EmptyFabric(u)
        BY <1>3, ZenonT(30) DEF Start, Crash
    <2>2. QED  BY <1>1, <2>1
  <1>4. ASSUME NEW c \in Connections, Dispatch(c)
        PROVE  Truthful(fabric')
    <2>1. fabric' = Outcome(connection[c].request).fabric
        BY <1>4, ZenonT(30) DEF Dispatch
    <2>2. QED  BY <2>1, OutcomeApplies
  <1>5. QED  BY <1>2, <1>3, <1>4, FabricSteps, ZenonT(30)

-----------------------------------------------------------------------------
(* One exchange at a time.                                                 *)

\* What dispatch() appends to the history.
LEMMA DispatchApplies ==
    ASSUME Memory, Truthful(fabric), NEW c \in Connections, Dispatch(c)
    PROVE  LET q == connection[c].request
               A == fabric.applied
           IN  /\ IsSequence(A)
               /\ \/ fabric'.applied = A
                  \/ /\ q.op \in Works /\ q.epoch = epoch
                     /\ \E x : /\ fabric'.applied = Append(A, x)
                               /\ x.attempt = q.attempt /\ x.op = q.op
                               /\ q.op = "Release" => x.allocation = q.allocation
               /\ q.op \in Works /\ q.epoch = epoch
                    /\ Outcome(q).answer.status \in {"Ok", "Refused"} =>
                  ToldBy(fabric'.applied, q.attempt, q.op, Outcome(q).answer)
               /\ q.op \notin Works => Outcome(q).answer.status # "Refused"
  <1> DEFINE q == connection[c].request
  <1>1. fabric' = Outcome(q).fabric
      BY DEF Dispatch
  <1>2. IsSequence(fabric.applied)
      BY DEF Memory, AttemptInv, IsFabric
  <1>3. q.op \in Works => (EpochCurrent(q) <=> q.epoch = epoch)
      BY DEF EpochCurrent, Works
  <1>4. /\ EpochCurrent(q) /\ q.op \in Works => Applies(fabric, q, Outcome(q))
        /\ ~(EpochCurrent(q) /\ q.op \in Works) =>
              /\ Outcome(q).fabric = fabric
              /\ Outcome(q).answer.status = IF EpochCurrent(q) THEN "Ok" ELSE "StaleEpoch"
      BY OutcomeApplies
  <1> HIDE DEF q
  <1>5. CASE EpochCurrent(q) /\ q.op \in Works
      BY <1>1, <1>2, <1>3, <1>4, <1>5, Zenon DEF Applies, q
  <1>6. CASE ~(EpochCurrent(q) /\ q.op \in Works)
    <2>1. fabric'.applied = fabric.applied /\ Outcome(q).answer.status # "Refused"
        BY <1>1, <1>4, <1>6
    <2>2. QED  BY <1>2, <1>3, <1>6, <2>1 DEF q
  <1>7. QED  BY <1>5, <1>6

\* A reply r that the run `me` of worker w takes for an answer to its message is
\* one.
Fits(w, me, r, A, e, mn) ==
    r.answer.status \in {"Ok", "Refused"} =>
        /\ me.at = "Hello" => r.answer.status = "Ok"
        /\ me.at # "Hello" /\ me.epoch = e /\ mn # "down" =>
              ToldBy(A, <<w, me.attempt>>, me.at, r.answer)

\* The message is on its way, or its reply is about to be sent, or it was sent.
Exchange(w, me, x, place, rep, A, e, mn) ==
    /\ ~me.sent => x.request = NoMessage /\ ~Sending(place) /\ ~Good(x.reply)
    /\ x.request # NoMessage =>
          x.request = Message(w, me) /\ ~Sending(place) /\ ~Good(x.reply)
    /\ Sending(place) => ~Good(x.reply) /\ Fits(w, me, rep, A, e, mn)
    /\ Good(x.reply) => Fits(w, me, x.reply, A, e, mn)

Exchanges ==
    \A w \in Workers : IsActive(worker[w]) =>
        LET c == worker[w].connection
        IN  Exchange(w, worker[w], connection[c], session[c], reply[c], fabric.applied,
                     epoch, main)

\* Closing a connection, and a longer history, leave an exchange what it is.
LEMMA ExchangeKept ==
    ASSUME NEW w, NEW me, NEW x, NEW place, NEW rep, NEW A, NEW e, NEW mn,
           NEW y, NEW place2, NEW rep2, NEW B, NEW mn2,
           Exchange(w, me, x, place, rep, A, e, mn),
           y.request \in {x.request, NoMessage},
           y.reply = x.reply \/ ~Good(y.reply),
           Sending(place2) => Sending(place) /\ rep2 = rep,
           \A id, op, a : ToldBy(A, id, op, a) => ToldBy(B, id, op, a),
           mn2 # "down" => mn # "down"
    PROVE  Exchange(w, me, y, place2, rep2, B, e, mn2)
  <1>1. ASSUME NEW r, Fits(w, me, r, A, e, mn)
        PROVE  Fits(w, me, r, B, e, mn2)
      BY <1>1 DEF Fits
  <1>2. QED  BY <1>1, Zenon DEF Exchange

\* The same, for a step that applies nothing.
LEMMA ExchangeQuiet ==
    ASSUME NEW w, NEW me, NEW x, NEW place, NEW rep, NEW A, NEW e, NEW mn,
           NEW y, NEW place2, NEW mn2,
           Exchange(w, me, x, place, rep, A, e, mn),
           y.request \in {x.request, NoMessage},
           y.reply = x.reply \/ ~Good(y.reply),
           Sending(place2) => Sending(place),
           mn2 # "down" => mn # "down"
    PROVE  Exchange(w, me, y, place2, rep, A, e, mn2)
  <1>1. \A id, op, a : ToldBy(A, id, op, a) => ToldBy(A, id, op, a)
      OBVIOUS
  <1>2. Sending(place2) => Sending(place) /\ rep = rep
      OBVIOUS
  <1>3. QED  BY <1>1, <1>2, ExchangeKept, ZenonT(30)

\* The same, for a session that the step is not about.
LEMMA ExchangeElsewhere ==
    ASSUME NEW w, NEW me, NEW x, NEW place, NEW rep, NEW A, NEW e, NEW mn, NEW y, NEW B,
           Exchange(w, me, x, place, rep, A, e, mn),
           y.request \in {x.request, NoMessage}, y.reply = x.reply,
           \A id, op, a : ToldBy(A, id, op, a) => ToldBy(B, id, op, a)
    PROVE  Exchange(w, me, y, place, rep, B, e, mn)
  <1>1. Sending(place) => Sending(place) /\ rep = rep
      OBVIOUS
  <1>2. QED  BY <1>1, ExchangeKept, ZenonT(30)

\* A step of one worker and its connection.
LEMMA TouchedExchanges ==
    ASSUME Lines, Exchanges, NEW w \in Workers, IsActive(worker[w]),
           Touched(w, worker[w].connection),
           IsActive(worker'[w]) =>
              LET c == worker[w].connection
              IN  /\ worker'[w].connection = c
                  /\ Exchange(w, worker'[w], connection'[c], session[c], reply[c],
                              fabric.applied, epoch, main)
    PROVE  Exchanges'
  <1>1. UNCHANGED <<epoch, main, fabric, session, reply>>
      BY DEF Touched, coordinator, threads
  <1>2. ASSUME NEW v \in Workers, v # w, IsActive(worker'[v])
        PROVE  LET c == worker'[v].connection
               IN  Exchange(v, worker'[v], connection'[c], session[c], reply[c],
                            fabric.applied, epoch, main)
    <2>1. worker'[v] = worker[v]
        BY <1>2 DEF Touched
    <2>2. connection'[worker[v].connection] = connection[worker[v].connection]
        BY <1>2, <2>1, ZenonT(30) DEF Touched, Lines
    <2>3. QED  BY <1>2, <2>1, <2>2 DEF Exchanges
  <1>3. ASSUME NEW v \in Workers, IsActive(worker'[v])
        PROVE  LET c == worker'[v].connection
               IN  Exchange(v, worker'[v], connection'[c], session[c], reply[c],
                            fabric.applied, epoch, main)
      BY <1>2, <1>3, ZenonT(30)
  <1>4. QED  BY <1>1, <1>3 DEF Exchanges

LEMMA DispatchExchanges ==
    ASSUME Memory, Truthful(fabric), Wiring, Lines, Exchanges,
           NEW c \in Connections, Dispatch(c), UNCHANGED worker
    PROVE  Exchanges'
  <1> DEFINE q == connection[c].request
             A == fabric.applied
             B == fabric'.applied
  <1>1. /\ q # NoMessage /\ connection'[c].request = NoMessage
        /\ \A d \in Connections :
              /\ connection'[d].request \in {connection[d].request, NoMessage}
              /\ connection'[d].reply = connection[d].reply
              /\ d # c => session'[d] = session[d] /\ reply'[d] = reply[d]
        /\ reply'[c].answer = Outcome(q).answer
        /\ UNCHANGED <<epoch, main>>
      BY DispatchWires
  <1>2. /\ IsSequence(A)
        /\ \/ B = A
           \/ \E x : B = Append(A, x)
        /\ q.op \in Works /\ q.epoch = epoch
             /\ Outcome(q).answer.status \in {"Ok", "Refused"} =>
           ToldBy(B, q.attempt, q.op, Outcome(q).answer)
        /\ q.op \notin Works => Outcome(q).answer.status # "Refused"
      BY DispatchApplies, Zenon
  <1>3. \A id, op, a : ToldBy(A, id, op, a) => ToldBy(B, id, op, a)
      BY <1>2, ToldLater, ZenonT(30)
  <1> HIDE DEF q, A, B
  <1>4. ASSUME NEW w \in Workers, IsActive(worker[w])
        PROVE  LET d == worker[w].connection
               IN  Exchange(w, worker[w], connection'[d], session'[d], reply'[d], B, epoch,
                            main)
    <2> DEFINE d == worker[w].connection
               me == worker[w]
    <2>1. /\ d \in Connections
          /\ Exchange(w, me, connection[d], session[d], reply[d], A, epoch, main)
        BY <1>4 DEF Lines, Exchanges, A
    <2>2. CASE d # c
      <3> DEFINE y == connection'[d]
      <3>1. /\ y.request \in {connection[d].request, NoMessage}
            /\ y.reply = connection[d].reply
            /\ session'[d] = session[d] /\ reply'[d] = reply[d]
          BY <1>1, <2>1, <2>2, Zenon
      <3> HIDE DEF d, me, y
      <3>2. Exchange(w, me, y, session[d], reply[d], B, epoch, main)
          BY <1>3, <2>1, <3>1, ExchangeElsewhere
      <3>3. QED  BY <3>1, <3>2, Zenon DEF d, me, y
    <2>3. CASE d = c
      <3>1. /\ me.sent /\ q = Message(w, me) /\ ~Good(connection[c].reply)
          BY <1>1, <2>1, <2>3 DEF Exchange, q
      <3>2. q.op = me.at /\ q.epoch = me.epoch /\ q.attempt = <<w, me.attempt>>
          BY <3>1 DEF Message
      <3>3. me.at = "Hello" \/ me.at \in Works
          BY <1>4 DEF IsActive, Works
      <3>4. "Hello" \notin Works
          BY DEF Works
      <3>5. Fits(w, me, reply'[c], B, epoch, main)
          BY <1>1, <1>2, <3>2, <3>3, <3>4 DEF Fits
      <3>6. QED  BY <1>1, <2>3, <3>1, <3>5 DEF Exchange
    <2>4. QED  BY <2>2, <2>3
  <1>5. QED  BY <1>1, <1>4 DEF Exchanges, B

LEMMA SendExchanges ==
    ASSUME Wiring, Lines, Exchanges, NEW c \in Connections, Send(c), UNCHANGED worker
    PROVE  Exchanges'
  <1>1. /\ Sending(session[c]) /\ ~Sending(session'[c])
        /\ \A d \in Connections :
              /\ connection'[d].request \in {connection[d].request, NoMessage}
              /\ d # c => /\ session'[d] = session[d] /\ reply'[d] = reply[d]
                          /\ connection'[d] = connection[d]
        /\ connection'[c].reply \in {connection[c].reply, reply[c]}
        /\ UNCHANGED <<epoch, main, fabric>>
      BY SendWires
  <1>2. ASSUME NEW w \in Workers, IsActive(worker[w])
        PROVE  LET d == worker[w].connection
               IN  Exchange(w, worker[w], connection'[d], session'[d], reply'[d],
                            fabric.applied, epoch, main)
    <2> DEFINE d == worker[w].connection
               me == worker[w]
    <2>1. /\ d \in Connections
          /\ Exchange(w, me, connection[d], session[d], reply[d], fabric.applied, epoch, main)
        BY <1>2 DEF Lines, Exchanges
    <2>2. CASE d # c
        BY <1>1, <2>1, <2>2, ZenonT(30)
    <2>3. CASE d = c
      <3>1. /\ me.sent /\ connection[c].request = NoMessage /\ ~Good(connection[c].reply)
            /\ Fits(w, me, reply[c], fabric.applied, epoch, main)
          BY <1>1, <2>1, <2>3, ZenonT(30) DEF Exchange
      <3>2. connection'[c].request = NoMessage
          BY <1>1, <3>1
      <3>3. Good(connection'[c].reply) =>
              Fits(w, me, connection'[c].reply, fabric.applied, epoch, main)
          BY <1>1, <3>1
      <3>4. QED  BY <1>1, <2>3, <3>1, <3>2, <3>3, ZenonT(30) DEF Exchange
    <2>4. QED  BY <2>2, <2>3
  <1>3. QED  BY <1>1, <1>2 DEF Exchanges

LEMMA NextExchanges ==
    ASSUME state_directory, ThreadInv, Memory, Truthful(fabric), Wiring, Lines,
           EpochsBounded, Exchanges, [Next]_vars
    PROVE  Exchanges'
  <1>0. ~Good(NoMessage) /\ ~Sending("none") /\ epoch \in Nat
      BY DEF Good, Sending, ThreadInv, Places
  <1>1. CASE Quiet
    <2>1. ASSUME NEW w \in Workers, IsActive(worker[w])
          PROVE  LET d == worker[w].connection
                 IN  Exchange(w, worker[w], connection'[d], session'[d], reply[d],
                              fabric.applied, epoch, main')
      <3> DEFINE d == worker[w].connection
      <3>1. /\ d \in Connections
            /\ Exchange(w, worker[w], connection[d], session[d], reply[d], fabric.applied,
                        epoch, main)
          BY <2>1, ZenonT(30) DEF Lines, Exchanges
      <3>2. /\ connection'[d].request \in {connection[d].request, NoMessage}
            /\ connection'[d].reply = connection[d].reply \/ ~Good(connection'[d].reply)
            /\ Sending(session'[d]) => Sending(session[d])
            /\ main' # "down" => main # "down"
          BY <1>1, <3>1 DEF Quiet, Kept
      <3> HIDE DEF d
      <3>3. Exchange(w, worker[w], connection'[d], session'[d], reply[d],
                     fabric.applied, epoch, main')
          BY <3>1, <3>2, ExchangeQuiet, ZenonT(30)
      <3>4. QED  BY <3>3, ZenonT(30) DEF d
    <2>2. QED  BY <1>1, <2>1 DEF Exchanges, Quiet
  <1>2. CASE UNCHANGED worker /\ Start
    <2>1. /\ epoch' = epoch + 1 /\ UNCHANGED <<connection, worker>>
          /\ \A c \in Connections : session'[c] = "none"
        BY <1>2, StartWires
    <2>2. ASSUME NEW w \in Workers, IsActive(worker[w])
          PROVE  LET d == worker[w].connection
                 IN  Exchange(w, worker[w], connection[d], session'[d], reply'[d],
                              fabric'.applied, epoch', main')
      <3> DEFINE d == worker[w].connection
      <3>1. /\ d \in Connections
            /\ Exchange(w, worker[w], connection[d], session[d], reply[d], fabric.applied,
                        epoch, main)
          BY <2>2 DEF Lines, Exchanges
      <3>2. worker[w].epoch # epoch'
          BY <1>0, <2>1 DEF EpochsBounded
      <3>3. ~Sending(session'[d])
          BY <1>0, <2>1, <3>1, ZenonT(30)
      <3>4. Good(connection[d].reply) =>
              Fits(w, worker[w], connection[d].reply, fabric'.applied, epoch', main')
          BY <3>1, <3>2, ZenonT(30) DEF Exchange, Fits
      <3>5. QED  BY <3>1, <3>3, <3>4, ZenonT(30) DEF Exchange
    <2>3. QED  BY <2>1, <2>2 DEF Exchanges
  <1>3. CASE UNCHANGED worker /\ Crash
    <2>1. /\ UNCHANGED <<epoch, worker>>
          /\ \A c \in Connections :
                /\ connection'[c].request = NoMessage /\ connection'[c].reply = NoMessage
                /\ session'[c] = "none"
        BY <1>3, CrashWires
    <2>2. QED  BY <1>0, <2>1, ZenonT(30) DEF Exchanges, Exchange, Lines
  <1>4. CASE UNCHANGED worker /\ \E c \in Connections : Dispatch(c) \/ Send(c)
      BY <1>4, DispatchExchanges, SendExchanges, ZenonT(30)
  <1>5. ASSUME NEW op \in Messages, OtherClient(op)
        PROVE  Exchanges'
    <2>1. /\ UNCHANGED <<worker, epoch, main, fabric, session, reply>>
          /\ \A d \in Connections : d # NextConnection => connection'[d] = connection[d]
          /\ ~Used(connection[NextConnection])
        BY <1>5, OtherClientWires
    <2>2. \A w \in Workers : IsActive(worker[w]) =>
             connection'[worker[w].connection] = connection[worker[w].connection]
        BY <2>1 DEF Lines
    <2>3. QED  BY <2>1, <2>2, ZenonT(30) DEF Exchanges
  <1>6. ASSUME NEW w \in Workers, NEW epochs \in Epochs(w), RunWorker(w, epochs)
        PROVE  Exchanges'
    <2>1. /\ UNCHANGED <<epoch, main, fabric, session, reply>>
          /\ \A d \in Connections : d # NextConnection => connection'[d] = connection[d]
          /\ ~Used(connection[NextConnection]) /\ session[NextConnection] = "none"
          /\ connection'[NextConnection].reply = NoMessage
          /\ connection'[NextConnection].request = NoMessage
          /\ \A v \in Workers : v # w => worker'[v] = worker[v]
          /\ worker'[w].connection = NextConnection
        BY <1>6, RunWorkerWires
    <2>2. \A v \in Workers : v # w /\ IsActive(worker[v]) =>
             /\ worker'[v] = worker[v]
             /\ connection'[worker[v].connection] = connection[worker[v].connection]
        BY <2>1 DEF Lines
    <2>3. ASSUME NEW v \in Workers, v # w, IsActive(worker'[v])
          PROVE  LET d == worker'[v].connection
                 IN  Exchange(v, worker'[v], connection'[d], session[d], reply[d],
                              fabric.applied, epoch, main)
        BY <2>1, <2>2, <2>3, ZenonT(30) DEF Exchanges
    <2>4. LET d == worker'[w].connection
          IN  Exchange(w, worker'[w], connection'[d], session[d], reply[d],
                       fabric.applied, epoch, main)
        BY <1>0, <2>1, ZenonT(30) DEF Exchange
    <2>5. ASSUME NEW v \in Workers, IsActive(worker'[v])
          PROVE  LET d == worker'[v].connection
                 IN  Exchange(v, worker'[v], connection'[d], session[d], reply[d],
                              fabric.applied, epoch, main)
        BY <2>3, <2>4, <2>5, ZenonT(30)
    <2>6. QED  BY <2>1, <2>5, ZenonT(30) DEF Exchanges
  <1>7. ASSUME NEW w \in Workers, SendRequest(w)
        PROVE  Exchanges'
    <2> DEFINE c == worker[w].connection
               me == worker'[w]
    <2>1. /\ Touched(w, c) /\ c \in Connections /\ IsActive(worker[w]) /\ ~worker[w].sent
          /\ me.sent /\ me.at = worker[w].at /\ me.connection = c
          /\ me.epoch = worker[w].epoch /\ me.attempt = worker[w].attempt
          /\ me.allocation = worker[w].allocation
          /\ connection'[c].request = Message(w, worker[w])
          /\ connection'[c].reply = connection[c].reply
        BY <1>7, SendRequestWires, ZenonT(30)
    <2> HIDE DEF me
    <2>2. Message(w, worker[w]) = Message(w, me)
        BY <2>1 DEF Message
    <2>3. ~Sending(session[c]) /\ ~Good(connection[c].reply)
        BY <2>1, ZenonT(30) DEF Exchanges, Exchange
    <2>4. Exchange(w, me, connection'[c], session[c], reply[c], fabric.applied, epoch, main)
        BY <2>1, <2>2, <2>3, ZenonT(30) DEF Exchange
    <2>5. QED  BY <2>1, <2>4, TouchedExchanges, ZenonT(30) DEF me
  <1>8. ASSUME NEW w \in Workers, LoseConnection(w)
        PROVE  Exchanges'
    <2>1. /\ Touched(w, worker[w].connection) /\ IsActive(worker[w])
          /\ ~IsActive(worker'[w])
        BY <1>8, LoseWires DEF IsActive
    <2>2. QED  BY <2>1, TouchedExchanges
  <1>9. ASSUME NEW w \in Workers, ReceiveReply(w)
        PROVE  Exchanges'
    <2> DEFINE c == worker[w].connection
               r == connection[c].reply
    <2>1. /\ Touched(w, c) /\ c \in Connections /\ IsActive(worker[w]) /\ r # NoMessage
          /\ connection'[c].request = connection[c].request
          /\ connection'[c].reply = NoMessage
          /\ IsActive(worker'[w]) => worker'[w].connection = c /\ ~worker'[w].sent
          /\ worker'[w].at = "off" \/ r.answer.status \in {"Ok", "Refused"}
        BY <1>9, ReceiveWires, ZenonT(30)
    <2>2. ASSUME IsActive(worker'[w])
          PROVE  Exchange(w, worker'[w], connection'[c], session[c], reply[c], fabric.applied,
                          epoch, main)
      <3>1. Good(r)
          BY <2>1, <2>2 DEF IsActive, Good
      <3>2. connection[c].request = NoMessage /\ ~Sending(session[c])
          BY <2>1, <3>1, ZenonT(30) DEF Exchanges, Exchange
      <3>3. QED  BY <1>0, <2>1, <3>2, ZenonT(30) DEF Exchange
    <2>3. QED  BY <2>1, <2>2, TouchedExchanges, ZenonT(30)
  <1>10. QED  BY <1>1, <1>2, <1>3, <1>4, <1>5, <1>6, <1>7, <1>8, <1>9, ServiceSteps
-----------------------------------------------------------------------------
(* Every run follows the course.                                           *)

\* A request of worker w that would be applied.
RequestCourse(q, w, A, e) ==
    q # NoMessage /\ q.op \in Works /\ q.epoch = e /\ q.attempt[1] = w =>
        /\ q.attempt = <<w, q.attempt[2]>>
        /\ Reached(A, w, q.attempt[2], q.op, q.allocation)

\* The run `me` of worker w.
RunCourse(me, w, A, e) ==
    /\ me.at \in Works /\ me.epoch = e =>
          /\ Reached(A, w, me.attempt, me.at, me.allocation)
          /\ me.done = Cardinality(Ended(A, w, me.attempt))
    /\ me.at = "done" /\ me.epoch = e => Complete(A, w)

\* The fields of the request of a run.
LEMMA MessageFields ==
    ASSUME NEW w, NEW me
    PROVE  /\ Message(w, me).op = me.at /\ Message(w, me).epoch = me.epoch
           /\ Message(w, me).attempt = <<w, me.attempt>>
           /\ Message(w, me).allocation = me.allocation
  BY ZenonT(30) DEF Message

\* What a run on its course asks for is on the course.
LEMMA RunAsks ==
    ASSUME NEW w, NEW me, NEW q, NEW A, NEW e, RunCourse(me, w, A, e),
           q.op = me.at, q.epoch = me.epoch, q.attempt = <<w, me.attempt>>,
           q.allocation = me.allocation
    PROVE  RequestCourse(q, w, A, e)
  <1>1. q.attempt[2] = me.attempt
      OBVIOUS
  <1>2. q.attempt = <<w, q.attempt[2]>>
      BY <1>1, ZenonT(30)
  <1>3. QED  BY <1>1, <1>2, ZenonT(30) DEF RequestCourse, RunCourse

\* What a run asks for says nothing of the other workers.
LEMMA RequestElsewhere ==
    ASSUME NEW v, NEW w, NEW n, NEW q, NEW A, NEW e, q.attempt = <<w, n>>, v # w
    PROVE  RequestCourse(q, v, A, e)
  <1>1. q.attempt[1] = w
      BY SMTT(30)
  <1>2. QED  BY <1>1, ZenonT(30) DEF RequestCourse

\* As long as no attempt of a worker is applied twice, the history, its
\* requests and its run follow the course.
Courses ==
    /\ main = "down" => fabric.applied = <<>>
    /\ main # "down" => \A w \in Workers : Once(fabric.applied, w) =>
          /\ LogCourse(fabric.applied, w)
          /\ \A c \in Connections :
                RequestCourse(connection[c].request, w, fabric.applied, epoch)
          /\ RunCourse(worker[w], w, fabric.applied, epoch)

\* Steps that leave the fabric alone.
LEMMA CoursesKept ==
    ASSUME Courses, UNCHANGED <<epoch, fabric>>, (main' = "down") <=> (main = "down"),
           ASSUME NEW w \in Workers, main # "down", Once(fabric.applied, w)
           PROVE  /\ \A c \in Connections :
                        RequestCourse(connection'[c].request, w, fabric.applied, epoch)
                  /\ RunCourse(worker'[w], w, fabric.applied, epoch)
    PROVE  Courses'
  BY DEF Courses, Connections

LEMMA NoRequestCourse == \A w, A, e : RequestCourse(NoMessage, w, A, e)
  BY DEF RequestCourse

\* Steps of the coordinator other than the handling of a request.
LEMMA CoursesQuiet ==
    ASSUME Courses, UNCHANGED <<epoch, fabric, worker>>,
           (main' = "down") <=> (main = "down"),
           \A c \in Connections : connection'[c].request \in {connection[c].request, NoMessage}
    PROVE  Courses'
  <1>1. ASSUME NEW w \in Workers, main # "down", Once(fabric.applied, w)
        PROVE  /\ \A c \in Connections :
                     RequestCourse(connection'[c].request, w, fabric.applied, epoch)
               /\ RunCourse(worker'[w], w, fabric.applied, epoch)
    <2>1. \A c \in Connections : RequestCourse(connection[c].request, w, fabric.applied, epoch)
        BY <1>1 DEF Courses
    <2>2. RunCourse(worker'[w], w, fabric.applied, epoch)
        BY <1>1 DEF Courses
    <2>3. QED  BY <2>1, <2>2, NoRequestCourse
  <1>2. QED  BY <1>1, CoursesKept, ZenonT(30)

LEMMA StartCourses ==
    ASSUME state_directory, ThreadInv, Wiring, EpochsBounded, Start, UNCHANGED worker
    PROVE  Courses'
  <1>1. /\ epoch' = epoch + 1 /\ UNCHANGED <<connection, worker>> /\ fabric'.applied = <<>>
      BY StartWires
  <1>2. epoch \in Nat
      BY DEF ThreadInv, Places
  <1>3. \A w \in Workers : worker[w].epoch # epoch'
      BY <1>1, <1>2 DEF EpochsBounded
  <1>4. \A c \in Connections :
           connection[c].request # NoMessage => connection[c].request.epoch # epoch'
      BY <1>1, <1>2 DEF EpochsBounded, Within
  <1>5. \A w : LogCourse(<<>>, w)
      BY DEF LogCourse
  <1>6. \A w \in Workers : RunCourse(worker[w], w, <<>>, epoch')
      BY <1>3 DEF RunCourse
  <1>7. \A w \in Workers, c \in Connections :
           RequestCourse(connection[c].request, w, <<>>, epoch')
      BY <1>4 DEF RequestCourse
  <1>8. QED  BY <1>1, <1>5, <1>6, <1>7 DEF Courses, Connections

\* A new record in the history.
LEMMA LogCourseLater ==
    ASSUME NEW A, IsSequence(A), NEW w, NEW x, Once(Append(A, x), w), LogCourse(A, w),
           x.attempt[1] = w =>
              /\ x.attempt = <<w, x.attempt[2]>>
              /\ Reached(A, w, x.attempt[2], x.op, Asked(x))
    PROVE  LogCourse(Append(A, x), w)
  <1> DEFINE B == Append(A, x)
  <1>1. ASSUME NEW i \in DOMAIN B, B[i].attempt[1] = w
        PROVE  /\ B[i].attempt = <<w, B[i].attempt[2]>>
               /\ Reached(B, w, B[i].attempt[2], B[i].op, Asked(B[i]))
    <2>1. /\ B[i].attempt = <<w, B[i].attempt[2]>>
          /\ Reached(A, w, B[i].attempt[2], B[i].op, Asked(B[i]))
      <3>1. (i \in DOMAIN A /\ B[i] = A[i]) \/ B[i] = x
          BY AppendFacts
      <3>2. QED  BY <1>1, <3>1 DEF LogCourse
    <2> HIDE DEF B
    <2>2. QED  BY <2>1, ReachedLater DEF B
  <1>2. QED  BY <1>1, ZenonT(30) DEF LogCourse

LEMMA DispatchCourses ==
    ASSUME ThreadInv, Memory, Truthful(fabric), Wiring, Courses,
           NEW c \in Connections, Dispatch(c), UNCHANGED worker
    PROVE  Courses'
  <1> DEFINE q == connection[c].request
             A == fabric.applied
             B == fabric'.applied
  <1>1. /\ q # NoMessage /\ UNCHANGED <<epoch, main>>
        /\ \A d \in Connections :
              connection'[d].request \in {connection[d].request, NoMessage}
      BY DispatchWires
  <1>2. main # "down"
      BY DEF Dispatch, ThreadInv, Joined, Running
  <1>3. ASSUME NEW w \in Workers, Once(A, w)
        PROVE  /\ LogCourse(A, w)
               /\ \A d \in Connections : RequestCourse(connection'[d].request, w, A, epoch)
               /\ RequestCourse(q, w, A, epoch)
               /\ RunCourse(worker[w], w, A, epoch)
    <2>1. /\ LogCourse(A, w) /\ RunCourse(worker[w], w, A, epoch)
          /\ \A d \in Connections : RequestCourse(connection[d].request, w, A, epoch)
        BY <1>2, <1>3, ZenonT(30) DEF Courses
    <2>2. QED  BY <1>1, <2>1, NoRequestCourse, ZenonT(30)
  <1>4. CASE B = A
      BY <1>1, <1>2, <1>3, <1>4, ZenonT(30) DEF Courses, Connections
  <1>5. ASSUME IsSequence(A), q.op \in Works, q.epoch = epoch,
               NEW x, B = Append(A, x), x.attempt = q.attempt, x.op = q.op,
               q.op = "Release" => x.allocation = q.allocation
        PROVE  Courses'
    <2> HIDE DEF q, A, B
    <2>1. ASSUME NEW w \in Workers, Once(B, w)
          PROVE  /\ LogCourse(B, w)
                 /\ \A d \in Connections : RequestCourse(connection'[d].request, w, B, epoch)
                 /\ RunCourse(worker[w], w, B, epoch)
      <3>1. Once(A, w)
          BY <1>5, <2>1, StillOnce, ZenonT(30)
      <3>2. \A n, op, al : Reached(A, w, n, op, al) =>
               Reached(B, w, n, op, al) /\ Ended(B, w, n) = Ended(A, w, n)
          BY <1>5, <2>1, ReachedLater, SMTT(30)
      <3>3. Complete(A, w) => Complete(B, w)
          BY <1>5, <2>1, CompleteLater, ZenonT(30)
      <3>4. LogCourse(B, w)
        <4>1. ASSUME x.attempt[1] = w
              PROVE  /\ x.attempt = <<w, x.attempt[2]>>
                     /\ Reached(A, w, x.attempt[2], x.op, Asked(x))
          <5>1. /\ x.attempt = <<w, x.attempt[2]>>
                /\ Reached(A, w, x.attempt[2], q.op, q.allocation)
              BY <1>1, <1>3, <1>5, <3>1, <4>1, ZenonT(30) DEF RequestCourse, q
          <5>2. Asked(x) = q.allocation
              BY <1>5, <5>1, ZenonT(30) DEF Asked, Reached, Follows, Works
          <5>3. QED  BY <1>5, <5>1, <5>2, ZenonT(30)
        <4>2. QED  BY <1>3, <1>5, <2>1, <3>1, <4>1, LogCourseLater, ZenonT(30)
      <3>5. \A d \in Connections : RequestCourse(connection'[d].request, w, B, epoch)
          BY <1>3, <3>1, <3>2, ZenonT(30) DEF RequestCourse
      <3>6. RunCourse(worker[w], w, B, epoch)
          BY <1>3, <3>1, <3>2, <3>3, ZenonT(30) DEF RunCourse
      <3>7. QED  BY <3>4, <3>5, <3>6
    <2>2. QED  BY <1>1, <1>2, <2>1 DEF Courses, Connections, B
  <1>6. QED
    <2>1. /\ IsSequence(A)
          /\ \/ B = A
             \/ /\ q.op \in Works /\ q.epoch = epoch
                /\ \E x : /\ B = Append(A, x)
                          /\ x.attempt = q.attempt /\ x.op = q.op
                          /\ q.op = "Release" => x.allocation = q.allocation
        BY DispatchApplies, Zenon
    <2> HIDE DEF q, A, B
    <2>2. QED  BY <1>4, <1>5, <2>1

LEMMA FirstAttempt ==
    ASSUME NEW A, NEW w
    PROVE  Reached(A, w, 1, "Allocate", NoAllocation) /\ Cardinality(Ended(A, w, 1)) = 0
  <1>1. 1..(1 - 1) = {}
      OBVIOUS
  <1>2. Ended(A, w, 1) = {}
      BY <1>1 DEF Ended
  <1>3. Cardinality(Ended(A, w, 1)) = 0
      BY <1>2, FS_EmptySet
  <1>4. QED  BY <1>1, <1>3, ServiceAssumption DEF Reached, Follows

\* A step of one worker w and its connection c.
LEMMA TouchedCourses ==
    ASSUME Courses, NEW w \in Workers, NEW c, Touched(w, c),
           connection'[c].request = connection[c].request,
           main # "down" /\ Once(fabric.applied, w) =>
              RunCourse(worker'[w], w, fabric.applied, epoch)
    PROVE  Courses'
  <1>1. UNCHANGED <<epoch, main, fabric>>
      BY DEF Touched, coordinator, threads
  <1>2. ASSUME NEW v \in Workers, main # "down", Once(fabric.applied, v)
        PROVE  /\ \A d \in Connections :
                     RequestCourse(connection'[d].request, v, fabric.applied, epoch)
               /\ RunCourse(worker'[v], v, fabric.applied, epoch)
    <2>1. /\ \A d \in Connections :
               RequestCourse(connection[d].request, v, fabric.applied, epoch)
          /\ RunCourse(worker[v], v, fabric.applied, epoch)
        BY <1>2 DEF Courses
    <2>2. \A d \in Connections : connection'[d].request = connection[d].request
        BY ZenonT(30) DEF Touched
    <2>3. QED  BY <1>2, <2>1, <2>2, ZenonT(30) DEF Touched
  <1>3. QED  BY <1>1, <1>2, CoursesKept, ZenonT(30)

LEMMA ReceiveCourses ==
    ASSUME Wiring, Lines, Exchanges, Courses, NEW w \in Workers, ReceiveReply(w)
    PROVE  Courses'
  <1> DEFINE me == worker[w]
             c == me.connection
             r == connection[c].reply
             A == fabric.applied
             new == worker'[w]
             n == me.attempt
  <1>1. /\ Touched(w, c) /\ c \in Connections /\ IsActive(me) /\ r # NoMessage
        /\ connection'[c].request = connection[c].request
      BY ReceiveWires, ZenonT(30)
  <1>2. \/ new.at = "off"
        \/ /\ r.answer.status = "Ok" /\ me.at = "Hello"
           /\ new.at = "Allocate" /\ new.attempt = 1
           /\ new.done = 0 /\ new.allocation = NoAllocation
        \/ /\ r.answer.status = "Ok" /\ me.at = "Allocate"
           /\ new.at = "Release" /\ new.attempt = n + 1
           /\ new.done = me.done /\ new.allocation = r.answer.allocation
           /\ new.epoch = me.epoch
        \/ /\ r.answer.status = "Refused" \/ (r.answer.status = "Ok" /\ me.at = "Release")
           /\ new.epoch = me.epoch
           /\ IF me.done + 1 = operations
              THEN new.at = "done"
              ELSE /\ new.at = "Allocate" /\ new.attempt = n + 1
                   /\ new.done = me.done + 1 /\ new.allocation = NoAllocation
      BY ReceiveWires, Zenon
  <1>3. Good(r) => Fits(w, me, r, A, epoch, main)
      BY <1>1, ZenonT(30) DEF Exchanges, Exchange
  <1>4. ASSUME main # "down", Once(A, w)
        PROVE  RunCourse(new, w, A, epoch)
    <2>0. RunCourse(me, w, A, epoch)
        BY <1>4 DEF Courses
    <2> HIDE DEF me, r, A, new, n, c
    <2>1. CASE new.at = "off"
        BY <2>1 DEF RunCourse, Works
    <2>2. CASE /\ new.at = "Allocate" /\ new.attempt = 1
               /\ new.done = 0 /\ new.allocation = NoAllocation
        BY <2>2, FirstAttempt, ZenonT(30) DEF RunCourse
    <2>3. CASE /\ r.answer.status = "Ok" /\ me.at = "Allocate"
               /\ new.at = "Release" /\ new.attempt = n + 1
               /\ new.done = me.done /\ new.allocation = r.answer.allocation
               /\ new.epoch = me.epoch
      <3>1. SUFFICES ASSUME me.epoch = epoch
                     PROVE  /\ Reached(A, w, n + 1, "Release", r.answer.allocation)
                            /\ me.done = Cardinality(Ended(A, w, n + 1))
          BY <2>3 DEF RunCourse
      <3>2. /\ Reached(A, w, n, "Allocate", me.allocation)
            /\ me.done = Cardinality(Ended(A, w, n))
          BY <2>0, <2>3, <3>1, ZenonT(30) DEF RunCourse, Works, n
      <3>3. ToldBy(A, <<w, n>>, "Allocate", r.answer)
          BY <1>1, <1>3, <1>4, <2>3, <3>1, ZenonT(30) DEF Fits, Good, n
      <3>4. PICK i \in DOMAIN A :
               /\ A[i].attempt = <<w, n>> /\ A[i].op = "Allocate"
               /\ A[i].allocation = r.answer.allocation /\ A[i].allocation # NoAllocation
          BY <2>3, <3>3, ZenonT(30) DEF ToldBy, Tells
      <3>5. /\ Reached(A, w, n + 1, "Release", A[i].allocation)
            /\ Ended(A, w, n + 1) = Ended(A, w, n)
          BY <1>4, <3>2, <3>4, ReachedGrant, ZenonT(30)
      <3>6. QED  BY <3>2, <3>4, <3>5, ZenonT(30)
    <2>4. CASE /\ r.answer.status = "Refused" \/ (r.answer.status = "Ok" /\ me.at = "Release")
               /\ new.epoch = me.epoch
               /\ IF me.done + 1 = operations
                  THEN new.at = "done"
                  ELSE /\ new.at = "Allocate" /\ new.attempt = n + 1
                       /\ new.done = me.done + 1 /\ new.allocation = NoAllocation
      <3>1. SUFFICES ASSUME me.epoch = epoch
                     PROVE  IF me.done + 1 = operations
                            THEN Complete(A, w)
                            ELSE /\ Reached(A, w, n + 1, "Allocate", NoAllocation)
                                 /\ me.done + 1 = Cardinality(Ended(A, w, n + 1))
          BY <2>4 DEF RunCourse, Works
      <3>2. me.at \in Works
          BY <1>1, <1>3, <2>4 DEF IsActive, Works, Fits, Good
      <3>3. /\ Reached(A, w, n, me.at, me.allocation)
            /\ me.done = Cardinality(Ended(A, w, n))
          BY <2>0, <3>1, <3>2, ZenonT(30) DEF RunCourse, n
      <3>4. ToldBy(A, <<w, n>>, me.at, r.answer)
          BY <1>1, <1>3, <1>4, <2>4, <3>1, <3>2 DEF Fits, Good, Works, n
      <3>5. EndedAt(A, w, n)
          BY <2>4, <3>4 DEF ToldBy, Tells, EndedAt, Ends
      <3>6. QED  BY <3>3, <3>5, ReachedEnd, SMTT(30)
    <2>5. QED  BY <1>2, <2>1, <2>2, <2>3, <2>4
  <1>5. QED  BY <1>1, <1>4, TouchedCourses, ZenonT(30)

LEMMA ClientCourses ==
    ASSUME Wiring, Lines, Courses,
           \/ \E op \in Messages : OtherClient(op)
           \/ \E w \in Workers : \E epochs \in Epochs(w) : RunWorker(w, epochs)
           \/ \E w \in Workers : SendRequest(w) \/ LoseConnection(w)
    PROVE  Courses'
  <1>1. ASSUME NEW op \in Messages, OtherClient(op)
        PROVE  Courses'
    <2>1. /\ UNCHANGED <<worker, epoch, main, fabric>>
          /\ \A d \in Connections : d # NextConnection => connection'[d] = connection[d]
          /\ connection'[NextConnection].request.attempt = <<"other", 1>>
        BY <1>1, OtherClientWires, ZenonT(30)
    <2>2. ASSUME NEW w \in Workers, main # "down", Once(fabric.applied, w)
          PROVE  /\ \A c \in Connections :
                       RequestCourse(connection'[c].request, w, fabric.applied, epoch)
                 /\ RunCourse(worker'[w], w, fabric.applied, epoch)
      <3>1. /\ \A c \in Connections :
                  RequestCourse(connection[c].request, w, fabric.applied, epoch)
            /\ RunCourse(worker[w], w, fabric.applied, epoch)
          BY <2>2 DEF Courses
      <3>2. w # "other"
          BY ServiceAssumption
      <3>3. RequestCourse(connection'[NextConnection].request, w, fabric.applied, epoch)
          BY <2>1, <3>2 DEF RequestCourse
      <3>4. QED  BY <2>1, <3>1, <3>3, ZenonT(30)
    <2>3. QED  BY <2>1, <2>2, CoursesKept, ZenonT(30)
  <1>2. ASSUME NEW w \in Workers, NEW epochs \in Epochs(w), RunWorker(w, epochs)
        PROVE  Courses'
    <2>1. /\ UNCHANGED <<epoch, main, fabric>>
          /\ \A d \in Connections : d # NextConnection => connection'[d] = connection[d]
          /\ connection'[NextConnection].request = NoMessage
          /\ \A v \in Workers : v # w => worker'[v] = worker[v]
          /\ worker'[w].at = "Hello"
        BY <1>2, RunWorkerWires
    <2>2. \A A, e : RunCourse(worker'[w], w, A, e)
        BY <2>1, ZenonT(30) DEF RunCourse, Works
    <2>3. ASSUME NEW v \in Workers, main # "down", Once(fabric.applied, v)
          PROVE  /\ \A c \in Connections :
                       RequestCourse(connection'[c].request, v, fabric.applied, epoch)
                 /\ RunCourse(worker'[v], v, fabric.applied, epoch)
      <3>1. /\ \A c \in Connections :
                  RequestCourse(connection[c].request, v, fabric.applied, epoch)
            /\ RunCourse(worker[v], v, fabric.applied, epoch)
          BY <2>3, ZenonT(30) DEF Courses
      <3>2. QED  BY <2>1, <2>2, <3>1, NoRequestCourse, ZenonT(30)
    <2>4. QED  BY <2>1, <2>3, CoursesKept, ZenonT(30)
  <1>3. ASSUME NEW w \in Workers, LoseConnection(w)
        PROVE  Courses'
    <2> DEFINE c == worker[w].connection
    <2>1. /\ Touched(w, c) /\ worker'[w].at = "off"
          /\ connection'[c].request = connection[c].request
        BY <1>3, LoseWires, ZenonT(30)
    <2>2. \A A, e : RunCourse(worker'[w], w, A, e)
        BY <2>1, ZenonT(30) DEF RunCourse, Works
    <2>3. QED  BY <2>1, <2>2, TouchedCourses, ZenonT(30)
  <1>4. ASSUME NEW w \in Workers, SendRequest(w)
        PROVE  Courses'
    <2> DEFINE c == worker[w].connection
               me == worker[w]
               new == worker'[w]
               q == connection'[c].request
    <2>1. /\ Touched(w, c) /\ c \in Connections /\ IsActive(me) /\ q = Message(w, me)
          /\ new.at = me.at /\ new.epoch = me.epoch /\ new.attempt = me.attempt
          /\ new.done = me.done /\ new.allocation = me.allocation
        BY <1>4, SendRequestWires, ZenonT(30)
    <2>2. UNCHANGED <<epoch, main, fabric>>
        BY <2>1, ZenonT(30) DEF Touched, coordinator, threads
    <2>3. q.op = me.at /\ q.epoch = me.epoch /\ q.attempt = <<w, me.attempt>>
          /\ q.allocation = me.allocation
      <3>1. q = Message(w, me)
          BY <2>1
      <3> HIDE DEF me, q, c
      <3>2. QED  BY <3>1, MessageFields, ZenonT(30)
    <2>4. ASSUME NEW v \in Workers, main # "down", Once(fabric.applied, v)
          PROVE  /\ \A d \in Connections :
                       RequestCourse(connection'[d].request, v, fabric.applied, epoch)
                 /\ RunCourse(worker'[v], v, fabric.applied, epoch)
      <3>1. /\ \A d \in Connections :
                  RequestCourse(connection[d].request, v, fabric.applied, epoch)
            /\ RunCourse(worker[v], v, fabric.applied, epoch)
          BY <2>4, ZenonT(30) DEF Courses
      <3> HIDE DEF me, new, q
      <3>2. RunCourse(worker'[v], v, fabric.applied, epoch)
        <4>1. CASE v = w
            BY <2>1, <3>1, <4>1, ZenonT(30) DEF RunCourse, me, new
        <4>2. CASE v # w
            BY <2>1, <3>1, <4>2 DEF Touched
        <4>3. QED  BY <4>1, <4>2
      <3>3. RequestCourse(q, v, fabric.applied, epoch)
        <4>1. CASE v = w
            BY <2>3, <3>1, <4>1, RunAsks, ZenonT(30) DEF me
        <4>2. CASE v # w
            BY <2>3, <4>2, RequestElsewhere, ZenonT(30)
        <4>3. QED  BY <4>1, <4>2, ZenonT(30)
      <3>4. QED  BY <2>1, <3>1, <3>2, <3>3, ZenonT(30) DEF Touched, q
    <2>5. QED  BY <2>2, <2>4, CoursesKept, ZenonT(30)
  <1>5. QED  BY <1>1, <1>2, <1>3, <1>4, ZenonT(30)

LEMMA NextCourses ==
    ASSUME state_directory, ThreadInv, Memory, Truthful(fabric), Wiring, Lines,
           EpochsBounded, Exchanges, Courses, [Next]_vars
    PROVE  Courses'
  <1>1. CASE Quiet
    <2>1. /\ UNCHANGED <<epoch, fabric, worker>>
          /\ (main' = "down") <=> (main = "down")
          /\ \A c \in Connections :
                connection'[c].request \in {connection[c].request, NoMessage}
        BY <1>1 DEF Quiet, Kept
    <2>2. QED  BY <2>1, CoursesQuiet
  <1>2. CASE UNCHANGED worker /\ Start
      BY <1>2, StartCourses
  <1>3. CASE UNCHANGED worker /\ Crash
      BY <1>3, CrashWires DEF Courses
  <1>4. ASSUME UNCHANGED worker, NEW c \in Connections, Dispatch(c) \/ Send(c)
        PROVE  Courses'
    <2>1. CASE Dispatch(c)
        BY <1>4, <2>1, DispatchCourses, ZenonT(30)
    <2>2. CASE Send(c)
        BY <1>4, <2>2, SendWires, CoursesQuiet
    <2>3. QED  BY <1>4, <2>1, <2>2
  <1>5. QED  BY <1>1, <1>2, <1>3, <1>4, ClientCourses, ReceiveCourses, ServiceSteps

LEMMA CoursesStart ==
    ASSUME Init
    PROVE  Truthful(fabric) /\ Wiring /\ Lines /\ EpochsBounded /\ Exchanges /\ Courses
  <1>1. /\ connection = [c \in Connections |-> Unused]
        /\ session = [c \in Connections |-> "none"]
        /\ reply = [c \in Connections |-> NoMessage]
        /\ worker = [w \in Workers |-> NotRun]
        /\ clients = {} /\ acceptor = "none" /\ main = "down" /\ epoch = 0
        /\ fabric = EmptyFabric(0)
      BY DEF Init, CoordinatorInit
  <1>2. /\ IsRun(NotRun) /\ ~IsActive(NotRun)
        /\ NotRun.epoch = 0 /\ NotRun.expected = 0
      BY DEF NotRun, IsRun, IsActive, NoEpoch
  <1>3. Truthful(fabric) /\ fabric.applied = <<>>
      BY <1>1 DEF Truthful, EmptyFabric
  <1>4. Wiring /\ Lines
      BY WiresStart
  <1>5. Exchanges
      BY <1>1, <1>2 DEF Exchanges
  <1>6. EpochsBounded
      BY <1>1, <1>2, UnusedEnd, SMTT(30) DEF EpochsBounded, Within, Sending
  <1>7. Courses
      BY <1>1, <1>3 DEF Courses
  <1>8. QED  BY <1>3, <1>4, <1>5, <1>6, <1>7, ZenonT(30)

\* What the runs of the workers keep true, with what the coordinator's threads
\* and its memory of attempts do.
RunInv ==
    /\ ThreadInv /\ Memory /\ Truthful(fabric)
    /\ Wiring /\ Lines /\ EpochsBounded /\ Exchanges /\ Courses

\* Each run of a worker sends its requests one at a time, takes each reply for
\* the answer to the request before it, and, unless an attempt of the worker is
\* applied twice, is where the history of applied attempts leads it.  The
\* coordinator has a state directory: no two of its lives have the same epoch.
THEOREM RunsFollowTheHistory == state_directory => (Spec => []RunInv)
  <1> SUFFICES ASSUME state_directory
               PROVE  Spec => []RunInv
      OBVIOUS
  <1>1. Init => Truthful(fabric) /\ Wiring /\ Lines /\ EpochsBounded /\ Exchanges /\ Courses
      BY CoursesStart
  <1>2. ThreadInv /\ Memory /\ Truthful(fabric) /\ Wiring /\ Lines /\ EpochsBounded
          /\ Exchanges /\ Courses /\ [Next]_vars =>
        (Truthful(fabric) /\ Wiring /\ Lines /\ EpochsBounded /\ Exchanges /\ Courses)'
      BY NextTruthful, NextWires, NextEpochs, NextExchanges, NextCourses
  <1>3. QED  BY <1>1, <1>2, ThreadsJoined, MemoryIsLatest, PTL DEF Spec, RunInv

\* A worker that has finished holds nothing that was granted to one of its runs
\* in this life of the coordinator, unless an attempt of it was applied twice.
THEOREM FinishedReleases == state_directory => (Spec => []FinishedHoldsNothing)
  <1>1. RunInv => FinishedHoldsNothing
    <2>1. SUFFICES ASSUME RunInv, NEW w \in Workers, NEW i \in DOMAIN fabric.applied,
                          worker[w].at = "done", worker[w].epoch = epoch,
                          fabric.applied[i].attempt[1] = w,
                          fabric.applied[i].allocation \in fabric.held,
                          Once(fabric.applied, w)
                   PROVE  FALSE
        BY DEF FinishedHoldsNothing, Once
    <2> DEFINE A == fabric.applied
    <2>2. main # "down"
        BY <2>1 DEF RunInv, Courses
    <2>3. LogCourse(A, w) /\ Complete(A, w)
        BY <2>1, <2>2, ZenonT(30) DEF RunInv, Courses, RunCourse
    <2>4. A[i].allocation # NoAllocation
        BY <2>1 DEF RunInv, Memory, AttemptInv, IsFabric, NoAllocation
    <2>5. A[i].op # "Release"
        BY <2>1, ZenonT(30) DEF RunInv, Truthful
    <2>6. PICK j \in DOMAIN A : A[j].op = "Release" /\ A[j].allocation = A[i].allocation
        BY <2>1, <2>3, <2>4, <2>5, CompleteReleases DEF Ends
    <2>7. QED  BY <2>1, <2>6, ZenonT(30) DEF RunInv, Truthful
  <1>2. QED  BY <1>1, RunsFollowTheHistory, PTL

\* A worker reads no grant and no refusal that was not decided for the attempt
\* it waits for, however many runs of it sent that attempt before.
THEOREM AnswersAreDecisions == state_directory => (Spec => []AnswersEarned)
  <1>1. RunInv => AnswersEarned
    <2> SUFFICES ASSUME RunInv, NEW w \in Workers PROVE
          LET me == worker[w]
              r == connection[me.connection].reply
          IN  /\ me.at \in {"Allocate", "Release"} /\ me.epoch = epoch /\ main # "down"
              /\ r # NoMessage /\ r.answer.status \in {"Ok", "Refused"}
              => ToldBy(fabric.applied, <<w, me.attempt>>, me.at, r.answer)
        BY ZenonT(30) DEF AnswersEarned, ToldBy, Tells
    <2> DEFINE me == worker[w]
               x == connection[me.connection]
    <2>1. SUFFICES ASSUME me.at \in {"Allocate", "Release"}, me.epoch = epoch, main # "down",
                          Good(x.reply)
                   PROVE  ToldBy(fabric.applied, <<w, me.attempt>>, me.at, x.reply.answer)
        BY Zenon DEF Good
    <2>2. IsActive(me) /\ me.at # "Hello"
        BY <2>1, Zenon DEF IsActive
    <2>3. Exchange(w, me, x, session[me.connection], reply[me.connection], fabric.applied,
                   epoch, main)
        BY <2>2, Zenon DEF RunInv, Exchanges
    <2> HIDE DEF me, x
    <2>4. Fits(w, me, x.reply, fabric.applied, epoch, main)
        BY <2>1, <2>3, Zenon DEF Exchange
    <2>5. QED  BY <2>1, <2>2, <2>4, Zenon DEF Fits, Good
  <1>2. QED  BY <1>1, RunsFollowTheHistory, PTL
=============================================================================
