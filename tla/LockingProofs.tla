---------------------------- MODULE LockingProofs ----------------------------
(***************************************************************************)
(* Proofs about overlapping calls: for any number of callers and of calls. *)
(* The argument is mutual exclusion: a caller in a critical section holds  *)
(* the mutex, and the tick it reads there is the one that it sampled       *)
(* before it asked for the mutex.                                          *)
(***************************************************************************)
EXTENDS Locking, TLAPS

Places == {"idle", "lock", "run", "publish", "deliver", "query", "program", "relock"}

\* Where callers are, and the numbers the sections compare.
Shape ==
    /\ pc \in [Callers -> Places]
    /\ sampled \in [Callers -> Nat]
    /\ answer \in [Callers -> Nat]
    /\ clock \in Nat /\ tick \in Nat
    /\ backend \in Nat \ {0}
    /\ capacity \in Nat /\ partitioned \in Nat

\* Who is in a critical section holds the mutex, and nobody else's sample is
\* in tick_.
Exclusive ==
    \A t \in Callers : At(t, "run") => mutex = t /\ tick = sampled[t]

LockInv == Shape /\ Exclusive /\ PartitionBounded

\* What a step of caller t leaves of the others.
OthersKept(t) ==
    \A u \in Callers \ {t} : pc'[u] = pc[u] /\ sampled'[u] = sampled[u]

LEMMA InitLocks == Init => LockInv
  BY LockingAssumption DEF Init, LockInv, Shape, Places, Exclusive, PartitionBounded, At

\* A caller that is not in a section, and does not enter one, changes neither
\* the mutex nor the tick unless it gives back a mutex of its own.
LEMMA Outside ==
    ASSUME LockInv, NEW t \in Callers, OthersKept(t),
           tick' = tick, mutex' = mutex \/ (mutex = t /\ mutex' = NoCaller),
           pc'[t] # "run" \/ (pc'[t] = pc[t] /\ sampled'[t] = sampled[t] /\ mutex' = mutex)
    PROVE  Exclusive'
  <1> SUFFICES ASSUME NEW u \in Callers, At(u, "run")'
               PROVE  mutex' = u /\ tick' = sampled'[u]
      BY DEF Exclusive
  <1>1. CASE u = t
      BY <1>1 DEF LockInv, Exclusive, At
  <1>2. CASE u # t
      BY <1>2, LockingAssumption DEF LockInv, Exclusive, At, OthersKept
  <1>3. QED  BY <1>1, <1>2

\* The end of a section, whatever follows it.
LEMMA UnlockKeeps ==
    ASSUME LockInv, NEW t \in Callers, NEW place \in Places \ {"run"},
           At(t, "run"), Unlock(t, place)
    PROVE  /\ pc' \in [Callers -> Places] /\ sampled' \in [Callers -> Nat]
           /\ clock' \in Nat /\ tick' \in Nat /\ backend' \in Nat \ {0}
           /\ Exclusive'
  <1>1. pc' = [pc EXCEPT ![t] = place] /\ sampled' = [sampled EXCEPT ![t] = 0]
      BY DEF Unlock, Goto
  <1>2. mutex = t /\ mutex' = NoCaller /\ UNCHANGED <<clock, backend, tick>>
      BY DEF Unlock, LockInv, Exclusive, components
  <1>3. OthersKept(t) /\ pc'[t] = place
      BY <1>1 DEF OthersKept, LockInv, Shape
  <1>4. Exclusive'
      BY <1>2, <1>3, Outside
  <1>5. QED  BY <1>1, <1>2, <1>4 DEF LockInv, Shape

\* A publication that is over, in a section or out of one.
LEMMA PublishedKeeps ==
    ASSUME LockInv, NEW t \in Callers, Published(t), UNCHANGED <<components, tick>>
    PROVE  /\ pc' \in [Callers -> Places] /\ sampled' \in [Callers -> Nat]
           /\ answer' \in [Callers -> Nat]
           /\ clock' \in Nat /\ tick' \in Nat /\ backend' \in Nat \ {0}
           /\ Exclusive'
  <1>1. /\ pc' = [pc EXCEPT ![t] = "idle"] /\ sampled' = [sampled EXCEPT ![t] = 0]
        /\ answer' = [answer EXCEPT ![t] = 0]
        /\ mutex' = IF mutex = t THEN NoCaller ELSE mutex
      BY DEF Published, Goto, Leave
  <1>2. OthersKept(t) /\ pc'[t] = "idle"
      BY <1>1 DEF OthersKept, LockInv, Shape
  <1>3. Exclusive'
      BY <1>1, <1>2, Outside
  <1>4. QED  BY <1>1, <1>3 DEF LockInv, Shape, Places, components

\* A caller outside every section goes on, and may sample the clock.
LEMMA GoesOn ==
    ASSUME LockInv, NEW t \in Callers, NEW place \in Places \ {"run"},
           pc' = [pc EXCEPT ![t] = place],
           sampled' = sampled \/ sampled' = [sampled EXCEPT ![t] = clock],
           UNCHANGED <<components, mutex, tick>>
    PROVE  /\ pc' \in [Callers -> Places] /\ sampled' \in [Callers -> Nat]
           /\ clock' \in Nat /\ tick' \in Nat /\ backend' \in Nat \ {0}
           /\ Exclusive'
  <1>1. OthersKept(t) /\ pc'[t] = place
      BY DEF OthersKept, LockInv, Shape
  <1>2. Exclusive'
      BY <1>1, Outside
  <1>3. QED  BY <1>2 DEF LockInv, Shape, components

LEMMA AcquireKeeps ==
    ASSUME LockInv, NEW t \in Callers, Acquire(t)
    PROVE  LockInv'
  <1>1. /\ pc' = [pc EXCEPT ![t] = "run"] /\ mutex = NoCaller /\ mutex' = t
        /\ tick' = sampled[t]
        /\ UNCHANGED <<clock, backend, sampled, answer, capacity, partitioned>>
      BY DEF Acquire, Goto, components, fabric
  <1>2. Shape'
      BY <1>1 DEF LockInv, Shape, Places
  <1>3. Exclusive'
      BY <1>1, LockingAssumption DEF LockInv, Shape, Exclusive, At
  <1>4. QED  BY <1>1, <1>2, <1>3 DEF LockInv, PartitionBounded

\* The part of the invariant that a section's own assignments do not touch.
Kept ==
    /\ pc' \in [Callers -> Places] /\ sampled' \in [Callers -> Nat]
    /\ answer' \in [Callers -> Nat]
    /\ clock' \in Nat /\ tick' \in Nat /\ backend' \in Nat \ {0}
    /\ Exclusive'

LEMMA ReturnKeeps ==
    ASSUME LockInv, NEW t \in Callers, At(t, "run"), Return(t)
    PROVE  Kept
  <1>1. Unlock(t, "idle") /\ answer' = [answer EXCEPT ![t] = 0]
      BY DEF Return, Leave
  <1>2. answer' \in [Callers -> Nat]
      BY <1>1 DEF LockInv, Shape
  <1>3. QED  BY <1>1, <1>2, UnlockKeeps DEF Kept, Places

LEMMA AnnounceKeeps ==
    ASSUME LockInv, NEW t \in Callers, NEW e, At(t, "run"), Announce(t, e)
    PROVE  Kept
  <1>1. Unlock(t, "publish") /\ UNCHANGED answer
      BY DEF Announce
  <1>2. QED  BY <1>1, UnlockKeeps DEF Kept, Places, LockInv, Shape

LEMMA KeptIsEnough ==
    ASSUME LockInv, Kept, capacity' \in Nat, partitioned' \in Nat, partitioned' <= capacity'
    PROVE  LockInv'
  BY DEF LockInv, Kept, Shape, PartitionBounded

\* Sections that leave capacity and pools alone.
LEMMA SectionsKeep ==
    ASSUME LockInv, NEW t \in Callers,
           \/ Allocate(t) \/ ObservePressure(t) \/ ObserveRejected(t)
           \/ BeginShutdown(t) \/ Close(t) \/ Open(t) \/ FindBackend(t)
           \/ ReadEffects(t) \/ CountUnsupported(t)
    PROVE  LockInv'
  <1>1. UNCHANGED <<capacity, partitioned>>
      BY DEF Allocate, ObservePressure, ObserveRejected, BeginShutdown, Close, Open,
             FindBackend, ReadEffects, CountUnsupported, fabric
  <1>2. At(t, "run")
      BY DEF Allocate, ObservePressure, ObserveRejected, BeginShutdown, Close, Open,
             FindBackend, ReadEffects, CountUnsupported, InCall, InSection
  <1>3. ASSUME Allocate(t) PROVE Kept
      BY <1>2, <1>3, ReturnKeeps, AnnounceKeeps DEF Allocate
  <1>4. ASSUME ObservePressure(t) PROVE Kept
      BY <1>2, <1>4, ReturnKeeps, AnnounceKeeps DEF ObservePressure
  <1>5. ASSUME ObserveRejected(t) PROVE Kept
    <2>1. CASE Return(t)
        BY <1>2, <2>1, ReturnKeeps
    <2>2. CASE Goto(t, "publish") /\ UNCHANGED <<components, mutex, tick, sampled, answer>>
        BY <2>2, GoesOn DEF Goto, Places, Kept, LockInv, Shape
    <2>3. QED  BY <1>5, <2>1, <2>2 DEF ObserveRejected
  <1>6. ASSUME BeginShutdown(t) PROVE Kept
      BY <1>2, <1>6, ReturnKeeps DEF BeginShutdown
  <1>7. ASSUME Close(t) PROVE Kept
      BY <1>2, <1>7, ReturnKeeps, AnnounceKeeps DEF Close
  <1>8. ASSUME Open(t) PROVE Kept
      BY <1>2, <1>8, ReturnKeeps, AnnounceKeeps DEF Open
  <1>9. ASSUME FindBackend(t) PROVE Kept
    <2>1. CASE Return(t)
        BY <1>2, <2>1, ReturnKeeps
    <2>2. CASE Unlock(t, "query") /\ UNCHANGED answer
        BY <1>2, <2>2, UnlockKeeps DEF Places, Kept, LockInv, Shape
    <2>3. QED  BY <1>9, <2>1, <2>2 DEF FindBackend
  <1>10. ASSUME ReadEffects(t) PROVE Kept
    <2>1. CASE Unlock(t, "program") /\ UNCHANGED answer
        BY <1>2, <2>1, UnlockKeeps DEF Places, Kept, LockInv, Shape
    <2>2. CASE Unlock(t, "relock") /\ UNCHANGED answer
        BY <1>2, <2>2, UnlockKeeps DEF Places, Kept, LockInv, Shape
    <2>3. QED  BY <1>10, <2>1, <2>2 DEF ReadEffects
  <1>11. ASSUME CountUnsupported(t) PROVE Kept
      BY <1>2, <1>11, UnlockKeeps DEF CountUnsupported, Places, Kept, LockInv, Shape
  <1>12. Kept => LockInv'
      BY <1>1, KeptIsEnough DEF LockInv, Shape, PartitionBounded
  <1>13. QED
      BY <1>3, <1>4, <1>5, <1>6, <1>7, <1>8, <1>9, <1>10, <1>11, <1>12

\* The sections that change capacity or pools look at both, with the mutex
\* held; that the backend's answer is old by then does not matter.
LEMMA CapacityKept ==
    ASSUME LockInv, NEW t \in Callers,
           RegisterPool(t) \/ RemovePool(t) \/ StoreCapacity(t)
    PROVE  LockInv'
  <1>1. At(t, "run")
      BY DEF RegisterPool, RemovePool, StoreCapacity, InCall, InSection
  <1>2. Kept
      BY <1>1, ReturnKeeps, AnnounceKeeps DEF RegisterPool, RemovePool, StoreCapacity
  <1>3. capacity' \in Nat /\ partitioned' \in Nat /\ partitioned' <= capacity'
    <2>1. CASE RegisterPool(t)
        BY <2>1 DEF RegisterPool, LockInv, Shape, PartitionBounded
    <2>2. CASE RemovePool(t)
        BY <2>2 DEF RemovePool, LockInv, Shape, PartitionBounded
    <2>3. CASE StoreCapacity(t)
        BY <2>3 DEF StoreCapacity, Storable, LockInv, Shape, PartitionBounded
    <2>4. QED  BY <2>1, <2>2, <2>3
  <1>4. QED  BY <1>2, <1>3, KeptIsEnough

\* Steps between sections.
LEMMA BetweenKeeps ==
    ASSUME LockInv, NEW t \in Callers,
           \/ ReadSink(t) \/ Deliver(t) \/ NestedQuery(t)
           \/ QueryBackend(t) \/ Program(t) \/ Relock(t)
           \/ \E c \in Calls : Invoke(t, c)
    PROVE  LockInv'
  <1>1. UNCHANGED <<components, tick, capacity, partitioned>>
      BY DEF ReadSink, Deliver, NestedQuery, QueryBackend, Program, Relock, Invoke, fabric
  <1>2. ASSUME ReadSink(t) PROVE Kept
    <2>1. CASE Goto(t, "deliver") /\ UNCHANGED <<mutex, sampled, answer>>
        BY <1>1, <2>1, GoesOn DEF Goto, Places, Kept, LockInv, Shape
    <2>2. CASE Published(t)
        BY <1>1, <2>2, PublishedKeeps DEF Kept
    <2>3. QED  BY <1>2, <2>1, <2>2 DEF ReadSink
  <1>3. ASSUME Deliver(t) PROVE Kept
    <2>1. CASE Sample(t, "nested") /\ UNCHANGED <<mutex, answer>>
        BY <1>1, <2>1, GoesOn DEF Sample, Goto, Places, Kept, LockInv, Shape
    <2>2. CASE Published(t)
        BY <1>1, <2>2, PublishedKeeps DEF Kept
    <2>3. QED  BY <1>3, <2>1, <2>2 DEF Deliver
  <1>4. ASSUME NestedQuery(t) PROVE Kept
      BY <1>1, <1>4, PublishedKeeps DEF NestedQuery, Kept
  <1>5. ASSUME BackendFails(t), UNCHANGED mutex PROVE Kept
    <2>1. answer' \in [Callers -> Nat]
        BY <1>5 DEF BackendFails, Leave, LockInv, Shape
    <2>2. QED  BY <1>1, <1>5, <2>1, GoesOn DEF BackendFails, Goto, Places, Kept
  <1>6. ASSUME QueryBackend(t) PROVE Kept
    <2>1. CASE BackendFails(t)
        BY <1>5, <1>6, <2>1 DEF QueryBackend
    <2>2. CASE answer' = [answer EXCEPT ![t] = backend] /\ Sample(t, "effects")
      <3>1. answer' \in [Callers -> Nat]
          BY <2>2 DEF LockInv, Shape
      <3>2. QED
          BY <1>1, <1>6, <2>2, <3>1, GoesOn DEF QueryBackend, Sample, Goto, Places, Kept
    <2>3. QED  BY <1>6, <2>1, <2>2 DEF QueryBackend
  <1>7. ASSUME Program(t) PROVE Kept
    <2>1. CASE BackendFails(t)
        BY <1>5, <1>7, <2>1 DEF Program
    <2>2. CASE Sample(t, "unsupported") /\ UNCHANGED answer
        BY <1>1, <1>7, <2>2, GoesOn
           DEF Program, Sample, Goto, Places, Kept, LockInv, Shape
    <2>3. CASE Goto(t, "relock") /\ UNCHANGED <<sampled, answer>>
        BY <1>1, <1>7, <2>3, GoesOn DEF Program, Goto, Places, Kept, LockInv, Shape
    <2>4. QED  BY <1>7, <2>1, <2>2, <2>3 DEF Program
  <1>8. ASSUME Relock(t) PROVE Kept
      BY <1>1, <1>8, GoesOn DEF Relock, Sample, Goto, Places, Kept, LockInv, Shape
  <1>9. ASSUME NEW c \in Calls, Invoke(t, c) PROVE Kept
      BY <1>1, <1>9, GoesOn DEF Invoke, Goto, Places, Kept, LockInv, Shape
  <1>10. Kept
      BY <1>2, <1>3, <1>4, <1>6, <1>7, <1>8, <1>9
  <1>11. QED
      BY <1>1, <1>10, KeptIsEnough DEF LockInv, Shape, PartitionBounded

LEMMA EmbedderKeeps ==
    ASSUME LockInv, Tick \/ BackendChanges \/ SetEventSink
    PROVE  LockInv'
  <1>1. UNCHANGED <<mutex, tick, capacity, partitioned, pc, sampled, answer>>
      BY DEF Tick, BackendChanges, SetEventSink, fabric
  <1>2. clock' \in Nat
      BY DEF Tick, BackendChanges, SetEventSink, LockInv, Shape
  <1>3. backend' \in Nat \ {0}
      BY LockingAssumption DEF Tick, BackendChanges, SetEventSink, LockInv, Shape
  <1>4. QED  BY <1>1, <1>2, <1>3 DEF LockInv, Shape, Exclusive, At, PartitionBounded

LEMMA NextKeepsLocks ==
    ASSUME LockInv, [Next]_vars
    PROVE  LockInv'
  <1>1. ASSUME NEW t \in Callers, Step(t) PROVE LockInv'
      BY <1>1, AcquireKeeps, SectionsKeep, CapacityKept, BetweenKeeps DEF Step
  <1>2. ASSUME NEW t \in Callers, NEW c \in Calls, Invoke(t, c) PROVE LockInv'
      BY <1>2, BetweenKeeps
  <1>3. CASE UNCHANGED vars
      BY <1>3 DEF vars, components, fabric, LockInv, Shape, Exclusive, At, PartitionBounded
  <1>4. QED  BY <1>1, <1>2, <1>3, EmbedderKeeps DEF Next

\* Mutual exclusion and the order of samples, for any number of callers: who
\* runs a critical section holds the mutex, and reads its own sample as the
\* time.  This is what the constructor of Lock is there for.
THEOREM SectionsExclusive == Spec => []LockInv
  <1>1. Init => LockInv
      BY InitLocks
  <1>2. LockInv /\ [Next]_vars => LockInv'
      BY NextKeepsLocks
  <1>3. QED  BY <1>1, <1>2, PTL DEF Spec

\* The pools never have more than the stored capacity, although set_capacity
\* stores an answer that it got with no lock held.
THEOREM CapacityBounded == Spec => []PartitionBounded
  <1>1. LockInv => PartitionBounded
      BY DEF LockInv
  <1>2. QED  BY <1>1, SectionsExclusive, PTL

\* A section of allocate that ends its call without an event has found live
\* evidence at its own sample.
LEMMA GrantStep ==
    ASSUME LockInv, [Next]_vars, NEW t \in Callers,
           InCall(t, "allocate"), Accepting, pc'[t] = "idle"
    PROVE  is_fresh(sampled[t], evidence, ttl_ticks)
  <1>1. pc[t] = "run" /\ tick = sampled[t]
      BY DEF InCall, InSection, At, LockInv, Exclusive
  <1>2. ~UNCHANGED vars
      BY <1>1 DEF vars
  <1>3. ASSUME NEW u \in Callers, Step(u) \/ \E c \in Calls : Invoke(u, c)
        PROVE  u = t
    <2> SUFFICES ASSUME u # t PROVE FALSE
        OBVIOUS
    <2>1. pc'[t] = pc[t]
        BY <1>3 DEF Step, Invoke, Acquire, ReadSink, Deliver, NestedQuery, Allocate,
             ObservePressure, ObserveRejected, RegisterPool, RemovePool, BeginShutdown, Close,
             Open, FindBackend, QueryBackend, ReadEffects, Program, CountUnsupported, Relock,
             StoreCapacity, Return, Announce, Unlock, Published, Sample, BackendFails, Goto,
             LockInv, Shape
    <2>2. QED  BY <1>1, <2>1
  <1>4. Step(t)
      BY <1>1, <1>2, <1>3
         DEF Next, Invoke, At, Tick, BackendChanges, SetEventSink
  <1>5. Allocate(t)
      BY <1>1, <1>4 DEF Step, Acquire, ReadSink, Deliver, NestedQuery, ObservePressure,
         ObserveRejected, RegisterPool, RemovePool, BeginShutdown, Close, Open, FindBackend,
         QueryBackend, ReadEffects, Program, CountUnsupported, Relock, StoreCapacity, InCall,
         InSection, At
  <1>6. \A e : ~Announce(t, e)
      BY <1>1 DEF Announce, Unlock, Goto, LockInv, Shape
  <1>7. Known
      BY <1>5, <1>6 DEF Allocate
  <1>8. QED  BY <1>1, <1>7 DEF Known

\* A grant never rests on evidence that had lapsed before the call began,
\* however long the caller waited for the mutex.
THEOREM GrantsRestOnLiveEvidence == Spec => GrantOnLiveEvidence
  <1>1. LockInv /\ [Next]_vars =>
          [\A t \in Callers :
             InCall(t, "allocate") /\ Accepting /\ pc'[t] = "idle" =>
                is_fresh(sampled[t], evidence, ttl_ticks)]_vars
      BY GrantStep
  <1>2. QED  BY <1>1, SectionsExclusive, PTL DEF Spec, GrantOnLiveEvidence
(***************************************************************************)
(* Nobody waits for a waiter.  The mutex is held in a section, and while   *)
(* the event of a rejected report is published; a sink that leaves that    *)
(* event alone never calls back on a thread that holds the mutex.          *)
(***************************************************************************)

Holds(t) ==
    \/ pc[t] = "run"
    \/ pc[t] \in {"publish", "deliver"} /\ event[t] = "PressureRejected"

HolderInv ==
    /\ event = [t \in Callers |-> event[t]]
    /\ mutex # NoCaller => mutex \in Callers /\ Holds(mutex)

\* A step of t leaves the others where they are, with their events.
OthersStay(t) ==
    /\ event' = [u \in Callers |-> event'[u]]
    /\ \A u \in Callers \ {t} : pc'[u] = pc[u] /\ event'[u] = event[u]

\* A step of t that leaves the mutex free or with somebody else, or with t
\* where it may hold it.
LEMMA HolderKept ==
    ASSUME HolderInv, NEW t \in Callers, OthersStay(t),
           \/ mutex' = NoCaller
           \/ mutex' = mutex /\ mutex # t
           \/ mutex' = t /\ Holds(t)'
    PROVE  HolderInv'
  BY DEF HolderInv, Holds, OthersStay

\* What every step of a call does to the places and the events.
LEMMA StepsLocal ==
    ASSUME LockInv, HolderInv, NEW t \in Callers,
           Step(t) \/ \E c \in Calls : Invoke(t, c)
    PROVE  OthersStay(t)
  <1>1. (\E place : Goto(t, place)) /\ (UNCHANGED event \/ \E e : event' = [event EXCEPT ![t] = e])
      BY DEF Step, Invoke, Acquire, ReadSink, Deliver, NestedQuery, Allocate,
             ObservePressure, ObserveRejected, RegisterPool, RemovePool, BeginShutdown, Close,
             Open, FindBackend, QueryBackend, ReadEffects, Program, CountUnsupported, Relock,
             StoreCapacity, Return, Announce, Unlock, Published, Sample, BackendFails
  <1>2. \A u \in Callers \ {t} : pc'[u] = pc[u]
      BY <1>1 DEF Goto, LockInv, Shape
  <1>3. QED  BY <1>1, <1>2 DEF OthersStay, HolderInv

\* A section ends with the mutex free, or in the publication of a rejected
\* report.
LEMMA SectionEnds ==
    ASSUME LockInv, HolderInv, NEW t \in Callers,
           \/ Allocate(t) \/ ObservePressure(t) \/ ObserveRejected(t)
           \/ RegisterPool(t) \/ RemovePool(t) \/ BeginShutdown(t) \/ Close(t) \/ Open(t)
           \/ FindBackend(t) \/ ReadEffects(t) \/ CountUnsupported(t) \/ StoreCapacity(t)
    PROVE  mutex' = NoCaller \/ (mutex' = t /\ Holds(t)')
  <1>1. ASSUME \/ Allocate(t) \/ ObservePressure(t)
               \/ RegisterPool(t) \/ RemovePool(t) \/ BeginShutdown(t) \/ Close(t) \/ Open(t)
               \/ FindBackend(t) \/ ReadEffects(t) \/ CountUnsupported(t) \/ StoreCapacity(t)
        PROVE  mutex' = NoCaller
      BY <1>1 DEF Allocate, ObservePressure, RegisterPool, RemovePool, BeginShutdown, Close,
                  Open, FindBackend, ReadEffects, CountUnsupported, StoreCapacity, Return,
                  Announce, Unlock
  <1>2. ASSUME ObserveRejected(t), ~Return(t)
        PROVE  mutex' = t /\ Holds(t)'
    <2>1. /\ mutex = t /\ mutex' = mutex
          /\ pc' = [pc EXCEPT ![t] = "publish"]
          /\ event' = [event EXCEPT ![t] = "PressureRejected"]
        BY <1>2 DEF ObserveRejected, InCall, InSection, At, Goto, LockInv, Exclusive
    <2>2. pc'[t] = "publish" /\ event'[t] = "PressureRejected"
        BY <2>1 DEF LockInv, Shape, HolderInv
    <2>3. QED  BY <2>1, <2>2 DEF Holds
  <1>3. Return(t) => mutex' = NoCaller
      BY DEF Return, Unlock
  <1>4. QED  BY <1>1, <1>2, <1>3

\* A publication ends with the mutex free or with somebody else; until then
\* it holds it or not, as it began.  Only here does a thread go back to wait
\* for the mutex in the middle of a call that may hold it.
LEMMA PublicationHolds ==
    ASSUME "PressureRejected" \notin ReenterOn, LockInv, HolderInv, NEW t \in Callers,
           ReadSink(t) \/ Deliver(t) \/ NestedQuery(t)
    PROVE  \/ mutex' = NoCaller
           \/ mutex' = mutex /\ mutex # t
           \/ mutex' = t /\ Holds(t)'
  <1>1. CASE Published(t)
      BY <1>1 DEF Published
  <1>2. CASE At(t, "publish") /\ Goto(t, "deliver") /\ UNCHANGED <<event, mutex>>
    <2>1. pc'[t] = "deliver" /\ event'[t] = event[t] /\ mutex' = mutex
        BY <1>2 DEF Goto, LockInv, Shape
    <2>2. mutex = t => event[t] = "PressureRejected"
        BY <1>2, LockingAssumption DEF At, HolderInv, Holds
    <2>3. QED  BY <2>1, <2>2 DEF Holds
  <1>3. CASE At(t, "deliver") /\ event[t] \in ReenterOn /\ UNCHANGED mutex
      BY <1>3, LockingAssumption DEF At, HolderInv, Holds
  <1>4. QED  BY <1>1, <1>2, <1>3 DEF ReadSink, Deliver, NestedQuery

\* The steps between sections are taken without the mutex.
LEMMA BetweenHolds ==
    ASSUME LockInv, HolderInv, NEW t \in Callers,
           \/ QueryBackend(t) \/ Program(t) \/ Relock(t)
           \/ \E c \in Calls : Invoke(t, c)
    PROVE  mutex' = mutex /\ mutex # t
  <1>1. mutex' = mutex /\ pc[t] \in {"query", "program", "relock", "idle"}
      BY DEF QueryBackend, Program, Relock, Invoke, At
  <1>2. QED  BY <1>1, LockingAssumption DEF HolderInv, Holds

LEMMA NextKeepsHolder ==
    ASSUME "PressureRejected" \notin ReenterOn, LockInv, HolderInv, [Next]_vars
    PROVE  HolderInv'
  <1>1. ASSUME NEW t \in Callers, Acquire(t) PROVE mutex' = t /\ Holds(t)'
      BY <1>1 DEF Acquire, Goto, Holds, LockInv, Shape
  <1>2. ASSUME NEW t \in Callers, Step(t) PROVE HolderInv'
    <2>1. \/ mutex' = NoCaller
          \/ mutex' = mutex /\ mutex # t
          \/ mutex' = t /\ Holds(t)'
        BY <1>1, <1>2, SectionEnds, PublicationHolds, BetweenHolds DEF Step
    <2>2. QED  BY <1>2, <2>1, StepsLocal, HolderKept
  <1>3. ASSUME NEW t \in Callers, NEW c \in Calls, Invoke(t, c) PROVE HolderInv'
      BY <1>3, BetweenHolds, StepsLocal, HolderKept
  <1>4. ASSUME UNCHANGED <<mutex, pc, event>> PROVE HolderInv'
      BY <1>4 DEF HolderInv, Holds
  <1>5. CASE Tick \/ BackendChanges \/ SetEventSink \/ UNCHANGED vars
      BY <1>4, <1>5 DEF Tick, BackendChanges, SetEventSink, vars
  <1>6. QED  BY <1>2, <1>3, <1>5 DEF Next

\* Unless the sink answers the rejection of a report, whose event is published
\* inside the section, whoever waits for the mutex waits for a caller that
\* goes on: no thread waits for itself, and no circle of waiters forms.
THEOREM NobodyWaitsForAWaiter ==
    "PressureRejected" \notin ReenterOn => (Spec => []WaitsForRunner)
  <1> SUFFICES ASSUME "PressureRejected" \notin ReenterOn PROVE Spec => []WaitsForRunner
      OBVIOUS
  <1>1. Init => HolderInv
      BY DEF Init, HolderInv
  <1>2. LockInv /\ HolderInv /\ [Next]_vars => HolderInv'
      BY NextKeepsHolder
  <1>3. HolderInv => WaitsForRunner
      BY DEF HolderInv, Holds, WaitsForRunner
  <1>4. QED  BY <1>1, <1>2, <1>3, SectionsExclusive, PTL DEF Spec
=============================================================================
