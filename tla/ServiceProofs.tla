---------------------------- MODULE ServiceProofs ----------------------------
(***************************************************************************)
(* Proofs about the coordinator and its clients: for any number of         *)
(* workers, connections, restarts and remembered attempts.  Four           *)
(* invariants: what the memory of attempts says about the attempts that    *)
(* were applied; how the threads of the coordinator end and how many       *)
(* sessions there are; which connections are in use, and by whom; and      *)
(* which epochs workers and messages may know.                             *)
(***************************************************************************)
EXTENDS Service, FiniteSetTheorems, TLAPS

(* Steps by what they touch. *)

\* Steps that leave the fabric and the epoch alone.
FabricKept == UNCHANGED <<epoch, fabric>>

\* Every step starts the coordinator, kills it, dispatches a request, or
\* leaves the fabric and the epoch alone.
LEMMA FabricSteps ==
    ASSUME [Next]_vars
    PROVE  FabricKept \/ Start \/ Crash \/ (\E c \in Connections : Dispatch(c))
  BY ZenonT(30) DEF Next, vars, coordinator, FabricKept, CoordinatorNext, MainStep, AcceptStep,
         SessionStep, RequestShutdown, CloseListener, ShutdownClients, JoinAccept,
         JoinSessions, CloseFabric, AcceptPeer, AcceptFails, Admit, SessionCheck,
         ReceiveFails, Send, OtherClient, RunWorker, SendRequest, LoseConnection,
         ReceiveReply
-----------------------------------------------------------------------------
(* The memory of attempts.                                                 *)

IsSequence(s) == \E S : s \in Seq(S)

LEMMA AppendFacts ==
    ASSUME NEW s, IsSequence(s), NEW x
    PROVE  /\ IsSequence(Append(s, x))
           /\ Len(s) \in Nat /\ Len(Append(s, x)) = Len(s) + 1
           /\ DOMAIN s = 1..Len(s) /\ DOMAIN Append(s, x) = 1..(Len(s) + 1)
           /\ Append(s, x)[Len(s) + 1] = x
           /\ \A i \in 1..Len(s) : Append(s, x)[i] = s[i]
  <1>1. PICK S : s \in Seq(S)
      BY DEF IsSequence
  <1>2. s \in Seq(S \cup {x})
      BY <1>1
  <1>3. Append(s, x) \in Seq(S \cup {x})
      BY <1>2
  <1>4. QED  BY <1>2, <1>3 DEF IsSequence

LEMMA TailFacts ==
    ASSUME NEW s, IsSequence(s), Len(s) > 0
    PROVE  /\ IsSequence(Tail(s)) /\ Len(Tail(s)) = Len(s) - 1
           /\ \A i \in 1..(Len(s) - 1) : Tail(s)[i] = s[i + 1]
  <1>1. PICK S : s \in Seq(S)
      BY DEF IsSequence
  <1>2. s # <<>>
      BY <1>1
  <1>3. QED  BY <1>1, <1>2 DEF IsSequence

\* The shape of a fabric, and its ledger.
IsFabric(f) ==
    /\ f = [free |-> f.free, held |-> f.held, table |-> f.table, memory |-> f.memory,
            applied |-> f.applied]
    /\ IsSequence(f.memory) /\ IsSequence(f.applied)
    /\ f.free \in Nat /\ f.table \in Nat /\ f.table <= kMaxAllocationCount
    /\ f.held \subseteq 1..f.table

\* The memory holds the latest attempts, in the order they were applied.
RemembersLatest(f) ==
    /\ Len(f.memory) = IF Len(f.applied) < attempt_memory_capacity THEN Len(f.applied)
                       ELSE attempt_memory_capacity
    /\ \A i \in 1..Len(f.memory) :
          f.memory[i].id = f.applied[Len(f.applied) - Len(f.memory) + i].attempt

Window(f) ==
    \A i, j \in 1..Len(f.applied) :
        i < j /\ f.applied[i].attempt = f.applied[j].attempt =>
            j - i > attempt_memory_capacity

OfEpoch(f, e) == \A i \in 1..Len(f.applied) : f.applied[i].epoch = e

AttemptInv(f, e) == IsFabric(f) /\ RemembersLatest(f) /\ Window(f) /\ OfEpoch(f, e)

LEMMA EmptyRemembers ==
    ASSUME NEW u \in Nat, NEW e
    PROVE  AttemptInv(EmptyFabric(u), e)
  <1>1. <<>> \in Seq({}) /\ Len(<<>>) = 0
      OBVIOUS
  <1>2. IsSequence(<<>>)
      BY <1>1 DEF IsSequence
  <1>3. QED
      BY <1>1, <1>2, AttemptsAssumption
         DEF EmptyFabric, AttemptInv, IsFabric, RemembersLatest, Window, OfEpoch

\* Recording an attempt that is not remembered keeps all of this: the window
\* moves by one.
LEMMA RecordKeeps ==
    ASSUME NEW f, NEW e, AttemptInv(f, e), NEW r, NEW a,
           Remembered(f, r.attempt) = {}, r.epoch = e
    PROVE  AttemptInv(record_attempt(f, r, a), e)
  <1> DEFINE m == [id |-> r.attempt, digest |-> request_digest(r), answer |-> a]
             x == [attempt |-> r.attempt, op |-> r.op, epoch |-> r.epoch,
                   allocation |-> a.allocation]
             n == Len(f.applied)
             k == Len(f.memory)
             long == Append(f.memory, m)
             g == record_attempt(f, r, a)
             cap == attempt_memory_capacity
  <1>1. g = [f EXCEPT !.memory = evict_attempts(long), !.applied = Append(f.applied, x)]
      BY DEF record_attempt
  <1>2. /\ g = [free |-> f.free, held |-> f.held, table |-> f.table,
                memory |-> evict_attempts(long), applied |-> Append(f.applied, x)]
        /\ g.memory = evict_attempts(long) /\ g.applied = Append(f.applied, x)
      BY <1>1, ZenonT(30) DEF AttemptInv, IsFabric
  <1> HIDE DEF g, long, m, x
  <1>3. /\ n \in Nat /\ Len(g.applied) = n + 1 /\ IsSequence(g.applied)
        /\ g.applied[n + 1] = x /\ \A i \in 1..n : g.applied[i] = f.applied[i]
      BY <1>2, AppendFacts DEF AttemptInv, IsFabric
  <1>4. /\ k \in Nat /\ Len(long) = k + 1 /\ IsSequence(long)
        /\ long[k + 1] = m /\ \A i \in 1..k : long[i] = f.memory[i]
      BY AppendFacts DEF AttemptInv, IsFabric, long
  <1>5. k = (IF n < cap THEN n ELSE cap) /\ cap \in Nat \ {0}
      BY AttemptsAssumption DEF AttemptInv, RemembersLatest
  <1>6. \A i \in 1..k : f.memory[i].id = f.applied[n - k + i].attempt
      BY DEF AttemptInv, RemembersLatest
  <1> HIDE DEF n, k, cap
  <1>7. x.attempt = r.attempt /\ x.epoch = e /\ m.id = r.attempt
      BY DEF x, m
  <1>8. \A i \in 1..k : f.applied[n - k + i].attempt # r.attempt
    <2>1. DOMAIN f.memory = 1..k
        BY AppendFacts DEF AttemptInv, IsFabric, k
    <2>2. QED  BY <1>6, <2>1 DEF Remembered
  <1>9. /\ IsSequence(g.memory)
        /\ Len(g.memory) = (IF n + 1 < cap THEN n + 1 ELSE cap)
        /\ \A i \in 1..Len(g.memory) : g.memory[i] = long[k + 1 - Len(g.memory) + i]
    <2>1. CASE k + 1 > cap
      <3>1. g.memory = Tail(long)
          BY <1>2, <1>4, <2>1 DEF evict_attempts, cap
      <3>2. /\ IsSequence(g.memory) /\ Len(g.memory) = k
            /\ \A i \in 1..k : g.memory[i] = long[i + 1]
          BY <1>4, <3>1, TailFacts
      <3>3. QED  BY <1>3, <1>4, <1>5, <2>1, <3>2
    <2>2. CASE ~(k + 1 > cap)
      <3>1. g.memory = long
          BY <1>2, <1>4, <2>2 DEF evict_attempts, cap
      <3>2. QED  BY <1>3, <1>4, <1>5, <2>2, <3>1
    <2>3. QED  BY <2>1, <2>2
  <1>10. IsFabric(g)
      BY <1>2, <1>3, <1>9 DEF AttemptInv, IsFabric
  <1>11. RemembersLatest(g)
    <2>1. ASSUME NEW i \in 1..(k + 1)
          PROVE  long[i].id = g.applied[n - k + i].attempt
      <3>1. CASE i = k + 1
          BY <1>3, <1>4, <1>7, <3>1
      <3>2. CASE i \in 1..k
          BY <1>3, <1>4, <1>5, <1>6, <3>2, SMTT(30)
      <3>3. QED  BY <1>4, <3>1, <3>2
    <2> DEFINE q == Len(g.memory)
    <2>2. q \in Nat /\ q <= k + 1
        BY <1>3, <1>4, <1>5, <1>9
    <2> HIDE DEF q
    <2>3. ASSUME NEW i \in 1..q
          PROVE  g.memory[i].id = g.applied[Len(g.applied) - q + i].attempt
      <3>1. k + 1 - q + i \in 1..(k + 1)
          BY <1>4, <2>2
      <3>2. g.memory[i] = long[k + 1 - q + i]
          BY <1>9 DEF q
      <3>3. n - k + (k + 1 - q + i) = Len(g.applied) - q + i
          BY <1>3, <1>4, <2>2
      <3>4. QED  BY <2>1, <3>1, <3>2, <3>3
    <2>4. Len(g.memory) = IF Len(g.applied) < attempt_memory_capacity
                          THEN Len(g.applied) ELSE attempt_memory_capacity
        BY <1>3, <1>9 DEF cap
    <2>5. \A i \in 1..Len(g.memory) :
              g.memory[i].id = g.applied[Len(g.applied) - Len(g.memory) + i].attempt
        BY <2>3, Zenon DEF q
    <2>6. QED  BY <2>4, <2>5 DEF RemembersLatest
  <1>12. Window(g)
    <2> SUFFICES ASSUME NEW i \in 1..(n + 1), NEW j \in 1..(n + 1), i < j,
                        g.applied[i].attempt = g.applied[j].attempt
                 PROVE  j - i > cap
        BY <1>3 DEF Window, cap
    <2>1. CASE j \in 1..n
      <3>1. \A h, l \in 1..n : h < l /\ f.applied[h].attempt = f.applied[l].attempt
                => l - h > cap
          BY DEF AttemptInv, Window, n, cap
      <3>2. i \in 1..n
          BY <1>3, <2>1
      <3>3. QED  BY <1>3, <2>1, <3>1, <3>2, ZenonT(30)
    <2>2. CASE j = n + 1
      <3>1. i \in 1..n /\ f.applied[i].attempt = r.attempt
          BY <1>3, <1>7, <2>2
      <3>2. i \notin {n - k + h : h \in 1..k}
          BY <1>8, <3>1
      <3>3. i <= n - k
        <4>1. SUFFICES ASSUME i > n - k PROVE FALSE
            BY <1>3, <1>4, <3>1
        <4>2. i - (n - k) \in 1..k /\ i = n - k + (i - (n - k))
            BY <1>3, <1>4, <3>1, <4>1
        <4>3. QED  BY <3>2, <4>2
      <3>4. QED  BY <1>3, <1>5, <2>2, <3>1, <3>3
    <2>3. QED  BY <1>3, <2>1, <2>2
  <1>13. OfEpoch(g, e)
      BY <1>3, <1>7 DEF AttemptInv, OfEpoch, n
  <1>14. QED  BY <1>10, <1>11, <1>12, <1>13 DEF AttemptInv, g

\* A fabric with other units and records.
LEMMA ChangedPool ==
    ASSUME NEW f, f = [free |-> f.free, held |-> f.held, table |-> f.table,
                       memory |-> f.memory, applied |-> f.applied],
           NEW free, NEW held, NEW table, NEW g,
           \/ g = [f EXCEPT !.free = free, !.held = held, !.table = table]
           \/ (g = [f EXCEPT !.free = free, !.held = held] /\ table = f.table)
    PROVE  g = [free |-> free, held |-> held, table |-> table,
                memory |-> f.memory, applied |-> f.applied]
  BY ZenonT(30)

\* What a grant and a release do to the pool does not touch the memory.
LEMMA PoolKeeps ==
    ASSUME NEW f, NEW e, AttemptInv(f, e), NEW free \in Nat, NEW table \in Nat,
           table <= kMaxAllocationCount, NEW held \in SUBSET (1..table), NEW g,
           g = [free |-> free, held |-> held, table |-> table,
                memory |-> f.memory, applied |-> f.applied]
    PROVE  AttemptInv(g, e) /\ g.memory = f.memory
  <1>1. g.memory = f.memory /\ g.applied = f.applied
      OBVIOUS
  <1>2. IsFabric(g)
      BY <1>1 DEF AttemptInv, IsFabric
  <1>3. RemembersLatest(g)
      BY <1>1, Zenon DEF AttemptInv, RemembersLatest
  <1>4. Window(g) /\ OfEpoch(g, e)
      BY <1>1, Zenon DEF AttemptInv, Window, OfEpoch
  <1>5. QED  BY <1>1, <1>2, <1>3, <1>4 DEF AttemptInv

\* An attempt that is neither a conflict nor a replay is not remembered.
LEMMA NewAttempt ==
    ASSUME NEW f, NEW r, ~IsConflict(f, r), ~IsReplay(f, r)
    PROVE  Remembered(f, r.attempt) = {}
  BY DEF IsConflict, IsReplay

LEMMA DecidedKeeps ==
    ASSUME NEW f, NEW e, AttemptInv(f, e), NEW r, NEW a,
           Remembered(f, r.attempt) = {}, r.epoch = e
    PROVE  AttemptInv(Decided(f, r, a).fabric, e)
  BY RecordKeeps DEF Decided

LEMMA AllocateKeeps ==
    ASSUME NEW f, NEW e, AttemptInv(f, e), NEW r, r.epoch = e
    PROVE  AttemptInv(allocate(f, r).fabric, e)
  <1> DEFINE id == f.table + 1
             free == f.free - 1
             held == f.held \cup {id}
             g == [f EXCEPT !.free = free, !.held = held, !.table = id]
  <1>1. CASE \/ f.table >= kMaxAllocationCount \/ IsConflict(f, r) \/ IsReplay(f, r)
      BY <1>1 DEF allocate, Unaffected, Replayed
  <1>2. CASE ~(f.table >= kMaxAllocationCount) /\ ~IsConflict(f, r) /\ ~IsReplay(f, r)
    <2>1. Remembered(f, r.attempt) = {}
        BY <1>2, NewAttempt
    <2>2. CASE f.free = 0
        BY <1>2, <2>1, <2>2, DecidedKeeps DEF allocate
    <2>3. CASE f.free # 0
      <3>1. /\ free \in Nat /\ id \in Nat /\ id <= kMaxAllocationCount
            /\ held \in SUBSET (1..id)
          BY <1>2, <2>3, AttemptsAssumption DEF AttemptInv, IsFabric
      <3> HIDE DEF id, free, held
      <3>2. g = [f EXCEPT !.free = free, !.held = held, !.table = id]
          OBVIOUS
      <3> HIDE DEF g
      <3>3. g = [free |-> free, held |-> held, table |-> id,
                 memory |-> f.memory, applied |-> f.applied]
          BY <3>2, ChangedPool, ZenonT(30) DEF AttemptInv, IsFabric
      <3>4. AttemptInv(g, e) /\ g.memory = f.memory
          BY <3>1, <3>3, PoolKeeps
      <3>5. Remembered(g, r.attempt) = {}
          BY <2>1, <3>4 DEF Remembered
      <3>6. allocate(f, r) = Decided(g, r, Answer("Ok", 1, id))
          BY <1>2, <2>3 DEF allocate, g, id, free, held
      <3>7. QED  BY <3>4, <3>5, <3>6, DecidedKeeps
    <2>4. QED  BY <2>2, <2>3
  <1>3. QED  BY <1>1, <1>2

LEMMA ReleaseKeeps ==
    ASSUME NEW f, NEW e, AttemptInv(f, e), NEW r, r.epoch = e
    PROVE  AttemptInv(release(f, r).fabric, e)
  <1> DEFINE free == f.free + 1
             held == f.held \ {r.allocation}
             table == f.table
             g == [f EXCEPT !.free = free, !.held = held]
  <1>1. CASE \/ IsConflict(f, r) \/ r.allocation \notin 1..f.table \/ IsReplay(f, r)
      BY <1>1 DEF release, Unaffected, Replayed
  <1>2. CASE ~IsConflict(f, r) /\ r.allocation \in 1..f.table /\ ~IsReplay(f, r)
    <2>1. Remembered(f, r.attempt) = {}
        BY <1>2, NewAttempt
    <2>2. CASE r.allocation \notin f.held
        BY <1>2, <2>1, <2>2, DecidedKeeps DEF release
    <2>3. CASE r.allocation \in f.held
      <3>1. /\ free \in Nat /\ table \in Nat /\ table <= kMaxAllocationCount
            /\ held \in SUBSET (1..table)
          BY DEF AttemptInv, IsFabric
      <3> HIDE DEF free, held
      <3>2. g = [free |-> free, held |-> held, table |-> table,
                 memory |-> f.memory, applied |-> f.applied]
          BY ChangedPool, Zenon DEF AttemptInv, IsFabric
      <3> HIDE DEF g, table
      <3>3. AttemptInv(g, e) /\ g.memory = f.memory
          BY <3>1, <3>2, PoolKeeps
      <3>4. Remembered(g, r.attempt) = {}
          BY <2>1, <3>3 DEF Remembered
      <3>5. release(f, r) = Decided(g, r, Answer("Ok", 1, r.allocation))
          BY <1>2, <2>3 DEF release, g, free, held
      <3>6. QED  BY <3>3, <3>4, <3>5, DecidedKeeps
    <2>4. QED  BY <2>2, <2>3
  <1>3. QED  BY <1>1, <1>2

\* Requests are decided one at a time, and only those of this epoch change the
\* fabric.
LEMMA OutcomeKeeps ==
    ASSUME NEW r, AttemptInv(fabric, epoch)
    PROVE  AttemptInv(Outcome(r).fabric, epoch)
  <1>1. CASE ~EpochCurrent(r)
      BY <1>1 DEF Outcome, Unaffected
  <1>2. CASE EpochCurrent(r) /\ r.op = "Allocate"
    <2>1. r.epoch = epoch
        BY <1>2 DEF EpochCurrent
    <2>2. Outcome(r) = allocate(fabric, r)
        BY <1>2 DEF Outcome
    <2>3. QED  BY <2>1, <2>2, AllocateKeeps
  <1>3. CASE EpochCurrent(r) /\ r.op = "Release"
    <2>1. r.epoch = epoch
        BY <1>3 DEF EpochCurrent
    <2>2. Outcome(r) = release(fabric, r)
        BY <1>3 DEF Outcome
    <2>3. QED  BY <2>1, <2>2, ReleaseKeeps
  <1>4. CASE EpochCurrent(r) /\ r.op \notin {"Allocate", "Release"}
      BY <1>4 DEF Outcome, Unaffected
  <1>5. QED  BY <1>1, <1>2, <1>3, <1>4

LEMMA AttemptsStart ==
    ASSUME Init
    PROVE  AttemptInv(fabric, epoch)
  BY EmptyRemembers DEF Init, CoordinatorInit

LEMMA NextKeepsAttempts ==
    ASSUME AttemptInv(fabric, epoch), [Next]_vars
    PROVE  AttemptInv(fabric', epoch')
  <1>1. CASE FabricKept
      BY <1>1 DEF FabricKept
  <1>2. CASE Start
    <2>1. PICK u \in PoolUnits : fabric' = EmptyFabric(u)
        BY <1>2 DEF Start
    <2>2. u \in Nat
        BY <2>1, CoordinatorAssumption
    <2>3. QED  BY <2>1, <2>2, EmptyRemembers
  <1>3. CASE Crash
    <2>1. fabric' = EmptyFabric(0)
        BY <1>3, ZenonT(30) DEF Crash
    <2>2. QED  BY <2>1, EmptyRemembers
  <1>4. ASSUME NEW c \in Connections, Dispatch(c)
        PROVE  AttemptInv(fabric', epoch')
    <2>1. fabric' = Outcome(connection[c].request).fabric /\ epoch' = epoch
        BY <1>4 DEF Dispatch
    <2>2. QED  BY <2>1, OutcomeKeeps
  <1>5. QED  BY <1>1, <1>2, <1>3, <1>4, FabricSteps

\* The memory of attempts in every reachable state: it holds the latest
\* attempts applied, in order, which is why a repeated one is recognised.
Memory == AttemptInv(fabric, epoch)

\* The inductive invariant of the attempts: record_attempt and evict_attempts
\* keep exactly the latest attempts, and dispatch() lets nothing of another
\* epoch reach them.
THEOREM MemoryIsLatest == Spec => []Memory
  <1>1. Init => Memory
      BY AttemptsStart DEF Memory
  <1>2. Memory /\ [Next]_vars => Memory'
      BY NextKeepsAttempts DEF Memory
  <1>3. QED  BY <1>1, <1>2, PTL DEF Spec

LEMMA AppliedDomain == Memory => DOMAIN fabric.applied = 1..Len(fabric.applied)
  BY AppendFacts DEF Memory, AttemptInv, IsFabric

\* For every memory, table, number of workers, connections and restarts, an
\* attempt that lookup_attempt should remember is not applied twice.
THEOREM RetriesRecognised == Spec => []RetryWindow
  <1>1. Memory => RetryWindow
      BY AppliedDomain, Zenon DEF Memory, AttemptInv, Window, RetryWindow
  <1>2. QED  BY <1>1, MemoryIsLatest, PTL

\* For every number of restarts, nothing is applied for another epoch than the
\* one that dispatch() compares with.
THEOREM EpochsFenced == Spec => []EpochFenced
  <1>1. Memory => EpochFenced
      BY AppliedDomain, Zenon DEF Memory, AttemptInv, OfEpoch, EpochFenced
  <1>2. QED  BY <1>1, MemoryIsLatest, PTL
-----------------------------------------------------------------------------
(* Threads and sessions.                                                   *)

MainPlaces == {"down", "serving", "listener", "sweep", "join_accept", "join_sessions",
               "close", "stopped"}
SessionPlaces == {"none", "check", "receive", "send", "send_last", "ended"}

Places ==
    /\ epoch \in 0..MaxStarts
    /\ main \in MainPlaces
    /\ acceptor \in {"none", "accept", "admit", "ended"}
    /\ accepted \in Connections \cup {NoConnection}
    /\ acceptor = "admit" => accepted \in Connections
    /\ session \in [Connections -> SessionPlaces]

\* Every session that runs is counted: its socket is in clients_.
Counted ==
    /\ clients \subseteq Connections /\ Running \subseteq clients
    /\ Cardinality(clients) <= max_clients

\* Where the main thread is says which threads it has waited for.
Joined ==
    /\ main \in {"join_sessions", "close", "stopped", "down"} => acceptor \in {"none", "ended"}
    /\ main \in {"close", "stopped", "down"} => Running = {}
    /\ ~fabric_open => main \in {"stopped", "down"}

\* What the threads of the coordinator keep true.
ThreadInv == Places /\ Counted /\ Joined

LEMMA NoClients == IsFiniteSet({}) /\ Cardinality({}) = 0
  BY FS_EmptySet

LEMMA ThreadsStart ==
    ASSUME Init
    PROVE  ThreadInv
  <1>1. Running = {}
      BY DEF Init, CoordinatorInit, Running
  <1>2. QED
      BY <1>1, NoClients, CoordinatorAssumption
         DEF Init, CoordinatorInit, ThreadInv, Places, Counted, Joined, MainPlaces,
             SessionPlaces, NoConnection

\* What main and the sessions do to the rest of the invariant.
LEMMA RunningKept ==
    ASSUME session' = session
    PROVE  Running' = Running
  BY DEF Running, Connections

\* A session that goes on, or ends, adds no thread.
LEMMA RunningShrinks ==
    ASSUME NEW c \in Connections, session \in [Connections -> SessionPlaces],
           session[c] \notin {"none", "ended"},
           NEW place \in SessionPlaces, session' = [session EXCEPT ![c] = place]
    PROVE  /\ Running' \subseteq Running /\ c \in Running
           /\ session' \in [Connections -> SessionPlaces]
  BY DEF Running, Connections

\* Sockets stay, or all are dropped when no session is left.
LEMMA CountedAfter ==
    ASSUME Counted, Running' \subseteq Running,
           clients' = clients \/ (clients' = {} /\ Running' = {})
    PROVE  Counted'
  <1>1. CASE clients' = clients
    <2>1. Cardinality(clients)' = Cardinality(clients)
        BY <1>1
    <2>2. QED  BY <1>1, <2>1 DEF Counted, Connections
  <1>2. CASE clients' = {} /\ Running' = {}
    <2>1. Cardinality(clients)' = 0
        BY <1>2, NoClients
    <2>2. QED  BY <1>2, <2>1, CoordinatorAssumption DEF Counted, Connections
  <1>3. QED  BY <1>1, <1>2

LEMMA MainKeeps ==
    ASSUME ThreadInv, MainStep \/ RequestShutdown
    PROVE  ThreadInv'
  <1>1. Running' = Running
      BY RunningKept DEF MainStep, RequestShutdown, CloseListener, ShutdownClients,
                         JoinAccept, JoinSessions, CloseFabric
  <1>2. Places'
      BY DEF ThreadInv, Places, MainStep, RequestShutdown, CloseListener, ShutdownClients,
             JoinAccept, JoinSessions, CloseFabric, MainPlaces, SessionPlaces, Connections
  <1>3. clients' = clients \/ (clients' = {} /\ Running = {})
      BY Zenon DEF MainStep, RequestShutdown, CloseListener, ShutdownClients, JoinAccept,
                   JoinSessions, CloseFabric
  <1>4. Counted'
    <2>1. clients' = clients \/ (clients' = {} /\ Running' = {})
        BY <1>1, <1>3
    <2>2. QED  BY <1>1, <2>1, CountedAfter DEF ThreadInv
  <1>5. Joined'
      BY <1>1 DEF ThreadInv, Joined, MainStep, RequestShutdown, CloseListener,
                  ShutdownClients, JoinAccept, JoinSessions, CloseFabric
  <1>6. QED  BY <1>2, <1>4, <1>5 DEF ThreadInv

LEMMA RestartKeeps ==
    ASSUME ThreadInv, Start \/ Crash
    PROVE  ThreadInv'
  <1>1. Running' = {}
      BY ZenonT(30) DEF Start, Crash, Running, Connections
  <1>2. Places'
    <2>1. epoch' \in 0..MaxStarts
      <3>1. MaxStarts \in Nat /\ epoch \in 0..MaxStarts
          BY CoordinatorAssumption DEF ThreadInv, Places
      <3>2. epoch' = epoch \/ (epoch' \in {epoch + 1, 1} /\ epoch < MaxStarts)
          BY Zenon DEF Start, Crash
      <3>3. QED  BY <3>1, <3>2
    <2>2. /\ main' \in MainPlaces /\ acceptor' \in {"none", "accept"}
          /\ accepted' = NoConnection
        BY ZenonT(30) DEF Start, Crash, MainPlaces
    <2>3. session' \in [Connections -> SessionPlaces]
        BY ZenonT(30) DEF Start, Crash, SessionPlaces
    <2>4. QED  BY <2>1, <2>2, <2>3 DEF Places, Connections, NoConnection
  <1>3. Counted'
      BY <1>1, CountedAfter, ZenonT(30) DEF ThreadInv, Start, Crash
  <1>4. Joined'
      BY <1>1, ZenonT(30) DEF Joined, Start, Crash
  <1>5. QED  BY <1>2, <1>3, <1>4 DEF ThreadInv

\* Admitting a peer adds one socket and one thread, below the bound.
LEMMA AdmitKeeps ==
    ASSUME ThreadInv, Admit
    PROVE  ThreadInv'
  <1>1. /\ accepted \in Connections /\ accepted' = NoConnection
        /\ acceptor' \in {"ended", "accept"}
        /\ epoch' = epoch /\ main' = main /\ fabric_open' = fabric_open
        /\ acceptor = "admit"
      BY DEF ThreadInv, Places, Admit, AcceptAgain
  <1>2. main \notin {"join_sessions", "close", "stopped", "down"} /\ fabric_open
      BY <1>1 DEF ThreadInv, Joined
  <1>3. /\ session' \in [Connections -> SessionPlaces]
        /\ Running' \subseteq Running \cup {accepted}
      BY <1>1, ZenonT(30) DEF ThreadInv, Places, Admit, Running, SessionPlaces, Connections
  <1>4. Places'
      BY <1>1, <1>3 DEF ThreadInv, Places, Connections
  <1>5. Joined'
      BY <1>1, <1>2 DEF Joined
  <1>6. Counted'
    <2>1. CASE AtCapacity
      <3>1. clients' = clients /\ session' = session
          BY <2>1 DEF Admit
      <3>2. QED  BY <3>1, RunningKept, CountedAfter DEF ThreadInv
    <2>2. CASE ~AtCapacity
      <3>1. clients' = clients \cup {accepted}
          BY <2>2 DEF Admit
      <3>2. IsFiniteSet(clients) /\ Cardinality(clients) \in Nat
        <4>1. IsFiniteSet(Connections)
            BY FS_Interval, CoordinatorAssumption DEF Connections
        <4>2. IsFiniteSet(clients)
            BY <4>1, FS_Subset DEF ThreadInv, Counted
        <4>3. QED  BY <4>2, FS_CardinalityType
      <3>3. Cardinality(clients) < max_clients
          BY <2>2, <3>2, CoordinatorAssumption DEF AtCapacity
      <3>4. Cardinality(clients \cup {accepted}) <= Cardinality(clients) + 1
        <4>1. \/ Cardinality(clients \cup {accepted}) = Cardinality(clients)
              \/ Cardinality(clients \cup {accepted}) = Cardinality(clients) + 1
            BY <3>2, FS_AddElement, Zenon
        <4>2. QED  BY <3>2, <4>1
      <3>5. Cardinality(clients \cup {accepted}) \in Nat
          BY <3>2, FS_AddElement, FS_CardinalityType
      <3>6. Cardinality(clients \cup {accepted}) <= max_clients
          BY <3>2, <3>3, <3>4, <3>5, CoordinatorAssumption
      <3>7. QED  BY <1>1, <1>3, <3>1, <3>6 DEF ThreadInv, Counted, Connections
    <2>3. QED  BY <2>1, <2>2
  <1>7. QED  BY <1>4, <1>5, <1>6 DEF ThreadInv

LEMMA AcceptKeeps ==
    ASSUME ThreadInv, AcceptFails \/ \E c \in Connections : AcceptPeer(c)
    PROVE  ThreadInv'
  <1>1. /\ acceptor = "accept" /\ acceptor' \in {"accept", "admit", "ended"}
        /\ acceptor' = "admit" => accepted' \in Connections
        /\ accepted' \in Connections \cup {accepted}
        /\ epoch' = epoch /\ main' = main /\ fabric_open' = fabric_open
        /\ session' = session /\ clients' = clients
      BY DEF AcceptFails, AcceptPeer, AcceptAgain
  <1>2. Running' = Running
      BY <1>1, RunningKept
  <1>3. Places'
      BY <1>1 DEF ThreadInv, Places, Connections
  <1>4. Counted'
      BY <1>1, <1>2, CountedAfter DEF ThreadInv
  <1>5. Joined'
      BY <1>1, <1>2 DEF ThreadInv, Joined
  <1>6. QED  BY <1>3, <1>4, <1>5 DEF ThreadInv

LEMMA SessionKeeps ==
    ASSUME ThreadInv, NEW c \in Connections, SessionStep(c)
    PROVE  ThreadInv'
  <1>1. /\ session[c] \notin {"none", "ended"}
        /\ \E place \in SessionPlaces : session' = [session EXCEPT ![c] = place]
      BY DEF SessionStep, SessionCheck, ReceiveFails, Dispatch, Send, End, SessionPlaces
  <1>2. UNCHANGED <<epoch, main, acceptor, accepted, clients, fabric_open>>
      BY DEF SessionStep, SessionCheck, ReceiveFails, Dispatch, Send
  <1>3. /\ Running' \subseteq Running /\ c \in Running
        /\ session' \in [Connections -> SessionPlaces]
      BY <1>1, RunningShrinks, ZenonT(30) DEF ThreadInv, Places
  <1>4. Places'
      BY <1>2, <1>3 DEF ThreadInv, Places, Connections
  <1>5. Counted'
      BY <1>2, <1>3, CountedAfter DEF ThreadInv
  <1>6. Joined'
      BY <1>2, <1>3 DEF ThreadInv, Joined
  <1>7. QED  BY <1>4, <1>5, <1>6 DEF ThreadInv

\* Clients touch no thread of the coordinator.
LEMMA ClientsKeep ==
    ASSUME ThreadInv, UNCHANGED coordinator
    PROVE  ThreadInv'
  <1>1. UNCHANGED <<epoch, main, acceptor, accepted, session, clients, fabric_open>>
      BY DEF coordinator, threads
  <1>2. Running' = Running
      BY <1>1, RunningKept
  <1>3. Places'
      BY <1>1 DEF ThreadInv, Places, Connections
  <1>4. Counted'
      BY <1>1, <1>2, CountedAfter DEF ThreadInv
  <1>5. Joined'
      BY <1>1, <1>2 DEF ThreadInv, Joined
  <1>6. QED  BY <1>3, <1>4, <1>5 DEF ThreadInv

LEMMA NextKeepsThreads ==
    ASSUME ThreadInv, [Next]_vars
    PROVE  ThreadInv'
  <1>1. CASE CoordinatorNext
      BY <1>1, MainKeeps, RestartKeeps, AcceptKeeps, AdmitKeeps, SessionKeeps
         DEF CoordinatorNext, AcceptStep
  <1>2. CASE UNCHANGED coordinator
      BY <1>2, ClientsKeep
  <1>3. QED
      BY <1>1, <1>2, ZenonT(30) DEF Next, vars, OtherClient, RunWorker, SendRequest, LoseConnection,
                        ReceiveReply

\* The inductive invariant of the threads: what stop() has waited for, and that
\* clients_ counts every session.
THEOREM ThreadsJoined == Spec => []ThreadInv
  <1>1. Init => ThreadInv
      BY ThreadsStart
  <1>2. ThreadInv /\ [Next]_vars => ThreadInv'
      BY NextKeepsThreads
  <1>3. QED  BY <1>1, <1>2, PTL DEF Spec

\* For any number of connections and any max_clients, the accept loop starts no
\* session beyond the bound.
THEOREM SessionBound == Spec => []SessionsBounded
  <1>1. ThreadInv => SessionsBounded
    <2> SUFFICES ASSUME ThreadInv PROVE Cardinality(Running) <= max_clients
        BY DEF SessionsBounded
    <2>1. IsFiniteSet(Connections)
        BY FS_Interval, CoordinatorAssumption DEF Connections
    <2>2. IsFiniteSet(clients)
        BY <2>1, FS_Subset DEF ThreadInv, Counted
    <2>3. IsFiniteSet(Running) /\ Cardinality(Running) <= Cardinality(clients)
        BY <2>2, FS_Subset DEF ThreadInv, Counted
    <2>4. Cardinality(Running) \in Nat /\ Cardinality(clients) \in Nat
        BY <2>2, <2>3, FS_CardinalityType
    <2>5. QED
        BY <2>3, <2>4, CoordinatorAssumption DEF ThreadInv, Counted
  <1>2. QED  BY <1>1, ThreadsJoined, PTL

\* stop() closes the fabric only when no thread is left that could call it.
THEOREM FabricClosedLast == Spec => []FabricOutlivesSessions
  <1>1. ThreadInv => FabricOutlivesSessions
      BY DEF ThreadInv, Joined, FabricOutlivesSessions
  <1>2. QED  BY <1>1, ThreadsJoined, PTL

\* The service is well typed; in particular the free units never go below zero.
THEOREM ServiceTyped == Spec => []TypeOK
  <1>1. ThreadInv /\ Memory => TypeOK
    <2> SUFFICES ASSUME ThreadInv, Memory PROVE TypeOK
        OBVIOUS
    <2>1. fabric.free \in Nat /\ fabric.held \subseteq 1..fabric.table
          /\ fabric.table <= kMaxAllocationCount
        BY DEF Memory, AttemptInv, IsFabric
    <2>2. QED
        BY <2>1 DEF ThreadInv, Places, Counted, MainPlaces, SessionPlaces, TypeOK
  <1>2. QED  BY <1>1, ThreadsJoined, MemoryIsLatest, PTL
-----------------------------------------------------------------------------
(* Connections and runs.                                                   *)

IsEnd(x) == x = [server |-> x.server, peer |-> x.peer, request |-> x.request,
                 reply |-> x.reply]

IsRun(x) ==
    x = [at |-> x.at, connection |-> x.connection, sent |-> x.sent,
         expected |-> x.expected, epoch |-> x.epoch, attempt |-> x.attempt,
         done |-> x.done, allocation |-> x.allocation]

Records ==
    /\ connection = [c \in Connections |-> connection[c]]
    /\ \A c \in Connections : IsEnd(connection[c])
    /\ reply = [c \in Connections |-> reply[c]]
    /\ session = [c \in Connections |-> session[c]]
    /\ worker = [w \in Workers |-> worker[w]]
    /\ \A w \in Workers : IsRun(worker[w])

Used(x) == x.server # "unused"
Sending(place) == place \in {"send", "send_last"}
Good(r) == r # NoMessage /\ r.answer.status \in {"Ok", "Refused"}

\* Connections in use come first, and only they have sessions.
Sockets ==
    /\ \E k \in 0..MaxConnections : \A c \in Connections : Used(connection[c]) <=> c <= k
    /\ \A c \in Connections :
          ~Used(connection[c]) => connection[c] = Unused /\ session[c] = "none" /\ c \notin clients
    /\ acceptor = "admit" => accepted \in Connections /\ Used(connection[accepted])

Wiring == Records /\ Sockets

\* What closing, shutting or turning away does to one end x of a connection.
Kept(x, y) ==
    /\ IsEnd(y)
    /\ Used(x) <=> Used(y)
    /\ Used(x) \/ y = x
    /\ y.request \in {x.request, NoMessage}
    /\ \/ y.reply = x.reply
       \/ y.reply.epoch = NoEpoch /\ ~Good(y.reply)

\* Steps of the coordinator that take no request, send no reply and leave the
\* fabric alone.
Quiet ==
    /\ UNCHANGED <<epoch, fabric, worker, reply>>
    /\ (main' = "down") <=> (main = "down")
    /\ connection' = [c \in Connections |-> connection'[c]]
    /\ session' = [c \in Connections |-> session'[c]]
    /\ \A c \in Connections :
          /\ Kept(connection[c], connection'[c])
          /\ Sending(session'[c]) => Sending(session[c])
          /\ ~Used(connection[c]) => session'[c] = "none" /\ c \notin clients'
    /\ acceptor' = "admit" => accepted' \in Connections /\ Used(connection[accepted'])

\* The fields of an end after an assignment to one of them.
LEMMA EndFields ==
    ASSUME NEW s, NEW p, NEW q, NEW r, NEW x,
           x = [server |-> s, peer |-> p, request |-> q, reply |-> r]
    PROVE  IsEnd(x) /\ x.server = s /\ x.peer = p /\ x.request = q /\ x.reply = r
  BY DEF IsEnd

LEMMA EndEdits ==
    ASSUME NEW x, IsEnd(x), NEW v
    PROVE  /\ [x EXCEPT !.server = v] =
                [server |-> v, peer |-> x.peer, request |-> x.request, reply |-> x.reply]
           /\ [x EXCEPT !.request = v] =
                [server |-> x.server, peer |-> x.peer, request |-> v, reply |-> x.reply]
           /\ [x EXCEPT !.reply = v] =
                [server |-> x.server, peer |-> x.peer, request |-> x.request, reply |-> v]
  BY DEF IsEnd

\* Shutting an end, and the edits that leave the server's end alone.
LEMMA EndShut ==
    ASSUME NEW x, IsEnd(x)
    PROVE  [x EXCEPT !.server = "shut"].server = "shut"
  BY ZenonT(30) DEF IsEnd

LEMMA EndServer ==
    ASSUME NEW x, IsEnd(x), NEW y, NEW p, NEW v,
           \/ y = [x EXCEPT !.request = v]
           \/ y = [x EXCEPT !.reply = v]
           \/ y = [x EXCEPT !.peer = p, !.reply = v]
    PROVE  y.server = x.server
  <1>1. ASSUME y = [x EXCEPT !.request = v] PROVE y.server = x.server
      BY <1>1, ZenonT(30) DEF IsEnd
  <1>2. ASSUME y = [x EXCEPT !.reply = v] PROVE y.server = x.server
      BY <1>2, ZenonT(30) DEF IsEnd
  <1>3. ASSUME y = [x EXCEPT !.peer = p, !.reply = v] PROVE y.server = x.server
      BY <1>3, ZenonT(30) DEF IsEnd
  <1>4. QED  BY <1>1, <1>2, <1>3, Zenon

AreEnds(C, f) == f = [c \in C |-> f[c]] /\ \A c \in C : IsEnd(f[c])

\* One end among those of f is edited so.
Edited(f, g) ==
    \E k, p, v :
       \/ g = [f EXCEPT ![k].request = v]
       \/ g = [f EXCEPT ![k].reply = v]
       \/ g = [f EXCEPT ![k] = [@ EXCEPT !.peer = p, !.reply = v]]

LEMMA EditedServers ==
    ASSUME NEW C, NEW f, AreEnds(C, f), NEW g, Edited(f, g)
    PROVE  \A c \in C : g[c].server = f[c].server
  <1> SUFFICES ASSUME NEW c \in C PROVE g[c].server = f[c].server
      OBVIOUS
  <1>1. PICK k, p, v : \/ g = [f EXCEPT ![k].request = v]
                       \/ g = [f EXCEPT ![k].reply = v]
                       \/ g = [f EXCEPT ![k] = [@ EXCEPT !.peer = p, !.reply = v]]
      BY Zenon DEF Edited
  <1> DEFINE x == f[c]
             y == g[c]
  <1>2. \/ y = x
        \/ y = [x EXCEPT !.request = v]
        \/ y = [x EXCEPT !.reply = v]
        \/ y = [x EXCEPT !.peer = p, !.reply = v]
      BY <1>1, ZenonT(30) DEF AreEnds
  <1>3. IsEnd(x)
      BY DEF AreEnds
  <1> HIDE DEF x, y
  <1>4. y.server = x.server
      BY <1>2, <1>3, EndServer, ZenonT(30)
  <1>5. QED  BY <1>4 DEF x, y

LEMMA ClosedEnd ==
    ASSUME NEW x, IsEnd(x)
    PROVE  /\ IsEnd(Closed(x)) /\ Closed(x).server = "shut" /\ Closed(x).peer = x.peer
           /\ Closed(x).request = NoMessage /\ Closed(x).reply = x.reply
  <1> DEFINE y == Closed(x)
  <1>1. y = [x EXCEPT !.server = "shut", !.request = NoMessage]
      BY DEF Closed
  <1> HIDE DEF y
  <1>2. y = [server |-> "shut", peer |-> x.peer, request |-> NoMessage, reply |-> x.reply]
      BY <1>1, ZenonT(30) DEF IsEnd
  <1>3. QED  BY <1>2, EndFields DEF y

LEMMA KeptEnd ==
    ASSUME NEW x, IsEnd(x)
    PROVE  /\ Kept(x, x)
           /\ Used(x) => Kept(x, Closed(x)) /\ Kept(x, [x EXCEPT !.server = "shut"])
                         /\ Kept(x, [x EXCEPT !.server = "up"])
  <1>1. Kept(x, x)
      BY DEF Kept
  <1>2. ASSUME NEW y, IsEnd(y), y.server # "unused", Used(x),
               y.request \in {x.request, NoMessage}, y.reply = x.reply
        PROVE  Kept(x, y)
      BY <1>2 DEF Kept, Used
  <1>3. ASSUME NEW v, v # "unused", Used(x)
        PROVE  Kept(x, [x EXCEPT !.server = v])
    <2> DEFINE y == [x EXCEPT !.server = v]
    <2>1. y = [server |-> v, peer |-> x.peer, request |-> x.request, reply |-> x.reply]
        BY EndEdits, ZenonT(30)
    <2> HIDE DEF y
    <2>2. Kept(x, y)
        BY <1>2, <1>3, <2>1, EndFields
    <2>3. QED  BY <2>2 DEF y
  <1>4. Used(x) => Kept(x, Closed(x))
      BY <1>2, ClosedEnd
  <1>5. QED  BY <1>1, <1>3, <1>4

LEMMA KeptRefused ==
    ASSUME NEW x, IsEnd(x), Used(x), NEW r, r.epoch = NoEpoch, ~Good(r)
    PROVE  Kept(x, [Closed(x) EXCEPT !.reply = r])
  <1> DEFINE c == Closed(x)
             y == [c EXCEPT !.reply = r]
  <1>1. IsEnd(c) /\ c.server = "shut" /\ c.request = NoMessage
      BY ClosedEnd
  <1> HIDE DEF c
  <1>2. y = [server |-> "shut", peer |-> c.peer, request |-> NoMessage, reply |-> r]
      BY <1>1, EndEdits, ZenonT(30)
  <1> HIDE DEF y
  <1>3. IsEnd(y) /\ y.server = "shut" /\ y.request = NoMessage /\ y.reply = r
      BY <1>2, EndFields
  <1>4. Kept(x, y)
      BY <1>3 DEF Kept, Used
  <1>5. QED  BY <1>4 DEF y, c

LEMMA MainIsQuiet ==
    ASSUME Wiring, RequestShutdown \/ MainStep, UNCHANGED worker
    PROVE  Quiet
  <1>1. CASE RequestShutdown \/ JoinAccept \/ JoinSessions \/ CloseFabric
    <2>1. UNCHANGED <<epoch, fabric, worker, reply, connection, session, acceptor, accepted>>
          /\ main # "down" /\ main' # "down" /\ clients' \subseteq clients
        BY <1>1 DEF RequestShutdown, JoinAccept, JoinSessions, CloseFabric
    <2>2. QED  BY <2>1, KeptEnd, ZenonT(30) DEF Quiet, Wiring, Records, Sockets
  <1>2. CASE CloseListener
    <2>1. UNCHANGED <<epoch, fabric, worker, reply, session, acceptor, accepted, clients>>
          /\ main # "down" /\ main' # "down" /\ Close(Backlog)
        BY <1>2 DEF CloseListener
    <2>2. ASSUME NEW c \in Connections
          PROVE  Kept(connection[c], connection'[c])
      <3>1. IsEnd(connection[c]) /\ (c \in Backlog => Used(connection[c]))
          BY DEF Wiring, Records, Backlog, Used
      <3>2. connection'[c] \in {connection[c], Closed(connection[c])}
            /\ (c \notin Backlog => connection'[c] = connection[c])
          BY <2>1 DEF Close
      <3>3. QED  BY <3>1, <3>2, KeptEnd, ZenonT(30)
    <2>3. connection' = [c \in Connections |-> connection'[c]]
        BY <2>1 DEF Close
    <2>4. QED  BY <2>1, <2>2, <2>3 DEF Quiet, Wiring, Records, Sockets
  <1>3. CASE ShutdownClients
    <2>1. UNCHANGED <<epoch, fabric, worker, reply, session, acceptor, accepted, clients>>
          /\ main # "down" /\ main' # "down" /\ Shut(clients)
        BY <1>3 DEF ShutdownClients
    <2>2. ASSUME NEW c \in Connections
          PROVE  Kept(connection[c], connection'[c])
      <3>1. IsEnd(connection[c]) /\ (c \in clients => Used(connection[c]))
          BY DEF Wiring, Records, Sockets
      <3>2. connection'[c] = IF c \in clients THEN [connection[c] EXCEPT !.server = "shut"]
                             ELSE connection[c]
          BY <2>1 DEF Shut
      <3>3. QED  BY <3>1, <3>2, KeptEnd, ZenonT(30)
    <2>3. connection' = [c \in Connections |-> connection'[c]]
        BY <2>1 DEF Shut
    <2>4. QED  BY <2>1, <2>2, <2>3 DEF Quiet, Wiring, Records, Sockets
  <1>4. QED  BY <1>1, <1>2, <1>3 DEF MainStep

LEMMA AcceptIsQuiet ==
    ASSUME ThreadInv, Wiring, AcceptStep, UNCHANGED worker
    PROVE  Quiet
  <1>0. \A c \in Connections : IsEnd(connection[c]) /\ (c \in Backlog => Used(connection[c]))
      BY DEF Wiring, Records, Backlog, Used
  <1>1. CASE AcceptFails
    <2>1. UNCHANGED <<epoch, fabric, worker, reply, session, accepted, clients, main>>
          /\ acceptor' # "admit" /\ (UNCHANGED connection \/ \E c \in Backlog : Close({c}))
        BY <1>1 DEF AcceptFails, AcceptAgain
    <2>2. ASSUME NEW c \in Connections
          PROVE  Kept(connection[c], connection'[c])
      <3>1. \/ connection'[c] = connection[c]
            \/ c \in Backlog /\ connection'[c] = Closed(connection[c])
          BY <2>1 DEF Close
      <3>2. QED  BY <1>0, <3>1, KeptEnd, ZenonT(30)
    <2>3. connection' = [c \in Connections |-> connection'[c]]
        BY <2>1 DEF Close, Wiring, Records
    <2>4. QED  BY <2>1, <2>2, <2>3 DEF Quiet, Wiring, Records, Sockets
  <1>2. ASSUME NEW c \in Connections, AcceptPeer(c)
        PROVE  Quiet
    <2>1. UNCHANGED <<epoch, fabric, worker, reply, session, clients, main>>
          /\ accepted' = c /\ c \in Backlog
          /\ connection' = [connection EXCEPT ![c].server = "up"]
        BY <1>2 DEF AcceptPeer
    <2>2. ASSUME NEW d \in Connections
          PROVE  Kept(connection[d], connection'[d])
      <3>1. connection'[d] = IF d = c THEN [connection[d] EXCEPT !.server = "up"]
                             ELSE connection[d]
          BY <2>1 DEF Wiring, Records
      <3>2. QED  BY <1>0, <2>1, <3>1, KeptEnd, ZenonT(30)
    <2>3. connection' = [d \in Connections |-> connection'[d]]
        BY <2>1 DEF Wiring, Records
    <2>4. QED  BY <1>0, <2>1, <2>2, <2>3 DEF Quiet, Wiring, Records, Sockets
  <1>3. CASE Admit
    <2>1. UNCHANGED <<epoch, fabric, worker, reply, main>>
          /\ acceptor' # "admit" /\ accepted \in Connections /\ Used(connection[accepted])
        BY <1>3 DEF Admit, AcceptAgain, Wiring, Sockets
    <2> DEFINE r == [op |-> "HelloAck", epoch |-> NoEpoch,
                     answer |-> Answer("BoundedResourceExhausted", 0, NoAllocation)]
    <2>2. r.epoch = NoEpoch /\ ~Good(r)
        BY DEF Good, Answer
    <2>3. CASE AtCapacity
      <3>1. /\ UNCHANGED <<clients, session>>
            /\ connection' = [connection EXCEPT ![accepted] = [Closed(@) EXCEPT !.reply = r]]
          BY <1>3, <2>3 DEF Admit
      <3> HIDE DEF r
      <3>2. ASSUME NEW d \in Connections
            PROVE  Kept(connection[d], connection'[d])
        <4>1. connection'[d] = IF d = accepted
                               THEN [Closed(connection[d]) EXCEPT !.reply = r]
                               ELSE connection[d]
            BY <3>1 DEF Wiring, Records
        <4>2. CASE d = accepted
            BY <1>0, <2>1, <2>2, <4>1, <4>2, KeptRefused
        <4>3. CASE d # accepted
            BY <1>0, <4>1, <4>3, KeptEnd, ZenonT(30)
        <4>4. QED  BY <4>2, <4>3
      <3>3. connection' = [d \in Connections |-> connection'[d]]
          BY <3>1 DEF Wiring, Records
      <3>4. QED  BY <2>1, <3>1, <3>2, <3>3 DEF Quiet, Wiring, Records, Sockets
    <2>4. CASE ~AtCapacity
      <3>1. /\ clients' = clients \cup {accepted} /\ UNCHANGED connection
            /\ session' = [session EXCEPT ![accepted] = "check"]
          BY <1>3, <2>4 DEF Admit
      <3>2. /\ session' = [d \in Connections |-> session'[d]]
            /\ \A d \in Connections : session'[d] = IF d = accepted THEN "check" ELSE session[d]
          BY <3>1 DEF Wiring, Records
      <3>3. \A d \in Connections : Kept(connection[d], connection'[d])
          BY <1>0, <3>1, KeptEnd, ZenonT(30)
      <3>4. QED  BY <2>1, <3>1, <3>2, <3>3 DEF Quiet, Wiring, Records, Sockets, Sending
    <2>5. QED  BY <2>3, <2>4
  <1>4. QED  BY <1>1, <1>2, <1>3 DEF AcceptStep

LEMMA SessionIsQuiet ==
    ASSUME Wiring, NEW c \in Connections, SessionCheck(c) \/ ReceiveFails(c), UNCHANGED worker
    PROVE  Quiet
  <1>0. \A d \in Connections : IsEnd(connection[d])
      BY DEF Wiring, Records
  <1>1. /\ UNCHANGED <<epoch, fabric, worker, reply, main, acceptor, accepted, clients>>
        /\ session[c] # "none"
        /\ \E p \in {"ended", "receive"} : session' = [session EXCEPT ![c] = p]
        /\ UNCHANGED connection \/ Close({c})
      BY DEF SessionCheck, ReceiveFails, End
  <1>2. Used(connection[c])
      BY <1>1 DEF Wiring, Sockets
  <1>3. ASSUME NEW d \in Connections
        PROVE  Kept(connection[d], connection'[d])
    <2>1. \/ connection'[d] = connection[d]
          \/ d = c /\ connection'[d] = Closed(connection[d])
        BY <1>1 DEF Close
    <2>2. QED  BY <1>0, <1>2, <2>1, KeptEnd, ZenonT(30)
  <1>4. connection' = [d \in Connections |-> connection'[d]]
      BY <1>1 DEF Close, Wiring, Records
  <1>5. /\ session' = [d \in Connections |-> session'[d]]
        /\ \A d \in Connections : session'[d] = session[d]
                                  \/ (d = c /\ session'[d] \in {"ended", "receive"})
      BY <1>1 DEF Wiring, Records
  <1>6. QED  BY <1>1, <1>2, <1>3, <1>4, <1>5 DEF Quiet, Wiring, Records, Sockets, Sending

\* Steps that open no connection.
Rewired ==
    /\ connection' = [c \in Connections |-> connection'[c]]
    /\ session' = [c \in Connections |-> session'[c]]
    /\ reply' = [c \in Connections |-> reply'[c]]
    /\ worker' = [w \in Workers |-> worker'[w]]
    /\ \A w \in Workers : IsRun(worker'[w])
    /\ \A c \in Connections :
          /\ IsEnd(connection'[c])
          /\ Used(connection'[c]) <=> Used(connection[c])
          /\ Used(connection[c]) \/ connection'[c] = connection[c]
          /\ ~Used(connection[c]) => session'[c] = "none" /\ c \notin clients'
    /\ acceptor' = "admit" => accepted' \in Connections /\ Used(connection[accepted'])

LEMMA RewiredWiring ==
    ASSUME Wiring, Rewired
    PROVE  Wiring'
  <1>1. Records'
      BY DEF Rewired, Records, Connections
  <1>2. Sockets'
    <2>1. \A c \in Connections : Used(connection'[c]) <=> Used(connection[c])
        BY DEF Rewired
    <2>2. PICK k \in 0..MaxConnections :
             \A c \in Connections : Used(connection[c]) <=> c <= k
        BY DEF Wiring, Sockets
    <2>3. \A c \in Connections : Used(connection'[c]) <=> c <= k
        BY <2>1, <2>2
    <2>4. \A c \in Connections : ~Used(connection'[c]) =>
             connection'[c] = Unused /\ session'[c] = "none" /\ c \notin clients'
        BY <2>1 DEF Rewired, Wiring, Sockets
    <2>5. acceptor' = "admit" => accepted' \in Connections /\ Used(connection'[accepted'])
        BY <2>1 DEF Rewired
    <2>6. QED  BY <2>3, <2>4, <2>5 DEF Sockets, Connections
  <1>3. QED  BY <1>1, <1>2 DEF Wiring

LEMMA QuietRewired ==
    ASSUME Wiring, Quiet
    PROVE  Rewired
  BY DEF Wiring, Records, Quiet, Kept, Rewired

\* What dispatch() does to connections and sessions.
LEMMA DispatchWires ==
    ASSUME Wiring, NEW c \in Connections, Dispatch(c), UNCHANGED worker
    PROVE  /\ Rewired
           /\ connection[c].request # NoMessage /\ connection'[c].request = NoMessage
           /\ ~Sending(session[c])
           /\ \A d \in Connections :
                 /\ connection'[d].request \in {connection[d].request, NoMessage}
                 /\ connection'[d].reply = connection[d].reply
                 /\ d # c => session'[d] = session[d] /\ reply'[d] = reply[d]
           /\ reply'[c].epoch = epoch
           /\ reply'[c].answer = Outcome(connection[c].request).answer
           /\ UNCHANGED <<epoch, main>>
           /\ fabric' = Outcome(connection[c].request).fabric
  <1>1. /\ UNCHANGED <<epoch, main, acceptor, accepted, clients, worker>>
        /\ session[c] = "receive" /\ connection[c].request # NoMessage
        /\ fabric' = Outcome(connection[c].request).fabric
        /\ \E p : session' = [session EXCEPT ![c] = p]
        /\ \E op : reply' = [reply EXCEPT ![c] =
                        [op |-> op, epoch |-> epoch,
                         answer |-> Outcome(connection[c].request).answer]]
        /\ connection' = [d \in Connections |-> connection'[d]]
        /\ connection'[c] = [connection[c] EXCEPT !.request = NoMessage]
        /\ \A d \in Connections : d # c => \/ connection'[d] = connection[d]
                                           \/ d \in Backlog /\ connection'[d] = Closed(connection[d])
      BY ZenonT(30) DEF Dispatch
  <1>2. Used(connection[c])
      BY <1>1 DEF Wiring, Sockets
  <1>3. \A d \in Connections : IsEnd(connection[d]) /\ (d \in Backlog => Used(connection[d]))
      BY DEF Wiring, Records, Backlog, Used
  <1>4. /\ session' = [d \in Connections |-> session'[d]]
        /\ \A d \in Connections : d # c => session'[d] = session[d]
      BY <1>1, ZenonT(30) DEF Wiring, Records
  <1>5. /\ reply' = [d \in Connections |-> reply'[d]]
        /\ \A d \in Connections : d # c => reply'[d] = reply[d]
        /\ reply'[c].epoch = epoch
        /\ reply'[c].answer = Outcome(connection[c].request).answer
    <2>1. PICK op : reply' = [reply EXCEPT ![c] =
                        [op |-> op, epoch |-> epoch,
                         answer |-> Outcome(connection[c].request).answer]]
        BY <1>1, ZenonT(30)
    <2> DEFINE v == [op |-> op, epoch |-> epoch,
                     answer |-> Outcome(connection[c].request).answer]
    <2>2. v.epoch = epoch /\ v.answer = Outcome(connection[c].request).answer
        OBVIOUS
    <2>3. reply' = [reply EXCEPT ![c] = v]
        BY <2>1
    <2> HIDE DEF v
    <2>4. /\ reply' = [d \in Connections |-> reply'[d]]
          /\ \A d \in Connections : d # c => reply'[d] = reply[d]
          /\ reply'[c] = v
        BY <2>3 DEF Wiring, Records
    <2>5. QED  BY <2>2, <2>4
  <1>6. /\ IsEnd(connection'[c]) /\ Used(connection'[c])
        /\ connection'[c].request = NoMessage /\ connection'[c].reply = connection[c].reply
    <2> DEFINE y == connection'[c]
    <2>1. y = [connection[c] EXCEPT !.request = NoMessage]
        BY <1>1
    <2> HIDE DEF y
    <2>2. y = [server |-> connection[c].server, peer |-> connection[c].peer,
               request |-> NoMessage, reply |-> connection[c].reply]
        BY <1>3, <2>1, EndEdits, ZenonT(30)
    <2>3. IsEnd(y) /\ y.server = connection[c].server /\ y.request = NoMessage
          /\ y.reply = connection[c].reply
        BY <2>2, EndFields
    <2>4. QED  BY <1>2, <2>3 DEF Used, y
  <1>7. \A d \in Connections : d # c =>
           /\ IsEnd(connection'[d]) /\ (Used(connection'[d]) <=> Used(connection[d]))
           /\ Used(connection[d]) \/ connection'[d] = connection[d]
           /\ connection'[d].request \in {connection[d].request, NoMessage}
           /\ connection'[d].reply = connection[d].reply
      BY <1>1, <1>3, ClosedEnd DEF Used
  <1>8. Rewired
      BY <1>1, <1>2, <1>4, <1>5, <1>6, <1>7 DEF Rewired, Wiring, Records, Sockets
  <1>9. QED  BY <1>1, <1>4, <1>5, <1>6, <1>7, <1>8, ZenonT(30) DEF Sending

\* What sending a reply does.
LEMMA SendWires ==
    ASSUME Wiring, NEW c \in Connections, Send(c), UNCHANGED worker
    PROVE  /\ Rewired
           /\ Sending(session[c]) /\ ~Sending(session'[c])
           /\ \A d \in Connections :
                 /\ connection'[d].request \in {connection[d].request, NoMessage}
                 /\ d # c => /\ session'[d] = session[d] /\ reply'[d] = reply[d]
                             /\ connection'[d] = connection[d]
           /\ connection'[c].reply \in {connection[c].reply, reply[c]}
           /\ UNCHANGED <<epoch, main, fabric>>
  <1> DEFINE old == connection[c]
             new == connection'[c]
  <1>1. /\ UNCHANGED <<epoch, main, fabric, acceptor, accepted, clients, worker>>
        /\ session[c] \in {"send", "send_last"}
        /\ \E p \in {"ended", "receive"} : session' = [session EXCEPT ![c] = p]
        /\ reply' = [reply EXCEPT ![c] = NoMessage]
        /\ \E x \in {old, Closed(old)} : \E r \in {x.reply, reply[c]} :
              connection' = [connection EXCEPT ![c] = [x EXCEPT !.reply = r]]
    <2> DEFINE sent == connection[c].server = "up"
               last == session[c] = "send_last" \/ ~sent \/ shutdown_requested
               x == IF last THEN Closed(old) ELSE old
               r == IF sent /\ x.peer THEN reply[c] ELSE x.reply
    <2>1. connection' = [connection EXCEPT ![c] = [x EXCEPT !.reply = r]]
        BY DEF Send
    <2>2. session' = [session EXCEPT ![c] = IF last THEN "ended" ELSE "receive"]
        BY DEF Send
    <2> HIDE DEF last, sent
    <2>3. x \in {old, Closed(old)} /\ r \in {x.reply, reply[c]}
        OBVIOUS
    <2> HIDE DEF x, r, old
    <2>4. /\ UNCHANGED <<epoch, main, fabric, acceptor, accepted, clients, worker>>
          /\ session[c] \in {"send", "send_last"}
          /\ reply' = [reply EXCEPT ![c] = NoMessage]
        BY DEF Send
    <2>5. QED  BY <2>1, <2>2, <2>3, <2>4, ZenonT(30)
  <1>2. Used(old) /\ IsEnd(old)
      BY <1>1 DEF Wiring, Sockets, Records
  <1>3. /\ session' = [d \in Connections |-> session'[d]]
        /\ ~Sending(session'[c])
        /\ \A d \in Connections : d # c => session'[d] = session[d]
      BY <1>1 DEF Wiring, Records, Sending
  <1>4. /\ reply' = [d \in Connections |-> reply'[d]]
        /\ \A d \in Connections : d # c => reply'[d] = reply[d]
      BY <1>1 DEF Wiring, Records
  <1>14. PICK x \in {old, Closed(old)} : \E r \in {x.reply, reply[c]} :
              connection' = [connection EXCEPT ![c] = [x EXCEPT !.reply = r]]
      BY <1>1, ZenonT(30)
  <1>5. PICK r \in {x.reply, reply[c]} :
              connection' = [connection EXCEPT ![c] = [x EXCEPT !.reply = r]]
      BY <1>14, ZenonT(30)
  <1>6. /\ connection' = [d \in Connections |-> connection'[d]]
        /\ \A d \in Connections : d # c => connection'[d] = connection[d]
        /\ new = [x EXCEPT !.reply = r]
      BY <1>5 DEF Wiring, Records
  <1>7. /\ IsEnd(x) /\ Used(x) /\ x.request \in {old.request, NoMessage}
        /\ x.reply = old.reply
      BY <1>2, <1>14, ClosedEnd DEF Used
  <1> HIDE DEF old, new
  <1>8. new = [server |-> x.server, peer |-> x.peer, request |-> x.request, reply |-> r]
      BY <1>6, <1>7, EndEdits, ZenonT(30)
  <1>9. IsEnd(new) /\ Used(new) /\ new.request \in {old.request, NoMessage} /\ new.reply = r
      BY <1>7, <1>8, EndFields DEF Used
  <1>10. \A d \in Connections : IsEnd(connection[d])
      BY DEF Wiring, Records
  <1>11. Rewired
      BY <1>1, <1>2, <1>3, <1>4, <1>6, <1>9, <1>10
         DEF Rewired, Wiring, Records, Sockets, old, new
  <1>12. r \in {old.reply, reply[c]}
      BY <1>5, <1>7
  <1>13. QED
      BY <1>1, <1>3, <1>4, <1>6, <1>9, <1>11, <1>12 DEF Sending, old, new

LEMMA UnusedEnd == IsEnd(Unused) /\ ~Used(Unused) /\ Unused.request = NoMessage
                   /\ Unused.reply = NoMessage
  BY DEF Unused, IsEnd, Used

LEMMA StartWires ==
    ASSUME Wiring, Start, UNCHANGED worker
    PROVE  /\ Rewired /\ UNCHANGED <<connection, worker>>
           /\ state_directory => epoch' = epoch + 1
           /\ \A c \in Connections : session'[c] = "none"
           /\ fabric'.applied = <<>>
  <1>1. /\ state_directory => epoch' = epoch + 1
        /\ UNCHANGED <<connection, worker, reply>>
        /\ session' = [c \in Connections |-> "none"] /\ clients' = {}
        /\ acceptor' = "accept" /\ \E u \in PoolUnits : fabric' = EmptyFabric(u)
      BY DEF Start
  <1>2. fabric'.applied = <<>>
      BY <1>1 DEF EmptyFabric
  <1>3. Rewired
      BY <1>1 DEF Rewired, Wiring, Records
  <1>4. QED  BY <1>1, <1>2, <1>3

LEMMA CrashWires ==
    ASSUME Wiring, Crash, UNCHANGED worker
    PROVE  /\ Rewired /\ epoch' = epoch /\ main' = "down" /\ UNCHANGED worker
           /\ \A c \in Connections :
                 /\ connection'[c].request = NoMessage /\ connection'[c].reply = NoMessage
                 /\ session'[c] = "none"
           /\ fabric'.applied = <<>>
  <1>1. /\ epoch' = epoch /\ main' = "down" /\ UNCHANGED worker
        /\ session' = [c \in Connections |-> "none"] /\ clients' = {}
        /\ reply' = [c \in Connections |-> NoMessage]
        /\ acceptor' = "none" /\ fabric' = EmptyFabric(0)
        /\ connection' = [c \in Connections |->
              IF connection[c].server = "unused" THEN Unused
              ELSE [Unused EXCEPT !.server = "shut", !.peer = connection[c].peer]]
      BY ZenonT(30) DEF Crash
  <1>2. fabric'.applied = <<>>
      BY <1>1, ZenonT(30) DEF EmptyFabric
  <1>3. ASSUME NEW c \in Connections
        PROVE  /\ IsEnd(connection'[c]) /\ (Used(connection'[c]) <=> Used(connection[c]))
               /\ Used(connection[c]) \/ connection'[c] = connection[c]
               /\ connection'[c].request = NoMessage /\ connection'[c].reply = NoMessage
    <2>1. CASE ~Used(connection[c])
      <3>1. connection'[c] = Unused /\ connection[c] = Unused
          BY <1>1, <2>1, ZenonT(30) DEF Used, Wiring, Sockets
      <3>2. QED  BY <2>1, <3>1, UnusedEnd
    <2>2. CASE Used(connection[c])
      <3> DEFINE y == connection'[c]
      <3>1. y = [Unused EXCEPT !.server = "shut", !.peer = connection[c].peer]
          BY <1>1, <2>2, ZenonT(30) DEF Used
      <3> HIDE DEF y
      <3>2. y = [server |-> "shut", peer |-> connection[c].peer, request |-> NoMessage,
                 reply |-> NoMessage]
          BY <3>1, ZenonT(30) DEF Unused
      <3>3. IsEnd(y) /\ Used(y) /\ y.request = NoMessage /\ y.reply = NoMessage
          BY <3>2, EndFields DEF Used
      <3>4. QED  BY <2>2, <3>3 DEF y
    <2>3. QED  BY <2>1, <2>2
  <1>4. Rewired
      BY <1>1, <1>3, ZenonT(30) DEF Rewired, Wiring, Records
  <1>5. QED  BY <1>1, <1>2, <1>3, <1>4, ZenonT(30)

\* A connection is opened where none was.
LEMMA ConnectWires ==
    ASSUME Wiring, NEW peer, NEW request, Connect(peer, request), UNCHANGED coordinator,
           worker' = [w \in Workers |-> worker'[w]], \A w \in Workers : IsRun(worker'[w])
    PROVE  /\ Wiring' /\ NextConnection \in Connections
           /\ ~Used(connection[NextConnection]) /\ Used(connection'[NextConnection])
           /\ session[NextConnection] = "none"
           /\ connection'[NextConnection].request = request
           /\ connection'[NextConnection].reply = NoMessage
           /\ \A d \in Connections : d # NextConnection => connection'[d] = connection[d]
           /\ UNCHANGED <<epoch, main, fabric, session, reply>>
  <1>1. UNCHANGED <<epoch, main, fabric, session, reply, clients, acceptor, accepted>>
      BY DEF coordinator, threads
  <1>2. PICK k \in 0..MaxConnections :
           \A c \in Connections : Used(connection[c]) <=> c <= k
      BY DEF Wiring, Sockets
  <1>3. {c \in Connections : connection[c] # Unused} = 1..k
    <2>1. \A c \in Connections : connection[c] # Unused <=> Used(connection[c])
        BY UnusedEnd DEF Wiring, Sockets
    <2>2. MaxConnections \in Nat /\ 1..k \subseteq Connections
        BY CoordinatorAssumption DEF Connections
    <2>3. \A c \in Connections : c \in 1..k <=> c <= k
        BY <2>2 DEF Connections
    <2>4. QED  BY <1>2, <2>1, <2>2, <2>3
  <1>4. NextConnection = k + 1
    <2>1. k \in Nat
        BY CoordinatorAssumption
    <2>2. Cardinality(1..k) = k
        BY <2>1, FS_Interval
    <2>3. NextConnection = 1 + Cardinality(1..k)
        BY <1>3, Zenon DEF NextConnection
    <2>4. QED  BY <2>1, <2>2, <2>3
  <1> DEFINE n == NextConnection
             y == [Unused EXCEPT !.server = "backlog", !.peer = peer, !.request = request]
  <1>5. n \in Connections /\ connection' = [connection EXCEPT ![n] = y]
      BY DEF Connect
  <1>6. y = [server |-> "backlog", peer |-> peer, request |-> request, reply |-> NoMessage]
    <2> DEFINE z == [Unused EXCEPT !.server = "backlog", !.peer = peer, !.request = request]
    <2> HIDE DEF z
    <2>1. y = z
        BY DEF z
    <2> HIDE DEF y
    <2>2. z = [Unused EXCEPT !.server = "backlog", !.peer = peer, !.request = request]
        BY DEF z
    <2>3. z = [server |-> "backlog", peer |-> peer, request |-> request, reply |-> NoMessage]
        BY <2>2, ZenonT(30) DEF Unused
    <2>4. QED  BY <2>1, <2>3
  <1> HIDE DEF y, n
  <1>7. IsEnd(y) /\ Used(y) /\ y.request = request /\ y.reply = NoMessage
      BY <1>6, EndFields DEF Used
  <1>8. /\ connection' = [d \in Connections |-> connection'[d]]
        /\ connection'[n] = y
        /\ \A d \in Connections : d # n => connection'[d] = connection[d]
      BY <1>5 DEF Wiring, Records
  <1>9. ~Used(connection[n]) /\ session[n] = "none"
    <2>1. ~(n <= k)
        BY <1>4, CoordinatorAssumption, SMTT(30) DEF n
    <2>2. QED  BY <1>2, <1>5, <2>1 DEF Wiring, Sockets
  <1>10. Records'
      BY <1>1, <1>7, <1>8, ZenonT(30) DEF Wiring, Records, Connections
  <1>11. Sockets'
    <2>1. k + 1 \in 0..MaxConnections /\ n = k + 1
        BY <1>4, <1>5, CoordinatorAssumption DEF n, Connections
    <2>2. \A c \in Connections : Used(connection'[c]) <=> c <= k + 1
      <3>1. \A c \in Connections : c # n => (c <= k <=> c <= k + 1)
          BY <2>1, CoordinatorAssumption DEF Connections
      <3>2. QED  BY <1>2, <1>7, <1>8, <2>1, <3>1
    <2>3. \A c \in Connections : ~Used(connection'[c]) =>
             connection'[c] = Unused /\ session'[c] = "none" /\ c \notin clients'
        BY <1>1, <1>7, <1>8 DEF Wiring, Sockets
    <2>4. acceptor' = "admit" => accepted' \in Connections /\ Used(connection'[accepted'])
        BY <1>1, <1>7, <1>8 DEF Wiring, Sockets
    <2>5. QED  BY <2>1, <2>2, <2>3, <2>4 DEF Sockets, Connections
  <1>12. QED  BY <1>1, <1>5, <1>7, <1>8, <1>9, <1>10, <1>11 DEF Wiring, n
-----------------------------------------------------------------------------
(* Steps of the clients.                                                   *)

IsActive(x) == x.at \in {"Hello", "Allocate", "Release"}

\* A run that goes on has a connection of its own.
Lines ==
    /\ \A w \in Workers : IsActive(worker[w]) =>
          worker[w].connection \in Connections /\ Used(connection[worker[w].connection])
    /\ \A v, w \in Workers : IsActive(worker[v]) /\ IsActive(worker[w]) /\ v # w =>
          worker[v].connection # worker[w].connection

\* What the run `me` of worker w sends.
Message(w, me) ==
    [op |-> me.at, epoch |-> me.epoch, attempt |-> <<w, me.attempt>>,
     allocation |-> me.allocation]

LEMMA RunFields ==
    ASSUME NEW a, NEW c, NEW s, NEW x, NEW e, NEW n, NEW d, NEW l, NEW run,
           run = [at |-> a, connection |-> c, sent |-> s, expected |-> x, epoch |-> e,
                  attempt |-> n, done |-> d, allocation |-> l]
    PROVE  /\ IsRun(run) /\ run.at = a /\ run.connection = c /\ run.sent = s
           /\ run.expected = x /\ run.epoch = e /\ run.attempt = n /\ run.done = d
           /\ run.allocation = l
  BY DEF IsRun

\* One worker w and its connection c are touched.
Touched(w, c) ==
    /\ UNCHANGED coordinator
    /\ worker' = [v \in Workers |-> worker'[v]]
    /\ connection' = [d \in Connections |-> connection'[d]]
    /\ \A v \in Workers : v # w => worker'[v] = worker[v]
    /\ \A d \in Connections : d # c => connection'[d] = connection[d]
    /\ IsRun(worker'[w]) /\ IsEnd(connection'[c]) /\ Used(connection'[c])

LEMMA TouchedRewired ==
    ASSUME Wiring, NEW w \in Workers, NEW c \in Connections, Used(connection[c]), Touched(w, c)
    PROVE  Rewired
  <1>1. UNCHANGED <<session, reply, clients, acceptor, accepted>>
      BY DEF Touched, coordinator, threads
  <1>2. QED  BY <1>1 DEF Rewired, Touched, Wiring, Records, Sockets

LEMMA SendRequestWires ==
    ASSUME Wiring, Lines, NEW w \in Workers, SendRequest(w)
    PROVE  LET c == worker[w].connection
           IN  /\ Touched(w, c) /\ c \in Connections /\ Used(connection[c])
               /\ IsActive(worker[w]) /\ ~worker[w].sent
               /\ worker'[w].sent
               /\ worker'[w].at = worker[w].at
               /\ worker'[w].connection = c
               /\ worker'[w].expected = worker[w].expected
               /\ worker'[w].epoch = worker[w].epoch
               /\ worker'[w].attempt = worker[w].attempt
               /\ worker'[w].done = worker[w].done
               /\ worker'[w].allocation = worker[w].allocation
               /\ connection'[c].request = Message(w, worker[w])
               /\ connection'[c].reply = connection[c].reply
  <1> DEFINE c == worker[w].connection
             x == worker'[w]
             y == connection'[c]
  <1>1. /\ IsActive(worker[w]) /\ ~worker[w].sent /\ UNCHANGED coordinator
        /\ worker' = [worker EXCEPT ![w].sent = TRUE]
        /\ connection' = [connection EXCEPT ![c].request = Message(w, worker[w])]
      BY DEF SendRequest, Active, IsActive, Message
  <1>2. c \in Connections /\ Used(connection[c]) /\ IsEnd(connection[c]) /\ IsRun(worker[w])
      BY <1>1 DEF Lines, Wiring, Records
  <1>3. /\ worker' = [v \in Workers |-> worker'[v]]
        /\ \A v \in Workers : v # w => worker'[v] = worker[v]
        /\ x = [worker[w] EXCEPT !.sent = TRUE]
      BY <1>1, ZenonT(30) DEF Wiring, Records
  <1>4. /\ connection' = [d \in Connections |-> connection'[d]]
        /\ \A d \in Connections : d # c => connection'[d] = connection[d]
        /\ y = [connection[c] EXCEPT !.request = Message(w, worker[w])]
      BY <1>1, <1>2 DEF Wiring, Records
  <1> HIDE DEF x, y, c
  <1>5. x = [at |-> worker[w].at, connection |-> worker[w].connection, sent |-> TRUE,
             expected |-> worker[w].expected, epoch |-> worker[w].epoch,
             attempt |-> worker[w].attempt, done |-> worker[w].done,
             allocation |-> worker[w].allocation]
      BY <1>2, <1>3, ZenonT(30) DEF IsRun
  <1>6. y = [server |-> connection[c].server, peer |-> connection[c].peer,
             request |-> Message(w, worker[w]), reply |-> connection[c].reply]
      BY <1>2, <1>4, EndEdits, ZenonT(30)
  <1>7. IsEnd(y) /\ Used(y) /\ y.request = Message(w, worker[w]) /\ y.reply = connection[c].reply
      BY <1>2, <1>6, EndFields DEF Used
  <1>8. Touched(w, c)
      BY <1>1, <1>3, <1>4, <1>5, <1>7, RunFields, SMTT(30) DEF Touched, x, y
  <1>9. QED  BY <1>1, <1>2, <1>5, <1>7, <1>8, RunFields, SMTT(30) DEF x, y, c

\* The end of a run.
LEMMA FinishWires ==
    ASSUME Wiring, Lines, NEW w \in Workers, IsActive(worker[w]), NEW at, Finish(w, at),
           UNCHANGED coordinator
    PROVE  LET c == worker[w].connection
           IN  /\ Touched(w, c) /\ c \in Connections /\ Used(connection[c])
               /\ worker'[w].at = at
               /\ worker'[w].expected = NoEpoch
               /\ worker'[w].epoch = worker[w].epoch
               /\ connection'[c].request = connection[c].request
               /\ connection'[c].reply = NoMessage
  <1> DEFINE c == worker[w].connection
             x == worker'[w]
             y == connection'[c]
  <1>1. /\ worker' = [worker EXCEPT ![w] = [NotRun EXCEPT !.at = at, !.epoch = worker[w].epoch]]
        /\ connection' = [connection EXCEPT ![c] =
              [connection[c] EXCEPT !.peer = FALSE, !.reply = NoMessage]]
      BY DEF Finish
  <1>2. c \in Connections /\ Used(connection[c]) /\ IsEnd(connection[c]) /\ IsRun(worker[w])
      BY DEF Lines, Wiring, Records
  <1>3. /\ worker' = [v \in Workers |-> worker'[v]]
        /\ \A v \in Workers : v # w => worker'[v] = worker[v]
        /\ x = [NotRun EXCEPT !.at = at, !.epoch = worker[w].epoch]
      BY <1>1 DEF Wiring, Records
  <1>4. /\ connection' = [d \in Connections |-> connection'[d]]
        /\ \A d \in Connections : d # c => connection'[d] = connection[d]
        /\ y = [connection[c] EXCEPT !.peer = FALSE, !.reply = NoMessage]
      BY <1>1, <1>2, ZenonT(30) DEF Wiring, Records
  <1> HIDE DEF x, y, c
  <1>5. x = [at |-> at, connection |-> NoConnection, sent |-> FALSE,
             expected |-> NoEpoch, epoch |-> worker[w].epoch,
             attempt |-> 1, done |-> 0, allocation |-> NoAllocation]
      BY <1>3, ZenonT(30) DEF NotRun
  <1>6. y = [server |-> connection[c].server, peer |-> FALSE,
             request |-> connection[c].request, reply |-> NoMessage]
      BY <1>2, <1>4, ZenonT(30) DEF IsEnd
  <1>7. IsEnd(y) /\ Used(y) /\ y.request = connection[c].request /\ y.reply = NoMessage
      BY <1>2, <1>6, EndFields DEF Used
  <1>8. Touched(w, c)
    <2>1. IsRun(x)
        BY <1>5, RunFields
    <2>2. QED  BY <1>3, <1>4, <1>7, <2>1, ZenonT(30) DEF Touched, x, y
  <1>9. x.at = at /\ x.expected = NoEpoch /\ x.epoch = worker[w].epoch
      BY <1>5, RunFields, ZenonT(30)
  <1>10. QED  BY <1>2, <1>7, <1>8, <1>9, ZenonT(30) DEF x, y, c

\* What a run that goes on to its next message looks like.
Continued(w, at, fields) ==
    LET c == worker[w].connection
    IN  /\ Touched(w, c) /\ c \in Connections /\ Used(connection[c])
        /\ worker'[w].at = at
        /\ worker'[w].connection = c
        /\ ~worker'[w].sent
        /\ worker'[w].expected = NoEpoch
        /\ worker'[w].epoch = fields.epoch
        /\ worker'[w].attempt = fields.attempt
        /\ worker'[w].done = fields.done
        /\ worker'[w].allocation = fields.allocation
        /\ connection'[c].request = connection[c].request
        /\ connection'[c].reply = NoMessage

\* The next message of a run.
LEMMA ContinueWires ==
    ASSUME Wiring, Lines, NEW w \in Workers, IsActive(worker[w]), NEW at, NEW fields,
           Continue(w, at, fields), UNCHANGED coordinator
    PROVE  Continued(w, at, fields)
  <1> DEFINE c == worker[w].connection
             x == worker'[w]
             y == connection'[c]
  <1>1. /\ worker' = [worker EXCEPT ![w] =
              [worker[w] EXCEPT !.at = at, !.sent = FALSE, !.expected = NoEpoch,
                                !.epoch = fields.epoch, !.attempt = fields.attempt,
                                !.done = fields.done, !.allocation = fields.allocation]]
        /\ connection' = [connection EXCEPT ![c].reply = NoMessage]
      BY DEF Continue
  <1>2. c \in Connections /\ Used(connection[c]) /\ IsEnd(connection[c]) /\ IsRun(worker[w])
      BY DEF Lines, Wiring, Records
  <1>3. /\ worker' = [v \in Workers |-> worker'[v]]
        /\ \A v \in Workers : v # w => worker'[v] = worker[v]
        /\ x = [worker[w] EXCEPT !.at = at, !.sent = FALSE, !.expected = NoEpoch,
                                 !.epoch = fields.epoch, !.attempt = fields.attempt,
                                 !.done = fields.done, !.allocation = fields.allocation]
      BY <1>1 DEF Wiring, Records
  <1>4. /\ connection' = [d \in Connections |-> connection'[d]]
        /\ \A d \in Connections : d # c => connection'[d] = connection[d]
        /\ y = [connection[c] EXCEPT !.reply = NoMessage]
      BY <1>1, <1>2 DEF Wiring, Records
  <1> HIDE DEF x, y, c
  <1>5. x = [at |-> at, connection |-> worker[w].connection, sent |-> FALSE,
             expected |-> NoEpoch, epoch |-> fields.epoch,
             attempt |-> fields.attempt, done |-> fields.done,
             allocation |-> fields.allocation]
      BY <1>2, <1>3, ZenonT(30) DEF IsRun
  <1>6. y = [server |-> connection[c].server, peer |-> connection[c].peer,
             request |-> connection[c].request, reply |-> NoMessage]
      BY <1>2, <1>4, EndEdits, ZenonT(30)
  <1>7. IsEnd(y) /\ Used(y) /\ y.request = connection[c].request /\ y.reply = NoMessage
      BY <1>2, <1>6, EndFields DEF Used
  <1>8. Touched(w, c)
    <2>1. IsRun(x)
        BY <1>5, RunFields, SMTT(30)
    <2>2. QED  BY <1>3, <1>4, <1>7, <2>1, ZenonT(30) DEF Touched, x, y
  <1>9. /\ x.at = at /\ x.connection = c /\ ~x.sent /\ x.expected = NoEpoch
        /\ x.epoch = fields.epoch /\ x.attempt = fields.attempt
        /\ x.done = fields.done /\ x.allocation = fields.allocation
      BY <1>5, RunFields, ZenonT(30) DEF c
  <1>10. QED  BY <1>2, <1>7, <1>8, <1>9, ZenonT(30) DEF Continued, x, y, c

\* A client opens a connection.
LEMMA OtherClientWires ==
    ASSUME Wiring, NEW op \in Messages, OtherClient(op)
    PROVE  /\ Wiring' /\ UNCHANGED <<worker, epoch, main, fabric, session, reply>>
           /\ \A d \in Connections : d # NextConnection => connection'[d] = connection[d]
           /\ NextConnection \in Connections /\ ~Used(connection[NextConnection])
           /\ Used(connection'[NextConnection]) /\ session[NextConnection] = "none"
           /\ connection'[NextConnection].reply = NoMessage
           /\ connection'[NextConnection].request.epoch = epoch
           /\ connection'[NextConnection].request.attempt = <<"other", 1>>
  <1> DEFINE q == [op |-> op, epoch |-> epoch, attempt |-> <<"other", 1>>,
                   allocation |-> NoAllocation]
  <1>1. Connect(FALSE, q) /\ UNCHANGED coordinator /\ UNCHANGED worker
      BY ZenonT(30) DEF OtherClient
  <1>2. q.epoch = epoch /\ q.attempt = <<"other", 1>>
      OBVIOUS
  <1> HIDE DEF q
  <1>3. worker' = [w \in Workers |-> worker'[w]] /\ \A w \in Workers : IsRun(worker'[w])
      BY <1>1 DEF Wiring, Records
  <1>4. QED  BY <1>1, <1>2, <1>3, ConnectWires, ZenonT(30)

LEMMA RunWorkerWires ==
    ASSUME Wiring, NEW w \in Workers, NEW epochs \in Epochs(w), RunWorker(w, epochs)
    PROVE  /\ Wiring' /\ UNCHANGED <<epoch, main, fabric, session, reply>>
           /\ \A d \in Connections : d # NextConnection => connection'[d] = connection[d]
           /\ NextConnection \in Connections /\ ~Used(connection[NextConnection])
           /\ Used(connection'[NextConnection]) /\ session[NextConnection] = "none"
           /\ connection'[NextConnection].reply = NoMessage
           /\ connection'[NextConnection].request = NoMessage
           /\ \A v \in Workers : v # w => worker'[v] = worker[v]
           /\ worker'[w].at = "Hello" /\ worker'[w].connection = NextConnection
           /\ ~worker'[w].sent
           /\ worker'[w].epoch \in {NoEpoch, worker[w].epoch}
           /\ worker'[w].expected \in {NoEpoch, worker[w].epoch}
  <1> DEFINE x == worker'[w]
             n == NextConnection
  <1>1. /\ Connect(TRUE, NoMessage) /\ UNCHANGED coordinator
        /\ worker' = [worker EXCEPT ![w] =
              [NotRun EXCEPT !.at = "Hello", !.connection = n,
                             !.epoch = epochs.claim, !.expected = epochs.expected]]
      BY ZenonT(30) DEF RunWorker
  <1>2. epochs.claim \in {NoEpoch, worker[w].epoch} /\ epochs.expected \in {NoEpoch, worker[w].epoch}
      BY DEF Epochs
  <1>3. /\ worker' = [v \in Workers |-> worker'[v]]
        /\ \A v \in Workers : v # w => worker'[v] = worker[v]
        /\ x = [NotRun EXCEPT !.at = "Hello", !.connection = n,
                              !.epoch = epochs.claim, !.expected = epochs.expected]
      BY <1>1 DEF Wiring, Records
  <1> HIDE DEF x, n
  <1>4. x = [at |-> "Hello", connection |-> n, sent |-> FALSE,
             expected |-> epochs.expected, epoch |-> epochs.claim,
             attempt |-> 1, done |-> 0, allocation |-> NoAllocation]
      BY <1>3, ZenonT(30) DEF NotRun
  <1>5. /\ IsRun(x) /\ x.at = "Hello" /\ x.connection = n /\ ~x.sent
        /\ x.expected = epochs.expected /\ x.epoch = epochs.claim
      BY <1>4, RunFields
  <1>6. \A v \in Workers : IsRun(worker'[v])
      BY <1>3, <1>5, ZenonT(30) DEF Wiring, Records, x
  <1>7. QED  BY <1>1, <1>2, <1>3, <1>5, <1>6, ConnectWires, ZenonT(30) DEF x, n

LEMMA LinesKept ==
    ASSUME Wiring, Lines, Rewired,
           \A w \in Workers : IsActive(worker'[w]) =>
              IsActive(worker[w]) /\ worker'[w].connection = worker[w].connection
    PROVE  Lines'
  BY DEF Lines, Rewired, Connections

LEMMA TouchedLines ==
    ASSUME Wiring, Lines, NEW w \in Workers, NEW c \in Connections, Used(connection[c]),
           Touched(w, c),
           IsActive(worker'[w]) =>
              IsActive(worker[w]) /\ worker'[w].connection = worker[w].connection
    PROVE  Wiring' /\ Lines'
  <1>1. Rewired
      BY TouchedRewired
  <1>2. QED  BY <1>1, RewiredWiring, LinesKept, ZenonT(30) DEF Touched

\* Every step is one of these.
LEMMA ServiceSteps ==
    ASSUME ThreadInv, Wiring, [Next]_vars
    PROVE  \/ Quiet
           \/ UNCHANGED worker /\ (Start \/ Crash)
           \/ UNCHANGED worker /\ \E c \in Connections : Dispatch(c) \/ Send(c)
           \/ \E op \in Messages : OtherClient(op)
           \/ \E w \in Workers : \E epochs \in Epochs(w) : RunWorker(w, epochs)
           \/ \E w \in Workers : SendRequest(w) \/ LoseConnection(w) \/ ReceiveReply(w)
  <1>1. CASE UNCHANGED vars
    <2>1. UNCHANGED <<epoch, fabric, worker, reply, main, connection, session, clients,
                      acceptor, accepted>>
        BY <1>1 DEF vars, coordinator, threads
    <2>2. QED  BY <2>1, KeptEnd, ZenonT(30) DEF Quiet, Wiring, Records, Sockets
  <1>2. CASE CoordinatorNext /\ UNCHANGED worker
      BY <1>2, MainIsQuiet, AcceptIsQuiet, SessionIsQuiet DEF CoordinatorNext, SessionStep
  <1>3. QED  BY <1>1, <1>2 DEF Next

\* What a worker does with a reply.
LEMMA ReceiveWires ==
    ASSUME Wiring, Lines, NEW w \in Workers, ReceiveReply(w)
    PROVE  LET me == worker[w]
               c == me.connection
               r == connection[c].reply
           IN  /\ Touched(w, c) /\ c \in Connections /\ Used(connection[c])
               /\ IsActive(me) /\ me.sent /\ r # NoMessage
               /\ connection'[c].request = connection[c].request
               /\ connection'[c].reply = NoMessage
               /\ IsActive(worker'[w]) => worker'[w].connection = c /\ ~worker'[w].sent
               /\ worker'[w].expected = NoEpoch
               /\ \/ worker'[w].at = "off" /\ worker'[w].epoch = me.epoch
                  \/ /\ r.answer.status = "Ok" /\ me.at = "Hello"
                     /\ worker'[w].at = "Allocate" /\ worker'[w].attempt = 1
                     /\ worker'[w].done = 0 /\ worker'[w].allocation = NoAllocation
                     /\ worker'[w].epoch \in {me.expected, r.epoch}
                  \/ /\ r.answer.status = "Ok" /\ me.at = "Allocate"
                     /\ worker'[w].at = "Release" /\ worker'[w].attempt = me.attempt + 1
                     /\ worker'[w].done = me.done
                     /\ worker'[w].allocation = r.answer.allocation
                     /\ worker'[w].epoch = me.epoch
                  \/ /\ r.answer.status = "Refused" \/ (r.answer.status = "Ok" /\ me.at = "Release")
                     /\ worker'[w].epoch = me.epoch
                     /\ IF me.done + 1 = operations
                        THEN worker'[w].at = "done"
                        ELSE /\ worker'[w].at = "Allocate"
                             /\ worker'[w].attempt = me.attempt + 1
                             /\ worker'[w].done = me.done + 1
                             /\ worker'[w].allocation = NoAllocation
  <1> DEFINE me == worker[w]
             c == me.connection
             r == connection[c].reply
  <1>1. IsActive(me) /\ me.sent /\ r # NoMessage /\ UNCHANGED coordinator
      BY ZenonT(30) DEF ReceiveReply, Active, IsActive
  <1>2. ASSUME Finish(w, "off")
        PROVE  /\ Touched(w, c) /\ c \in Connections /\ Used(connection[c])
               /\ connection'[c].request = connection[c].request
               /\ connection'[c].reply = NoMessage
               /\ worker'[w].expected = NoEpoch
               /\ worker'[w].at = "off" /\ worker'[w].epoch = me.epoch
      BY <1>1, <1>2, FinishWires, ZenonT(30)
  <1>3. ASSUME r.answer.status = "Ok", me.at = "Hello",
               Continue(w, "Allocate",
                   [epoch |-> IF me.expected # NoEpoch THEN me.expected ELSE r.epoch,
                    attempt |-> 1, done |-> 0, allocation |-> NoAllocation])
        PROVE  /\ Touched(w, c) /\ c \in Connections /\ Used(connection[c])
               /\ connection'[c].request = connection[c].request
               /\ connection'[c].reply = NoMessage
               /\ worker'[w].connection = c /\ ~worker'[w].sent
               /\ worker'[w].expected = NoEpoch
               /\ worker'[w].at = "Allocate" /\ worker'[w].attempt = 1
               /\ worker'[w].done = 0 /\ worker'[w].allocation = NoAllocation
               /\ worker'[w].epoch \in {me.expected, r.epoch}
    <2> DEFINE f == [epoch |-> IF me.expected # NoEpoch THEN me.expected ELSE r.epoch,
                     attempt |-> 1, done |-> 0, allocation |-> NoAllocation]
    <2>1. f.epoch \in {me.expected, r.epoch} /\ f.attempt = 1 /\ f.done = 0
          /\ f.allocation = NoAllocation
        BY ZenonT(30)
    <2>2. Continue(w, "Allocate", f)
        BY <1>3
    <2> HIDE DEF f
    <2>3. Continued(w, "Allocate", f)
        BY <1>1, <2>2, ContinueWires, ZenonT(30)
    <2>4. QED  BY <2>1, <2>3, ZenonT(30) DEF Continued
  <1>4. ASSUME r.answer.status = "Ok", me.at = "Allocate",
               Continue(w, "Release",
                   [epoch |-> me.epoch, attempt |-> me.attempt + 1, done |-> me.done,
                    allocation |-> r.answer.allocation])
        PROVE  /\ Touched(w, c) /\ c \in Connections /\ Used(connection[c])
               /\ connection'[c].request = connection[c].request
               /\ connection'[c].reply = NoMessage
               /\ worker'[w].connection = c /\ ~worker'[w].sent
               /\ worker'[w].expected = NoEpoch
               /\ worker'[w].at = "Release" /\ worker'[w].attempt = me.attempt + 1
               /\ worker'[w].done = me.done
               /\ worker'[w].allocation = r.answer.allocation
               /\ worker'[w].epoch = me.epoch
    <2> DEFINE f == [epoch |-> me.epoch, attempt |-> me.attempt + 1, done |-> me.done,
                     allocation |-> r.answer.allocation]
    <2>1. f.epoch = me.epoch /\ f.attempt = me.attempt + 1 /\ f.done = me.done
          /\ f.allocation = r.answer.allocation
        BY ZenonT(30)
    <2>2. Continue(w, "Release", f)
        BY <1>4
    <2> HIDE DEF f
    <2>3. Continued(w, "Release", f)
        BY <1>1, <2>2, ContinueWires, ZenonT(30)
    <2>4. QED  BY <2>1, <2>3, ZenonT(30) DEF Continued
  <1>5. ASSUME NextCycle(w), me.done + 1 = operations
        PROVE  /\ Touched(w, c) /\ c \in Connections /\ Used(connection[c])
               /\ connection'[c].request = connection[c].request
               /\ connection'[c].reply = NoMessage
               /\ worker'[w].expected = NoEpoch
               /\ worker'[w].at = "done" /\ worker'[w].epoch = me.epoch
    <2>1. Finish(w, "done")
        BY <1>5, ZenonT(30) DEF NextCycle
    <2>2. QED  BY <1>1, <2>1, FinishWires, ZenonT(30)
  <1>6. ASSUME NextCycle(w), me.done + 1 # operations
        PROVE  /\ Touched(w, c) /\ c \in Connections /\ Used(connection[c])
               /\ connection'[c].request = connection[c].request
               /\ connection'[c].reply = NoMessage
               /\ worker'[w].connection = c /\ ~worker'[w].sent
               /\ worker'[w].expected = NoEpoch
               /\ worker'[w].at = "Allocate" /\ worker'[w].attempt = me.attempt + 1
               /\ worker'[w].done = me.done + 1
               /\ worker'[w].allocation = NoAllocation
               /\ worker'[w].epoch = me.epoch
    <2> DEFINE f == [epoch |-> me.epoch, attempt |-> me.attempt + 1,
                     done |-> me.done + 1, allocation |-> NoAllocation]
    <2>1. f.epoch = me.epoch /\ f.attempt = me.attempt + 1 /\ f.done = me.done + 1
          /\ f.allocation = NoAllocation
        BY ZenonT(30)
    <2>2. Continue(w, "Allocate", f)
        BY <1>6, ZenonT(30) DEF NextCycle
    <2> HIDE DEF f
    <2>3. Continued(w, "Allocate", f)
        BY <1>1, <2>2, ContinueWires, ZenonT(30)
    <2>4. QED  BY <2>1, <2>3, ZenonT(30) DEF Continued
  <1>7. \/ Finish(w, "off")
        \/ /\ r.answer.status = "Ok" /\ me.at = "Hello"
           /\ Continue(w, "Allocate",
                [epoch |-> IF me.expected # NoEpoch THEN me.expected ELSE r.epoch,
                 attempt |-> 1, done |-> 0, allocation |-> NoAllocation])
        \/ /\ r.answer.status = "Ok" /\ me.at = "Allocate"
           /\ Continue(w, "Release",
                [epoch |-> me.epoch, attempt |-> me.attempt + 1, done |-> me.done,
                 allocation |-> r.answer.allocation])
        \/ /\ r.answer.status = "Refused" \/ (r.answer.status = "Ok" /\ me.at = "Release")
           /\ NextCycle(w)
      BY ZenonT(60) DEF ReceiveReply
  <1> HIDE DEF me, c, r
  <1>12. CASE Finish(w, "off")
    <2>1. ~IsActive(worker'[w])
        BY <1>2, <1>12 DEF IsActive
    <2>2. QED  BY <1>1, <1>2, <1>12, <2>1, Zenon DEF me, c, r
  <1>8. CASE /\ r.answer.status = "Ok" /\ me.at = "Hello"
             /\ Continue(w, "Allocate",
                  [epoch |-> IF me.expected # NoEpoch THEN me.expected ELSE r.epoch,
                   attempt |-> 1, done |-> 0, allocation |-> NoAllocation])
      BY <1>1, <1>3, <1>8, Zenon DEF me, c, r
  <1>9. CASE /\ r.answer.status = "Ok" /\ me.at = "Allocate"
             /\ Continue(w, "Release",
                  [epoch |-> me.epoch, attempt |-> me.attempt + 1, done |-> me.done,
                   allocation |-> r.answer.allocation])
      BY <1>1, <1>4, <1>9, Zenon DEF me, c, r
  <1>10. CASE /\ r.answer.status = "Refused" \/ (r.answer.status = "Ok" /\ me.at = "Release")
              /\ NextCycle(w)
    <2>1. CASE me.done + 1 = operations
      <3>1. ~IsActive(worker'[w])
          BY <1>5, <1>10, <2>1, ZenonT(30) DEF IsActive
      <3>2. QED  BY <1>1, <1>5, <1>10, <2>1, <3>1, Zenon DEF me, c, r
    <2>2. CASE me.done + 1 # operations
        BY <1>1, <1>6, <1>10, <2>2, Zenon DEF me, c, r
    <2>3. QED  BY <2>1, <2>2, ZenonT(30)
  <1>11. QED  BY <1>7, <1>8, <1>9, <1>10, <1>12, ZenonT(30)

LEMMA LoseWires ==
    ASSUME Wiring, Lines, NEW w \in Workers, LoseConnection(w)
    PROVE  LET c == worker[w].connection
           IN  /\ Touched(w, c) /\ c \in Connections /\ Used(connection[c])
               /\ IsActive(worker[w]) /\ worker'[w].at = "off"
               /\ worker'[w].expected = NoEpoch
               /\ worker'[w].epoch = worker[w].epoch
               /\ connection'[c].request = connection[c].request
               /\ connection'[c].reply = NoMessage
  <1>1. IsActive(worker[w]) /\ Finish(w, "off") /\ UNCHANGED coordinator
      BY DEF LoseConnection, Active, IsActive
  <1>2. QED  BY <1>1, FinishWires, ZenonT(30)

LEMMA NextWires ==
    ASSUME ThreadInv, Wiring, Lines, [Next]_vars
    PROVE  Wiring' /\ Lines'
  <1>1. ASSUME Rewired, UNCHANGED worker
        PROVE  Wiring' /\ Lines'
      BY <1>1, RewiredWiring, LinesKept, ZenonT(30)
  <1>2. CASE Quiet
      BY <1>1, <1>2, QuietRewired DEF Quiet
  <1>3. CASE UNCHANGED worker /\ (Start \/ Crash)
      BY <1>1, <1>3, StartWires, CrashWires, ZenonT(30)
  <1>4. CASE UNCHANGED worker /\ \E c \in Connections : Dispatch(c) \/ Send(c)
      BY <1>1, <1>4, DispatchWires, SendWires, ZenonT(30)
  <1>5. ASSUME NEW op \in Messages, OtherClient(op)
        PROVE  Wiring' /\ Lines'
    <2>1. /\ Wiring' /\ UNCHANGED worker
          /\ \A d \in Connections : d # NextConnection => connection'[d] = connection[d]
          /\ Used(connection'[NextConnection])
        BY <1>5, OtherClientWires, ZenonT(30)
    <2>2. QED  BY <2>1 DEF Lines, Connections
  <1>6. ASSUME NEW w \in Workers, NEW epochs \in Epochs(w), RunWorker(w, epochs)
        PROVE  Wiring' /\ Lines'
    <2>1. /\ Wiring' /\ NextConnection \in Connections
          /\ \A d \in Connections : d # NextConnection => connection'[d] = connection[d]
          /\ ~Used(connection[NextConnection]) /\ Used(connection'[NextConnection])
          /\ \A v \in Workers : v # w => worker'[v] = worker[v]
          /\ worker'[w].connection = NextConnection
        BY <1>6, RunWorkerWires, ZenonT(30)
    <2>2. QED  BY <2>1, SMTT(30) DEF Lines, Connections
  <1>7. ASSUME NEW w \in Workers, SendRequest(w)
        PROVE  Wiring' /\ Lines'
    <2>1. LET c == worker[w].connection
          IN  /\ Touched(w, c) /\ c \in Connections /\ Used(connection[c])
              /\ IsActive(worker[w]) /\ worker'[w].connection = c
        BY <1>7, SendRequestWires, ZenonT(30)
    <2>2. QED  BY <2>1, TouchedLines, ZenonT(30)
  <1>8. ASSUME NEW w \in Workers, LoseConnection(w)
        PROVE  Wiring' /\ Lines'
    <2>1. LET c == worker[w].connection
          IN  /\ Touched(w, c) /\ c \in Connections /\ Used(connection[c])
              /\ ~IsActive(worker'[w])
        BY <1>8, LoseWires, ZenonT(30) DEF IsActive
    <2>2. QED  BY <2>1, TouchedLines, ZenonT(30)
  <1>9. ASSUME NEW w \in Workers, ReceiveReply(w)
        PROVE  Wiring' /\ Lines'
    <2>1. LET c == worker[w].connection
          IN  /\ Touched(w, c) /\ c \in Connections /\ Used(connection[c])
              /\ IsActive(worker[w])
              /\ IsActive(worker'[w]) => worker'[w].connection = c
        BY <1>9, ReceiveWires, ZenonT(30)
    <2>2. QED  BY <2>1, TouchedLines
  <1>10. QED  BY <1>2, <1>3, <1>4, <1>5, <1>6, <1>7, <1>8, <1>9, ServiceSteps, ZenonT(30)
-----------------------------------------------------------------------------
(* What stop() waits for.                                                  *)

LEMMA WiresStart ==
    ASSUME Init
    PROVE  Wiring /\ Lines
  <1>1. /\ connection = [c \in Connections |-> Unused]
        /\ session = [c \in Connections |-> "none"]
        /\ reply = [c \in Connections |-> NoMessage]
        /\ worker = [w \in Workers |-> NotRun]
        /\ clients = {} /\ acceptor = "none"
      BY Zenon DEF Init, CoordinatorInit
  <1>2. IsRun(NotRun) /\ ~IsActive(NotRun)
      BY DEF NotRun, IsRun, IsActive
  <1>3. Records
      BY <1>1, <1>2, UnusedEnd, ZenonT(30) DEF Records
  <1>4. \A c \in Connections : Used(connection[c]) <=> c <= 0
      BY <1>1, UnusedEnd DEF Connections
  <1>5. 0 \in 0..MaxConnections
      BY CoordinatorAssumption
  <1>6. Sockets
      BY <1>1, <1>4, <1>5, ZenonT(30) DEF Sockets
  <1>7. Lines
      BY <1>1, <1>2, ZenonT(30) DEF Lines
  <1>8. QED  BY <1>3, <1>6, <1>7 DEF Wiring

\* Connections are opened in their order, only open ones have sessions, and
\* each run has one of its own.
THEOREM ConnectionsWired == Spec => [](Wiring /\ Lines)
  <1>1. Init => Wiring /\ Lines
      BY WiresStart
  <1>2. ThreadInv /\ Wiring /\ Lines /\ [Next]_vars => (Wiring /\ Lines)'
      BY NextWires
  <1>3. QED  BY <1>1, <1>2, ThreadsJoined, PTL DEF Spec

Joining == main \in {"join_accept", "join_sessions"}

\* What the main thread has done before it joins.
StopInv ==
    /\ main \in {"listener", "sweep", "join_accept", "join_sessions"} => shutdown_requested
    /\ main \in {"sweep", "join_accept", "join_sessions"} => ~listening
    /\ Joining => \A c \in Connections : session[c] = "receive" => connection[c].server = "shut"

\* A step of another thread, or of a client.
LEMMA StopKept ==
    ASSUME StopInv, main' = main, shutdown_requested => shutdown_requested',
           ~listening => ~listening',
           Joining => \A c \in Connections : session'[c] = "receive" =>
              /\ session[c] = "receive"
              /\ connection[c].server = "shut" => connection'[c].server = "shut"
    PROVE  StopInv'
  BY Zenon DEF StopInv, Joining, Connections

\* A socket that was shut stays so when it is closed, or when another one is.
LEMMA CloseShuts ==
    ASSUME Wiring, NEW C, Close(C), NEW c \in Connections, connection[c].server = "shut"
    PROVE  connection'[c].server = "shut"
  <1>1. IsEnd(connection[c])
      BY Zenon DEF Wiring, Records
  <1>2. connection'[c] = IF c \in C THEN Closed(connection[c]) ELSE connection[c]
      BY Zenon DEF Close
  <1>3. QED  BY <1>1, <1>2, ClosedEnd, Zenon

LEMMA MainStops ==
    ASSUME ThreadInv, Wiring, StopInv, MainStep \/ RequestShutdown
    PROVE  StopInv'
  <1>1. CASE RequestShutdown
    <2>1. main' = "listener" /\ shutdown_requested' = TRUE
        BY <1>1, Zenon DEF RequestShutdown
    <2>2. QED  BY <2>1 DEF StopInv, Joining
  <1>2. CASE CloseListener
    <2>1. main = "listener" /\ main' = "sweep" /\ listening' = FALSE
          /\ shutdown_requested' = shutdown_requested
        BY <1>2, Zenon DEF CloseListener
    <2>2. QED  BY <2>1 DEF StopInv, Joining
  <1>3. CASE ShutdownClients
    <2>1. /\ main = "sweep" /\ main' = "join_accept" /\ Shut(clients)
          /\ UNCHANGED <<shutdown_requested, listening, session>>
        BY <1>3, Zenon DEF ShutdownClients
    <2>2. ASSUME NEW c \in Connections, session'[c] = "receive"
          PROVE  connection'[c].server = "shut"
      <3>1. c \in clients
          BY <2>1, <2>2 DEF ThreadInv, Counted, Running
      <3>2. connection'[c] = [connection[c] EXCEPT !.server = "shut"]
          BY <2>1, <3>1, Zenon DEF Shut
      <3>3. IsEnd(connection[c])
          BY Zenon DEF Wiring, Records
      <3>4. QED  BY <3>2, <3>3, EndShut, Zenon
    <2>3. shutdown_requested' /\ ~listening'
        BY <2>1 DEF StopInv
    <2>4. QED  BY <2>2, <2>3, Zenon DEF StopInv, Joining, Connections
  <1>4. CASE JoinAccept
    <2>1. /\ main = "join_accept" /\ main' = "join_sessions"
          /\ UNCHANGED <<shutdown_requested, listening, session, connection>>
        BY <1>4, Zenon DEF JoinAccept
    <2>2. QED  BY <2>1 DEF StopInv, Joining, Connections
  <1>5. CASE JoinSessions \/ CloseFabric
    <2>1. main' \in {"close", "stopped"}
        BY <1>5 DEF JoinSessions, CloseFabric
    <2>2. QED  BY <2>1 DEF StopInv, Joining
  <1>6. QED  BY <1>1, <1>2, <1>3, <1>4, <1>5 DEF MainStep

\* No peer is accepted once the listener is closed.
LEMMA AcceptStops ==
    ASSUME ThreadInv, Wiring, StopInv, AcceptStep
    PROVE  StopInv'
  <1>1. CASE AcceptFails
    <2>1. /\ UNCHANGED <<main, shutdown_requested, listening, session>>
          /\ UNCHANGED connection \/ \E c \in Backlog : Close({c})
        BY <1>1, Zenon DEF AcceptFails
    <2>2. \A c \in Connections : connection[c].server = "shut" => connection'[c].server = "shut"
        BY <2>1, CloseShuts, Zenon
    <2>3. QED  BY <2>1, <2>2, StopKept, Zenon
  <1>2. ASSUME NEW c \in Connections, AcceptPeer(c)
        PROVE  StopInv'
    <2>1. UNCHANGED <<main, shutdown_requested, listening>> /\ listening
        BY <1>2, Zenon DEF AcceptPeer
    <2>2. ~Joining
        BY <2>1 DEF StopInv, Joining
    <2>3. QED  BY <2>1, <2>2, StopKept, Zenon
  <1>3. CASE Admit
    <2>1. UNCHANGED <<main, shutdown_requested, listening>> /\ accepted \in Connections
        BY <1>3 DEF Admit, ThreadInv, Places
    <2>2. CASE AtCapacity
      <3> DEFINE r == [op |-> "HelloAck", epoch |-> NoEpoch,
                       answer |-> Answer("BoundedResourceExhausted", 0, NoAllocation)]
      <3>1. /\ session' = session
            /\ connection' = [connection EXCEPT ![accepted] = [Closed(@) EXCEPT !.reply = r]]
          BY <1>3, <2>2, Zenon DEF Admit
      <3> HIDE DEF r
      <3>2. ASSUME NEW d \in Connections, connection[d].server = "shut"
            PROVE  connection'[d].server = "shut"
        <4>1. IsEnd(connection[d]) /\ connection = [c \in Connections |-> connection[c]]
            BY Zenon DEF Wiring, Records
        <4> DEFINE x == Closed(connection[d])
        <4>2. IsEnd(x) /\ x.server = "shut"
            BY <4>1, ClosedEnd, Zenon
        <4>3. connection'[d] \in {connection[d], [x EXCEPT !.reply = r]}
            BY <3>1, <4>1
        <4> HIDE DEF x
        <4> DEFINE y == [x EXCEPT !.reply = r]
        <4>4. y.server = x.server
            BY <4>2, EndServer, Zenon
        <4>5. QED  BY <3>2, <4>2, <4>3, <4>4, Zenon
      <3>3. QED  BY <2>1, <3>1, <3>2, StopKept, Zenon
    <2>3. CASE ~AtCapacity
      <3>1. session' = [session EXCEPT ![accepted] = "check"] /\ UNCHANGED connection
          BY <1>3, <2>3, Zenon DEF Admit
      <3>2. \A c \in Connections : session'[c] = "receive" => session[c] = "receive"
          BY <2>1, <3>1 DEF Wiring, Records
      <3>3. QED  BY <2>1, <3>1, <3>2, StopKept, Zenon
    <2>4. QED  BY <2>2, <2>3
  <1>4. QED  BY <1>1, <1>2, <1>3 DEF AcceptStep

\* A session that looks at the flag after it was set does not receive again.
LEMMA SessionStops ==
    ASSUME ThreadInv, Wiring, StopInv, NEW c \in Connections, SessionStep(c)
    PROVE  StopInv'
  <1>0. Joining => shutdown_requested
      BY DEF StopInv, Joining
  <1>1. ASSUME NEW place, place # "receive" \/ ~shutdown_requested,
               session' = [session EXCEPT ![c] = place]
        PROVE  Joining => \A d \in Connections : session'[d] = "receive" =>
                             session[d] = "receive" /\ d # c
      BY <1>0, <1>1 DEF Wiring, Records
  <1>2. CASE SessionCheck(c) \/ ReceiveFails(c)
    <2>1. /\ UNCHANGED <<main, shutdown_requested, listening>>
          /\ UNCHANGED connection \/ Close({c})
          /\ \E place : /\ place # "receive" \/ ~shutdown_requested
                        /\ session' = [session EXCEPT ![c] = place]
        BY <1>2, ZenonT(30) DEF SessionCheck, ReceiveFails, End
    <2>2. \A d \in Connections : connection[d].server = "shut" => connection'[d].server = "shut"
        BY <2>1, CloseShuts, Zenon
    <2>3. Joining => \A d \in Connections : session'[d] = "receive" => session[d] = "receive"
        BY <1>1, <2>1, Zenon
    <2>4. QED  BY <2>1, <2>2, <2>3, StopKept, Zenon
  <1>3. CASE Dispatch(c)
    <2>1. /\ main' = main /\ (shutdown_requested => shutdown_requested')
          /\ ~listening => ~listening'
          /\ \E place \in {"send", "send_last"} : session' = [session EXCEPT ![c] = place]
          /\ \A d \in Connections : d # c =>
                connection'[d] \in {connection[d], Closed(connection[d])}
        BY <1>3, ZenonT(30) DEF Dispatch
    <2>2. ASSUME NEW d \in Connections, d # c, connection[d].server = "shut"
          PROVE  connection'[d].server = "shut"
      <3>1. IsEnd(connection[d])
          BY Zenon DEF Wiring, Records
      <3>2. Closed(connection[d]).server = "shut"
          BY <3>1, ClosedEnd, Zenon
      <3>3. QED  BY <2>1, <2>2, <3>2, Zenon
    <2>3. Joining => \A d \in Connections : session'[d] = "receive" =>
                        session[d] = "receive" /\ d # c
        BY <1>1, <2>1, ZenonT(30)
    <2>4. QED  BY <2>1, <2>2, <2>3, StopKept, Zenon
  <1>4. CASE Send(c)
    <2>1. /\ UNCHANGED <<main, shutdown_requested, listening>>
          /\ \E place : /\ place # "receive" \/ ~shutdown_requested
                        /\ session' = [session EXCEPT ![c] = place]
          /\ \E x : connection' = [connection EXCEPT ![c] = x]
        BY <1>4, ZenonT(30) DEF Send
    <2>2. \A d \in Connections : d # c => connection'[d] = connection[d]
        BY <2>1 DEF Wiring, Records
    <2>3. Joining => \A d \in Connections : session'[d] = "receive" =>
                        session[d] = "receive" /\ d # c
        BY <1>1, <2>1, Zenon
    <2>4. QED  BY <2>1, <2>2, <2>3, StopKept, Zenon
  <1>5. QED  BY <1>2, <1>3, <1>4 DEF SessionStep

\* Clients open no connection once the listener is closed, and no socket that
\* was shut is opened by what they send or receive.
LEMMA ClientsStop ==
    ASSUME Wiring, StopInv, UNCHANGED coordinator,
           listening \/ UNCHANGED connection \/ Edited(connection, connection')
    PROVE  StopInv'
  <1>1. UNCHANGED <<main, shutdown_requested, listening, session>>
      BY Zenon DEF coordinator, threads
  <1>2. CASE listening
    <2>1. ~Joining
        BY <1>2 DEF StopInv, Joining
    <2>2. QED  BY <1>1, <2>1, StopKept, Zenon
  <1>3. CASE ~listening
    <2>1. AreEnds(Connections, connection)
        BY Zenon DEF Wiring, Records, AreEnds
    <2>2. \A c \in Connections : connection'[c].server = connection[c].server
      <3>1. CASE UNCHANGED connection
          BY <3>1, Zenon
      <3>2. CASE Edited(connection, connection')
          BY <2>1, <3>2, EditedServers
      <3>3. QED  BY <1>3, <3>1, <3>2, Zenon
    <2>3. QED  BY <1>1, <2>2, StopKept, Zenon
  <1>4. QED  BY <1>2, <1>3

LEMMA NextStops ==
    ASSUME ThreadInv, Wiring, StopInv, [Next]_vars
    PROVE  StopInv'
  <1>1. CASE Start \/ Crash
    <2>1. main' \in {"serving", "down"}
        BY <1>1, Zenon DEF Start, Crash
    <2>2. QED  BY <2>1 DEF StopInv, Joining
  <1>2. CASE CoordinatorNext
      BY <1>1, <1>2, MainStops, AcceptStops, SessionStops, Zenon DEF CoordinatorNext
  <1>3. CASE UNCHANGED vars
      BY <1>3, ClientsStop, Zenon DEF vars
  <1>4. ASSUME NEW op \in Messages, OtherClient(op)
        PROVE  StopInv'
      BY <1>4, ClientsStop, Zenon DEF OtherClient, Connect
  <1>5. ASSUME NEW w \in Workers, NEW epochs \in Epochs(w), RunWorker(w, epochs)
        PROVE  StopInv'
      BY <1>5, ClientsStop, Zenon DEF RunWorker, Connect
  <1>6. ASSUME NEW w \in Workers, NEW at, Finish(w, at), UNCHANGED coordinator
        PROVE  StopInv'
      BY <1>6, ClientsStop, Zenon DEF Finish, Edited
  <1>7. ASSUME NEW w \in Workers, NEW at, NEW fields, Continue(w, at, fields),
               UNCHANGED coordinator
        PROVE  StopInv'
      BY <1>7, ClientsStop, Zenon DEF Continue, Edited
  <1>8. ASSUME NEW w \in Workers, SendRequest(w)
        PROVE  StopInv'
      BY <1>8, ClientsStop, Zenon DEF SendRequest, Edited
  <1>9. ASSUME NEW w \in Workers, LoseConnection(w) \/ ReceiveReply(w)
        PROVE  StopInv'
      BY <1>6, <1>7, <1>9, ZenonT(30) DEF LoseConnection, ReceiveReply, NextCycle
  <1>10. QED  BY <1>2, <1>3, <1>4, <1>5, <1>8, <1>9, Zenon DEF Next

\* While stop() joins its threads no session waits in a receive that only its
\* client could end, for any number of clients, whatever they do and whenever
\* they were admitted.
THEOREM StopWaitsForNoClient == Spec => []StopAwaitsNoClient
  <1>1. Init => StopInv
      BY DEF Init, CoordinatorInit, StopInv, Joining
  <1>2. ThreadInv /\ Wiring /\ StopInv /\ [Next]_vars => StopInv'
      BY NextStops
  <1>3. StopInv => StopAwaitsNoClient
      BY DEF StopInv, Joining, StopAwaitsNoClient
  <1>4. QED  BY <1>1, <1>2, <1>3, ThreadsJoined, ConnectionsWired, PTL DEF Spec
-----------------------------------------------------------------------------
(* Epochs that were seen.                                                  *)

Within(m, e) == m # NoMessage => m.epoch \in 0..e

\* No worker and no message knows an epoch that is still to come.
EpochsBounded ==
    /\ \A w \in Workers : worker[w].epoch \in 0..epoch /\ worker[w].expected \in 0..epoch
    /\ \A c \in Connections :
          /\ Within(connection[c].request, epoch)
          /\ Sending(session[c]) => reply[c].epoch \in 0..epoch
          /\ Within(connection[c].reply, epoch)

\* A step of one worker and its connection.
LEMMA TouchedEpochs ==
    ASSUME EpochsBounded, NEW w \in Workers, NEW c \in Connections, Touched(w, c),
           worker'[w].epoch \in 0..epoch, worker'[w].expected \in 0..epoch,
           Within(connection'[c].request, epoch), Within(connection'[c].reply, epoch)
    PROVE  EpochsBounded'
  <1>1. UNCHANGED <<epoch, session, reply>>
      BY DEF Touched, coordinator, threads
  <1>2. \A v \in Workers : worker'[v].epoch \in 0..epoch /\ worker'[v].expected \in 0..epoch
      BY DEF Touched, EpochsBounded
  <1>3. \A d \in Connections : Within(connection'[d].request, epoch)
                               /\ Within(connection'[d].reply, epoch)
      BY ZenonT(30) DEF Touched, EpochsBounded
  <1>4. \A d \in Connections : Sending(session[d]) => reply[d].epoch \in 0..epoch
      BY DEF EpochsBounded
  <1>5. QED  BY <1>1, <1>2, <1>3, <1>4, ZenonT(30) DEF EpochsBounded, Connections

LEMMA NextEpochs ==
    ASSUME state_directory, ThreadInv, Wiring, Lines, EpochsBounded, [Next]_vars
    PROVE  EpochsBounded'
  <1>0. epoch \in Nat /\ NoEpoch \in 0..epoch /\ \A e : Within(NoMessage, e)
      BY DEF ThreadInv, Places, NoEpoch, Within
  <1>a. epoch \in 0..epoch
      BY <1>0
  <1>1. CASE Quiet
    <2>1. UNCHANGED <<epoch, worker, reply>>
        BY <1>1, ZenonT(30) DEF Quiet
    <2>2. ASSUME NEW c \in Connections
          PROVE  /\ Within(connection'[c].request, epoch)
                 /\ Sending(session'[c]) => reply[c].epoch \in 0..epoch
                 /\ Within(connection'[c].reply, epoch)
        BY <1>0, <1>1, ZenonT(30) DEF Quiet, Kept, EpochsBounded, Within
    <2>3. QED  BY <2>1, <2>2, ZenonT(30) DEF EpochsBounded, Connections
  <1>2. CASE UNCHANGED worker /\ Start
    <2>1. /\ epoch' = epoch + 1 /\ UNCHANGED <<connection, worker>>
          /\ \A c \in Connections : session'[c] = "none"
        BY <1>2, StartWires
    <2>2. \A x \in 0..epoch : x \in 0..epoch'
        BY <1>0, <2>1, SMTT(30)
    <2>3. QED  BY <2>1, <2>2, ZenonT(30) DEF EpochsBounded, Within, Sending, Connections
  <1>3. CASE UNCHANGED worker /\ Crash
    <2>1. /\ UNCHANGED <<epoch, worker>>
          /\ \A c \in Connections :
                /\ connection'[c].request = NoMessage /\ connection'[c].reply = NoMessage
                /\ session'[c] = "none"
        BY <1>3, CrashWires, ZenonT(30)
    <2>2. QED  BY <1>0, <2>1, ZenonT(30) DEF EpochsBounded, Sending, Connections
  <1>4. ASSUME UNCHANGED worker, NEW c \in Connections, Dispatch(c)
        PROVE  EpochsBounded'
    <2>1. /\ UNCHANGED <<epoch, worker>> /\ reply'[c].epoch = epoch
          /\ \A d \in Connections :
                 /\ connection'[d].request \in {connection[d].request, NoMessage}
                 /\ connection'[d].reply = connection[d].reply
                 /\ d # c => session'[d] = session[d] /\ reply'[d] = reply[d]
        BY <1>4, DispatchWires, ZenonT(30)
    <2>2. ASSUME NEW d \in Connections
          PROVE  /\ Within(connection'[d].request, epoch)
                 /\ Sending(session'[d]) => reply'[d].epoch \in 0..epoch
                 /\ Within(connection'[d].reply, epoch)
        BY <1>0, <1>a, <2>1, ZenonT(30) DEF EpochsBounded
    <2>3. QED  BY <2>1, <2>2 DEF EpochsBounded, Connections
  <1>5. ASSUME UNCHANGED worker, NEW c \in Connections, Send(c)
        PROVE  EpochsBounded'
    <2>1. /\ UNCHANGED <<epoch, worker>> /\ Sending(session[c]) /\ ~Sending(session'[c])
          /\ \A d \in Connections :
                 /\ connection'[d].request \in {connection[d].request, NoMessage}
                 /\ d # c => /\ session'[d] = session[d] /\ reply'[d] = reply[d]
                             /\ connection'[d] = connection[d]
          /\ connection'[c].reply \in {connection[c].reply, reply[c]}
        BY <1>5, SendWires, ZenonT(30)
    <2>2. ASSUME NEW d \in Connections
          PROVE  /\ Within(connection'[d].request, epoch)
                 /\ Sending(session'[d]) => reply'[d].epoch \in 0..epoch
                 /\ Within(connection'[d].reply, epoch)
        BY <1>0, <2>1, ZenonT(30) DEF EpochsBounded, Within
    <2>3. QED  BY <2>1, <2>2 DEF EpochsBounded, Connections
  <1>6. ASSUME NEW op \in Messages, OtherClient(op)
        PROVE  EpochsBounded'
    <2>1. /\ UNCHANGED <<worker, epoch, session, reply>>
          /\ \A d \in Connections : d # NextConnection => connection'[d] = connection[d]
          /\ connection'[NextConnection].reply = NoMessage
          /\ connection'[NextConnection].request.epoch = epoch
        BY <1>6, OtherClientWires, ZenonT(30)
    <2>2. ASSUME NEW d \in Connections
          PROVE  /\ Within(connection'[d].request, epoch)
                 /\ Within(connection'[d].reply, epoch)
        BY <1>0, <1>a, <2>1, ZenonT(30) DEF EpochsBounded, Within
    <2>3. QED  BY <2>1, <2>2, ZenonT(30) DEF EpochsBounded, Connections
  <1>7. ASSUME NEW w \in Workers, NEW epochs \in Epochs(w), RunWorker(w, epochs)
        PROVE  EpochsBounded'
    <2>1. /\ UNCHANGED <<epoch, session, reply>>
          /\ \A d \in Connections : d # NextConnection => connection'[d] = connection[d]
          /\ connection'[NextConnection].reply = NoMessage
          /\ connection'[NextConnection].request = NoMessage
          /\ \A v \in Workers : v # w => worker'[v] = worker[v]
          /\ worker'[w].epoch \in {NoEpoch, worker[w].epoch}
          /\ worker'[w].expected \in {NoEpoch, worker[w].epoch}
        BY <1>7, RunWorkerWires, ZenonT(30)
    <2>2. ASSUME NEW d \in Connections
          PROVE  /\ Within(connection'[d].request, epoch)
                 /\ Within(connection'[d].reply, epoch)
        BY <1>0, <2>1, ZenonT(30) DEF EpochsBounded
    <2>3. ASSUME NEW v \in Workers
          PROVE  worker'[v].epoch \in 0..epoch /\ worker'[v].expected \in 0..epoch
        BY <1>0, <2>1 DEF EpochsBounded
    <2>4. QED  BY <2>1, <2>2, <2>3 DEF EpochsBounded, Connections
  <1>8. ASSUME NEW w \in Workers, SendRequest(w)
        PROVE  EpochsBounded'
    <2> DEFINE c == worker[w].connection
    <2>1. /\ Touched(w, c) /\ c \in Connections
          /\ worker'[w].epoch = worker[w].epoch /\ worker'[w].expected = worker[w].expected
          /\ connection'[c].request = Message(w, worker[w]) /\ connection'[c].reply = connection[c].reply
        BY <1>8, SendRequestWires, ZenonT(30)
    <2>2. Within(Message(w, worker[w]), epoch)
        BY ZenonT(30) DEF Message, Within, EpochsBounded
    <2>3. QED  BY <2>1, <2>2, TouchedEpochs, ZenonT(30) DEF EpochsBounded
  <1>9. ASSUME NEW w \in Workers, LoseConnection(w)
        PROVE  EpochsBounded'
    <2> DEFINE c == worker[w].connection
    <2>1. /\ Touched(w, c) /\ c \in Connections
          /\ worker'[w].epoch = worker[w].epoch /\ worker'[w].expected = NoEpoch
          /\ connection'[c].request = connection[c].request
          /\ connection'[c].reply = NoMessage
        BY <1>9, LoseWires, ZenonT(30)
    <2>2. QED  BY <1>0, <2>1, TouchedEpochs DEF EpochsBounded
  <1>10. ASSUME NEW w \in Workers, ReceiveReply(w)
         PROVE  EpochsBounded'
    <2> DEFINE c == worker[w].connection
               r == connection[c].reply
    <2>1. /\ Touched(w, c) /\ c \in Connections /\ r # NoMessage
          /\ worker'[w].expected = NoEpoch
          /\ worker'[w].epoch \in {worker[w].epoch, worker[w].expected, r.epoch}
          /\ connection'[c].request = connection[c].request
          /\ connection'[c].reply = NoMessage
        BY <1>10, ReceiveWires, Zenon
    <2>2. r.epoch \in 0..epoch
        BY <2>1, ZenonT(30) DEF EpochsBounded, Within
    <2>3. QED  BY <1>0, <2>1, <2>2, TouchedEpochs, ZenonT(30) DEF EpochsBounded
  <1>11. QED
      BY <1>1, <1>2, <1>3, <1>4, <1>5, <1>6, <1>7, <1>8, <1>9, <1>10, ServiceSteps, ZenonT(30)
=============================================================================
