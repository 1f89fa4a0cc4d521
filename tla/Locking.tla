------------------------------- MODULE Locking -------------------------------
(***************************************************************************)
(* How public operations of one BufferFabric overlap.  Fabric.tla takes    *)
(* each as one step; here a call samples the clock, waits for the mutex,   *)
(* runs its critical section, unlocks and only then publishes its event to *)
(* a sink, which may call back into the fabric.  set_capacity has several  *)
(* critical sections with calls to the backend between them.               *)
(*                                                                         *)
(* What a section decides is reduced to the stored capacity, how much of   *)
(* it pools were given, and the latest pressure report of one pool that    *)
(* stays registered.  The fabric is volatile, so no section fails to write *)
(* its journal, and open keeps the tables.                                 *)
(***************************************************************************)
EXTENDS Policy

CONSTANTS
    Callers, NoCaller,
    Calls,                   \* the calls they make
    MaxCalls,                \* bound on the calls they make together
    MaxClock,                \* bound on the clock
    Units,                   \* sizes a backend reports
    ttl_ticks,               \* lifetime of a pressure report
    ReenterOn,               \* the events on which the sink calls the fabric
    program_backend_effects, refuse_work_after_shutdown

ASSUME LockingAssumption ==
    /\ NoCaller \notin Callers
    /\ Units \subseteq Nat \ {0}
    /\ {MaxCalls, MaxClock, ttl_ticks} \subseteq Nat

VARIABLES
    clock, backend, sink,          \* the embedder's components
    mutex, tick,                   \* mutex_ and tick_
    open, shutting_down, capacity, partitioned, evidence,
    pc, frame,                     \* where each caller is, and in which call
    sampled, answer, event,        \* its clock sample, the backend's last answer
                                   \* to it, and the event it has to publish
    calls                          \* calls made

components == <<clock, backend, sink>>
fabric == <<open, shutting_down, capacity, partitioned, evidence>>
vars == <<components, mutex, tick, fabric, pc, frame, sampled, answer, event, calls>>

NoEvent == "none"
NoFrame == [call |-> "none", section |-> "none"]

\* An open fabric that has stored the backend's size and has one pool, whose
\* pressure may have been reported just now.
Init ==
    /\ clock = 1 /\ sink = TRUE
    /\ backend \in Units
    /\ mutex = NoCaller /\ tick = 1
    /\ open = TRUE /\ shutting_down = FALSE
    /\ capacity = backend /\ partitioned = 1 /\ evidence \in {0, 1}
    /\ pc = [t \in Callers |-> "idle"]
    /\ frame = [t \in Callers |-> NoFrame]
    /\ sampled = [t \in Callers |-> 0]
    /\ answer = [t \in Callers |-> 0]
    /\ event = [t \in Callers |-> NoEvent]
    /\ calls = 0
-----------------------------------------------------------------------------
(* Taking and leaving the mutex.                                           *)

At(t, place) == pc[t] = place

Goto(t, place) == pc' = [pc EXCEPT ![t] = place]

\* The constructor of Lock samples the clock first.
Sample(t, s) ==
    /\ sampled' = [sampled EXCEPT ![t] = clock]
    /\ frame' = [frame EXCEPT ![t].section = s]
    /\ Goto(t, "lock")

Invoke(t, c) ==
    /\ At(t, "idle")
    /\ calls < MaxCalls
    /\ calls' = calls + 1
    /\ frame' = [frame EXCEPT ![t] = [call |-> c, section |-> "call"]]
    /\ sampled' = [sampled EXCEPT ![t] = clock]
    /\ Goto(t, "lock")
    /\ UNCHANGED <<components, mutex, tick, fabric, answer, event>>

\* Mutant of Acquire: the sample is not stored.
AcquireKeepingTick(t) ==
    /\ At(t, "lock")
    /\ mutex = NoCaller
    /\ mutex' = t
    /\ Goto(t, "run")
    /\ UNCHANGED <<components, tick, fabric, frame, sampled, answer, event, calls>>

\* The mutex is not recursive: a caller that holds it waits like any other.
Acquire(t) ==
    /\ At(t, "lock")
    /\ mutex = NoCaller
    /\ mutex' = t
    /\ tick' = sampled[t]
    /\ Goto(t, "run")
    /\ UNCHANGED <<components, fabric, frame, sampled, answer, event, calls>>

InSection(t, s) == At(t, "run") /\ frame[t].section = s
InCall(t, c) == InSection(t, "call") /\ frame[t].call = c

\* The end of a section: the mutex is released, whatever the path.
Unlock(t, place) ==
    /\ mutex' = NoCaller
    /\ sampled' = [sampled EXCEPT ![t] = 0]
    /\ Goto(t, place)
    /\ UNCHANGED <<components, tick, calls>>

\* The call is over, and its local variables with it.
Leave(t) ==
    /\ frame' = [frame EXCEPT ![t] = NoFrame]
    /\ answer' = [answer EXCEPT ![t] = 0]

\* A section that returns without anything to publish.
Return(t) ==
    /\ Unlock(t, "idle")
    /\ Leave(t)
    /\ UNCHANGED event

\* Mutant of Announce: the event is published before the mutex is released.
AnnounceLocked(t, e) ==
    /\ event' = [event EXCEPT ![t] = e]
    /\ Goto(t, "publish")
    /\ UNCHANGED <<components, mutex, tick, frame, sampled, answer, calls>>

\* A section with an event: unlock, then publish.
Announce(t, e) ==
    /\ Unlock(t, "publish")
    /\ event' = [event EXCEPT ![t] = e]
    /\ UNCHANGED <<frame, answer>>
-----------------------------------------------------------------------------
(* Publication.                                                            *)

\* The call, or the sink's call inside it, is over; a publication that was
\* made with the mutex held gives it back now.
Published(t) ==
    /\ Goto(t, "idle")
    /\ Leave(t)
    /\ event' = [event EXCEPT ![t] = NoEvent]
    /\ sampled' = [sampled EXCEPT ![t] = 0]
    /\ mutex' = IF mutex = t THEN NoCaller ELSE mutex

\* publish() copies the sink pointer under a mutex of its own.
ReadSink(t) ==
    /\ At(t, "publish")
    /\ IF sink THEN Goto(t, "deliver") /\ UNCHANGED <<event, mutex, frame, sampled, answer>>
       ELSE Published(t)
    /\ UNCHANGED <<components, tick, fabric, calls>>

\* on_event: a leaf, or a query of the fabric on the same thread.
Deliver(t) ==
    /\ At(t, "deliver")
    /\ IF event[t] \in ReenterOn
       THEN Sample(t, "nested") /\ UNCHANGED <<event, mutex, answer>>
       ELSE Published(t)
    /\ UNCHANGED <<components, tick, fabric, calls>>

NestedQuery(t) ==
    /\ InSection(t, "nested")
    /\ Published(t)
    /\ UNCHANGED <<components, tick, fabric, calls>>
-----------------------------------------------------------------------------
(* The critical sections.                                                  *)

Accepting == open /\ ~(shutting_down /\ refuse_work_after_shutdown)

\* The pool has evidence, and it has not lapsed at the section's tick.
Known == evidence # 0 /\ is_fresh(tick, evidence, ttl_ticks)

\* allocate with a policy that asks for evidence.  A grant has no event.
Allocate(t) ==
    /\ InCall(t, "allocate")
    /\ \/ ~Accepting /\ Return(t)
       \/ Accepting /\ Known /\ Return(t)
       \/ /\ Accepting
          /\ ~Known
          /\ Announce(t, "DecisionRefused")
    /\ UNCHANGED fabric

\* A report without a time of its own, which the fabric stamps.
ObservePressure(t) ==
    /\ InCall(t, "observe_pressure")
    /\ IF Accepting
       THEN Announce(t, "PressureUpdated") /\ evidence' = tick
       ELSE Return(t) /\ UNCHANGED evidence
    /\ UNCHANGED <<open, shutting_down, capacity, partitioned>>

\* A report for another epoch or pool generation, or from the future: its
\* event is published inside the critical section.
ObserveRejected(t) ==
    /\ InCall(t, "observe_stale")
    /\ \/ ~Accepting /\ Return(t)
       \/ /\ Accepting
          /\ event' = [event EXCEPT ![t] = "PressureRejected"]
                /\ Goto(t, "publish")
          /\ UNCHANGED <<components, mutex, tick, frame, sampled, answer, calls>>
    /\ UNCHANGED fabric

\* A pool of one unit.
RegisterPool(t) ==
    /\ InCall(t, "register_pool")
    /\ IF Accepting /\ partitioned + 1 <= capacity
       THEN Announce(t, "PoolRegistered") /\ partitioned' = partitioned + 1
       ELSE Return(t) /\ UNCHANGED partitioned
    /\ UNCHANGED <<open, shutting_down, capacity, evidence>>

RemovePool(t) ==
    /\ InCall(t, "remove_pool")
    /\ IF open /\ partitioned > 1
       THEN Announce(t, "PoolRemoved") /\ partitioned' = partitioned - 1
       ELSE Return(t) /\ UNCHANGED partitioned
    /\ UNCHANGED <<open, shutting_down, capacity, evidence>>

BeginShutdown(t) ==
    /\ InCall(t, "begin_shutdown")
    /\ shutting_down' = TRUE
    /\ Return(t)
    /\ UNCHANGED <<open, capacity, partitioned, evidence>>

Close(t) ==
    /\ InCall(t, "close")
    /\ IF open THEN Announce(t, "ShutdownComplete") ELSE Return(t)
    /\ open' = FALSE
    /\ shutting_down' = (IF open THEN FALSE ELSE shutting_down)
    /\ UNCHANGED <<capacity, partitioned, evidence>>

\* Reopening the same object keeps its tables.
Open(t) ==
    /\ InCall(t, "open")
    /\ IF open THEN Return(t) ELSE Announce(t, "EpochAdvanced")
    /\ open' = TRUE
    /\ shutting_down' = (IF open THEN shutting_down ELSE FALSE)
    /\ UNCHANGED <<capacity, partitioned, evidence>>
-----------------------------------------------------------------------------
(* set_capacity.                                                           *)

\* The first section finds the backend.
FindBackend(t) ==
    /\ InCall(t, "set_capacity")
    /\ IF open THEN Unlock(t, "query") /\ UNCHANGED <<frame, answer, event>>
       ELSE Return(t)
    /\ UNCHANGED fabric

\* A call into the backend that fails ends the operation.
BackendFails(t) ==
    /\ Goto(t, "idle")
    /\ Leave(t)
    /\ UNCHANGED sampled

\* The backend is asked with no lock held.
QueryBackend(t) ==
    /\ At(t, "query")
    /\ \/ BackendFails(t)
       \/ /\ answer' = [answer EXCEPT ![t] = backend]
          /\ Sample(t, "effects")
    /\ UNCHANGED <<components, mutex, tick, fabric, event, calls>>

\* A section that only reads the configuration and counts.
ReadEffects(t) ==
    /\ InSection(t, "effects")
    /\ Unlock(t, IF program_backend_effects THEN "program" ELSE "relock")
    /\ UNCHANGED <<fabric, frame, answer, event>>

\* The backend programs its memory, says that it has none, or fails.
Program(t) ==
    /\ At(t, "program")
    /\ \/ BackendFails(t)
       \/ Sample(t, "unsupported") /\ UNCHANGED answer
       \/ Goto(t, "relock") /\ UNCHANGED <<frame, sampled, answer>>
    /\ UNCHANGED <<components, mutex, tick, fabric, event, calls>>

CountUnsupported(t) ==
    /\ InSection(t, "unsupported")
    /\ Unlock(t, "relock")
    /\ UNCHANGED <<fabric, frame, answer, event>>

Relock(t) ==
    /\ At(t, "relock")
    /\ Sample(t, "store")
    /\ UNCHANGED <<components, mutex, tick, fabric, answer, event, calls>>

\* Mutant of Storable: a backend that shrank is believed without looking.
StorableIfSmaller(r) == partitioned <= r \/ r < capacity

Storable(r) == partitioned <= r

\* The answer is stored if the pools still fit it.  Whether the fabric is
\* still open is not asked again.
StoreCapacity(t) ==
    /\ InSection(t, "store")
    /\ IF ~(shutting_down /\ refuse_work_after_shutdown) /\ Storable(answer[t])
       THEN Announce(t, "PressureUpdated") /\ capacity' = answer[t]
       ELSE Return(t) /\ UNCHANGED capacity
    /\ UNCHANGED <<open, shutting_down, partitioned, evidence>>
-----------------------------------------------------------------------------
(* The embedder.                                                           *)

Tick ==
    /\ clock < MaxClock
    /\ clock' = clock + 1
    /\ UNCHANGED <<backend, sink, mutex, tick, fabric, pc, frame, sampled, answer,
                   event, calls>>

\* The backend changes its mind about its size.
BackendChanges ==
    /\ backend' \in Units
    /\ UNCHANGED <<clock, sink, mutex, tick, fabric, pc, frame, sampled, answer,
                   event, calls>>

SetEventSink ==
    /\ sink' = ~sink
    /\ UNCHANGED <<clock, backend, mutex, tick, fabric, pc, frame, sampled, answer,
                   event, calls>>

\* One step of a call in progress.
Step(t) ==
    \/ Acquire(t)
    \/ ReadSink(t) \/ Deliver(t) \/ NestedQuery(t)
    \/ Allocate(t)
    \/ ObservePressure(t) \/ ObserveRejected(t)
    \/ RegisterPool(t) \/ RemovePool(t)
    \/ BeginShutdown(t) \/ Close(t) \/ Open(t)
    \/ FindBackend(t) \/ QueryBackend(t) \/ ReadEffects(t) \/ Program(t)
    \/ CountUnsupported(t) \/ Relock(t) \/ StoreCapacity(t)

Next ==
    \/ \E t \in Callers : Step(t)
    \/ \E t \in Callers, c \in Calls : Invoke(t, c)
    \/ Tick
    \/ BackendChanges
    \/ SetEventSink

\* A thread that can run runs.  A free mutex is granted to some waiter, and
\* each caller makes finitely many calls, so weak fairness is enough.
Fairness == \A t \in Callers : WF_vars(Step(t))

Spec == Init /\ [][Next]_vars /\ Fairness
-----------------------------------------------------------------------------
(* Properties.                                                             *)

\* Every call returns, whatever the other callers do and although the sink
\* calls back, so that each caller is idle again and again: nobody waits for a mutex that its own thread holds, and no
\* section ends without releasing it.
EveryCallReturns == \A t \in Callers : []<>At(t, "idle")

\* Whoever waits for the mutex waits for a caller that is not waiting itself:
\* it is in its section or publishing, although the sink may call back into
\* the fabric on the thread that published.
WaitsForRunner ==
    \A t \in Callers :
        At(t, "lock") /\ mutex # NoCaller => pc[mutex] \in {"run", "publish", "deliver"}

\* The pools never have more than the stored capacity, although set_capacity
\* stores an answer it got with no lock held, while others register pools.
PartitionBounded == partitioned <= capacity

\* A grant never rests on evidence that had lapsed before the call began: the
\* tick of a section may lag behind the clock, and behind the tick of an
\* earlier section, but never behind the start of its own call.  (allocate
\* returns without an event only when it grants.)
GrantOnLiveEvidence ==
    [][\A t \in Callers :
          InCall(t, "allocate") /\ Accepting /\ pc'[t] = "idle" =>
              is_fresh(sampled[t], evidence, ttl_ticks)]_vars

\* "the fabric invokes sinks strictly after releasing its own state lock"
\* (observation.hpp), and no callback runs with the mutex held (fabric.hpp).
SinkCalledUnlocked == \A t \in Callers : At(t, "deliver") => mutex # t
=============================================================================
