------------------------------- MODULE Attempts -------------------------------
(***************************************************************************)
(* How allocate and release answer a repeated attempt.  The fabric here is *)
(* one pool whose grants are of one unit:                                  *)
(*   free    units that can be granted;                                    *)
(*   held    allocations that hold their unit;                             *)
(*   table   allocation records, which are never dropped;                  *)
(*   memory  attempts_ and attempt_order_: remembered attempts, oldest     *)
(*           first;                                                        *)
(*   applied history: every attempt that was not a replay, in order.       *)
(* An operation maps a fabric and a request to the next fabric and an      *)
(* answer.  The digest of a request is the part of it that a client could  *)
(* change from one use of an attempt id to the next: what it asks for, of  *)
(* which allocation and of which epoch.                                    *)
(***************************************************************************)
EXTENDS Integers, Sequences, FiniteSets

CONSTANTS
    attempt_memory_capacity,
    kMaxAllocationCount

\* open() refuses a memory of no attempts.
ASSUME AttemptsAssumption ==
    /\ attempt_memory_capacity \in Nat \ {0}
    /\ kMaxAllocationCount \in Nat

NoAllocation == 0

EmptyFabric(units) ==
    [free |-> units, held |-> {}, table |-> 0, memory |-> <<>>, applied |-> <<>>]

request_digest(r) == [op |-> r.op, allocation |-> r.allocation, epoch |-> r.epoch]

Remembered(f, id) == {m \in {f.memory[i] : i \in DOMAIN f.memory} : m.id = id}

\* lookup_attempt
IsConflict(f, r) == \E m \in Remembered(f, r.attempt) : m.digest # request_digest(r)
IsReplay(f, r) == \E m \in Remembered(f, r.attempt) : m.digest = request_digest(r)

\* Mutant of evict_attempts: the newest attempts are the ones forgotten.
EvictNewest(memory) ==
    IF Len(memory) > attempt_memory_capacity
    THEN SubSeq(memory, 1, attempt_memory_capacity)
    ELSE memory

evict_attempts(memory) ==
    IF Len(memory) > attempt_memory_capacity THEN Tail(memory) ELSE memory

\* record_attempt, for an attempt that is not remembered.
record_attempt(f, r, answer) ==
    [f EXCEPT !.memory = evict_attempts(Append(@, [id |-> r.attempt,
                                                   digest |-> request_digest(r),
                                                   answer |-> answer])),
              !.applied = Append(@, [attempt |-> r.attempt, op |-> r.op, epoch |-> r.epoch,
                                     allocation |-> answer.allocation])]

Answer(status, granted, allocation) ==
    [status |-> status, granted |-> granted, allocation |-> allocation]

Unaffected(f, status) == [fabric |-> f, answer |-> Answer(status, 0, NoAllocation)]

\* Mutant of Replayed: a repeated attempt is refused.
ReplayRefused(f, r) == Unaffected(f, "Refused")

\* The recorded answer.
Replayed(f, r) ==
    [fabric |-> f, answer |-> (CHOOSE m \in Remembered(f, r.attempt) : TRUE).answer]

\* An answer that is recorded, with the fabric it was given in.
Decided(f, r, answer) == [fabric |-> record_attempt(f, r, answer), answer |-> answer]

\* Mutant of allocate: the free units are not looked at.
AllocateBlindly(f, r) ==
    LET id == f.table + 1
    IN  IF f.table >= kMaxAllocationCount THEN Unaffected(f, "BoundedResourceExhausted")
        ELSE IF IsConflict(f, r) THEN Unaffected(f, "AttemptConflict")
        ELSE IF IsReplay(f, r) THEN Replayed(f, r)
        ELSE Decided([f EXCEPT !.free = @ - 1, !.held = @ \cup {id}, !.table = id], r,
                     Answer("Ok", 1, id))

\* allocate_locked.  The bound on the table comes before the memory, so that
\* it refuses a replay too.  A refusal is recorded like a grant.
allocate(f, r) ==
    LET id == f.table + 1
    IN  IF f.table >= kMaxAllocationCount THEN Unaffected(f, "BoundedResourceExhausted")
        ELSE IF IsConflict(f, r) THEN Unaffected(f, "AttemptConflict")
        ELSE IF IsReplay(f, r) THEN Replayed(f, r)
        ELSE IF f.free = 0 THEN Decided(f, r, Answer("Refused", 0, NoAllocation))
        ELSE Decided([f EXCEPT !.free = @ - 1, !.held = @ \cup {id}, !.table = id], r,
                     Answer("Ok", 1, id))

\* release_locked with release_all.  An allocation that holds nothing is
\* released once more without effect.
release(f, r) ==
    IF IsConflict(f, r) THEN Unaffected(f, "AttemptConflict")
    ELSE IF r.allocation \notin 1..f.table THEN Unaffected(f, "UnknownAllocation")
    ELSE IF IsReplay(f, r) THEN Replayed(f, r)
    ELSE IF r.allocation \notin f.held THEN Decided(f, r, Answer("Ok", 0, r.allocation))
    ELSE Decided([f EXCEPT !.free = @ + 1, !.held = @ \ {r.allocation}], r,
                 Answer("Ok", 1, r.allocation))
=============================================================================
