------------------------------ MODULE Durable ------------------------------
(***************************************************************************)
(* Durability: the journal, the snapshot and recovery (DurabilityMode      *)
(* JournalSync).  A public operation holds the fabric's one mutex while it *)
(* writes a fixed list of journal records, so an operation is a plan: the  *)
(* sequence of its records, each with the side of the journal on which the *)
(* code changes memory.  A crash may fall between any two file system      *)
(* effects of the plan.                                                    *)
(*                                                                         *)
(* Abstracted: the contents of a descriptor beyond its generation, the     *)
(* aggregates (a function of the records, rebuilt on recovery; Fabric.tla  *)
(* has them), byte offsets (a torn frame is the value Torn), the byte      *)
(* bounds of the two files and a snapshot that fails its checksum.         *)
(***************************************************************************)
EXTENDS Integers, Sequences, Functions, FiniteSets

CONSTANTS
  Pools, Queues, Attempts, \* identities
  Configs,                 \* subset of {"policy", "capacity", "pressure"}
  MaxAllocations,          \* kMaxAllocationCount, and the identity space explored
  MaxGeneration,           \* bound on pool and queue generations
  MaxPublished,            \* bound on the generation of a configuration object
  MaxCrashes,              \* bound on process crashes
  MaxOpens,                \* bound on successful opens (and so on epochs)
  compact_journal_records, \* compact_journal_bytes, counted in frames
  MaxFailures              \* bound on writes, flushes and renames that return an error

ASSUME DurableAssumption ==
  /\ Configs \subseteq {"policy", "capacity", "pressure"}
  /\ {MaxAllocations, MaxPublished, MaxCrashes, MaxFailures} \subseteq Nat
  /\ {MaxGeneration, MaxOpens, compact_journal_records} \subseteq Nat \ {0}

VARIABLES
  status,    \* no process, an object not open, inside open(), or open
  mem,       \* the image in memory
  snapshot,  \* the image in fabric.bfs
  journal,   \* the frames of fabric.bfj
  plan,      \* the records of the operation in progress
  at,        \* the next record of the plan
  phase,     \* where the operation stands with that record
  crashes,   \* process crashes so far
  failures,  \* failed file system calls so far
  before,    \* history: the image in memory when the operation began
  answered,  \* history: attempts whose grant was acknowledged
  seen       \* history: epochs an open() has returned

vars == <<status, mem, snapshot, journal, plan, at, phase, crashes, failures,
          before, answered, seen>>

-----------------------------------------------------------------------------
(* Images and records                                                      *)

\* No object under this identity, and a frame that was cut short.
Absent == [state |-> "absent"]
Torn == [table |-> "torn"]
AllocationIds == 1..MaxAllocations
MaxEpoch == MaxOpens + MaxCrashes + MaxFailures
\* Released, Expired, Fenced and Reclaimed hold no units: allocation_is_terminal.
AllocationState == {"Reserved", "Committed", "Terminal"}

AllocationRecord ==
  [state : AllocationState, queue : Queues, pool : Pools, attempt : Attempts]

QueueDescriptor == [pool : Pools, generation : 1..MaxGeneration, retired : BOOLEAN]

\* What a snapshot holds: every table, the epoch and the identity counters.
Image ==
  [epoch              : 0..MaxEpoch,
   next_allocation_id : 1..(MaxAllocations + 1),
   attempts           : SUBSET Attempts,
   pools              : [Pools -> 0..MaxGeneration],
   config             : [Configs -> 0..MaxPublished],
   queues             : [Queues -> QueueDescriptor \cup {Absent}],
   allocations        : [AllocationIds -> AllocationRecord \cup {Absent}]]

EmptyImage ==
  [epoch              |-> 0,
   next_allocation_id |-> 1,
   attempts           |-> {},
   pools              |-> [p \in Pools |-> 0],
   config             |-> [c \in Configs |-> 0],
   queues             |-> [q \in Queues |-> Absent],
   allocations        |-> [a \in AllocationIds |-> Absent]]

JournalRecord ==
       [table : {"pools"}, key : Pools, value : 0..MaxGeneration]
  \cup [table : {"config"}, key : Configs, value : 1..MaxPublished]
  \cup [table : {"queues"}, key : Queues, value : QueueDescriptor]
  \cup [table : {"allocations"}, key : AllocationIds, value : AllocationRecord]
  \cup [table : {"epoch"}, key : {0}, value : 1..MaxEpoch]

\* A step of a plan: its record, whether memory changes before the journal or
\* after it, and whether it is the record of a new allocation.
Step(first, table, key, value) ==
  [first |-> first, grant |-> FALSE,
   record |-> [table |-> table, key |-> key, value |-> value]]

\* Mutant of Replay: the epoch record is read and dropped.
ReplayWithoutEpoch(img, r) ==
  IF r.table = "epoch" THEN img ELSE [img EXCEPT ![r.table][r.key] = r.value]

\* Every record but the epoch's replaces the whole object it names.
Replay(img, r) ==
  IF r.table = "epoch"
  THEN [img EXCEPT !.epoch = IF r.value > @ THEN r.value ELSE @]
  ELSE [img EXCEPT ![r.table][r.key] = r.value]

\* Mutant of Applied: a commit or a release consumes an identity too.
AppliedConsumingIds(img, s) ==
  LET next == Replay(img, s.record)
  IN IF s.record.table = "allocations"
     THEN [next EXCEPT !.next_allocation_id = @ + 1] ELSE next

\* remove_pool also forgets the retired queues of the pool.
ForgetQueues(img, p) ==
  [img EXCEPT !.queues = [q \in Queues |->
     IF @[q] # Absent /\ @[q].pool = p THEN Absent ELSE @[q]]]

\* A grant also advances the identity counter and remembers its attempt.
RememberGrant(img, t) ==
  [img EXCEPT !.next_allocation_id = @ + 1, !.attempts = @ \cup {t}]

\* Memory after the step.
Applied(img, s) ==
  LET r == s.record
      next == Replay(img, r)
  IN CASE r.table = "pools" /\ r.value = 0 -> ForgetQueues(next, r.key)
       [] s.grant -> RememberGrant(next, r.value.attempt)
       [] OTHER -> next

\* The number of journal records that recovery replays.
Intact(j) ==
  CHOOSE n \in 0..Len(j) :
    /\ \A i \in 1..n : j[i] # Torn
    /\ n < Len(j) => j[n + 1] = Torn

\* Those records over an image, in the order of the journal.
ReplayAll(img, j) ==
  LET after[n \in 0..Len(j)] == IF n = 0 THEN img ELSE Replay(after[n - 1], j[n])
  IN after[Intact(j)]

\* Memory after the first n steps of a plan.
AppliedUpTo(img, steps, n) ==
  LET after[k \in 0..Len(steps)] == IF k = 0 THEN img ELSE Applied(after[k - 1], steps[k])
  IN after[n]

\* Mutant of Refused: any damage is refused.
RefusedIfTorn(j) == Torn \in Range(j)

\* recover(): damage that an intact record follows is refused.
Refused(j) == \E i, k \in 1..Len(j) : i < k /\ j[i] = Torn /\ j[k] # Torn

\* apply_snapshot_payload: the entries of the snapshot over those in memory.
Overlay(img, snap) ==
  IF snap.epoch = 0 THEN img
  ELSE [snap EXCEPT
         !.attempts = @ \cup img.attempts,
         !.pools = [p \in Pools |-> IF @[p] = 0 THEN img.pools[p] ELSE @[p]],
         !.config = [c \in Configs |-> IF @[c] = 0 THEN img.config[c] ELSE @[c]],
         !.queues = [q \in Queues |-> IF @[q] = Absent THEN img.queues[q] ELSE @[q]],
         !.allocations = [a \in AllocationIds |->
            IF @[a] = Absent THEN img.allocations[a] ELSE @[a]]]

\* A lease does not survive a restart.
ExpireLeases(allocations) ==
  [a \in AllocationIds |->
     IF allocations[a] # Absent /\ allocations[a].state = "Reserved"
     THEN [allocations[a] EXCEPT !.state = "Terminal"] ELSE allocations[a]]

\* load_from_store(), starting from what memory holds.
Recovered(img) ==
  [ReplayAll(Overlay(img, snapshot), journal) EXCEPT !.allocations = ExpireLeases(@)]

-----------------------------------------------------------------------------
(* Operations: guards on memory, and the plan                              *)

Init ==
  /\ status = "down"
  /\ mem = EmptyImage /\ snapshot = EmptyImage /\ journal = <<>>
  /\ plan = <<>> /\ at = 1 /\ phase = "idle"
  /\ crashes = 0 /\ failures = 0
  /\ before = EmptyImage /\ answered = {} /\ seen = {}

Idle == status = "open" /\ phase = "idle"

Begin(steps) ==
  /\ Idle
  /\ steps # <<>>
  /\ plan' = steps /\ at' = 1 /\ phase' = "start"
  /\ UNCHANGED <<status, mem, snapshot, journal, crashes, failures, before, answered, seen>>

Holding(img) ==
  {a \in AllocationIds :
     img.allocations[a] # Absent /\ img.allocations[a].state \in {"Reserved", "Committed"}}

Live(img, q) == img.queues[q] # Absent /\ ~ img.queues[q].retired

\* fence_allocation_locked on one victim after the other: memory first.
Fences(victims) ==
  [i \in 1..Len(victims) |->
     Step("memory", "allocations", victims[i],
          [mem.allocations[victims[i]] EXCEPT !.state = "Terminal"])]

\* The one sequence of the elements of S in increasing order.
InIdOrder(S) ==
  {s \in [1..Cardinality(S) -> S] : \A i, k \in 1..Cardinality(S) : i < k => s[i] < s[k]}

\* Which holders are revoked, and in which order, depends on units, classes
\* and ages that the image leaves out.
Victims ==
  UNION {Injection(1..n, Holding(mem)) : n \in 0..Cardinality(Holding(mem))}

HeldIn(p) == {a \in Holding(mem) : mem.allocations[a].pool = p}
HeldBy(q) == {a \in Holding(mem) : mem.allocations[a].queue = q}

RegisterPool(p) ==
  /\ mem.pools[p] = 0
  /\ Begin(<<Step("journal", "pools", p, 1)>>)

\* The new size is journaled, then what no longer fits is fenced.
ResizePool(p) ==
  /\ mem.pools[p] \in 1..(MaxGeneration - 1)
  /\ \E victims \in Victims :
       Begin(<<Step("memory", "pools", p, mem.pools[p] + 1)>> \o Fences(victims))

\* The pool's pressure evidence, which is erased from memory and not by replay,
\* is left out: a configuration object here belongs to no pool.
RemovePool(p) ==
  /\ mem.pools[p] # 0
  /\ \A q \in Queues : Live(mem, q) => mem.queues[q].pool # p
  /\ HeldIn(p) = {}
  /\ Begin(<<Step("journal", "pools", p, 0)>>)

\* set_capacity, publish_policy and observe_pressure write one whole object;
\* a policy may then fence what was granted under the previous one.
Publish(c) ==
  /\ mem.config[c] < MaxPublished
  /\ \E victims \in IF c = "policy" THEN Victims ELSE {<<>>} :
       Begin(<<Step("journal", "config", c, mem.config[c] + 1)>> \o Fences(victims))

RegisterQueue(q, p) ==
  /\ mem.queues[q] = Absent
  /\ mem.pools[p] # 0
  /\ Begin(<<Step("journal", "queues", q, [pool |-> p, generation |-> 1, retired |-> FALSE])>>)

RetireQueue(q) ==
  /\ Live(mem, q)
  /\ mem.queues[q].generation < MaxGeneration
  /\ \E victims \in InIdOrder(HeldBy(q)) :
       Begin(<<Step("memory", "queues", q,
                    [mem.queues[q] EXCEPT !.retired = TRUE, !.generation = @ + 1])>>
             \o Fences(victims))

RetargetQueue(q, p) ==
  /\ Live(mem, q)
  /\ mem.queues[q].generation < MaxGeneration
  /\ mem.pools[p] # 0
  /\ \E victims \in InIdOrder(HeldBy(q)) :
       Begin(Fences(victims)
             \o <<Step("memory", "queues", q,
                       [mem.queues[q] EXCEPT !.pool = p, !.generation = @ + 1])>>)

\* ensure_alloc_capacity counts the records; the identities explored are
\* bounded by the same number.
HasRoom(img) ==
  /\ Cardinality({a \in AllocationIds : img.allocations[a] # Absent}) < MaxAllocations
  /\ img.next_allocation_id <= MaxAllocations

\* lookup_attempt: an attempt that is remembered is answered from memory.
Remembered(t) == t \in mem.attempts

\* allocate or reserve under a new attempt t.
Allocate(q, t, state) ==
  /\ ~ Remembered(t)
  /\ HasRoom(mem)
  /\ Live(mem, q)
  /\ Begin(<<[Step("journal", "allocations", mem.next_allocation_id,
                   [state |-> state, queue |-> q, pool |-> mem.queues[q].pool, attempt |-> t])
              EXCEPT !.grant = TRUE]>>)

\* commit, release and revalidate journal the new record, then store it.
Update(a, from, to) ==
  /\ mem.allocations[a] # Absent
  /\ mem.allocations[a].state \in from
  /\ Begin(<<Step("journal", "allocations", a, [mem.allocations[a] EXCEPT !.state = to])>>)

Commit(a) == Update(a, {"Reserved"}, "Committed")
Release(a) == Update(a, {"Reserved", "Committed"}, "Terminal")

\* fence_stale, expire_reservations and apply_reclaim revoke several
\* allocations one after the other.
Revoke(victims) == Begin(Fences(victims))

-----------------------------------------------------------------------------
(* The file system effects of the operation in progress                    *)

needs_compaction == Len(journal) >= compact_journal_records

\* write_file_atomic writes a temporary file, flushes it and renames it over
\* the snapshot: a crash leaves the old image or the new one.
InstallSnapshot(img) == snapshot' = img

\* Mutant of truncate_to: the file is cut behind the damaged frame.
TruncateBehind(j, n) == SubSeq(j, 1, IF n < Len(j) THEN n + 1 ELSE n)

truncate_to(j, n) == SubSeq(j, 1, n)

\* Mutant of StartRecord: compaction empties the journal before the snapshot
\* is in place.
StartByTruncating ==
  /\ phase = "start"
  /\ mem' = IF plan[at].first = "memory" THEN Applied(mem, plan[at]) ELSE mem
  /\ journal' = IF needs_compaction THEN <<>> ELSE journal
  /\ phase' = IF needs_compaction THEN "renamed" ELSE "append"
  /\ UNCHANGED <<status, snapshot, plan, at, crashes, failures, before, answered, seen>>

\* The code up to the append: a memory-first step changes memory, and
\* journal() renames a full snapshot into place when the journal is long.
StartRecord ==
  /\ phase = "start"
  /\ mem' = IF plan[at].first = "memory" THEN Applied(mem, plan[at]) ELSE mem
  /\ InstallSnapshot(IF needs_compaction THEN mem' ELSE snapshot)
  /\ phase' = IF needs_compaction THEN "renamed" ELSE "append"
  /\ UNCHANGED <<status, journal, plan, at, crashes, failures, before, answered, seen>>

\* write_snapshot empties the journal once the snapshot is in place.
TruncateJournal ==
  /\ phase = "renamed"
  /\ journal' = truncate_to(journal, 0)
  /\ phase' = IF plan = <<>> THEN "idle" ELSE "append"
  /\ UNCHANGED <<status, mem, snapshot, plan, at, crashes, failures, before, answered, seen>>

\* append_record writes and flushes one frame.  After the last record the
\* operation is acknowledged; for open() that is the return.
AppendRecord ==
  /\ phase = "append"
  /\ journal' = Append(journal, plan[at].record)
  /\ mem' = IF plan[at].first = "journal" THEN Applied(mem, plan[at]) ELSE mem
  /\ IF at < Len(plan)
     THEN /\ at' = at + 1 /\ phase' = "start"
          /\ UNCHANGED <<status, plan, before, answered, seen>>
     ELSE /\ at' = 1 /\ phase' = "idle" /\ plan' = <<>> /\ status' = "open"
          /\ before' = mem'
          /\ answered' = answered \cup
               (IF plan[at].grant THEN {plan[at].record.value.attempt} ELSE {})
          /\ seen' = seen \cup {mem'.epoch}
  /\ UNCHANGED <<snapshot, crashes, failures>>

\* What an interrupted append may leave in the file.
Interrupted(j, r) == {j, Append(j, Torn), Append(j, r)}

\* A failed effect ends the operation with an error: the snapshot is not
\* renamed, the journal is or is not emptied, or the append is interrupted.
\* Memory keeps what the operation already changed; open() closes the object
\* again.
FailOperation ==
  /\ failures < MaxFailures
  /\ failures' = failures + 1
  /\ \/ /\ phase = "start" /\ needs_compaction
        /\ mem' = IF plan[at].first = "memory" THEN Applied(mem, plan[at]) ELSE mem
        /\ journal' = journal
     \/ /\ phase = "renamed"
        /\ journal' \in {journal, <<>>}
        /\ mem' = mem
     \/ /\ phase = "append"
        /\ journal' \in Interrupted(journal, plan[at].record)
        /\ mem' = mem
  /\ status' = IF status = "opening" THEN "closed" ELSE status
  /\ plan' = <<>> /\ at' = 1 /\ phase' = "idle" /\ before' = mem'
  /\ UNCHANGED <<snapshot, crashes, answered, seen>>

\* checkpoint(): a full snapshot outside any mutation.
Checkpoint ==
  /\ Idle
  /\ InstallSnapshot(mem) /\ phase' = "renamed"
  /\ UNCHANGED <<status, mem, journal, plan, at, crashes, failures, before, answered, seen>>

\* The process dies at any point; an append in progress is interrupted.
Crash ==
  /\ status # "down"
  /\ crashes < MaxCrashes
  /\ journal' \in IF phase = "append" THEN Interrupted(journal, plan[at].record) ELSE {journal}
  /\ status' = "down" /\ phase' = "idle" /\ mem' = EmptyImage /\ crashes' = crashes + 1
  /\ UNCHANGED <<snapshot, failures, plan, at, before, answered, seen>>

\* close() clears neither the tables nor the files.
Close ==
  /\ Idle
  /\ Cardinality(seen) < MaxOpens
  /\ status' = "closed"
  /\ UNCHANGED <<mem, snapshot, journal, plan, at, phase, crashes, failures, before, answered, seen>>

\* open(): recover, cut a torn tail, and advance the epoch as a plan of one
\* memory-first record.
Open ==
  /\ status \in {"down", "closed"}
  /\ ~ Refused(journal)
  /\ mem' = Recovered(mem) /\ before' = mem'
  /\ journal' = truncate_to(journal, Intact(journal))
  /\ status' = "opening" /\ phase' = "start" /\ at' = 1
  /\ plan' = <<Step("memory", "epoch", 0, mem'.epoch + 1)>>
  /\ UNCHANGED <<snapshot, crashes, failures, answered, seen>>

\* A recovery that is refused fails open() after the records before the damage
\* were applied to memory.
OpenRefused ==
  /\ status \in {"down", "closed"}
  /\ Refused(journal)
  /\ mem' = ReplayAll(Overlay(mem, snapshot), journal)
  /\ status' = "closed"
  /\ UNCHANGED <<snapshot, journal, plan, at, phase, crashes, failures, before, answered, seen>>

Progress == StartRecord \/ TruncateJournal \/ AppendRecord

Next ==
  \/ Progress
  \/ FailOperation
  \/ Checkpoint
  \/ Crash
  \/ Close
  \/ Open
  \/ OpenRefused
  \/ \E p \in Pools : RegisterPool(p) \/ ResizePool(p) \/ RemovePool(p)
  \/ \E c \in Configs : Publish(c)
  \/ \E q \in Queues, p \in Pools : RegisterQueue(q, p) \/ RetargetQueue(q, p)
  \/ \E q \in Queues : RetireQueue(q)
  \/ \E q \in Queues, t \in Attempts, s \in {"Reserved", "Committed"} : Allocate(q, t, s)
  \/ \E a \in AllocationIds : Commit(a) \/ Release(a)
  \/ \E victims \in Victims : Revoke(victims)

\* An operation that has begun runs to its end unless the process crashes, and
\* the process is opened again after a crash or a close.
Fairness == WF_vars(Progress) /\ WF_vars(Open)

Spec == Init /\ [][Next]_vars /\ Fairness

-----------------------------------------------------------------------------
(* Properties                                                              *)

\* Type invariant: memory and the snapshot are images within the bounds, and
\* journal and plan hold well-formed records.
TypeOK ==
  /\ status \in {"down", "closed", "opening", "open"}
  /\ mem \in Image /\ snapshot \in Image /\ before \in Image
  /\ \A i \in 1..Len(journal) : journal[i] \in JournalRecord \cup {Torn}
  /\ \A i \in 1..Len(plan) :
       /\ plan[i].first \in {"memory", "journal"} /\ plan[i].grant \in BOOLEAN
       /\ plan[i].record \in JournalRecord
  /\ at \in 1..(Len(plan) + 1) /\ phase \in {"idle", "start", "renamed", "append"}
  /\ answered \subseteq Attempts /\ seen \subseteq 1..MaxEpoch

\* What a restart restores: everything but leases, retired queues, remembered
\* attempts and the identity counters.
View(img) ==
  [epoch       |-> img.epoch,
   pools       |-> img.pools,
   config      |-> img.config,
   queues      |-> [q \in {x \in Queues : Live(img, x)} |-> img.queues[q]],
   allocations |-> ExpireLeases(img.allocations)]

\* At every instant, a crash now would recover the state of the last
\* acknowledged operation plus the effect of a prefix of the records of the
\* operation in progress: nothing acknowledged is lost, no record takes effect
\* out of order, and the stale journal that a crash between the rename of the
\* snapshot and the truncation of the journal leaves behind changes nothing.
CrashKeepsPrefix ==
  \E n \in 0..Len(plan) :
     View(Recovered(EmptyImage)) = View(AppliedUpTo(before, plan, n))

\* An open() never returns an epoch that an earlier open() returned, whatever
\* crashes fell between the two: epochs only grow.
EpochNeverReused ==
  [][status = "opening" /\ status' = "open" => \A e \in seen : mem'.epoch > e]_vars

\* After a crash the fabric can be opened again and reaches an idle open state:
\* interrupted appends and compactions never leave files that recovery refuses.
RecoveryCompletes == (status = "down") ~> Idle

\* fabric_alloc.cpp:575 says allocation identity cannot collide: a grant never
\* takes the identity of a committed allocation that was acknowledged.
IdentityFresh ==
  \A i \in 1..Len(plan) :
     LET old == before.allocations[plan[i].record.key]
     IN plan[i].grant /\ old # Absent =>
          ~(old.state = "Committed" /\ old.attempt \in answered)

\* README:312 says intact records after damage are corruption, not an
\* interrupted write: no write that was interrupted, by a crash or by an error,
\* leads to a refused recovery.  (Crashes alone never do.)
DamageIsCorruption == ~ Refused(journal)

=============================================================================
