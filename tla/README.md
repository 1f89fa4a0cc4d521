# Buffer Fabric in TLA+

Buffer Fabric governs packet-buffer capacity. Pools partition a backend's
capacity, queues ask pools for units, and every grant is bound to the
generations it was made under. This directory holds TLA+ models of the fabric
and of the service around it, the instances that TLC checks and proofs that
TLAPS checks. Paths below are
relative to the repository (`src/...` here, `src/src/...` in `PROJECT.json`).

## The system and its parts

| Part | Code | Models |
|---|---|---|
| Accounting of a pool and the global identity | `accounting.cpp`, `PoolEntry` in `fabric_impl.hpp` | `Units`, `Accounting` |
| Policies, pressure bands, freshness | `policy.cpp`, `time.hpp` | `Policy` |
| Capacity engine: allocate/reserve, commit, release, revalidate, fence, expire | `fabric_alloc.cpp` | `Fabric`, `Commitments` |
| Topology: capacity, policies, pools, queues | `fabric_topology.cpp` | `Fabric` |
| Pressure evidence and reclamation | `fabric_topology.cpp`, `fabric_query.cpp` | `Fabric` |
| `evaluate` | `fabric_query.cpp` | `Fabric` |
| Lifecycle: open, begin_shutdown, close | `fabric.cpp` | `Fabric`, `Durable`, `Locking` |
| Journal, snapshot, recovery | `persistence.cpp`, `fs.cpp`, `fabric.cpp` | `Durable` |
| Mutex, clock, event publication, backend queries | `fabric_impl.hpp`, `fabric.cpp`, `fabric_topology.cpp` | `Locking` |
| Attempt memory (idempotency) | `fabric.cpp`, `fabric_alloc.cpp` | `Attempts`; over a restart `Durable` |
| Coordinator | `coordinator.cpp` | `Coordinator` |
| Worker, sockets | `worker.cpp`, `transport.cpp` | `Service` |
| Authority vectors, codecs, JSON, process control, tools | the remaining files | not modelled |

How they interact: every public operation takes the fabric's one mutex,
validates against topology, policy and evidence, changes one allocation record
and the aggregates of its pool and of at most one lender, writes journal
records, unlocks and publishes events. The coordinator serves the same
operations to workers over TCP, with a thread for each connection.

The models cut this along the questions. `Fabric` takes an operation as one
step and keeps all of its data. `Durable` splits it into file system effects,
`Locking` into what happens before, under and after the mutex; each keeps only
the data that its questions need. `Service` composes workers, connections and
the coordinator's threads with the part of the fabric that answers repeated
attempts. `Commitments` says what all of it promises.

## Modules

**`Units`** writes a sum of units as the cardinality of a set of pairs. The code
adds in loops; counting says the same without a recursion, so that TLAPS can
reason about it.

**`Accounting`** has the derived quantities (`Usable`, `OvercommitUsed`,
`FreeUnits`, `OwnUsage`) and the two checks of `accounting.cpp`.

**`Policy`** has the fields of a policy that operations read, its validation,
`classify_pressure` and `is_fresh`.

**`Fabric`** is the authoritative state in memory (`DurabilityMode::None`).
Variables are the tables of `BufferFabric::Impl`: `policies`, `pools` (the
descriptors), `usage`, `queue_reserved`, `queue_committed` and `members` (the
rest of a `PoolEntry`), `queues`, `allocations`, `pressure`, `capacity`, the
identity counter, the lifecycle flags and the tick. One action stands for one
public operation, with every guard, every aggregate it changes and the closure
check at its end: a failed check latches `shutting_down`, as in the code
(`LatchUnlessClosed`). A call that fails before it changes anything is a
stuttering step. The interesting operators:

- `Chains`, `IsLender`, `Borrowable`, `MaxGrant`: the walk of `compute_grant`
  over the ancestors, to the nearest with free units;
- `GrantLimit`, `Grant`, `BorrowPart`: caps, partial grants, and the split into
  own, borrowed and overcommitted units;
- `ReleasedBorrow`: the proportional return of borrowed units, modulo `Word`;
- `Returnable`, `UsageAtRefusal`, `RevokeInTurn`: the underflow checks of
  `apply_release_units`, the fields it has already changed when it refuses, and
  the fences that a loop has made when it meets a refusal (the order of the
  loop, which decides which ones, is left open);
- `EnforceVictims`: what a shrink fences;
- `ReclaimPlan`: the order, bounds and floor of `plan_reclaim`.

`evaluate` is compared with what `allocate` would do in the same state
(`Granted`).

**`Commitments`** is the abstract specification: claims on accounts, issued
once and within limits, that afterwards only shrink and end. `Fabric` implements
it under the mapping `ClaimsMade` (an allocation record is a claim) and
`LimitsInForce` (a pool is an account; its room is its usable units, its limit
adds the overcommit allowance). `KeepsCommitments` is that specification,
instantiated.

**`Durable`** is `DurabilityMode::JournalSync`. An operation is a *plan*: the
sequence of its journal records, each marked with the side of the journal on
which the code changes memory. `StartRecord`, `TruncateJournal` and
`AppendRecord` are the file system effects (with the compaction that may
precede an append); `Crash` may fall between any two, and leaves an append in
progress absent, torn or whole; `FailOperation` is an effect that returns an
error. `Open` recovers, cuts a torn tail, expires leases and journals the next
epoch; `OpenRefused` is a recovery that is refused. Which allocations an
operation revokes, and in which order, depends on data that this module leaves
out, and is arbitrary.

**`Locking`** gives each caller a place (`pc`): it samples the clock, waits for
the mutex, runs its section, unlocks, and hands its event to the sink, which may
call the fabric again on the same thread (`NestedQuery`). `set_capacity` has
several sections with the backend's `query` and `program` between them; the
backend changes its size at any time. A rejected pressure report publishes
before it unlocks (`ObserveRejected`), as the code does. A section decides about
the stored capacity, the units that pools were given and one pressure report.

**`Attempts`** has `lookup_attempt`, `record_attempt` and `evict_attempts`, and
`allocate` and `release` around them, as operators from a fabric and a request
to a fabric and an answer. The order of their checks is kept: the bound on
records comes before the memory in `allocate`, the unknown allocation before
the replay in `release`. A digest covers the operation, the allocation named and
the expected epoch. The history `applied` lists what was not a replay.

**`Coordinator`** has the threads: the main thread (start, request_shutdown in
its two halves, the two joins of `stop`, close), the accept loop and one session
per connection. The epoch of a start is one more than the last if there is a
`state_directory` and 1 if not. A session checks the flag, receives, dispatches (epoch check,
operation, reply) and sends. `clients` keeps the sockets of ended sessions, as
`clients_` does. `Crash` kills the process.

**`Service`** adds the workers of `run_worker` and other clients. A worker
connects, says Hello with the epoch it may have been given, and alternates
Allocate and Release; every exchange may fail at any point, and a later run
starts again from the first attempt id.

`MCFabric`, `MCPressure`, `MCTopology`, `MCWide`, `MCDurable`, `MCLocking` and
`MCService` are the instances. The proofs are `LedgerProofs`, `FabricProofs`,
`PromiseProofs` and `AccountingProofs` about `Fabric` (each extends the one
before), `DurableProofs`, `LockingProofs`, and `ServiceProofs` with `RunProofs`
about `Service`.

Definitions whose comment begins with "Mutant of" are variants of the next
definition with a plausible mistake; a property is kept only if some variant
breaks it.

## What the runs check

Runs that pass:

| Run | Properties | Instance |
|---|---|---|
| `ledger` (`MCFabric.cfg`) | `TypeOK`, `AggregatesMatchRecords`, `AlwaysReturnable`, `AccountingIdentity`, `MembersCurrent`, `QueueCapRespected`, `EvaluateForetells`, `KeepsCommitments` | root of 4 units and child of 1, one queue, two allocations, two policies; 441,372 states |
| `pressure` (`MCPressure.cfg`) | `EvaluateForetells`, `EvidenceGatesGrowth`, `ReclaimRespectsPolicy`, `ShutdownOnlyDrains` | one pool, two allocations, three ticks; 690,252 states |
| `topology` (`MCTopology.cfg`) | `PartitionBounded`, `NoOrphanedUnits`, `WalkReachesRoot` | four interchangeable pools, depth bound 2, one allocation |
| `durable` (`MCDurable.cfg`) | `TypeOK`, `CrashKeepsPrefix`, `DamageIsCorruption`, `RecoveryCompletes` | one pool, one queue, two allocations, one crash, two opens; 457,292 states |
| `faults` (`MCFaults.cfg`) | `EpochNeverReused` | two crashes and two failed effects; 754,694 states |
| `locking` (`MCLocking.cfg`) | `PartitionBounded`, `WaitsForRunner`, `EveryCallReturns`, `GrantOnLiveEvidence` | two callers, two calls of nine kinds, two backend sizes, clock to 3; 608,960 states |
| `service` (`MCService.cfg`) | `TypeOK`, `RetryWindow`, `EpochFenced`, `FinishedHoldsNothing`, `AnswersEarned`, `SessionsBounded`, `FabricOutlivesSessions`, `StopAwaitsNoClient`, `StopReturns` | one worker run repeatedly, other clients, three connections, two starts, a memory of one attempt; 703,959 states |

In words:

- Books. The aggregates that the code maintains by increments are always the
  sums over the records (`AggregatesMatchRecords`) and balance
  (`AccountingIdentity`). They always cover what is held, so that
  `apply_release_units` never refuses to take units back and no loop of fences
  stops half way (`AlwaysReturnable`). The fabric implements `Commitments`: no grant
  overdraws a borrower or a lender, and units go back at most once
  (`KeepsCommitments`). What `evaluate` answers, `allocate` does, but for the
  soft limit and a pool that a revision left past its allowance
  (`EvaluateForetells`).
- Topology. No order of changes strands units (`NoOrphanedUnits`), hides a
  lender (`WalkReachesRoot`) or promises more than the backend has
  (`PartitionBounded`).
- Evidence. Stale evidence never lets a pool grow (`EvidenceGatesGrowth`), and
  although the tick of a section may lag, evidence that had lapsed before the
  call began is never relied on (`GrantOnLiveEvidence`).
- Durability. At every instant a crash would recover the last acknowledged
  state plus a prefix of the operation in progress (`CrashKeepsPrefix`), what
  crashes alone leave behind is never taken for corruption
  (`DamageIsCorruption`, which the run `failed_write` shows broken once a write
  returns an error), and no epoch is handed out twice (`EpochNeverReused`).
- Overlap. Whoever waits for the mutex waits for a caller that goes on
  (`WaitsForRunner`), and every call returns, although the sink calls back
  (`EveryCallReturns`: each caller is idle again and again).
- Service. An attempt within the memory takes effect once (`RetryWindow`), none
  of another epoch does (`EpochFenced`), a worker that was cut off and run again
  to its end leaves nothing held, unless the memory had forgotten one of its
  attempts and applied it twice (`FinishedHoldsNothing`). A grant or a refusal
  that a worker reads was decided for the attempt it waits for
  (`AnswersEarned`). `stop` joins no thread that waits for a client
  (`StopAwaitsNoClient`), so no shutdown stays pending for ever
  (`StopReturns`), and it closes the fabric last (`FabricOutlivesSessions`).

Runs that end in a violation, each a disagreement between the code and a
sentence of the repository (quoted in `PROJECT.json`):

| Run | What happens |
|---|---|
| `release_wrap` | the product in a partial release wraps at 64 bits; with a second allocation in the pool no underflow check stops it, and the record is left borrowing more than it holds |
| `resize_fits` | a partial release drops the allocation from `members`, so a later shrink does not fence it |
| `identity_reuse` | the identity counter is not advanced by journal replay; a grant overwrites a live record |
| `failed_write` | a failed append leaves half a frame; the next append makes the journal unrecoverable |
| `sink_under_mutex` | a rejected pressure report calls the sink with the mutex held (the sink of this run does not call back on that event; one that did would wait for its own thread) |

The models show more such places, which no run is spent on:

- A policy republished with a smaller overcommit allowance and without fencing
  leaves usage above it (`policy.hpp` says usage is capped); `EvaluateForetells`
  excepts exactly this state.
- `plan_reclaim` ends its loop at a reclaimable candidate that does not fit the
  bound of one operation and then takes pinned ones, although its comment says
  those come only after every reclaimable one.
- Attempts are not journaled (`journal_attempt` has no caller): a restart
  remembers those that the last compaction put into the snapshot and forgets
  every later one, although the repository's README does not limit idempotency
  to one life of the process.
- `clients_` never shrinks, so `max_clients` counts all connections there have
  been, not the concurrent ones.
- A full table of allocation records refuses even the replay of a granted
  attempt.

### Bounds

- Two allocations are enough for one to hold, lend or be fenced while another
  is granted, and for an order among victims to matter. Two pools give one
  lender; an allocation has at most one. Four pools under a depth bound of two
  give a grandparent, a chain that is refused as too deep, and a middle pool
  that is resized or removed.
- Units are small so that every cap binds: the large request (3) exceeds the
  child, the usable units of the resized root, and what is left after a grant.
- A generation bound of 2 gives one superseded generation. `MaxTick = 3` lets
  evidence of lifetime 2, a reservation and a hold time of 1 lapse separately.
- `Word` is 1024 where no product comes near it; `MCWide` scales a pool of
  2^60 units in 64 bits to 2^6 units in 10 bits. It has two allocations: with
  one, every return that wrapped would be refused for want of own units.
- In `Durable` a compaction threshold of two frames puts compactions inside
  operations of two and three records. `durable` has no configuration objects
  (they are written like pools); `faults` has one.
- In `Locking` two callers give every overlap of two sections; a third could
  only wait. Two calls in all are enough for each race: one sampled before and
  run after the other, or one between the halves of `set_capacity`. The clock
  passes the lifetime (1) of a report while a caller waits for the mutex.
- In `Service` three connections let a worker be cut off and run again while
  another client allocates or shuts down; a memory of one attempt makes
  eviction happen, a table of two records fills up, two starts give one stale
  epoch, and `max_clients` (2) is reached. The run has a state directory;
  without one there would be no stale epoch.
- `MCTopology` uses symmetry over pools, which nothing but their registration
  tells apart; it checks invariants only.

Deadlock is checked everywhere but in `faults`, where a recovery may be refused
for good, and in `locking` and `service`, where callers and clients may have no
more calls to make and the coordinator may have stopped.

### Fairness

- `Durable`: `WF_vars(Progress)` says that an operation which has begun runs on
  unless the process crashes: it runs on its caller's thread and holds the mutex
  to its end. `WF_vars(Open)` says that an operator restarts a process that is
  down. Crashes are bounded, as any liveness argument about restarts must
  assume.
- `Locking`: weak fairness of each caller's next step; a thread that can run is
  run. It says nothing of the clock, the backend or new calls. Weak fairness of
  acquiring the mutex is enough because calls are bounded, so no caller can be
  overtaken for ever.
- `Service`: weak fairness of the main thread's steps once a shutdown was
  requested, of the accept loop and of each session. Nothing is assumed of
  workers and other clients, which may fall silent at any point.
- `Fabric` needs no fairness.

## What is proved

**The fabric**, for every finite set of pools, any queues, policies, inputs and
bounds, assuming `SmallRequests` (the square of a request is below `Word`, which
the run `release_wrap` shows to be needed):

- `FabricProofs`: `LedgerInvariant` (`Spec => []IInv`), `TypeCorrect`
  (`TypeOK`), `AggregatesCorrect` (`AggregatesMatchRecords`),
  `ReturnsAccepted` (`AlwaysReturnable`: the refusals of `apply_release_units`
  are never met) and `PartitionSound` (`PartitionBounded`);
- `PromiseProofs`: `TopologyInvariant` (`Spec => []TInv`), `WalkComplete`
  (`WalkReachesRoot`), `NothingOrphaned` (`NoOrphanedUnits`),
  `FabricKeepsCommitments` (`KeepsCommitments`, the refinement),
  `GrowthNeedsEvidence` (`EvidenceGatesGrowth`), `ShutdownDrains`
  (`ShutdownOnlyDrains`), `CapsRespected` (`QueueCapRespected`) and
  `MembersStayCurrent` (`MembersCurrent`);
- `AccountingProofs`: `AccountingCloses` (`AccountingIdentity`),
  `EvaluateIsHonest` (`EvaluateForetells`) and `ReclaimKeepsPolicy`
  (`ReclaimRespectsPolicy`).

`AggregatesMatchRecords` is not inductive by itself. To subtract the units of a
record one must know that it was added: the record names a pool and a queue
that exist, borrows no more than it holds, and has a lender if it borrows
(`RecordsSound`). A grant must go to an identity that has no record (also
`RecordsSound`). Removing a pool resets its aggregates, so they must be zero
already (`PoolsSound`). `own_usage` is kept separately and must agree with the
other fields (`OwnUsageMatches`). `StructOK` is `TypeOK` with integers for the
aggregates; that they are naturals follows from their being cardinalities.
`IInv` is the conjunction.

`LedgerProofs` first shows how a sum changes when the units of one element, or
membership of a subset, change, and lifts this to the eight aggregates: a step
that changes one record (`PointStep`), or ends several, and adjusts the
aggregates by the record's share preserves the invariant. It goes on to show
that releasing and revoking one record are such steps; `FabricProofs` does the
same for grants and commits and takes up every action in turn.

`TInv` adds to `IInv` that pools form a forest (parents are registered, no pool
is above itself, the walk of `compute_grant` ends at a root) and that whatever
holds units is bound to a registered pool, to a queue that exists and belongs to
it, and to a lender that is one of its ancestors. The last is what makes the
removal of a pool safe: it has no child, so it is nobody's ancestor and lends to
nobody. Registering adds a leaf and removing takes one away, so that the paths
from every other pool stay what they were (`PathsAvoidLeaf`).

The refinement rests on `TInv`: the units in use that `Commitments` counts from
the claims are the `own_usage` that the fabric keeps (`CountsAgree`), so that the
limits which `compute_grant` works from are the abstract ones. Every action is
then an `Issue`, an adjustment of claims and limits, or a stutter.

That every operation but `allocate` only shrinks or ends what was granted
(`StepShrinks`) carries three more results. The aggregates are sums of what is
held, so only the pool and the queue that `allocate` grants to can grow: the
evidence and the cap need to be looked at in that one action. A cap is set when
a queue is registered, and by `TInv` nothing is bound to a queue that is not.
`MembersCurrent` is inductive only with the fact that no member names a later
policy revision than the one in force (`MembersFit`): a revision that fences
spares members which already name it, and there must be none.

The global identity sums aggregates over all pools. `AccountingProofs` derives it
from the records instead: what all pools have borrowed and what all have lent
are both counts of the same borrowed units, so they cancel out, whatever the
number of pools. `evaluate` and `allocate` are compared limit by limit; that
they agree needs the chain of lenders to be complete (`TInv`) and no pool to
protect more than its raw units (`UnitsValid`).
The plan of a reclaim is a prefix in the order of the code, and what it takes
was last touched in the past (`TouchedInPast`), which makes the hold time a
difference of naturals.

**Recovery**, for every set of identities, any number of crashes, any length of
the journal and any compaction threshold: `DurableProofs` has `EpochsOnlyGrow`
(`EpochNeverReused`), `DurableTyped` (`TypeOK`), `CrashKeepsAPrefix`
(`CrashKeepsPrefix`) and `CrashesAreNotCorruption` (`DamageIsCorruption`). The
last two have the hypothesis `MaxFailures = 0`: when a write returns an error, the code leaves the change it made in memory, which is
then ahead of the files, and `failed_write` shows worse. The invariants are:

- `Shape`: which phases and plans go with which status; a record is being
  written only by an object that is open or opening.
- `EpochInv`: the epoch that `open` writes is above every epoch returned so far,
  and each of those is in the files. The journal that a crash leaves behind a
  renamed snapshot must not take the epoch back, which is why replay takes the
  maximum.
- `BoundInv` and `GrantInv`: each epoch is accounted for by an open, a crash or a
  failure, and each identity by a grant.
- `CrashInv`: memory is the image after the steps taken, and the files hold that
  image or, while a record is being written, the one before it. A renamed
  snapshot over a journal not yet emptied is one of the two, because a record
  replaces a whole object and replaying it again changes nothing. Only a crash
  leaves a torn frame, and at the end, where recovery cuts it before anything is
  appended; a journal with a whole frame behind a torn one never comes about.

Replay runs over a journal of any length. `SetInduction` gives the induction: a
set of numbers that contains 0 and is closed under successor contains all of
them. It takes a set and no predicate, so that the provers can use it.

**Overlapping calls**, for any number of callers and calls: `LockingProofs` has
`SectionsExclusive` (`Spec => []LockInv`), `CapacityBounded`
(`PartitionBounded`), `GrantsRestOnLiveEvidence` (`GrantOnLiveEvidence`) and
`NobodyWaitsForAWaiter` (`WaitsForRunner`).
`LockInv` is mutual exclusion: whoever is in a section holds the mutex and reads
the tick it sampled itself. Without it nothing could be said of a comparison
that one caller makes while another is between its sample and its section.
`WaitsForRunner` needs the converse, that whoever holds the mutex is in its
section or publishing the rejection of a report (`HolderInv`): every other event
is published after the unlock. Its hypothesis is that the sink leaves that one
event alone; the run `sink_under_mutex` is about the case that it does not.

**The service**, for any number of workers, connections, restarts, remembered
attempts and records: `ServiceProofs` has `MemoryIsLatest`, `RetriesRecognised`
(`RetryWindow`), `EpochsFenced` (`EpochFenced`), `ThreadsJoined`, `SessionBound`
(`SessionsBounded`), `FabricClosedLast` (`FabricOutlivesSessions`),
`ConnectionsWired` (`Spec => [](Wiring /\ Lines)`), `StopWaitsForNoClient`
(`StopAwaitsNoClient`) and `ServiceTyped` (`TypeOK`). Two independent invariants carry them. `AttemptInv`
says that the memory holds exactly the latest attempts applied, in order; an
attempt that is not found was therefore applied at least a memory ago.
`ThreadInv` says which threads have ended at each place of the main thread, and
that `clients` contains every running session; the bound on `clients` is then
one on sessions.

`StopWaitsForNoClient` looks at the two halves of `request_shutdown`. When the
sweep over `clients` begins, the flag is up and the listener closed (`StopInv`);
the sweep shuts the socket of every session that is running, because `clients`
has them all. A session that begins to receive afterwards would have to read the
flag as down. The accept loop may still add one connection that the sweep
missed; its session finds the flag up at its first check.

`RunProofs` has `RunsFollowTheHistory` (`Spec => []RunInv`), `FinishedReleases`
(`FinishedHoldsNothing`) and `AnswersAreDecisions` (`AnswersEarned`), for a
coordinator with a state directory and for runs of any number of cycles
(`ServiceAssumption`: at least one, and other clients do not use the attempt ids
of workers). The argument follows the history of applied attempts. As long as no
attempt of a worker is in it twice, it determines the course of every run of
that worker: after an attempt that was granted comes its release, after a
release or a refusal the next cycle (`Reached`, `Complete`). `RunInv` says that
the history itself, every request under way, including those of abandoned
sessions, and the latest run are on that course (`Courses`). It needs that a
reply is an answer to the request that the run is waiting for (`Exchanges`: one
exchange at a time, on a connection that no other run has, `Lines`), that
answers tell what was applied (`Truthful`), and that nobody knows an epoch which
is still to come (`EpochsBounded`), so that a restart begins with an empty
history and no request that counts. Without a state directory every life has
epoch 1 and a request may outlive the one it was made in, which is why these
three theorems assume one (TLC finds `AnswersEarned` violated without: an answer of
the earlier life is still to be read after the restart, under the same epoch);
those of `ServiceProofs` do not. A run at the end of the course has passed
the release of every grant. `AnswersEarned` is what `Exchanges` says of a reply
that has arrived; it needs no hypothesis about attempts applied twice.

Only model-checked: liveness under fairness (`RecoveryCompletes`,
`EveryCallReturns`, `StopReturns`), which is out of the prover's reach, as is
`ENABLED`. What is proved of each is the safety it rests on: no crash makes
recovery refuse the files, nobody waits for a waiter, and `stop` waits for no
client; that the steps left to take are then taken is what TLC adds. Also out of
reach is anything about a module that declares `RECURSIVE` operators, which is
why sums are counted here and replay is a recursive function.

## Not modelled

- Names, decisions, events beyond their publication, metrics, lineage,
  authority vectors and digests: no operation reads them to decide what to do.
  `explain` and the queries copy state out.
- Checks of expected generations and epochs by the fabric, which only refuse;
  the coordinator's epoch check is modelled.
- More than one resource, and the simulated backends; a backend is a size that
  may change at any time.
- In `Durable`: mode `None` (it keeps nothing), byte bounds, a snapshot that
  fails its checksum, and descriptor contents beyond generations. To which
  pool evidence belongs is left out too: `remove_pool` erases that of the pool
  and a replayed removal does not, but what is left over is of an earlier epoch
  and `resolve_evidence` takes it as stale. The bound on
  snapshots is one such case: `write_snapshot` compares the payload with it and
  `recover` the whole file.
- In `Service`: pressure reports and queries have no effect on attempts and are
  answered Ok, frames are whole messages, and pools are not removed. A restart
  comes back with no attempts and with less to grant; what it really recovers is
  the subject of `Durable`. The attempts that a snapshot kept are left out: the
  digest of a request covers the epoch it expects, so a retry under the new
  epoch does not match them and is refused as a conflict, applying nothing.
- `set_clock` during calls, a race on the clock's pointer.
- Codecs, JSON, the wire encodings, process control and the command line tools:
  sequential conversions and I/O, which unit tests reach.

## Running

    tlc -workers 2 -config MCFabric.cfg MCFabric
    tlc -workers 2 -config MCFaults.cfg MCDurable
    tlc -workers 2 -config MCService.cfg MCService
    tlapm FabricProofs.tla

`PROJECT.json` lists every run with its module and configuration, the lines
each definition models, the hazards considered and the findings.
