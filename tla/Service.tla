------------------------------- MODULE Service -------------------------------
(***************************************************************************)
(* Workers that run allocate/release cycles against the coordinator, over  *)
(* connections that break.  The coordinator and the workers may be killed  *)
(* at any time; both may be run again, a worker with the attempt ids of    *)
(* its earlier run.  A killed worker leaves its session, and perhaps a     *)
(* request, behind.  Other clients send one message and hang up.           *)
(***************************************************************************)
EXTENDS Coordinator

CONSTANTS
    Workers,
    operations,              \* cycles of one run of a worker
    Messages                 \* what other clients send

\* A run of no cycles would only shake hands.  Other clients use attempt ids of
\* their own.
ASSUME ServiceAssumption ==
    /\ operations \in Nat \ {0}
    /\ "other" \notin Workers

VARIABLES
    worker                   \* the latest run of each worker

vars == <<coordinator, connection, worker>>

NotRun ==
    [at |-> "off", connection |-> NoConnection, sent |-> FALSE, expected |-> NoEpoch,
     epoch |-> NoEpoch, attempt |-> 1, done |-> 0, allocation |-> NoAllocation]

Init ==
    /\ CoordinatorInit
    /\ worker = [w \in Workers |-> NotRun]

Active(w) == worker[w].at \in {"Hello", "Allocate", "Release"}

NextConnection == 1 + Cardinality({c \in Connections : connection[c] # Unused})

Connect(peer, request) ==
    /\ listening
    /\ NextConnection \in Connections
    /\ connection' = [connection EXCEPT ![NextConnection] =
                        [Unused EXCEPT !.server = "backlog", !.peer = peer,
                                       !.request = request]]

\* A client that knows the epoch sends one message and hangs up.
OtherClient(op) ==
    /\ Connect(FALSE, [op |-> op, epoch |-> epoch, attempt |-> <<"other", 1>>,
                       allocation |-> NoAllocation])
    /\ UNCHANGED <<coordinator, worker>>

\* The epoch that a run may be given with --claim-epoch or with
\* --expected-epoch: that of the worker's earlier run, or none.
Epochs(w) ==
    {[claim |-> NoEpoch, expected |-> NoEpoch],
     [claim |-> worker[w].epoch, expected |-> NoEpoch],
     [claim |-> NoEpoch, expected |-> worker[w].epoch]}

\* run_worker
RunWorker(w, epochs) ==
    /\ ~Active(w) /\ worker[w].at # "done"
    /\ Connect(TRUE, NoMessage)
    /\ worker' = [worker EXCEPT ![w] =
                    [NotRun EXCEPT !.at = "Hello", !.connection = NextConnection,
                                   !.epoch = epochs.claim, !.expected = epochs.expected]]
    /\ UNCHANGED coordinator

\* The run ends and its socket is closed.
Finish(w, at) ==
    /\ worker' = [worker EXCEPT ![w] = [NotRun EXCEPT !.at = at, !.epoch = worker[w].epoch]]
    /\ connection' = [connection EXCEPT ![worker[w].connection] =
                        [@ EXCEPT !.peer = FALSE, !.reply = NoMessage]]

\* The first half of an exchange; a handshake presents the claimed epoch.
SendRequest(w) ==
    /\ Active(w)
    /\ ~worker[w].sent
    /\ connection[worker[w].connection].server # "shut"
    /\ worker' = [worker EXCEPT ![w].sent = TRUE]
    /\ connection' = [connection EXCEPT ![worker[w].connection].request =
                        [op |-> worker[w].at, epoch |-> worker[w].epoch,
                         attempt |-> <<w, worker[w].attempt>>,
                         allocation |-> worker[w].allocation]]
    /\ UNCHANGED coordinator

\* The exchange fails, or the worker is killed, whatever is under way.
LoseConnection(w) ==
    /\ Active(w)
    /\ Finish(w, "off")
    /\ UNCHANGED coordinator

\* The attempt id is spent; the next message is `at`.
Continue(w, at, fields) ==
    /\ worker' = [worker EXCEPT ![w] =
                    [@ EXCEPT !.at = at, !.sent = FALSE, !.expected = NoEpoch,
                              !.epoch = fields.epoch, !.attempt = fields.attempt,
                              !.done = fields.done, !.allocation = fields.allocation]]
    /\ connection' = [connection EXCEPT ![worker[w].connection].reply = NoMessage]

\* The end of a cycle: the next one, or the end of the run.
NextCycle(w) ==
    IF worker[w].done + 1 = operations
    THEN Finish(w, "done")
    ELSE Continue(w, "Allocate",
                  [epoch |-> worker[w].epoch, attempt |-> worker[w].attempt + 1,
                   done |-> worker[w].done + 1, allocation |-> NoAllocation])

ReceiveReply(w) ==
    LET me == worker[w]
        r == connection[me.connection].reply
    IN  /\ Active(w)
        /\ me.sent
        /\ r # NoMessage
        /\ \/ /\ r.answer.status \notin {"Ok", "Refused"}
              /\ Finish(w, "off")
           \/ /\ r.answer.status = "Ok" /\ me.at = "Hello"
              /\ Continue(w, "Allocate",
                   [epoch |-> IF me.expected # NoEpoch THEN me.expected ELSE r.epoch,
                    attempt |-> 1, done |-> 0, allocation |-> NoAllocation])
           \/ /\ r.answer.status = "Ok" /\ me.at = "Allocate"
              /\ Continue(w, "Release",
                   [epoch |-> me.epoch, attempt |-> me.attempt + 1, done |-> me.done,
                    allocation |-> r.answer.allocation])
           \/ /\ \/ r.answer.status = "Refused"
                 \/ r.answer.status = "Ok" /\ me.at = "Release"
              /\ NextCycle(w)
        /\ UNCHANGED coordinator
-----------------------------------------------------------------------------
Next ==
    \/ CoordinatorNext /\ UNCHANGED worker
    \/ \E op \in Messages : OtherClient(op)
    \/ \E w \in Workers : \E epochs \in Epochs(w) : RunWorker(w, epochs)
    \/ \E w \in Workers : SendRequest(w) \/ LoseConnection(w) \/ ReceiveReply(w)

\* The operating system runs every thread of the coordinator that can run, and
\* the main thread polls stopped() for a shutdown that a client asked for.
\* Nothing is assumed of clients: each may fall silent.
Fairness ==
    /\ WF_vars(MainStep /\ UNCHANGED worker)
    /\ WF_vars(shutdown_requested /\ RequestShutdown /\ UNCHANGED worker)
    /\ WF_vars(AcceptStep /\ UNCHANGED worker)
    /\ \A c \in Connections : WF_vars(SessionStep(c) /\ UNCHANGED worker)

Spec == Init /\ [][Next]_vars /\ Fairness
-----------------------------------------------------------------------------
(* Properties.                                                             *)

\* Type invariant.
TypeOK ==
    /\ epoch \in 0..MaxStarts
    /\ main \in {"down", "serving", "listener", "sweep", "join_accept", "join_sessions",
                 "close", "stopped"}
    /\ acceptor \in {"none", "accept", "admit", "ended"}
    /\ accepted \in Connections \cup {NoConnection}
    /\ clients \subseteq Connections
    /\ \A c \in Connections :
          session[c] \in {"none", "check", "receive", "send", "send_last", "ended"}
    /\ fabric.free \in Nat /\ fabric.held \subseteq 1..fabric.table
    /\ fabric.table <= kMaxAllocationCount

\* An attempt is applied a second time in one life of the coordinator only
\* after attempt_memory_capacity others have been applied since: within that
\* window a request that is sent again, or that an abandoned session gets to
\* late, changes nothing.
RetryWindow ==
    \A i, j \in DOMAIN fabric.applied :
        i < j /\ fabric.applied[i].attempt = fabric.applied[j].attempt =>
            j - i > attempt_memory_capacity

\* Nothing is applied for a request of another epoch, although workers keep
\* epochs over restarts of the coordinator and present them again.  Only a state
\* directory gives each life of the coordinator an epoch of its own; without one
\* all of them share epoch 1 and the fence does not tell them apart.
EpochFenced == \A i \in DOMAIN fabric.applied : fabric.applied[i].epoch = epoch

\* A worker that has finished leaves no unit behind, although earlier runs of
\* it were cut off anywhere: the attempts that it repeats get their recorded
\* answers, so that it comes upon every grant again and releases it.  Only
\* when one of its attempts was forgotten and applied again can the answers
\* of two runs differ and a grant be passed over.
FinishedHoldsNothing ==
    \A w \in Workers, i \in DOMAIN fabric.applied :
        /\ worker[w].at = "done" /\ worker[w].epoch = epoch
        /\ fabric.applied[i].attempt[1] = w
        /\ fabric.applied[i].allocation \in fabric.held
        => \E j, k \in DOMAIN fabric.applied :
              /\ j # k
              /\ fabric.applied[j].attempt[1] = w
              /\ fabric.applied[j].attempt = fabric.applied[k].attempt

\* What a worker reads as the answer to its request was decided for that very
\* attempt in this life of the coordinator, although earlier runs of the worker
\* sent the same attempts and their sessions may still be answering: a grant
\* names the allocation that the attempt got, and a refusal was one.
AnswersEarned ==
    \A w \in Workers :
        LET me == worker[w]
            r == connection[me.connection].reply
        IN  /\ me.at \in {"Allocate", "Release"} /\ me.epoch = epoch /\ main # "down"
            /\ r # NoMessage /\ r.answer.status \in {"Ok", "Refused"}
            => \E i \in DOMAIN fabric.applied :
                  /\ fabric.applied[i].attempt = <<w, me.attempt>>
                  /\ fabric.applied[i].op = me.at
                  /\ r.answer.status = "Refused" => fabric.applied[i].allocation = NoAllocation
                  /\ r.answer.status = "Ok" /\ me.at = "Allocate" =>
                        /\ fabric.applied[i].allocation = r.answer.allocation
                        /\ r.answer.allocation # NoAllocation

\* No more than max_clients sessions run at a time.
SessionsBounded == Cardinality(Running) <= max_clients

\* The fabric is closed only after every thread that may call it has ended.
FabricOutlivesSessions ==
    ~fabric_open => Running = {} /\ acceptor \in {"none", "ended"}

\* While stop() joins its threads, none of them waits for a client: the accept
\* loop has no listener, and a session that is receiving has had its socket
\* shut, although sessions may have passed their check of the flag just before
\* it was set, and one may have been admitted after the sockets were shut.
StopAwaitsNoClient ==
    main \in {"join_accept", "join_sessions"} =>
        /\ ~listening
        /\ \A c \in Connections : session[c] = "receive" => connection[c].server = "shut"

\* No shutdown, requested by the main thread or by a client's message, stays
\* pending for ever: stop() returns, although other clients may be silent and
\* one may be accepted in the meantime; only a crash can prevent it.
StopReturns == []<>(shutdown_requested => main \in {"stopped", "down"})
=============================================================================
