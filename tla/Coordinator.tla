----------------------------- MODULE Coordinator -----------------------------
(***************************************************************************)
(* The coordinator process: a main thread that starts and stops it, a      *)
(* thread that accepts connections, and a session thread for each one.     *)
(* Connections are numbered in the order in which clients open them.       *)
(***************************************************************************)
EXTENDS Attempts

CONSTANTS
    max_clients,
    state_directory,         \* whether the fabric is kept in one
    MaxConnections,          \* bound on connections
    MaxStarts,               \* bound on epochs
    PoolUnits                \* units that the pool may have free at a start

ASSUME CoordinatorAssumption ==
    /\ {max_clients, MaxConnections, MaxStarts} \subseteq Nat
    /\ state_directory \in BOOLEAN
    /\ PoolUnits \subseteq Nat

VARIABLES
    epoch,                   \* of the fabric
    main,                    \* where the main thread is
    shutdown_requested, listening,
    acceptor, accepted,      \* where the accept loop is, and the peer it got
    clients, session,        \* clients_, and where each session is
    reply,                   \* the reply that each session has to send
    fabric, fabric_open,
    connection               \* the two ends of each connection

threads == <<main, acceptor, accepted, session, reply>>
coordinator == <<epoch, threads, shutdown_requested, listening, clients, fabric,
                 fabric_open>>

Connections == 1..MaxConnections
NoConnection == 0
NoEpoch == 0
NoMessage == [op |-> "none"]

\* Server is the coordinator's end: "unused", "backlog", "up" or "shut";
\* peer says whether the client's end is open.  At most one request and one
\* reply are under way.
Unused == [server |-> "unused", peer |-> FALSE, request |-> NoMessage, reply |-> NoMessage]

Shut(C) ==
    connection' = [c \in Connections |->
        IF c \in C THEN [connection[c] EXCEPT !.server = "shut"] ELSE connection[c]]

\* Closing discards what was not received.
Closed(end) == [end EXCEPT !.server = "shut", !.request = NoMessage]

Close(C) ==
    connection' = [c \in Connections |->
        IF c \in C THEN Closed(connection[c]) ELSE connection[c]]

Backlog == {c \in Connections : connection[c].server = "backlog"}
Running == {c \in Connections : session[c] \notin {"none", "ended"}}

CoordinatorInit ==
    /\ epoch = 0 /\ main = "down"
    /\ shutdown_requested = FALSE /\ listening = FALSE
    /\ acceptor = "none" /\ accepted = NoConnection
    /\ clients = {} /\ session = [c \in Connections |-> "none"]
    /\ reply = [c \in Connections |-> NoMessage]
    /\ fabric = EmptyFabric(0) /\ fabric_open = FALSE
    /\ connection = [c \in Connections |-> Unused]
-----------------------------------------------------------------------------
(* The main thread.                                                        *)

\* start().  Without a state directory every fabric is the first.  With one,
\* recovery brings back no attempts (unless the journal was compacted: then
\* those of the snapshot, whose digests have an earlier epoch), and no request
\* of this epoch can name an allocation of an earlier one; those only leave
\* less to grant.
Start ==
    /\ main \in {"down", "stopped"}
    /\ epoch < MaxStarts
    /\ epoch' = IF state_directory THEN epoch + 1 ELSE 1
    /\ main' = "serving"
    /\ shutdown_requested' = FALSE /\ listening' = TRUE
    /\ acceptor' = "accept" /\ accepted' = NoConnection
    /\ clients' = {} /\ session' = [c \in Connections |-> "none"]
    /\ \E u \in PoolUnits : fabric' = EmptyFabric(u)
    /\ fabric_open' = TRUE
    /\ UNCHANGED <<reply, connection>>

\* The tool's main(): time is up, or stopped() is true.
RequestShutdown ==
    /\ main = "serving"
    /\ main' = "listener"
    /\ shutdown_requested' = TRUE
    /\ UNCHANGED <<epoch, listening, acceptor, accepted, clients, session, reply, fabric,
                   fabric_open, connection>>

\* Closing the listener resets what nobody accepted.
CloseListener ==
    /\ main = "listener"
    /\ main' = "sweep"
    /\ listening' = FALSE
    /\ Close(Backlog)
    /\ UNCHANGED <<epoch, shutdown_requested, acceptor, accepted, clients, session, reply,
                   fabric, fabric_open>>

ShutdownClients ==
    /\ main = "sweep"
    /\ main' = "join_accept"
    /\ Shut(clients)
    /\ UNCHANGED <<epoch, shutdown_requested, listening, acceptor, accepted, clients,
                   session, reply, fabric, fabric_open>>

JoinAccept ==
    /\ main = "join_accept"
    /\ acceptor = "ended"
    /\ main' = "join_sessions"
    /\ UNCHANGED <<epoch, shutdown_requested, listening, acceptor, accepted, clients,
                   session, reply, fabric, fabric_open, connection>>

\* Mutant of JoinSessions: sessions are left to end by themselves.
DetachSessions ==
    /\ main = "join_sessions"
    /\ main' = "close"
    /\ clients' = {}
    /\ UNCHANGED <<epoch, shutdown_requested, listening, acceptor, accepted, session, reply,
                   fabric, fabric_open, connection>>

JoinSessions ==
    /\ main = "join_sessions"
    /\ Running = {}
    /\ main' = "close"
    /\ clients' = {}
    /\ UNCHANGED <<epoch, shutdown_requested, listening, acceptor, accepted, session, reply,
                   fabric, fabric_open, connection>>

CloseFabric ==
    /\ main = "close"
    /\ main' = "stopped"
    /\ fabric_open' = FALSE
    /\ UNCHANGED <<epoch, shutdown_requested, listening, acceptor, accepted, clients,
                   session, reply, fabric, connection>>

\* The process is killed: its threads and its memory are gone, and so is what
\* its connections carried.
Crash ==
    /\ main \notin {"down", "stopped"}
    /\ main' = "down"
    /\ shutdown_requested' = FALSE /\ listening' = FALSE
    /\ acceptor' = "none" /\ accepted' = NoConnection
    /\ clients' = {} /\ session' = [c \in Connections |-> "none"]
    /\ reply' = [c \in Connections |-> NoMessage]
    /\ fabric' = EmptyFabric(0) /\ fabric_open' = FALSE
    /\ connection' = [c \in Connections |->
          IF connection[c].server = "unused" THEN Unused
          ELSE [Unused EXCEPT !.server = "shut", !.peer = connection[c].peer]]
    /\ UNCHANGED epoch
-----------------------------------------------------------------------------
(* The accept loop.                                                        *)

\* The head of the loop.  A flag that is set after this is noticed when the
\* accept fails.
AcceptAgain == acceptor' = IF shutdown_requested THEN "ended" ELSE "accept"

AcceptPeer(c) ==
    /\ acceptor = "accept"
    /\ listening
    /\ c \in Backlog
    /\ accepted' = c
    /\ acceptor' = "admit"
    /\ connection' = [connection EXCEPT ![c].server = "up"]
    /\ UNCHANGED <<epoch, main, session, reply, shutdown_requested, listening, clients,
                   fabric, fabric_open>>

\* A failed accept ends the loop after a shutdown request and is retried
\* otherwise.
AcceptFails ==
    /\ acceptor = "accept"
    /\ \/ ~listening /\ UNCHANGED connection
       \/ \E c \in Backlog : Close({c})
    /\ AcceptAgain
    /\ UNCHANGED <<epoch, main, accepted, session, reply, shutdown_requested, listening,
                   clients, fabric, fabric_open>>

\* Mutant of AtCapacity: one client too many.
AboveCapacity == Cardinality(clients) > max_clients

\* clients_ keeps the sockets of sessions that have ended.
AtCapacity == Cardinality(clients) >= max_clients

Admit ==
    /\ acceptor = "admit"
    /\ IF AtCapacity
       THEN /\ connection' = [connection EXCEPT
                 ![accepted] = [Closed(@) EXCEPT
                                         !.reply = [op |-> "HelloAck", epoch |-> NoEpoch,
                                                    answer |-> Answer("BoundedResourceExhausted",
                                                                      0, NoAllocation)]]]
            /\ UNCHANGED <<clients, session>>
       ELSE /\ clients' = clients \cup {accepted}
            /\ session' = [session EXCEPT ![accepted] = "check"]
            /\ UNCHANGED connection
    /\ AcceptAgain
    /\ accepted' = NoConnection
    /\ UNCHANGED <<epoch, main, reply, shutdown_requested, listening, fabric, fabric_open>>
-----------------------------------------------------------------------------
(* Sessions.                                                               *)

\* The way out of serve().
End(c) ==
    /\ session' = [session EXCEPT ![c] = "ended"]
    /\ Close({c})

\* Mutant of SessionCheck: the flag is not looked at before the first receive.
SessionReceives(c) ==
    /\ session[c] = "check"
    /\ session' = [session EXCEPT ![c] = "receive"]
    /\ UNCHANGED <<connection, epoch, main, acceptor, accepted, reply, shutdown_requested,
                   listening, clients, fabric, fabric_open>>

SessionCheck(c) ==
    /\ session[c] = "check"
    /\ IF shutdown_requested THEN End(c)
       ELSE session' = [session EXCEPT ![c] = "receive"] /\ UNCHANGED connection
    /\ UNCHANGED <<epoch, main, acceptor, accepted, reply, shutdown_requested, listening,
                   clients, fabric, fabric_open>>

\* A frame that does not decode, after which nothing more is received; end of
\* file; or a socket that request_shutdown shut.  What the peer sent before
\* either of these may still be delivered.
ReceiveFails(c) ==
    /\ session[c] = "receive"
    /\ \/ connection[c].request # NoMessage
       \/ connection[c].server = "shut"
       \/ ~connection[c].peer
    /\ End(c)
    /\ UNCHANGED <<epoch, main, acceptor, accepted, reply, shutdown_requested, listening,
                   clients, fabric, fabric_open>>

\* Mutant of EpochCurrent: only the handshake compares epochs.
EpochClaimed(r) == r.op = "Hello" => r.epoch \in {NoEpoch, epoch}

\* A handshake may claim no epoch; any other request has to present this one.
EpochCurrent(r) ==
    IF r.op = "Hello" THEN r.epoch \in {NoEpoch, epoch} ELSE r.epoch = epoch

\* dispatch(), up to the reply.
Outcome(r) ==
    IF ~EpochCurrent(r) THEN Unaffected(fabric, "StaleEpoch")
    ELSE CASE r.op = "Allocate" -> allocate(fabric, r)
           [] r.op = "Release"  -> release(fabric, r)
           [] OTHER             -> Unaffected(fabric, "Ok")

CloseAfter(r) == r.op = "Shutdown" \/ ~EpochCurrent(r)

\* A request is taken from the socket, decoded and dispatched.
Dispatch(c) ==
    LET r == connection[c].request
        outcome == Outcome(r)
        stop == r.op = "Shutdown" /\ EpochCurrent(r)
    IN  /\ session[c] = "receive"
        /\ r # NoMessage
        /\ fabric' = outcome.fabric
        /\ reply' = [reply EXCEPT ![c] = [op |-> IF r.op = "Hello" THEN "HelloAck" ELSE r.op,
                                          epoch |-> epoch, answer |-> outcome.answer]]
        /\ session' = [session EXCEPT ![c] = IF CloseAfter(r) THEN "send_last" ELSE "send"]
        /\ shutdown_requested' = (shutdown_requested \/ stop)
        /\ listening' = (listening /\ ~stop)
        /\ connection' = [d \in Connections |->
              IF d = c THEN [connection[c] EXCEPT !.request = NoMessage]
              ELSE IF stop /\ d \in Backlog THEN Closed(connection[d])
              ELSE connection[d]]
        /\ UNCHANGED <<epoch, main, acceptor, accepted, clients, fabric_open>>

\* The reply is lost when either end has been shut.  After it, the session
\* looks at the flag again.
Send(c) ==
    /\ session[c] \in {"send", "send_last"}
    /\ reply' = [reply EXCEPT ![c] = NoMessage]
    /\ LET sent == connection[c].server = "up"
           last == session[c] = "send_last" \/ ~sent \/ shutdown_requested
           end == IF last THEN Closed(connection[c]) ELSE connection[c]
       IN  /\ session' = [session EXCEPT ![c] = IF last THEN "ended" ELSE "receive"]
           /\ connection' = [connection EXCEPT ![c] =
                 [end EXCEPT !.reply = IF sent /\ end.peer THEN reply[c] ELSE @]]
    /\ UNCHANGED <<epoch, main, acceptor, accepted, shutdown_requested, listening, clients,
                   fabric, fabric_open>>
-----------------------------------------------------------------------------
MainStep ==
    \/ CloseListener \/ ShutdownClients \/ JoinAccept \/ JoinSessions \/ CloseFabric

AcceptStep == AcceptFails \/ (\E c \in Connections : AcceptPeer(c)) \/ Admit

SessionStep(c) == SessionCheck(c) \/ ReceiveFails(c) \/ Dispatch(c) \/ Send(c)

CoordinatorNext ==
    \/ Start \/ RequestShutdown \/ MainStep \/ Crash
    \/ AcceptStep
    \/ \E c \in Connections : SessionStep(c)
=============================================================================
