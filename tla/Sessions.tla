------------------------------ MODULE Sessions ------------------------------
(***************************************************************************)
(* The TCP sessions of BoostNetworkManager: accepting a connection, the    *)
(* handshake, the loop that reads messages, the end of a session, and      *)
(* stop().  One io thread runs all handlers; stop() runs on another thread *)
(* and waits for it at the end.                                            *)
(*                                                                         *)
(* One life of the manager: start() has succeeded and stop() comes at most *)
(* once.  A connection is a Session object with its socket.                *)
(***************************************************************************)
EXTENDS Integers, FiniteSets

CONSTANTS
    Conns,          \* connections that clients may open
    Players,        \* player ids they may claim
    MayReset        \* a client may reset its connection, besides closing it

ASSUME SessionsAssumption == MayReset \in BOOLEAN

VARIABLES
    running,        \* m_running
    stopper,        \* where stop() stands: "no", "clear", "join" or "done"
    io,             \* the io thread: "runs", "returned" or "died"
    accepting,      \* an async_accept is pending
    handling,       \* the connection whose handshake handler has begun, or Nobody
    writing,        \* connections the statistics are still to be written to
    stage,          \* what the server awaits of each connection
    player,         \* its playerId
    needsFull,      \* its needsFullSnapshot
    shut,           \* its socket was closed by stop()
    peer,           \* the client's end: "up", "closed" or "reset"
    sessions,       \* m_sessions: player -> connection
    endpoints,      \* m_udpEndpoints: player -> the connection's peer
    known,          \* players given to the add-player callback
    commanding,     \* players whose commands went to the command callback
    first           \* what the first update served each connection with: "nothing"
                    \* yet, the "snapshot" (no bytes if the world is dead) or a "delta"

stopVars == <<running, stopper>>
connVars == <<stage, player, needsFull, shut>>
registry == <<sessions, endpoints>>
callbacks == <<known, commanding>>
ioVars == <<io, accepting, handling, writing>>
vars == <<stopVars, ioVars, connVars, peer, registry, callbacks, first>>

Nobody == "nobody"
Stages == {"unborn", "backlog", "handshake", "greeted", "open", "body", "ended"}
NoSessions == [p \in {} |-> Nobody]

\* Stages with an asynchronous read pending, or its handler queued.
Pending == {c \in Conns : stage[c] \in {"handshake", "greeted", "open", "body"}}

Init ==
    /\ running = TRUE /\ stopper = "no" /\ io = "runs" /\ accepting = TRUE
    /\ handling = Nobody /\ writing = {}
    /\ stage = [c \in Conns |-> "unborn"]
    /\ player = [c \in Conns |-> Nobody]
    /\ needsFull = [c \in Conns |-> TRUE]
    /\ shut = [c \in Conns |-> FALSE]
    /\ peer = [c \in Conns |-> "up"]
    /\ sessions = NoSessions /\ endpoints = NoSessions
    /\ known = {} /\ commanding = {}
    /\ first = [c \in Conns |-> "nothing"]

---------------------------------------------------------------------------
\* The clients.

Connect(c) ==
    /\ stage[c] = "unborn" /\ running
    /\ stage' = [stage EXCEPT ![c] = "backlog"]
    /\ UNCHANGED <<stopVars, ioVars, player, needsFull, shut, peer, registry, callbacks, first>>

Leave(c) ==
    /\ stage[c] # "unborn" /\ peer[c] = "up"
    /\ \E how \in {"closed"} \cup (IF MayReset THEN {"reset"} ELSE {}) : peer' = [peer EXCEPT ![c] = how]
    /\ UNCHANGED <<stopVars, ioVars, connVars, registry, callbacks, first>>

---------------------------------------------------------------------------
\* Handlers, one at a time on the io thread.
IoFree == io = "runs" /\ handling = Nobody /\ writing = {}

\* remote_endpoint() throws once the peer has reset the connection; the
\* exception leaves run() and ends the thread.
EndpointThrows(c) == peer[c] = "reset"

\* doAccept's handler.
Accept(c) ==
    /\ IoFree /\ accepting /\ running /\ stage[c] = "backlog"
    /\ IF EndpointThrows(c)
       THEN accepting' = FALSE /\ stage' = [stage EXCEPT ![c] = "ended"] /\ io' = "died"
       ELSE stage' = [stage EXCEPT ![c] = "handshake"] /\ UNCHANGED <<accepting, io>>
    /\ UNCHANGED <<stopVars, handling, writing, player, needsFull, shut, peer, registry, callbacks, first>>

\* Mistaken variant: the next accept is always begun.
AcceptAgain ==
    /\ IoFree /\ accepting /\ ~running
    /\ UNCHANGED vars

\* The handler when m_running is false: stop() closed the acceptor.
AcceptAborted ==
    /\ IoFree /\ accepting /\ ~running
    /\ accepting' = FALSE
    /\ UNCHANGED <<stopVars, io, handling, writing, connVars, peer, registry, callbacks, first>>

\* The twelve bytes of the handshake have been read.
HandshakeArrives(c) ==
    /\ io = "runs" /\ stage[c] = "handshake" /\ peer[c] = "up"
    /\ stage' = [stage EXCEPT ![c] = "greeted"]
    /\ UNCHANGED <<stopVars, ioVars, player, needsFull, shut, peer, registry, callbacks, first>>

\* The handshake is cut off, or its magic number is wrong: the session ends
\* without having been registered.
HandshakeFails(c) ==
    /\ IoFree
    /\ \/ stage[c] = "handshake" /\ peer[c] # "up"
       \/ stage[c] = "greeted"
    /\ stage' = [stage EXCEPT ![c] = "ended"]
    /\ UNCHANGED <<stopVars, ioVars, player, needsFull, shut, peer, registry, callbacks, first>>

\* Mistaken variant: the session is registered before its id is read.
GreetLate(c) ==
    /\ IoFree /\ stage[c] = "greeted"
    /\ needsFull' = [needsFull EXCEPT ![c] = TRUE]
    /\ IF EndpointThrows(c)
       THEN io' = "died" /\ stage' = [stage EXCEPT ![c] = "ended"] /\ UNCHANGED handling
       ELSE handling' = c /\ UNCHANGED <<io, stage>>
    /\ UNCHANGED <<stopVars, accepting, writing, player, shut, peer, registry, callbacks, first>>

\* The handler up to the log line, which asks for the remote endpoint.
Greet(c) == \E p \in Players :
    /\ IoFree /\ stage[c] = "greeted"
    /\ player' = [player EXCEPT ![c] = p]
    /\ needsFull' = [needsFull EXCEPT ![c] = TRUE]
    /\ known' = known \cup {p}
    /\ IF EndpointThrows(c)
       THEN io' = "died" /\ stage' = [stage EXCEPT ![c] = "ended"] /\ UNCHANGED handling
       ELSE handling' = c /\ UNCHANGED <<io, stage>>
    /\ UNCHANGED <<stopVars, accepting, writing, shut, peer, registry, commanding, first>>

\* Its second half: the session replaces any other of its player, the
\* remote endpoint is asked for again under the lock.
Register ==
    /\ io = "runs" /\ handling # Nobody
    /\ LET c == handling
           With(f) == [q \in DOMAIN f \cup {player[c]} |-> IF q = player[c] THEN c ELSE f[q]]
       IN  /\ sessions' = With(sessions)
           /\ IF EndpointThrows(c)
              THEN io' = "died" /\ stage' = [stage EXCEPT ![c] = "ended"] /\ UNCHANGED endpoints
              ELSE endpoints' = With(endpoints) /\ stage' = [stage EXCEPT ![c] = "open"] /\ UNCHANGED io
    /\ handling' = Nobody
    /\ UNCHANGED <<stopVars, accepting, writing, player, needsFull, shut, peer, callbacks, first>>

\* Mistaken variant: a resync request toggles the flag.
ReadTypeToggling(c) ==
    /\ IoFree /\ stage[c] = "open" /\ ~shut[c]
    /\ \/ /\ IF player[c] \in DOMAIN sessions
             THEN needsFull' = [needsFull EXCEPT ![sessions[player[c]]] = ~@]
             ELSE UNCHANGED needsFull
          /\ UNCHANGED stage
       \/ stage' = [stage EXCEPT ![c] = "body"] /\ UNCHANGED needsFull
    /\ UNCHANGED <<stopVars, ioVars, player, shut, peer, registry, callbacks, first>>

\* A message type has been read: a resync request marks whichever session is
\* registered for the player, an unknown type does nothing.
ReadType(c) ==
    /\ IoFree /\ stage[c] = "open" /\ ~shut[c]
    /\ \/ /\ IF player[c] \in DOMAIN sessions
             THEN needsFull' = [needsFull EXCEPT ![sessions[player[c]]] = TRUE]
             ELSE UNCHANGED needsFull
          /\ UNCHANGED stage
       \/ stage' = [stage EXCEPT ![c] = "body"] /\ UNCHANGED needsFull
    /\ UNCHANGED <<stopVars, ioVars, player, shut, peer, registry, callbacks, first>>

\* Mistaken variant: the player a command names is believed.
ReadBodyTrusting(c) == \E p \in Players :
    /\ IoFree /\ stage[c] = "body" /\ ~shut[c]
    /\ commanding' = commanding \cup {p}
    /\ stage' = [stage EXCEPT ![c] = "open"]
    /\ UNCHANGED <<stopVars, ioVars, player, needsFull, shut, peer, registry, known, first>>

\* The rest of a command: it goes to the game if it names its own player.
ReadBody(c) == \E p \in Players :
    /\ IoFree /\ stage[c] = "body" /\ ~shut[c]
    /\ commanding' = commanding \cup ({p} \cap {player[c]})
    /\ stage' = [stage EXCEPT ![c] = "open"]
    /\ UNCHANGED <<stopVars, ioVars, player, needsFull, shut, peer, registry, known, first>>

\* A read fails: the entries of the player go, whosever they are.
RemoveSession(f, p) == [q \in DOMAIN f \ {p} |-> f[q]]

\* Mistaken variant: the endpoint is left behind.
ReadFailsKeepingEndpoint(c) ==
    /\ IoFree /\ stage[c] \in {"open", "body"}
    /\ peer[c] # "up" \/ shut[c]
    /\ stage' = [stage EXCEPT ![c] = "ended"]
    /\ sessions' = [q \in DOMAIN sessions \ {player[c]} |-> sessions[q]]
    /\ UNCHANGED <<stopVars, ioVars, player, needsFull, shut, peer, endpoints, callbacks, first>>

ReadFails(c) ==
    /\ IoFree /\ stage[c] \in {"open", "body"}
    /\ peer[c] # "up" \/ shut[c]
    /\ stage' = [stage EXCEPT ![c] = "ended"]
    /\ sessions' = RemoveSession(sessions, player[c])
    /\ endpoints' = RemoveSession(endpoints, player[c])
    /\ UNCHANGED <<stopVars, ioVars, player, needsFull, shut, peer, callbacks, first>>

\* A posted update: the snapshot for those that need it, else the delta.  The
\* flag is lowered also when the snapshot is that of a dead world: it has no
\* bytes, and sendPayloadTo returns without a packet.
Addressees == DOMAIN sessions \cap DOMAIN endpoints
ServedFull == {sessions[p] : p \in {q \in Addressees : needsFull[sessions[q]]}}
Broadcast ==
    /\ IoFree
    /\ needsFull' = [c \in Conns |-> needsFull[c] /\ c \notin ServedFull]
    /\ first' = [c \in Conns |->
            IF first[c] = "nothing" /\ \E p \in Addressees : endpoints[p] = c
            THEN IF c \in ServedFull THEN "snapshot" ELSE "delta"
            ELSE first[c]]
    /\ UNCHANGED <<stopVars, ioVars, stage, player, shut, peer, registry, callbacks>>

\* Posted statistics: the handler copies the list of sessions, then writes
\* to one after the other and waits for each.
StatsBegin ==
    /\ IoFree /\ sessions # NoSessions
    /\ writing' = {sessions[p] : p \in DOMAIN sessions}
    /\ UNCHANGED <<stopVars, io, accepting, handling, connVars, peer, registry, callbacks, first>>

\* A write that fails, because the peer has gone or stop() has closed the
\* socket, is only logged.
StatsWritten(c) ==
    /\ io = "runs" /\ c \in writing
    /\ writing' = writing \ {c}
    /\ UNCHANGED <<stopVars, io, accepting, handling, connVars, peer, registry, callbacks, first>>

\* Mistaken variant: run() is stopped with reads pending.
RunReturnsAtOnce ==
    /\ IoFree /\ ~running
    /\ io' = "returned"
    /\ UNCHANGED <<stopVars, accepting, handling, writing, connVars, peer, registry, callbacks, first>>

\* run() returns when the work guard is gone and nothing is pending.
RunReturns ==
    /\ IoFree /\ ~running /\ ~accepting /\ Pending = {}
    /\ io' = "returned"
    /\ UNCHANGED <<stopVars, accepting, handling, writing, connVars, peer, registry, callbacks, first>>

---------------------------------------------------------------------------
\* stop(), on the thread of its caller.

\* The flag falls, the guard is released and the acceptor closed.
StopBegins ==
    /\ running
    /\ running' = FALSE /\ stopper' = "clear"
    /\ stage' = [c \in Conns |-> IF stage[c] = "backlog" THEN "ended" ELSE stage[c]]
    /\ UNCHANGED <<ioVars, player, needsFull, shut, peer, registry, callbacks, first>>

\* The registered sessions' sockets are closed, under the lock.
StopClears ==
    /\ stopper = "clear"
    /\ stopper' = "join"
    /\ shut' = [c \in Conns |-> shut[c] \/ \E p \in DOMAIN sessions : sessions[p] = c]
    /\ sessions' = NoSessions /\ endpoints' = NoSessions
    /\ UNCHANGED <<running, ioVars, stage, player, needsFull, peer, callbacks, first>>

StopJoins ==
    /\ stopper = "join" /\ io # "runs"
    /\ stopper' = "done"
    /\ UNCHANGED <<running, ioVars, connVars, peer, registry, callbacks, first>>

---------------------------------------------------------------------------
Handler ==
    \/ \E c \in Conns :
        \/ Accept(c) \/ HandshakeFails(c) \/ Greet(c)
        \/ ReadType(c) \/ ReadBody(c) \/ ReadFails(c)
        \/ StatsWritten(c)
    \/ AcceptAborted \/ Register \/ StatsBegin \/ RunReturns

Next ==
    \/ \E c \in Conns : Connect(c) \/ Leave(c) \/ HandshakeArrives(c)
    \/ Handler
    \/ Broadcast
    \/ StopBegins \/ StopClears \/ StopJoins

\* What the io thread does once stop() is under way, besides its handlers.
Ends == AcceptAborted \/ RunReturns
\* The handler of a connection's pending read, if it moves the session on.
Proceeds(c) == HandshakeFails(c) \/ Greet(c) \/ ReadFails(c)
\* A handler under way goes on; a write to a client that does not read ends
\* only with the client.
Resumes == Register \/ \E c \in Conns : peer[c] # "up" /\ StatsWritten(c)

\* The io_context runs ready handlers in turn, and stop(), once called, goes
\* on.  The parts of each disjunction exclude each other, or come at most once
\* each, so that its fairness is that of its parts.
Fairness ==
    /\ WF_vars(Resumes) /\ SF_vars(Ends) /\ \A c \in Conns : SF_vars(Proceeds(c))
    /\ WF_vars(StopClears \/ StopJoins)

\* Every client closes its connection some day.
ClientsLeave == WF_vars(\E c \in Conns : Leave(c))

Spec == Init /\ [][Next]_vars
LeavingSpec == Spec /\ Fairness /\ ClientsLeave

---------------------------------------------------------------------------
\* Properties.

TypeOK ==
    /\ {running, accepting} \subseteq BOOLEAN
    /\ stopper \in {"no", "clear", "join", "done"}
    /\ io \in {"runs", "returned", "died"}
    /\ handling \in Conns \cup {Nobody} /\ writing \subseteq Conns
    /\ stage \in [Conns -> Stages]
    /\ player \in [Conns -> Players \cup {Nobody}]
    /\ {needsFull, shut} \subseteq [Conns -> BOOLEAN]
    /\ peer \in [Conns -> {"up", "closed", "reset"}]
    /\ \A f \in {sessions, endpoints} : DOMAIN f \subseteq Players /\ \A p \in DOMAIN f : f[p] \in Conns
    /\ {known, commanding} \subseteq SUBSET Players
    /\ first \in [Conns -> {"nothing", "snapshot", "delta"}]

\* A registered session is being read, so that its end will be noticed and
\* its entry removed; and the two maps have the same entries.  So it is as
\* long as no handler has thrown, also when sessions of one player displace
\* each other and when stop() clears the maps under a handshake.
RegistryIsSound ==
    io # "died" =>
        /\ sessions = endpoints
        /\ \A p \in DOMAIN sessions : stage[sessions[p]] \in {"open", "body"} /\ player[sessions[p]] = p

\* The first update that reaches a session serves it a snapshot, never a delta
\* (BoostNetworkManager.cpp:349, 251-267), whichever session's resync requests
\* and ends come in between.  That is all the code promises: the snapshot of a
\* dead world is no packet at all, and a delta may then be what is sent first.
SnapshotIsFirst == \A c \in Conns : first[c] # "delta"

\* Commands come from players the game knows, what GameServer.tla takes for
\* granted of those it receives: they name the session's own player, and the
\* add-player callback ran before the first was read.
CommandersAreKnown == commanding \subseteq known

\* When stop() has returned no session is left and no handler will run, unless
\* the io thread had died: also sessions whose handshake came after the maps
\* were cleared have ended.
QuietAfterStop == stopper = "done" /\ io = "returned" => sessions = NoSessions /\ Pending = {}

\* stop() returns once the clients have gone, whatever the io thread is doing.
\* It waits for those that never sent a handshake, were displaced, or
\* registered after it cleared the maps, whose sockets are not closed, and for
\* one that does not read the statistics.
StopReturns == stopper = "clear" ~> stopper = "done"

\* The server has the list of the clients connected (docs/requirements.md:29).
ClientsAreListed ==
    io = "runs" /\ running =>
        \A c \in Conns : stage[c] \in {"open", "body"} /\ peer[c] = "up" => player[c] \in DOMAIN sessions

\* A server that runs awaits connections (docs/requirements.md:28), whatever
\* its clients do.
KeepsServing == running => io = "runs"
=============================================================================
