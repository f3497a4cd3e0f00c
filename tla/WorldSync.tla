----------------------------- MODULE WorldSync -----------------------------
(***************************************************************************)
(* How a client's model follows the server's world: the end of onTick, the *)
(* io thread of BoostNetworkManager, the UDP datagrams, and the client's   *)
(* sequence check and resync request over TCP.  Any world may follow a     *)
(* world: what the game does is GameServer.tla's business.                 *)
(***************************************************************************)
EXTENDS UpdatePackets

CONSTANTS
    SeqLimit,       \* sequence numbers wrap here, at 2^32 in the code
    MaxPosted,      \* bound on the broadcasts waiting for the io thread
    MaxInFlight,    \* bound on the datagrams in flight
    MaxRequests,    \* bound on the client's unread TCP messages
    MayLose,        \* the network loses datagrams
    MayReorder,     \* the network delivers them in any order
    MayDisconnect,  \* the TCP connection breaks
    MayAsk,         \* the user presses the resync button
    MayTouch        \* players' edits leave a cell as it is

ASSUME WorldSyncAssumption ==
    /\ {SeqLimit, MaxPosted, MaxInFlight, MaxRequests} \subseteq Nat \ {0}
    /\ {MayLose, MayReorder, MayDisconnect, MayAsk, MayTouch} \subseteq BOOLEAN

VARIABLES
    world, dirty,   \* the chunks' cells and dirty lists
    cache,          \* m_cachedFullSnapshot
    bseq,           \* GameServer::m_broadcastSeq, one per tick
    phase,          \* the tick's thread: "idle", or "broadcast" after the cache's refresh
    nseq,           \* BoostNetworkManager::m_seqNum, one per update broadcast
    posted,         \* handlers posted to the io thread
    session,        \* whose session m_sessions has for the player: "none", that
                    \* of the "current" connection or that of a "former" one
    needsFull,      \* its needsFullSnapshot
    network,        \* datagrams on their way to the client
    connected,      \* the client's TCP socket
    toServer,       \* messages the server has not read from it
    stale,          \* what it has not read from the connection before, its end included
    lastSeq,        \* m_lastSeqNum, also the generation the client displays
    model,          \* WorldModel
    served          \* full snapshots served so far: 0, 1 or 2 for more

serverVars == <<world, dirty, cache, bseq, phase, nseq>>
entryVars == <<session, needsFull>>
tcpVars == <<connected, toServer, stale>>
clientVars == <<lastSeq, model>>
vars == <<serverVars, posted, entryVars, network, tcpVars, clientVars, served>>

None == -1
Seqs == 0 .. SeqLimit - 1
\* Mistaken variant: the number does not wrap.
SuccUnbounded(n) == n + 1

Succ(n) == (n + 1) % SeqLimit

Init ==
    /\ world = NoLife /\ dirty = NoLife /\ cache = NoLife
    /\ bseq = 0 /\ phase = "idle" /\ nseq = 0
    /\ posted = <<>> /\ session = "none" /\ needsFull = FALSE
    /\ network = <<>>
    /\ connected = FALSE /\ toServer = <<>> /\ stale = <<>>
    /\ lastSeq = None /\ model = NoLife
    /\ served = 0

---------------------------------------------------------------------------
\* The tick's thread.

\* Births and deaths are dirty, and so are the cells commanded, even those
\* that are in the end what they were.
Changed(next) == [c \in ChunkId |-> (world[c] \ next[c]) \cup (next[c] \ world[c])]
Touched == IF MayTouch THEN Worlds ELSE {NoLife}
Dirtied(next, touched) == [c \in ChunkId |-> Changed(next)[c] \cup touched[c]]

\* Mistaken variant: the cache is refreshed before the tick.
TickCachingBefore(next, touched) ==
    /\ phase = "idle"
    /\ bseq' = Succ(bseq)
    /\ world' = next /\ cache' = world
    /\ dirty' = Dirtied(next, touched)
    /\ phase' = "broadcast"
    /\ UNCHANGED <<nseq, posted, entryVars, network, tcpVars, clientVars, served>>

\* onTick up to refreshFullSnapshotCache.  `next` may be the same world: a
\* quiet tick, if nothing was touched either.
Tick(next, touched) ==
    /\ phase = "idle"
    /\ bseq' = Succ(bseq)
    /\ world' = next /\ cache' = next
    /\ dirty' = Dirtied(next, touched)
    /\ phase' = "broadcast"
    /\ UNCHANGED <<nseq, posted, entryVars, network, tcpVars, clientVars, served>>

\* serializeDelta and broadcastWorldUpdate, which does nothing if it is empty.
Broadcast ==
    /\ phase = "broadcast"
    /\ LET delta == SerializeDelta(world, dirty) IN
       IF delta = <<>>
       THEN UNCHANGED <<nseq, posted>>
       ELSE /\ Len(posted) < MaxPosted
            /\ nseq' = Succ(nseq)
            /\ posted' = Append(posted, [delta |-> Stamp(delta, bseq), seq |-> nseq'])
    /\ dirty' = NoLife
    /\ phase' = "idle"
    /\ UNCHANGED <<world, cache, bseq, entryVars, network, tcpVars, clientVars, served>>

---------------------------------------------------------------------------
\* The io thread.

\* What doUdpBroadcast sends to where the client now listens: nothing, if the
\* entry is that of a connection it has left.
Sent ==
    IF session # "current" THEN <<>>
    ELSE IF needsFull THEN Stamp(SerializeFull(cache), Head(posted).seq)
    ELSE Head(posted).delta
ServedNow == session = "current" /\ needsFull

\* Mistaken variant: the flag is not cleared.
DoUdpBroadcastAgain ==
    /\ posted # <<>>
    /\ posted' = Tail(posted)
    /\ Len(network) + Len(Sent) <= MaxInFlight
    /\ network' = network \o Sent
    /\ served' = IF ServedNow /\ served < 2 THEN served + 1 ELSE served
    /\ UNCHANGED <<serverVars, entryVars, tcpVars, clientVars>>

\* doUdpBroadcast: a session that needs it gets the cached snapshot under the
\* update's number instead of the delta, even when there is nothing in it.
DoUdpBroadcast ==
    /\ posted # <<>>
    /\ posted' = Tail(posted)
    /\ Len(network) + Len(Sent) <= MaxInFlight
    /\ network' = network \o Sent
    /\ needsFull' = FALSE
    /\ served' = IF ServedNow /\ served < 2 THEN served + 1 ELSE served
    /\ UNCHANGED <<serverVars, session, tcpVars, clientVars>>

\* A handshake makes an entry or takes the player's over; a resync request
\* marks the entry there is, whoever's it is, and is ignored without one.
Register(connection) == session' = connection /\ needsFull' = TRUE
MarkEntry == session' = session /\ needsFull' = (session # "none")

ReadMessage ==
    /\ toServer # <<>>
    /\ toServer' = Tail(toServer)
    /\ IF Head(toServer) = "handshake" THEN Register("current") ELSE MarkEntry
    /\ UNCHANGED <<serverVars, posted, network, connected, stale, clientVars, served>>

\* The connection the client has left is still read up to its end, when
\* removeSession erases the player's entry, whoever's it is by then.
ReadStale ==
    /\ stale # <<>>
    /\ stale' = Tail(stale)
    /\ CASE Head(stale) = "handshake" -> Register("former")
         [] Head(stale) = "resync" -> MarkEntry
         [] OTHER -> session' = "none" /\ needsFull' = FALSE
    /\ UNCHANGED <<serverVars, posted, network, connected, toServer, clientVars, served>>

---------------------------------------------------------------------------
\* The network and the connection.

Without(i) == SubSeq(network, 1, i - 1) \o SubSeq(network, i + 1, Len(network))

Lose(i) ==
    /\ MayLose
    /\ network' = Without(i)
    /\ UNCHANGED <<serverVars, posted, entryVars, tcpVars, clientVars, served>>

\* onTcpDisconnected: the client closes its UDP socket.  The server learns of
\* it when it has read what it has not, before or after the client is back.
\* Bound: it has read all of the connection before this one.
Disconnect ==
    /\ MayDisconnect /\ connected /\ stale = <<>>
    /\ connected' = FALSE /\ network' = <<>>
    /\ toServer' = <<>> /\ stale' = Append(toServer, "end")
    /\ session' = IF session = "current" THEN "former" ELSE session
    /\ UNCHANGED <<serverVars, posted, needsFull, clientVars, served>>

\* onTcpConnected, the first time or after reconnectTick: the model and the
\* last sequence number stay as they are.
Connect ==
    /\ ~connected
    /\ connected' = TRUE
    /\ toServer' = <<"handshake">>
    /\ UNCHANGED <<serverVars, posted, entryVars, network, stale, clientVars, served>>

---------------------------------------------------------------------------
\* The client: applyDatagram, and WorldModel::applyUpdate behind it.

GapBefore(packet) == lastSeq # None /\ ~packet.full /\ packet.seq # Succ(lastSeq)

Deliver(i) ==
    /\ MayReorder \/ i = 1
    /\ network' = Without(i)
    /\ LET packet == network[i] IN
       /\ IF GapBefore(packet)
          THEN Len(toServer) < MaxRequests /\ toServer' = Append(toServer, "resync")
          ELSE UNCHANGED toServer
       /\ lastSeq' = packet.seq
       /\ model' = ApplyUpdate(model, packet)
    /\ UNCHANGED <<serverVars, posted, entryVars, connected, stale, served>>

\* The user's resync button: sendResync, written if TCP is connected.
SendResync ==
    /\ MayAsk /\ connected
    /\ Len(toServer) < MaxRequests
    /\ toServer' = Append(toServer, "resync")
    /\ UNCHANGED <<serverVars, posted, entryVars, network, connected, stale, clientVars, served>>

---------------------------------------------------------------------------
TickThread == Broadcast \/ \E next \in Worlds, touched \in Touched : Tick(next, touched)
IoThread == DoUdpBroadcast \/ ReadMessage \/ ReadStale
ClientStep == \E i \in 1 .. Len(network) : Deliver(i)

Next ==
    \/ TickThread
    \/ IoThread
    \/ ClientStep
    \/ \E i \in 1 .. Len(network) : Lose(i)
    \/ Connect
    \/ Disconnect
    \/ SendResync

\* The scheduler ticks, the io thread runs what is posted and what it can
\* read, and what is not lost arrives: strongly, for the bounds on messages
\* disable the sender now and then, which nothing does in the code.  Nothing
\* says when the end of a connection is noticed, if ever.
Fairness ==
    /\ WF_vars(TickThread)
    /\ SF_vars(DoUdpBroadcast) /\ WF_vars(ReadMessage)
    /\ SF_vars(ClientStep)

Spec == Init /\ [][Next]_vars
FairSpec == Spec /\ Fairness

---------------------------------------------------------------------------
\* Properties.

Packet == [seq : Seqs, full : BOOLEAN, chunk : ChunkId, cells : SUBSET CellId, live : SUBSET CellId]

TypeOK ==
    /\ {world, dirty, cache, model} \subseteq Worlds
    /\ {bseq, nseq} \subseteq Seqs
    /\ phase \in {"idle", "broadcast"}
    /\ \A i \in DOMAIN posted :
        posted[i].seq \in Seqs /\ \A j \in DOMAIN posted[i].delta : posted[i].delta[j] \in Packet
    /\ session \in {"none", "current", "former"}
    /\ {needsFull, connected} \subseteq BOOLEAN
    /\ \A i \in DOMAIN network : network[i] \in Packet
    /\ \A i \in DOMAIN toServer : toServer[i] \in {"handshake", "resync"}
    /\ \A i \in DOMAIN stale : stale[i] \in {"handshake", "resync", "end"}
    /\ lastSeq \in Seqs \cup {None}
    /\ served \in 0 .. 2

\* Nothing is on its way and the server owes the client nothing.
Settled ==
    /\ phase = "idle" /\ posted = <<>> /\ network = <<>> /\ toServer = <<>>
    /\ connected /\ session = "current" /\ ~needsFull

\* Over a network that loses and reorders nothing, a settled client shows
\* every living cell, whenever it joined, broke off and joined again: the
\* snapshot that replaces a delta covers what the delta said, and those posted
\* before it was taken do no harm when they are applied after it.
NoMissingCell == Settled => \A c \in ChunkId : world[c] \subseteq model[c]

\* A client served one snapshot, when its model was empty, shows exactly the
\* world: the deltas take away what dies.
ExactAfterFirstSnapshot == Settled /\ served <= 1 => model = world

\* Every client sees the same state of the world (docs/requirements.md:79).
SameWorld == Settled => model = world

\* The client has given its handshake but has no entry of its own: the late end
\* of its former connection erased it, or that one's late handshake took it.
Unlisted ==
    connected /\ session # "current" /\ \A i \in DOMAIN toServer : toServer[i] # "handshake"

\* As long as there are updates to broadcast, losses or not, and unless the
\* client breaks off or the server loses its entry to the connection it broke
\* off before: a resync request gets to mark the entry, a snapshot that is owed
\* is sent, and a client that connects is served one.
RequestsAreServed ==
    LET Gone == ~connected \/ Unlisted
    IN  []<>(posted # <<>>) =>
            /\ "resync" \in ToSet(toServer) ~> needsFull \/ Gone
            /\ needsFull ~> ~needsFull
            /\ connected ~> served > 0 \/ Gone

\* A client that connects gets the current world (docs/requirements.md:28),
\* unless what it shows is that world anyway.
JoinerIsServed == connected ~> served > 0 \/ model = world \/ ~connected
=============================================================================
