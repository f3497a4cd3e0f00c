-------------------------- MODULE ClientConnection --------------------------
(***************************************************************************)
(* The client's connection: GameNetworkClient with its TCP and UDP sockets *)
(* and its reconnect timer on the network thread, GameWindow on the UI     *)
(* thread, and the two queues of ClientRuntime between them.               *)
(*                                                                         *)
(* What Qt's sockets do is taken from how the handlers use them: abort()   *)
(* and a lost connection signal `disconnected` once, on the spot.          *)
(***************************************************************************)
EXTENDS Integers, Sequences, SequencesExt

CONSTANTS
    Servers,        \* what the connection dialog may be given
    MaxToNet,       \* bound on the calls waiting for the network thread
    MaxToUi,        \* bound on the signals waiting for the UI thread
    MaxOnWire,      \* bound on the pieces of statistics under way
    MayFailBind     \* the UDP bind may fail

ASSUME ClientConnectionAssumption ==
    /\ {MaxToNet, MaxToUi, MaxOnWire} \subseteq Nat \ {0}
    /\ MayFailBind \in BOOLEAN

VARIABLES
    tcp,            \* m_tcpSocket: "unconnected", "connecting" or "connected"
    udp,            \* m_udpSocket: "closed" or "bound"
    timer,          \* m_reconnectTimer is active
    manual,         \* m_manualDisconnect
    host,           \* m_host, or None
    lastSeq,        \* whose number m_lastSeqNum is, or None
    wire,           \* what the server wrote to the connection, not yet read
    buffer,         \* m_tcpReadBuffer
    toNet, toUi,    \* queued calls and signals
    chosen,         \* m_lastParams, or None
    told,           \* the last connection state shown
    players         \* whose statistics m_serverPlayers holds, or None

netVars == <<tcp, udp, timer, manual, host, lastSeq, wire, buffer>>
uiVars == <<chosen, told, players>>
vars == <<netVars, toNet, toUi, uiVars>>

None == "none"
Garbled == "garbled"        \* statistics put together from pieces that do not belong together

ASSUME ServersAssumption == Servers \cap {None, Garbled} = {}

State(connected) == [kind |-> "state", connected |-> connected]
Update(server) == [kind |-> "update", server |-> server]
Stats(server) == [kind |-> "stats", server |-> server]
Call(kind, server) == [kind |-> kind, server |-> server]

Init ==
    /\ tcp = "unconnected" /\ udp = "closed" /\ timer = FALSE /\ manual = FALSE
    /\ host = None /\ lastSeq = None /\ wire = <<>> /\ buffer = <<>>
    /\ toNet = <<>> /\ toUi = <<>>
    /\ chosen = None /\ told = FALSE /\ players = None

---------------------------------------------------------------------------
\* The UI thread.

\* Mistaken variant: a connect is called at once, past the queue.
PostConnectFirst(call) ==
    /\ Len(toNet) < MaxToNet
    /\ toNet' = IF call.kind = "connect" THEN <<call>> \o toNet ELSE Append(toNet, call)

Post(call) == Len(toNet) < MaxToNet /\ toNet' = Append(toNet, call)

\* The dialog is accepted: the call is queued.
OpenConnectionDialog(s) ==
    /\ chosen' = s
    /\ Post(Call("connect", s))
    /\ UNCHANGED <<netVars, toUi, told, players>>

\* The disconnect button, or an edit made while looking at `chosen`, which may
\* be no server yet.
PressDisconnect == Post(Call("disconnect", None)) /\ UNCHANGED <<netVars, toUi, uiVars>>
SendEdit == Post(Call("edit", chosen)) /\ UNCHANGED <<netVars, toUi, uiVars>>

\* What the window does with an update is WorldSync.tla's business.
HandleSignal ==
    /\ toUi # <<>>
    /\ toUi' = Tail(toUi)
    /\ told' = IF Head(toUi).kind = "state" THEN Head(toUi).connected ELSE told
    /\ players' = CASE Head(toUi).kind = "stats" -> Head(toUi).server
                    [] Head(toUi) = State(FALSE) -> None
                    [] OTHER -> players
    /\ UNCHANGED <<netVars, toNet, chosen>>

---------------------------------------------------------------------------
\* The network thread.

Emit(signals) == Len(toUi) + Len(signals) <= MaxToUi /\ toUi' = toUi \o signals
Take(kind) == toNet # <<>> /\ Head(toNet).kind = kind /\ toNet' = Tail(toNet)

\* Mistaken variant: the last sequence number is kept.
ConnectKeepingSeq ==
    /\ Take("connect")
    /\ host' = Head(toNet).server
    /\ manual' = FALSE /\ wire' = <<>> /\ buffer' = <<>> /\ udp' = "closed"
    /\ tcp' = "connecting"
    /\ timer' = (timer \/ tcp = "connected")
    /\ Emit(IF tcp = "connected" THEN <<State(FALSE), State(FALSE)>> ELSE <<State(FALSE)>>)
    /\ UNCHANGED <<lastSeq, uiVars>>

\* Mistaken variant: nothing is signalled.
ConnectQuietly ==
    /\ Take("connect")
    /\ host' = Head(toNet).server
    /\ manual' = FALSE /\ lastSeq' = None /\ wire' = <<>> /\ buffer' = <<>> /\ udp' = "closed"
    /\ tcp' = "connecting"
    /\ timer' = (timer \/ tcp = "connected")
    /\ UNCHANGED <<toUi, uiVars>>

\* Aborting a connection that is up runs onTcpDisconnected, with the manual
\* flag already lowered: the timer starts.
ConnectToServer ==
    /\ Take("connect")
    /\ host' = Head(toNet).server
    /\ manual' = FALSE /\ lastSeq' = None /\ wire' = <<>> /\ buffer' = <<>> /\ udp' = "closed"
    /\ tcp' = "connecting"
    /\ timer' = (timer \/ tcp = "connected")
    /\ Emit(IF tcp = "connected" THEN <<State(FALSE), State(FALSE)>> ELSE <<State(FALSE)>>)
    /\ UNCHANGED uiVars

\* Mistaken variant: the timer goes on.
DisconnectKeepingTimer ==
    /\ Take("disconnect")
    /\ manual' = TRUE /\ lastSeq' = None /\ wire' = <<>> /\ buffer' = <<>>
    /\ udp' = "closed" /\ tcp' = "unconnected"
    /\ Emit(<<State(FALSE)>>)
    /\ UNCHANGED <<timer, host, uiVars>>

DisconnectFromServer ==
    /\ Take("disconnect")
    /\ manual' = TRUE /\ timer' = FALSE /\ lastSeq' = None /\ wire' = <<>> /\ buffer' = <<>>
    /\ udp' = "closed" /\ tcp' = "unconnected"
    /\ Emit(<<State(FALSE)>>)
    /\ UNCHANGED <<host, uiVars>>

\* Written to the socket if it is connected, dropped if not.
SendCommand == Take("edit") /\ UNCHANGED <<netVars, toUi, uiVars>>

\* scheduleReconnect
Scheduled == timer \/ ~manual

OnTcpConnected(bound) ==
    /\ tcp = "connecting"
    /\ bound \/ MayFailBind
    /\ tcp' = "connected"
    /\ udp' = IF bound THEN "bound" ELSE "closed"
    /\ timer' = (~bound /\ ~manual)
    /\ Emit(<<State(bound)>>)
    /\ UNCHANGED <<manual, host, lastSeq, wire, buffer, toNet, uiVars>>

\* Mistaken variant: no other attempt is scheduled.
ConnectFailsOnce ==
    /\ tcp = "connecting"
    /\ tcp' = "unconnected"
    /\ Emit(<<State(FALSE)>>)
    /\ UNCHANGED <<udp, timer, manual, host, lastSeq, wire, buffer, toNet, uiVars>>

\* The attempt fails: onTcpError.
ConnectFails ==
    /\ tcp = "connecting"
    /\ tcp' = "unconnected"
    /\ timer' = Scheduled
    /\ Emit(<<State(FALSE)>>)
    /\ UNCHANGED <<udp, manual, host, lastSeq, wire, buffer, toNet, uiVars>>

\* Mistaken variant: a close by the server is not reported.
ConnectionLostQuietly ==
    /\ tcp = "connected"
    /\ tcp' = "unconnected" /\ udp' = "closed" /\ wire' = <<>> /\ buffer' = <<>>
    /\ timer' = Scheduled
    /\ \E errors \in {<<>>, <<State(FALSE)>>} : Emit(errors)
    /\ UNCHANGED <<manual, host, lastSeq, toNet, uiVars>>

\* The server closes the connection, which onTcpError ignores, or the
\* connection breaks with an error; onTcpDisconnected follows.
ConnectionLost ==
    /\ tcp = "connected"
    /\ tcp' = "unconnected" /\ udp' = "closed" /\ wire' = <<>> /\ buffer' = <<>>
    /\ timer' = Scheduled
    /\ \E errors \in {<<>>, <<State(FALSE)>>} :
        Emit(IF manual THEN errors ELSE Append(errors, State(FALSE)))
    /\ UNCHANGED <<manual, host, lastSeq, toNet, uiVars>>

\* Mistaken variant: the attempt under way is aborted and that is all.
ReconnectTickAborting ==
    /\ timer
    /\ IF tcp = "connected"
       THEN timer' = FALSE /\ UNCHANGED tcp
       ELSE tcp' = "unconnected" /\ UNCHANGED timer
    /\ UNCHANGED <<udp, manual, host, lastSeq, wire, buffer, toNet, toUi, uiVars>>

\* Mistaken variant: the timer runs from the start.
ReconnectTickFromStart ==
    /\ IF tcp = "connected"
       THEN timer' = FALSE /\ UNCHANGED tcp
       ELSE tcp' = "connecting" /\ UNCHANGED timer
    /\ UNCHANGED <<udp, manual, host, lastSeq, wire, buffer, toNet, toUi, uiVars>>

\* An attempt still under way is aborted and begun again.
ReconnectTick ==
    /\ timer
    /\ IF tcp = "connected"
       THEN timer' = FALSE /\ UNCHANGED tcp
       ELSE tcp' = "connecting" /\ UNCHANGED timer
    /\ UNCHANGED <<udp, manual, host, lastSeq, wire, buffer, toNet, toUi, uiVars>>

ApplyDatagram ==
    /\ udp = "bound"
    /\ lastSeq' = host
    /\ Emit(<<Update(host)>>)
    /\ UNCHANGED <<tcp, udp, timer, manual, host, wire, buffer, toNet, uiVars>>

\* The stream of statistics.  A message is a piece with the type byte, one
\* with the rest of the header, which counts the entries, and the entries;
\* the bytes of an entry may look like a type.
Piece(kind, n) == [kind |-> kind, n |-> n, from |-> host]
Message(entries) == <<Piece("type", 0), Piece("count", Len(entries))>> \o entries

ServerSendsStats ==
    /\ tcp = "connected"
    /\ \E entries \in {<<>>, <<Piece("entry", 0)>>, <<Piece("entry", 1)>>} :
        Len(wire) + Len(Message(entries)) <= MaxOnWire /\ wire' = wire \o Message(entries)
    /\ UNCHANGED <<tcp, udp, timer, manual, host, lastSeq, buffer, toNet, toUi, uiVars>>

\* The position the parser skips to: the first that looks like a type as long
\* as a header could follow.
Start(b) ==
    LET LooksLikeType(i) == b[i].kind = "type" \/ (b[i].kind = "entry" /\ b[i].n = 1)
    IN  Min({i \in 1 .. Len(b) : LooksLikeType(i)} \cup {Max({Len(b), 1})})

\* Pieces of the message at the start of b; what is no count reads as some
\* number, here 0.
SizeOf(b) == 2 + (IF b[2].kind = "count" THEN b[2].n ELSE 0)
Whole(m) ==
    /\ m[1].kind = "type" /\ m[2].kind = "count" /\ Len(m) = 2 + m[2].n
    /\ \A i \in DOMAIN m : m[i].from = m[1].from
ReadAs(m) == Stats(IF Whole(m) THEN m[1].from ELSE Garbled)

\* Mistaken variant: an incomplete message is taken for nothing and dropped.
ParseOneDropping(last) ==
    LET b == SubSeq(last.rest, Start(last.rest), Len(last.rest))
    IN  IF Len(b) < 2 THEN [last EXCEPT !.rest = b]
        ELSE IF Len(b) < SizeOf(b) THEN [last EXCEPT !.rest = SubSeq(b, 3, Len(b))]
        ELSE [rest |-> SubSeq(b, SizeOf(b) + 1, Len(b)),
              signals |-> Append(last.signals, ReadAs(SubSeq(b, 1, SizeOf(b))))]

\* tryParseServerStatsMessage: what is left of the stream and what has been
\* signalled so far.
ParseOne(last) ==
    LET b == SubSeq(last.rest, Start(last.rest), Len(last.rest))
    IN  IF Len(b) < 2 \/ Len(b) < SizeOf(b) THEN [last EXCEPT !.rest = b]
        ELSE [rest |-> SubSeq(b, SizeOf(b) + 1, Len(b)),
              signals |-> Append(last.signals, ReadAs(SubSeq(b, 1, SizeOf(b))))]

\* Until it returns nothing.
Parse(stream) ==
    LET parse[n \in 0 .. Len(stream)] ==
            IF n = 0 THEN [rest |-> stream, signals |-> <<>>] ELSE ParseOne(parse[n - 1])
    IN  parse[Len(stream)]

\* What has arrived is read, wherever it is cut, and parsed.
OnTcpReadyRead == \E k \in 1 .. Len(wire) :
    LET parsed == Parse(buffer \o SubSeq(wire, 1, k)) IN
    /\ tcp = "connected"
    /\ wire' = SubSeq(wire, k + 1, Len(wire))
    /\ buffer' = parsed.rest
    /\ Emit(parsed.signals)
    /\ UNCHANGED <<tcp, udp, timer, manual, host, lastSeq, toNet, uiVars>>

---------------------------------------------------------------------------
NetCall == ConnectToServer \/ DisconnectFromServer \/ SendCommand

Next ==
    \/ \E s \in Servers : OpenConnectionDialog(s)
    \/ PressDisconnect \/ SendEdit \/ HandleSignal
    \/ NetCall
    \/ \E bound \in BOOLEAN : OnTcpConnected(bound)
    \/ ConnectFails \/ ConnectionLost \/ ReconnectTick
    \/ ApplyDatagram \/ ServerSendsStats \/ OnTcpReadyRead

\* Both threads empty their queues, an active timer fires, and the server
\* answers some attempt within the timer's interval, if there are always more.
Fairness ==
    /\ WF_vars(HandleSignal) /\ SF_vars(NetCall)
    /\ SF_vars(ReconnectTick) /\ SF_vars(OnTcpConnected(TRUE))

Spec == Init /\ [][Next]_vars
FairSpec == Spec /\ Fairness

---------------------------------------------------------------------------
\* Properties.

TypeOK ==
    /\ tcp \in {"unconnected", "connecting", "connected"}
    /\ udp \in {"closed", "bound"}
    /\ {wire, buffer} \subseteq Seq([kind : {"type", "count", "entry"}, n : {0, 1}, from : Servers])
    /\ {timer, manual, told} \subseteq BOOLEAN
    /\ {host, lastSeq, chosen} \subseteq Servers \cup {None}
    /\ host = None => tcp = "unconnected" /\ ~timer
    /\ toNet \in Seq({Call("disconnect", None), Call("edit", None)}
                     \cup {Call(k, s) : k \in {"connect", "edit"}, s \in Servers})
    /\ toUi \in Seq({State(b) : b \in BOOLEAN} \cup {Update(s) : s \in Servers}
                    \cup {Stats(s) : s \in Servers \cup {Garbled}})
    /\ players \in Servers \cup {None, Garbled}

\* No datagram is read and no half of a message kept once TCP is down, so none
\* meets the next connection; and a sequence number is compared with those of
\* the server it came from only.  Of an earlier connection to the same server
\* it is kept: onTcpDisconnected and reconnectTick do not reset m_lastSeqNum
\* (GameNetworkClient.cpp:135-143, 184-194), only the user's calls do.
NothingLeftOver ==
    /\ tcp # "connected" => udp = "closed" /\ buffer = <<>>
    /\ lastSeq # None => lastSeq = host

\* The client does not come to rest without a connection it still wants: the
\* timer runs, whatever happened to the attempts before (requirements.md:54).
NeverGivesUp == host # None /\ ~manual /\ tcp = "unconnected" => timer

\* After a manual disconnect nothing brings the connection back but the user,
\* whatever was under way: a timer, an attempt, a lost connection.
StaysDisconnected == manual => tcp = "unconnected" /\ udp = "closed" /\ ~timer

\* What the window says of the connection is true once it has read the
\* signals: only the last counts, and it is the right one.
WindowIsTold ==
    (\A i \in DOMAIN toUi : toUi[i].kind # "state") => (told <=> udp = "bound")

\* An edit is written to the server the player was looking at, or to none.
EditsGoWhereMeant ==
    toNet # <<>> /\ Head(toNet).kind = "edit" /\ tcp = "connected" => Head(toNet).server = host

\* An update or a message of a server the client has left is followed by the signal that
\* the connection is down: what the window is shown after that signal is of the
\* new server only, whichever of timer, user and network ended the old one.
UpdatesComeInOrder ==
    \A i \in DOMAIN toUi :
        toUi[i].kind \in {"update", "stats"} /\ toUi[i].server # host =>
            \E j \in i + 1 .. Len(toUi) : toUi[j] = State(FALSE)

\* The balances the window shows, and checks edits against, are a message the
\* server wrote, wherever the stream was cut and whatever its bytes look like;
\* and that server is the one the client is connected to, or the signal that
\* clears them is on its way.
StatisticsAreGenuine ==
    players # None =>
        /\ players # Garbled
        /\ players = host \/ \E i \in DOMAIN toUi : toUi[i] = State(FALSE)

\* A client that is to be connected gets its TCP connection in the end: no
\* order of failures, timer ticks and calls leaves it waiting (docs/
\* requirements.md:54).  Its UDP socket may stay closed: reconnectTick takes
\* TCP for enough when the bind has failed.
GetsConnected == host # None /\ ~manual ~> tcp = "connected" \/ manual
=============================================================================
