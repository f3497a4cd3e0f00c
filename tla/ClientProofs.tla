---------------------------- MODULE ClientProofs ----------------------------
(***************************************************************************)
(* Proofs about ClientConnection.tla, for any servers and queues of any    *)
(* length: what the flags of the connection promise, where edits go, what  *)
(* the window is told, and that the statistics are read as they were       *)
(* written, in messages of any length cut anywhere.                        *)
(***************************************************************************)
EXTENDS ClientConnection, SequenceTheorems, WellFoundedInduction, TLAPS

---------------------------------------------------------------------------
\* The flags of the connection, taken together, are preserved.
FlagsAgree ==
    /\ tcp \in {"unconnected", "connecting", "connected"}
    /\ timer \in BOOLEAN /\ manual \in BOOLEAN
    /\ NothingLeftOver
    /\ NeverGivesUp
    /\ StaysDisconnected

LEMMA StepKeepsFlags == FlagsAgree /\ [Next]_vars => FlagsAgree'
<1> SUFFICES ASSUME FlagsAgree, [Next]_vars PROVE FlagsAgree'
  OBVIOUS
<1> USE DEF FlagsAgree, NothingLeftOver, NeverGivesUp, StaysDisconnected, netVars, uiVars
\* The UI thread touches none of them.
<1>1. CASE (\E s \in Servers : OpenConnectionDialog(s)) \/ PressDisconnect \/ SendEdit \/ HandleSignal
  <2>1. UNCHANGED <<tcp, udp, timer, manual, host, lastSeq, buffer>>
    BY <1>1 DEF OpenConnectionDialog, PressDisconnect, SendEdit, HandleSignal
  <2> QED BY <2>1
\* The calls it has queued.
<1>2. CASE ConnectToServer
  BY <1>2 DEF ConnectToServer
<1>3. CASE DisconnectFromServer
  BY <1>3 DEF DisconnectFromServer
<1>4. CASE SendCommand
  BY <1>4 DEF SendCommand
\* An attempt succeeds or fails, a connection is lost, the timer fires.
<1>5. ASSUME NEW bound \in BOOLEAN, OnTcpConnected(bound) PROVE FlagsAgree'
  BY <1>5 DEF OnTcpConnected
<1>6. CASE ConnectFails \/ ConnectionLost
  <2>1. /\ tcp' = "unconnected" /\ timer' = (timer \/ ~manual) /\ UNCHANGED <<manual, host, lastSeq>>
        /\ tcp # "unconnected"
    BY <1>6 DEF ConnectFails, ConnectionLost, Scheduled
  <2>2. udp' = "closed" /\ buffer' = <<>>
    BY <1>6 DEF ConnectFails, ConnectionLost
  <2> QED BY <2>1, <2>2
<1>7. CASE ReconnectTick
  BY <1>7 DEF ReconnectTick
\* What arrives over a connection that is up.
<1>8. CASE ApplyDatagram \/ ServerSendsStats
  BY <1>8 DEF ApplyDatagram, ServerSendsStats
<1>9. CASE OnTcpReadyRead
  <2>1. tcp = "connected" /\ UNCHANGED <<tcp, udp, timer, manual, host, lastSeq>>
    BY <1>9 DEF OnTcpReadyRead
  <2> QED BY <2>1
<1>10. CASE UNCHANGED vars
  BY <1>10 DEF vars
<1> QED
  BY <1>1, <1>2, <1>3, <1>4, <1>5, <1>6, <1>7, <1>8, <1>9, <1>10 DEF Next, NetCall

LEMMA FlagsHold == Spec => []FlagsAgree
<1>1. Init => FlagsAgree
  BY DEF Init, FlagsAgree, NothingLeftOver, NeverGivesUp, StaysDisconnected
<1> QED BY <1>1, StepKeepsFlags, PTL DEF Spec

\* Without a TCP connection no datagram is read and no half of a message kept,
\* and a sequence number is only ever compared with those of the server it came
\* from (GameNetworkClient.cpp:40-64, 135-143).
THEOREM NoRemains == Spec => []NothingLeftOver
<1>1. FlagsAgree => NothingLeftOver
  BY DEF FlagsAgree
<1> QED BY FlagsHold, <1>1, PTL

\* Whatever happens to its attempts, a client that wants a connection has one
\* or a timer that begins another (GameNetworkClient.cpp:135-155, 184-194).
THEOREM GoesOnTrying == Spec => []NeverGivesUp
<1>1. FlagsAgree => NeverGivesUp
  BY DEF FlagsAgree
<1> QED BY FlagsHold, <1>1, PTL

\* After a manual disconnect nothing but the user connects again
\* (GameNetworkClient.cpp:66-78).
THEOREM StaysAway == Spec => []StaysDisconnected
<1>1. FlagsAgree => StaysDisconnected
  BY DEF FlagsAgree
<1> QED BY FlagsHold, <1>1, PTL

---------------------------------------------------------------------------
\* Where edits go.
Calls == [kind : {"connect", "disconnect", "edit"}, server : Servers \cup {None}]

\* The server the network thread will be at when it gets to the i-th call.
IsAt(i, s) ==
    \/ /\ \A m \in 1 .. i - 1 : toNet[m].kind # "connect"
       /\ host = s
    \/ \E k \in 1 .. i - 1 :
        /\ toNet[k].kind = "connect" /\ toNet[k].server = s
        /\ \A m \in k + 1 .. i - 1 : toNet[m].kind # "connect"

\* An edit meets the server it was made for, and so will the next one.
EditsMeetTheirServer ==
    /\ toNet \in Seq(Calls)
    /\ chosen \in Servers \cup {None}
    /\ \A i \in DOMAIN toNet : toNet[i].kind = "edit" => IsAt(i, toNet[i].server)
    /\ IsAt(Len(toNet) + 1, chosen)

\* A call posted at the end leaves those before it where they are.
LEMMA PostedLast ==
    ASSUME toNet \in Seq(Calls), NEW call \in Calls, Post(call)
    PROVE  /\ toNet' \in Seq(Calls) /\ Len(toNet) \in Nat /\ Len(toNet') = Len(toNet) + 1
           /\ DOMAIN toNet = 1 .. Len(toNet) /\ DOMAIN toNet' = 1 .. Len(toNet) + 1
           /\ \A i \in 1 .. Len(toNet) : toNet'[i] = toNet[i]
           /\ toNet'[Len(toNet) + 1] = call
  BY AppendProperties, LenProperties DEF Post

\* A call that is no connect changes nothing for the one after it.
LEMMA PostedOther ==
    ASSUME EditsMeetTheirServer, NEW call \in Calls, Post(call), call.kind # "connect",
           call.kind = "edit" => call.server = chosen, UNCHANGED <<host, chosen>>
    PROVE  EditsMeetTheirServer'
<1>1. /\ toNet' \in Seq(Calls) /\ Len(toNet) \in Nat /\ Len(toNet') = Len(toNet) + 1
      /\ DOMAIN toNet = 1 .. Len(toNet) /\ DOMAIN toNet' = 1 .. Len(toNet) + 1
      /\ \A i \in 1 .. Len(toNet) : toNet'[i] = toNet[i]
      /\ toNet'[Len(toNet) + 1] = call
  BY PostedLast DEF EditsMeetTheirServer
<1>2. ASSUME NEW i \in 1 .. Len(toNet) + 1, NEW s, IsAt(i, s) PROVE IsAt(i, s)'
  BY <1>1, <1>2 DEF IsAt
<1>3. IsAt(Len(toNet) + 1, chosen)'
  BY <1>1 DEF EditsMeetTheirServer, IsAt
<1>4. ASSUME NEW i \in DOMAIN toNet', toNet'[i].kind = "edit" PROVE IsAt(i, toNet[i].server)'
  BY <1>1, <1>2, <1>4 DEF EditsMeetTheirServer
<1> QED BY <1>1, <1>3, <1>4 DEF EditsMeetTheirServer

\* The network thread has taken the first call.
LEMMA TakenFirst ==
    ASSUME EditsMeetTheirServer, toNet # <<>>, toNet' = Tail(toNet), chosen' = chosen,
           host' = IF Head(toNet).kind = "connect" THEN Head(toNet).server ELSE host
    PROVE  EditsMeetTheirServer'
<1>1. /\ Len(toNet) \in Nat \ {0} /\ DOMAIN toNet = 1 .. Len(toNet)
      /\ toNet' \in Seq(Calls) /\ Len(toNet') = Len(toNet) - 1 /\ DOMAIN toNet' = 1 .. Len(toNet) - 1
      /\ Head(toNet) = toNet[1]
      /\ \A i \in 1 .. Len(toNet) - 1 : toNet'[i] = toNet[i + 1]
  BY HeadTailProperties, LenProperties, EmptySeq DEF EditsMeetTheirServer
<1>2. ASSUME NEW i \in 1 .. Len(toNet), NEW s, IsAt(i + 1, s) PROVE IsAt(i, s)'
  <2>1. CASE \A m \in 1 .. i : toNet[m].kind # "connect"
    <3>1. toNet[1].kind # "connect" /\ host = s
      BY <1>1, <1>2, <2>1 DEF IsAt
    <3>2. \A m \in 1 .. i - 1 : toNet'[m].kind # "connect"
      BY <1>1, <2>1
    <3> QED BY <1>1, <3>1, <3>2 DEF IsAt
  <2>2. ASSUME NEW k \in 1 .. i, toNet[k].kind = "connect", toNet[k].server = s,
               \A m \in k + 1 .. i : toNet[m].kind # "connect"
        PROVE  IsAt(i, s)'
    <3>1. \A m \in k .. i - 1 : toNet'[m].kind # "connect"
      BY <1>1, <2>2
    <3>2. CASE k = 1
      BY <1>1, <2>2, <3>1, <3>2 DEF IsAt
    <3>3. CASE k # 1
      <4>1. k - 1 \in 1 .. i - 1 /\ toNet'[k - 1] = toNet[k]
        BY <1>1, <3>3
      <4>2. \A m \in (k - 1) + 1 .. i - 1 : toNet'[m].kind # "connect"
        BY <3>1
      <4> QED BY <2>2, <4>1, <4>2 DEF IsAt
    <3> QED BY <3>2, <3>3
  <2>3. \/ \A m \in 1 .. i : toNet[m].kind # "connect"
        \/ \E k \in 1 .. i : /\ toNet[k].kind = "connect" /\ toNet[k].server = s
                            /\ \A m \in k + 1 .. i : toNet[m].kind # "connect"
    <3>1. (i + 1) - 1 = i
      OBVIOUS
    <3> QED BY <1>2, <3>1, Zenon DEF IsAt
  <2> QED BY <2>1, <2>2, <2>3
<1>3. IsAt(Len(toNet) + 1, chosen)'
  BY <1>1, <1>2 DEF EditsMeetTheirServer
<1>4. ASSUME NEW i \in DOMAIN toNet', toNet'[i].kind = "edit" PROVE IsAt(i, toNet[i].server)'
  BY <1>1, <1>2, <1>4 DEF EditsMeetTheirServer
<1> QED BY <1>1, <1>3, <1>4 DEF EditsMeetTheirServer

LEMMA StepKeepsEdits == EditsMeetTheirServer /\ [Next]_vars => EditsMeetTheirServer'
<1> SUFFICES ASSUME EditsMeetTheirServer, [Next]_vars PROVE EditsMeetTheirServer'
  OBVIOUS
<1> USE DEF netVars, uiVars
<1>1. ASSUME NEW s \in Servers, OpenConnectionDialog(s) PROVE EditsMeetTheirServer'
  <2>1. Call("connect", s) \in Calls /\ Call("connect", s).kind = "connect" /\ Call("connect", s).server = s
    BY DEF Call, Calls
  <2>2. /\ toNet' \in Seq(Calls) /\ Len(toNet) \in Nat /\ Len(toNet') = Len(toNet) + 1
        /\ DOMAIN toNet = 1 .. Len(toNet) /\ DOMAIN toNet' = 1 .. Len(toNet) + 1
        /\ \A i \in 1 .. Len(toNet) : toNet'[i] = toNet[i]
        /\ toNet'[Len(toNet) + 1] = Call("connect", s)
    BY <1>1, <2>1, PostedLast DEF OpenConnectionDialog, EditsMeetTheirServer
  <2>3. ASSUME NEW i \in 1 .. Len(toNet), NEW t, IsAt(i, t) PROVE IsAt(i, t)'
    BY <1>1, <2>2, <2>3 DEF IsAt, OpenConnectionDialog
  <2>4. IsAt(Len(toNet) + 1, chosen)'
    BY <1>1, <2>1, <2>2 DEF IsAt, OpenConnectionDialog
  <2>5. ASSUME NEW i \in DOMAIN toNet', toNet'[i].kind = "edit" PROVE IsAt(i, toNet[i].server)'
    BY <2>1, <2>2, <2>3, <2>5 DEF EditsMeetTheirServer
  <2> QED BY <1>1, <2>2, <2>4, <2>5 DEF EditsMeetTheirServer, OpenConnectionDialog
<1>2. CASE PressDisconnect
  <2>1. Call("disconnect", None) \in Calls /\ Call("disconnect", None).kind = "disconnect"
    BY DEF Call, Calls
  <2> QED BY <1>2, <2>1, PostedOther DEF PressDisconnect
<1>3. CASE SendEdit
  <2>1. Call("edit", chosen) \in Calls /\ Call("edit", chosen).kind = "edit" /\ Call("edit", chosen).server = chosen
    BY DEF Call, Calls, EditsMeetTheirServer
  <2> QED BY <1>3, <2>1, PostedOther DEF SendEdit
<1>4. CASE NetCall
  <2>1. toNet # <<>> /\ toNet' = Tail(toNet) /\ chosen' = chosen
        /\ host' = IF Head(toNet).kind = "connect" THEN Head(toNet).server ELSE host
    BY <1>4 DEF NetCall, ConnectToServer, DisconnectFromServer, SendCommand, Take
  <2> QED BY <2>1, TakenFirst
<1>5. CASE UNCHANGED <<toNet, host, chosen>>
  BY <1>5 DEF EditsMeetTheirServer, IsAt
<1>6. CASE OnTcpReadyRead
  <2>1. UNCHANGED <<toNet, host, chosen>>
    BY <1>6 DEF OnTcpReadyRead
  <2> QED BY <1>5, <2>1
<1> QED
  BY <1>1, <1>2, <1>3, <1>4, <1>5, <1>6 DEF Next, HandleSignal, OnTcpConnected, ConnectFails,
     ConnectionLost, ReconnectTick, ApplyDatagram, ServerSendsStats, vars

\* An edit is written to the server the player saw when making it, however
\* calls to connect and to disconnect are queued around it
\* (ClientRuntime.cpp:44-83).
THEOREM EditsAreMeant == Spec => []EditsGoWhereMeant
<1>1. Init => EditsMeetTheirServer
  <2>1. <<>> \in Seq(Calls) /\ Len(<<>>) = 0
    BY EmptySeq
  <2> QED BY <2>1 DEF Init, EditsMeetTheirServer, IsAt
<1>2. EditsMeetTheirServer => EditsGoWhereMeant
  <2> SUFFICES ASSUME EditsMeetTheirServer, toNet # <<>>, Head(toNet).kind = "edit"
               PROVE  Head(toNet).server = host
    BY DEF EditsGoWhereMeant
  <2>1. 1 \in DOMAIN toNet /\ Head(toNet) = toNet[1]
    BY HeadTailProperties, LenProperties, EmptySeq DEF EditsMeetTheirServer
  <2> QED BY <2>1 DEF EditsMeetTheirServer, IsAt
<1> QED BY <1>1, <1>2, StepKeepsEdits, PTL DEF Spec

---------------------------------------------------------------------------
\* Induction: a set with 0 and the successor of each of its members has every
\* natural number.
LEMMA LeastNat ==
    ASSUME NEW T \in SUBSET Nat, T # {}
    PROVE  \E x \in T : \A y \in T : x <= y
<1> DEFINE R == {p \in Nat \X Nat : p[1] < p[2]}
<1>1. IsWellFoundedOn(R, Nat)
  BY NatLessThanWellFounded DEF OpToRel
<1>2. PICK x \in T : \A y \in T : <<y, x>> \notin R
  <2> HIDE DEF R
  <2> QED BY <1>1, WFMin
<1>3. ASSUME NEW y \in T PROVE x <= y
  <2>1. x \in Nat /\ y \in Nat /\ <<y, x>> \in Nat \X Nat
    OBVIOUS
  <2>2. ~(y < x)
    BY <1>2, <2>1
  <2> QED BY <2>1, <2>2
<1> QED BY <1>3

LEMMA Induction ==
    ASSUME NEW T, 0 \in T, \A n \in Nat : n \in T => n + 1 \in T
    PROVE  Nat \subseteq T
<1> SUFFICES ASSUME Nat \ T # {} PROVE FALSE
  OBVIOUS
<1>1. PICK x \in Nat \ T : \A y \in Nat \ T : x <= y
  BY LeastNat
<1>2. x # 0 /\ x - 1 \in Nat /\ x - 1 \notin Nat \ T
  BY <1>1
<1> QED BY <1>2

---------------------------------------------------------------------------
\* The parser: what every call of tryParseServerStatsMessage keeps, the loop keeps.
LEMMA ParseKeeps ==
    ASSUME NEW S, NEW stream \in Seq(S), NEW T, [rest |-> stream, signals |-> <<>>] \in T,
           \A v \in T : ParseOne(v) \in T
    PROVE  Parse(stream) \in T
<1> DEFINE start == [rest |-> stream, signals |-> <<>>]
           Runs(f, n) == f = [i \in 0 .. n |-> IF i = 0 THEN start ELSE ParseOne(f[i - 1])]
           Terminates == {n \in Nat : \E f : Runs(f, n)}
<1>1. Len(stream) \in Nat
  BY LenProperties
<1>2. Nat \subseteq Terminates
  <2>1. 0 \in Terminates
    <3>1. Runs([i \in 0 .. 0 |-> start], 0)
      OBVIOUS
    <3> QED BY <3>1
  <2>2. ASSUME NEW n \in Nat, n \in Terminates PROVE n + 1 \in Terminates
    <3>1. PICK f : Runs(f, n)
      BY <2>2
    <3> DEFINE g == [i \in 0 .. n + 1 |-> IF i = 0 THEN start ELSE ParseOne(f[i - 1])]
    <3>2. \A i \in 0 .. n : g[i] = f[i]
      BY <3>1
    <3>3. \A i \in 0 .. n + 1 : i # 0 => i - 1 \in 0 .. n
      OBVIOUS
    <3>4. Runs(g, n + 1)
      BY <3>2, <3>3
    <3>5. \E h : Runs(h, n + 1)
      <4> HIDE DEF g, Runs
      <4> QED BY <3>4
    <3> QED BY <3>5
  <2> HIDE DEF Terminates
  <2> QED BY <2>1, <2>2, Induction
<1> DEFINE parse == CHOOSE f : Runs(f, Len(stream))
<1>3. Runs(parse, Len(stream))
  BY <1>1, <1>2
<1>4. Parse(stream) = parse[Len(stream)]
  BY DEF Parse
<1> HIDE DEF parse
<1> DEFINE Kept == {n \in Nat : n \in 0 .. Len(stream) => parse[n] \in T}
<1>5. 0 \in Kept
  BY <1>1, <1>3
<1>6. ASSUME NEW n \in Nat, n \in Kept PROVE n + 1 \in Kept
  <2> SUFFICES ASSUME n + 1 \in 0 .. Len(stream) PROVE parse[n + 1] \in T
    OBVIOUS
  <2>1. parse[n] \in T
    BY <1>1, <1>6
  <2>2. parse[n + 1] = ParseOne(parse[n])
    BY <1>1, <1>3
  <2> QED BY <2>1, <2>2
<1>7. Len(stream) \in Kept
  <2> HIDE DEF Kept
  <2> QED BY <1>1, <1>5, <1>6, Induction
<1> QED BY <1>1, <1>4, <1>7

---------------------------------------------------------------------------
\* Part of a sequence, and part of a part.
LEMMA Slice ==
    ASSUME NEW S, NEW s \in Seq(S), NEW a \in 1 .. Len(s) + 1, NEW b \in a - 1 .. Len(s)
    PROVE  /\ SubSeq(s, a, b) \in Seq(S)
           /\ Len(SubSeq(s, a, b)) = b - a + 1
           /\ \A i \in 1 .. b - a + 1 : SubSeq(s, a, b)[i] = s[a + i - 1]
<1>1. Len(s) \in Nat
  BY LenProperties
<1>2. a \in Int /\ b \in Int /\ \A i \in a .. b : i \in 1 .. Len(s)
  BY <1>1
<1>3. \A i \in a .. b : s[i] \in S
  BY <1>2, ElementOfSeq
<1>4. (IF a <= b THEN b - a + 1 ELSE 0) = b - a + 1
  BY <1>1
<1> QED BY <1>2, <1>3, <1>4, SubSeqProperties

LEMMA SliceOfSlice ==
    ASSUME NEW S, NEW s \in Seq(S), NEW a \in 1 .. Len(s) + 1, NEW b \in a - 1 .. Len(s),
           NEW k \in 1 .. b - a + 2
    PROVE  SubSeq(SubSeq(s, a, b), k, b - a + 1) = SubSeq(s, a + k - 1, b)
<1> DEFINE r == SubSeq(s, a, b)
           x == SubSeq(r, k, b - a + 1)
           y == SubSeq(s, a + k - 1, b)
<1>1. Len(s) \in Nat
  BY LenProperties
<1>2. r \in Seq(S) /\ Len(r) = b - a + 1 /\ \A i \in 1 .. b - a + 1 : r[i] = s[a + i - 1]
  BY Slice
<1>3. k \in 1 .. Len(r) + 1 /\ b - a + 1 \in k - 1 .. Len(r)
  BY <1>1, <1>2
<1>4. a + k - 1 \in 1 .. Len(s) + 1 /\ b \in (a + k - 1) - 1 .. Len(s)
  BY <1>1
<1> HIDE DEF r
<1>5. /\ x \in Seq(S) /\ Len(x) = (b - a + 1) - k + 1
      /\ \A i \in 1 .. (b - a + 1) - k + 1 : x[i] = r[k + i - 1]
  BY <1>2, <1>3, Slice
<1>6. /\ y \in Seq(S) /\ Len(y) = b - (a + k - 1) + 1
      /\ \A i \in 1 .. b - (a + k - 1) + 1 : y[i] = s[(a + k - 1) + i - 1]
  BY <1>4, Slice
<1>7. Len(x) = Len(y)
  BY <1>1, <1>5, <1>6
<1>9. ASSUME NEW i \in 1 .. Len(x) PROVE x[i] = y[i]
  <2>1. k + i - 1 \in 1 .. b - a + 1 /\ i \in Nat
    BY <1>1, <1>5
  <2>2. x[i] = s[a + (k + i - 1) - 1]
    BY <1>2, <1>5, <2>1
  <2>3. a + (k + i - 1) - 1 = (a + k - 1) + i - 1
    BY <1>1, <2>1
  <2> QED BY <1>5, <1>6, <1>7, <2>2, <2>3
<1> HIDE DEF x, y
<1> QED BY <1>5, <1>6, <1>7, <1>9, SeqEqual DEF r, x, y

LEMMA PrefixOfConcat ==
    ASSUME NEW S, NEW s \in Seq(S), NEW t \in Seq(S), NEW k \in 0 .. Len(t)
    PROVE  s \o SubSeq(t, 1, k) = SubSeq(s \o t, 1, Len(s) + k)
<1> DEFINE st == s \o t
           part == SubSeq(t, 1, k)
           x == s \o part
           y == SubSeq(st, 1, Len(s) + k)
<1>1. Len(s) \in Nat /\ Len(t) \in Nat /\ k \in Nat /\ k <= Len(t)
  BY LenProperties
<1>2. /\ st \in Seq(S) /\ Len(st) = Len(s) + Len(t)
      /\ \A i \in 1 .. Len(s) + Len(t) : st[i] = IF i <= Len(s) THEN s[i] ELSE t[i - Len(s)]
  BY ConcatProperties
<1>3. part \in Seq(S) /\ Len(part) = k /\ \A i \in 1 .. k : part[i] = t[i]
  <2>1. 1 \in 1 .. Len(t) + 1 /\ k \in 1 - 1 .. Len(t) /\ k - 1 + 1 = k /\ \A i \in 1 .. k : 1 + i - 1 = i
    BY <1>1
  <2> QED BY <2>1, Slice
<1> HIDE DEF st, part
<1>4. /\ x \in Seq(S) /\ Len(x) = Len(s) + k
      /\ \A i \in 1 .. Len(s) + k : x[i] = IF i <= Len(s) THEN s[i] ELSE part[i - Len(s)]
  <2>1. /\ s \o part \in Seq(S) /\ Len(s \o part) = Len(s) + Len(part)
        /\ \A i \in 1 .. Len(s) + Len(part) :
               (s \o part)[i] = IF i <= Len(s) THEN s[i] ELSE part[i - Len(s)]
    BY <1>3, ConcatProperties
  <2> QED BY <1>3, <2>1
<1>5. y \in Seq(S) /\ Len(y) = Len(s) + k /\ \A i \in 1 .. Len(s) + k : y[i] = st[i]
  <2> DEFINE b == Len(s) + k
  <2>1. 1 \in 1 .. Len(st) + 1 /\ b \in 1 - 1 .. Len(st) /\ b - 1 + 1 = b /\ \A i \in 1 .. b : 1 + i - 1 = i
    BY <1>1, <1>2
  <2> HIDE DEF b
  <2>2. /\ SubSeq(st, 1, b) \in Seq(S) /\ Len(SubSeq(st, 1, b)) = b - 1 + 1
        /\ \A i \in 1 .. b - 1 + 1 : SubSeq(st, 1, b)[i] = st[1 + i - 1]
    BY <1>2, <2>1, Slice
  <2> QED BY <2>1, <2>2 DEF b
<1> HIDE DEF x, y
<1>6. ASSUME NEW i \in 1 .. Len(s) + k PROVE x[i] = y[i]
  <2>1. CASE i <= Len(s)
    <3>1. i \in 1 .. Len(s) + Len(t)
      BY <1>1
    <3> QED BY <1>2, <1>4, <1>5, <2>1, <3>1
  <2>2. CASE ~(i <= Len(s))
    <3>1. i - Len(s) \in 1 .. k /\ i \in 1 .. Len(s) + Len(t)
      BY <1>1, <2>2
    <3> QED BY <1>2, <1>3, <1>4, <1>5, <2>2, <3>1
  <2> QED BY <2>1, <2>2
<1>7. x = y
  BY <1>4, <1>5, <1>6, SeqEqual
<1> QED BY <1>7 DEF x, y, part, st

LEMMA SuffixOfConcat ==
    ASSUME NEW S, NEW s \in Seq(S), NEW t \in Seq(S), NEW k \in 0 .. Len(t)
    PROVE  SubSeq(t, k + 1, Len(t)) = SubSeq(s \o t, Len(s) + k + 1, Len(s) + Len(t))
<1> DEFINE st == s \o t
           x == SubSeq(t, k + 1, Len(t))
           a == Len(s) + k + 1
           b == Len(s) + Len(t)
           y == SubSeq(st, a, b)
<1>1. Len(s) \in Nat /\ Len(t) \in Nat /\ k \in Nat /\ k <= Len(t)
  BY LenProperties
<1>2. /\ st \in Seq(S) /\ Len(st) = Len(s) + Len(t)
      /\ \A i \in 1 .. Len(s) + Len(t) : st[i] = IF i <= Len(s) THEN s[i] ELSE t[i - Len(s)]
  BY ConcatProperties
<1>3. /\ x \in Seq(S) /\ Len(x) = Len(t) - (k + 1) + 1
      /\ \A i \in 1 .. Len(t) - (k + 1) + 1 : x[i] = t[(k + 1) + i - 1]
  <2>1. k + 1 \in 1 .. Len(t) + 1 /\ Len(t) \in (k + 1) - 1 .. Len(t)
    BY <1>1
  <2> QED BY <2>1, Slice
<1>4. a \in 1 .. Len(st) + 1 /\ b \in a - 1 .. Len(st) /\ b - a + 1 = Len(t) - (k + 1) + 1
  BY <1>1, <1>2
<1> HIDE DEF st, a, b
<1>5. /\ y \in Seq(S) /\ Len(y) = b - a + 1
      /\ \A i \in 1 .. b - a + 1 : y[i] = st[a + i - 1]
  BY <1>2, <1>4, Slice
<1> HIDE DEF x, y
<1>6. ASSUME NEW i \in 1 .. Len(x) PROVE x[i] = y[i]
  <2>1. /\ a + i - 1 \in 1 .. Len(s) + Len(t) /\ ~(a + i - 1 <= Len(s))
        /\ (a + i - 1) - Len(s) = (k + 1) + i - 1
    BY <1>1, <1>3 DEF a
  <2> QED BY <1>2, <1>3, <1>4, <1>5, <2>1
<1>7. x = y
  BY <1>3, <1>4, <1>5, <1>6, SeqEqual
<1> QED BY <1>7 DEF x, y, st, a, b

---------------------------------------------------------------------------
\* The stream consists of whole messages: `cuts` are their first positions and
\* the position after the last.
Pieces == [kind : {"type", "count", "entry"}, n : {0, 1}, from : Servers]
Framed(s, cuts) ==
    /\ cuts \subseteq 1 .. Len(s) + 1
    /\ {1, Len(s) + 1} \subseteq cuts
    /\ \A c \in cuts : c # Len(s) + 1 =>
        /\ c + 1 \in 1 .. Len(s)
        /\ s[c].kind = "type" /\ s[c + 1].kind = "count"
        /\ c + 2 + s[c + 1].n \in cuts

Parsed(server) == [rest : Seq(Pieces), signals : Seq({Stats(server)})]

\* A step of the parser that starts at a cut stops at one, and what it has read
\* is a message of the server.
LEMMA ParsesFromCutToCut ==
    ASSUME NEW s \in Seq(Pieces), NEW cuts, Framed(s, cuts), NEW server \in Servers,
           \A i \in 1 .. Len(s) : s[i].from = server,
           NEW m \in 0 .. Len(s), NEW c \in cuts, c <= m + 1,
           NEW v \in Parsed(server), v.rest = SubSeq(s, c, m)
    PROVE  /\ ParseOne(v) \in Parsed(server)
           /\ \E d \in cuts : d <= m + 1 /\ ParseOne(v).rest = SubSeq(s, d, m)
<1> DEFINE r == SubSeq(s, c, m)
<1>1. /\ Len(s) \in Nat /\ m \in Nat /\ c \in Nat \ {0} /\ c <= m + 1 /\ m <= Len(s)
      /\ c \in 1 .. Len(s) + 1 /\ m \in c - 1 .. Len(s)
  <2>1. Len(s) \in Nat
    BY LenProperties
  <2>2. c \in 1 .. Len(s) + 1
    BY DEF Framed
  <2> QED BY <2>1, <2>2
<1>2. /\ r \in Seq(Pieces) /\ Len(r) = m - c + 1
      /\ \A i \in 1 .. m - c + 1 : r[i] = s[c + i - 1]
  BY <1>1, Slice
<1>3. Len(r) \in Nat /\ m = Len(r) + c - 1
  BY <1>1, <1>2
<1> HIDE DEF r
<1>4. c = Len(s) + 1 => Len(r) = 0
  BY <1>1, <1>3
\* The parser does not skip anything.
<1>5. Len(r) # 0 => r[1].kind = "type"
  <2> SUFFICES ASSUME Len(r) # 0 PROVE r[1].kind = "type"
    OBVIOUS
  <2>1. 1 \in 1 .. m - c + 1 /\ c + 1 - 1 = c
    BY <1>1, <1>3
  <2>2. r[1] = s[c]
    BY <1>2, <2>1
  <2> QED BY <1>4, <2>2 DEF Framed
<1>6. Start(r) = 1
  <2> DEFINE P == {i \in 1 .. Len(r) : r[i].kind = "type" \/ (r[i].kind = "entry" /\ r[i].n = 1)}
                  \cup {Max({Len(r), 1})}
  <2>1. Max({Len(r), 1}) = IF Len(r) = 0 THEN 1 ELSE Len(r)
    BY <1>3 DEF Max
  <2>2. 1 \in P /\ \A i \in P : 1 <= i /\ i \in Nat
    <3>1. 1 \in P
      BY <1>3, <1>5, <2>1
    <3>2. \A i \in P : i \in 1 .. Len(r) \/ i = Max({Len(r), 1})
      OBVIOUS
    <3>3. Max({Len(r), 1}) \in Nat /\ 1 <= Max({Len(r), 1})
      BY <1>3, <2>1
    <3> HIDE DEF P
    <3> QED BY <1>3, <3>1, <3>2, <3>3
  <2>3. Start(r) = Min(P)
    BY DEF Start
  <2> HIDE DEF P
  <2>4. Min(P) = 1
    BY <2>2 DEF Min
  <2> QED BY <2>3, <2>4
<1>7. SubSeq(r, Start(r), Len(r)) = r
  BY <1>2, <1>6, SubSeqFull
<1>8. v.rest = r
  BY DEF r
<1>9. CASE Len(r) < 2 \/ Len(r) < SizeOf(r)
  <2>1. ParseOne(v) = [v EXCEPT !.rest = r]
    BY <1>7, <1>9, <1>8 DEF ParseOne
  <2>2. ParseOne(v) = v
    BY <1>8, <2>1 DEF Parsed
  <2> QED BY <1>1, <1>8, <2>2 DEF r
<1>10. CASE ~(Len(r) < 2 \/ Len(r) < SizeOf(r))
  <2> DEFINE n == s[c + 1].n
             msg == SubSeq(r, 1, 2 + n)
  <2>1. r[1] = s[c] /\ r[2] = s[c + 1] /\ c # Len(s) + 1
    <3>1. 1 \in 1 .. m - c + 1 /\ 2 \in 1 .. m - c + 1 /\ c + 1 - 1 = c /\ c + 2 - 1 = c + 1
      BY <1>1, <1>3, <1>10
    <3> QED BY <1>2, <1>3, <1>4, <1>10, <3>1
  <2>2. /\ c + 1 \in 1 .. Len(s) /\ s[c].kind = "type" /\ s[c + 1].kind = "count"
        /\ c + 2 + n \in cuts
    BY <2>1 DEF Framed
  <2>3. n \in {0, 1}
    <3>1. s[c + 1] \in Pieces
      BY <2>2, ElementOfSeq
    <3> QED BY <3>1 DEF Pieces
  <2>4. SizeOf(r) = 2 + n
    BY <2>1, <2>2 DEF SizeOf
  <2> HIDE DEF n
  <2>5. 2 + n \in 2 .. Len(r)
    BY <1>3, <1>10, <2>3, <2>4
  <2>6. msg \in Seq(Pieces) /\ Len(msg) = 2 + n /\ \A i \in 1 .. 2 + n : msg[i] = r[i]
    <3>1. 1 \in 1 .. Len(r) + 1 /\ 2 + n \in 1 - 1 .. Len(r) /\ 2 + n - 1 + 1 = 2 + n
      BY <1>3, <2>3, <2>5
    <3>2. \A i \in 1 .. 2 + n : 1 + i - 1 = i
      OBVIOUS
    <3> QED BY <1>2, <3>1, <3>2, Slice
  <2>7. \A i \in 1 .. 2 + n : msg[i].from = server
    <3> SUFFICES ASSUME NEW i \in 1 .. 2 + n PROVE msg[i].from = server
      OBVIOUS
    <3>1. i \in 1 .. m - c + 1 /\ c + i - 1 \in 1 .. Len(s)
      BY <1>1, <1>3, <2>3, <2>5
    <3> QED BY <1>2, <2>6, <3>1
  <2>8. ReadAs(msg) = Stats(server)
    <3>1. msg[1] = s[c] /\ msg[2] = s[c + 1]
      <4>1. 1 \in 1 .. 2 + n /\ 2 \in 1 .. 2 + n
        BY <2>3
      <4> HIDE DEF msg
      <4> QED BY <2>1, <2>6, <4>1
    <3>2. DOMAIN msg = 1 .. 2 + n /\ 1 \in 1 .. 2 + n
      BY <2>3, <2>6, LenProperties
    <3>3. Len(msg) = 2 + msg[2].n
      <4> HIDE DEF msg
      <4> QED BY <2>6, <3>1 DEF n
    <3> HIDE DEF msg
    <3>4. Whole(msg)
      BY <2>2, <2>7, <3>1, <3>2, <3>3 DEF Whole
    <3> QED BY <2>7, <3>2, <3>4 DEF ReadAs
  <2>9. c + 2 + n <= m + 1
    BY <1>1, <1>3, <2>3, <2>5
  <2>10. SubSeq(r, (2 + n) + 1, Len(r)) = SubSeq(s, c + 2 + n, m)
    <3> DEFINE k == (2 + n) + 1
    <3>1. k \in 1 .. m - c + 2 /\ c + k - 1 = c + 2 + n
      BY <1>1, <1>3, <2>3, <2>5
    <3> HIDE DEF k
    <3>2. SubSeq(SubSeq(s, c, m), k, m - c + 1) = SubSeq(s, c + k - 1, m)
      BY <1>1, <3>1, SliceOfSlice
    <3> QED BY <1>2, <3>1, <3>2 DEF r, k
  <2>11. Append(v.signals, Stats(server)) \in Seq({Stats(server)})
    BY AppendProperties DEF Parsed
  <2>12. ParseOne(v) = [rest |-> SubSeq(r, (2 + n) + 1, Len(r)), signals |-> Append(v.signals, ReadAs(msg))]
    BY <1>7, <1>10, <1>8, <2>4 DEF ParseOne
  <2>13. SubSeq(s, c + 2 + n, m) \in Seq(Pieces)
    <3> DEFINE d == c + 2 + n
    <3>1. d \in 1 .. Len(s) + 1 /\ m \in d - 1 .. Len(s)
      BY <1>1, <2>3, <2>9
    <3> HIDE DEF d
    <3>2. SubSeq(s, d, m) \in Seq(Pieces)
      BY <3>1, Slice
    <3> QED BY <3>2 DEF d
  <2>14. /\ ParseOne(v).rest = SubSeq(s, c + 2 + n, m)
         /\ ParseOne(v) \in Parsed(server)
    <3> DEFINE rest == SubSeq(s, c + 2 + n, m)
               signals == Append(v.signals, Stats(server))
    <3>1. ParseOne(v) = [rest |-> rest, signals |-> signals]
      <4> HIDE DEF msg
      <4> QED BY <2>8, <2>10, <2>12
    <3>2. rest \in Seq(Pieces) /\ signals \in Seq({Stats(server)})
      BY <2>11, <2>13
    <3> HIDE DEF rest, signals
    <3>3. ParseOne(v) \in Parsed(server) /\ ParseOne(v).rest = rest
      BY <3>1, <3>2 DEF Parsed
    <3> QED BY <3>3 DEF rest
  <2> QED BY <2>2, <2>9, <2>14
<1> QED BY <1>9, <1>10

---------------------------------------------------------------------------
\* The connection's stream: whole messages of the present server, of which the
\* beginning of one may have been read.
StreamIsWhole ==
    /\ buffer \in Seq(Pieces) /\ wire \in Seq(Pieces)
    /\ \A i \in 1 .. Len(buffer \o wire) : (buffer \o wire)[i].from = host
    /\ \E cuts : Framed(buffer \o wire, cuts)

LEMMA NothingIsFramed == <<>> \in Seq(Pieces) /\ <<>> \o <<>> = <<>> /\ Len(<<>>) = 0 /\ Framed(<<>>, {1})
<1>1. <<>> \in Seq(Pieces) /\ <<>> \o <<>> = <<>> /\ Len(<<>>) = 0
  BY EmptySeq, ConcatEmptySeq
<1>2. 0 + 1 = 1
  OBVIOUS
<1> QED BY <1>1, <1>2 DEF Framed

LEMMA EmptyStreamIsWhole ==
    ASSUME buffer' = <<>>, wire' = <<>>
    PROVE  StreamIsWhole'
  BY NothingIsFramed DEF StreamIsWhole

\* The server writes whole messages.
LEMMA WrittenIsWhole ==
    ASSUME StreamIsWhole, host \in Servers, ServerSendsStats
    PROVE  StreamIsWhole' /\ wire' \in Seq(Pieces)
<1>1. PICK entries \in {<<>>, <<Piece("entry", 0)>>, <<Piece("entry", 1)>>} : wire' = wire \o Message(entries)
  BY DEF ServerSendsStats
<1> DEFINE new == Message(entries)
           n == Len(entries)
           old == buffer \o wire
<1>2. /\ new \in Seq(Pieces) /\ n \in {0, 1} /\ Len(new) = 2 + n
      /\ new[1].kind = "type" /\ new[2].kind = "count" /\ new[2].n = n
      /\ \A i \in 1 .. Len(new) : new[i].from = host
  <2>1. \A i \in {0, 1}, k \in {"type", "count", "entry"} :
            Piece(k, i) \in Pieces /\ Piece(k, i).kind = k /\ Piece(k, i).n = i /\ Piece(k, i).from = host
    BY DEF Piece, Pieces
  <2> DEFINE header == <<Piece("type", 0), Piece("count", n)>>
  <2>2. /\ entries \in Seq(Pieces) /\ n \in {0, 1}
        /\ \A i \in 1 .. n : entries[i].from = host
    <3>1. CASE entries = <<>>
      BY <3>1, EmptySeq
    <3>2. CASE \E e \in {0, 1} : entries = <<Piece("entry", e)>>
      <4>1. PICK e \in {0, 1} : entries = <<Piece("entry", e)>>
        BY <3>2
      <4>2. Piece("entry", e) \in Pieces /\ Piece("entry", e).from = host
        BY <2>1
      <4>3. entries[1] = Piece("entry", e) /\ Len(entries) = 1 /\ entries \in Seq(Pieces)
        BY <4>1, <4>2
      <4> QED BY <4>2, <4>3
    <3>3. entries = <<>> \/ \E e \in {0, 1} : entries = <<Piece("entry", e)>>
      OBVIOUS
    <3> QED BY <3>1, <3>2, <3>3
  <2>3. /\ header \in Seq(Pieces) /\ Len(header) = 2
        /\ header[1].kind = "type" /\ header[2].kind = "count" /\ header[2].n = n
        /\ \A i \in 1 .. 2 : header[i].from = host
    BY <2>1, <2>2
  <2>4. /\ new \in Seq(Pieces) /\ Len(new) = 2 + n
        /\ \A i \in 1 .. 2 + n : new[i] = IF i <= 2 THEN header[i] ELSE entries[i - 2]
    <3>1. new = header \o entries
      BY DEF Message
    <3>2. Len(entries) = n
      OBVIOUS
    <3> HIDE DEF header, new, n
    <3>3. /\ header \o entries \in Seq(Pieces) /\ Len(header \o entries) = Len(header) + Len(entries)
          /\ \A i \in 1 .. Len(header) + Len(entries) :
                 (header \o entries)[i] = IF i <= Len(header) THEN header[i] ELSE entries[i - Len(header)]
      BY <2>2, <2>3, ConcatProperties
    <3> QED BY <2>3, <3>1, <3>2, <3>3
  <2> HIDE DEF header, new, n
  <2>5. new[1] = header[1] /\ new[2] = header[2]
    BY <2>2, <2>4
  <2>6. ASSUME NEW i \in 1 .. 2 + n PROVE new[i].from = host
    <3>1. CASE i <= 2
      BY <2>2, <2>3, <2>4, <3>1
    <3>2. CASE i > 2
      BY <2>2, <2>4, <3>2
    <3> QED BY <3>1, <3>2
  <2> QED BY <2>2, <2>3, <2>4, <2>5, <2>6
<1>3. /\ old \in Seq(Pieces) /\ Len(old) \in Nat
      /\ wire' \in Seq(Pieces) /\ buffer' = buffer /\ host' = host /\ buffer' \o wire' = old \o new
  <2>1. old \in Seq(Pieces) /\ Len(old) \in Nat
    BY ConcatProperties, LenProperties DEF StreamIsWhole
  <2>2. wire' = wire \o new /\ buffer' = buffer /\ host' = host
    BY <1>1 DEF ServerSendsStats
  <2>3. wire' \in Seq(Pieces)
    BY <1>2, <2>2, ConcatProperties DEF StreamIsWhole
  <2>4. buffer \o (wire \o new) = old \o new
    <3>1. buffer \in Seq(Pieces) /\ wire \in Seq(Pieces) /\ new \in Seq(Pieces)
      BY <1>2 DEF StreamIsWhole
    <3> HIDE DEF new
    <3>2. (buffer \o wire) \o new = buffer \o (wire \o new)
      BY ONLY <3>1, ConcatAssociative
    <3> QED BY <3>2
  <2> QED BY <2>1, <2>2, <2>3, <2>4
<1> DEFINE all == old \o new
<1> HIDE DEF old, new, n
<1>4. /\ all \in Seq(Pieces) /\ Len(all) = Len(old) + Len(new)
      /\ \A i \in 1 .. Len(old) + Len(new) :
             all[i] = IF i <= Len(old) THEN old[i] ELSE new[i - Len(old)]
  BY <1>2, <1>3, ConcatProperties
<1> HIDE DEF all
<1>5. Len(old) \in Nat /\ Len(new) \in Nat /\ Len(new) >= 2 /\ Len(all) = Len(old) + Len(new)
  BY <1>2, <1>3, <1>4
<1>6. ASSUME NEW i \in 1 .. Len(all) PROVE all[i].from = host
  <2>1. CASE i <= Len(old)
    <3>1. i \in 1 .. Len(old)
      BY <1>5, <2>1
    <3>2. old[i].from = host
      BY <3>1 DEF StreamIsWhole, old
    <3> QED BY <1>4, <1>5, <2>1, <3>2
  <2>2. CASE i > Len(old)
    <3>1. i - Len(old) \in 1 .. Len(new) /\ i \in 1 .. Len(old) + Len(new) /\ ~(i <= Len(old))
      BY <1>2, <1>3, <1>4, <2>2
    <3> QED BY <1>2, <1>4, <3>1
  <2> QED BY <1>2, <1>3, <1>4, <2>1, <2>2
<1>7. PICK cuts : Framed(old, cuts)
  BY DEF StreamIsWhole, old
<1>8. Framed(all, cuts \cup {Len(all) + 1})
  <2>1. ASSUME NEW c \in cuts, c # Len(old) + 1
        PROVE  /\ c + 1 \in 1 .. Len(all) /\ all[c].kind = "type" /\ all[c + 1].kind = "count"
               /\ c + 2 + all[c + 1].n \in cuts
    <3>1. /\ c + 1 \in 1 .. Len(old) /\ old[c].kind = "type" /\ old[c + 1].kind = "count"
          /\ c + 2 + old[c + 1].n \in cuts /\ c \in 1 .. Len(old) + 1
      BY <1>7, <2>1 DEF Framed
    <3>2. c \in 1 .. Len(old)
      BY <1>3, <3>1
    <3>3. all[c] = old[c] /\ all[c + 1] = old[c + 1] /\ c + 1 \in 1 .. Len(all)
      <4>1. /\ c \in 1 .. Len(old) + Len(new) /\ c <= Len(old)
            /\ c + 1 \in 1 .. Len(old) + Len(new) /\ c + 1 <= Len(old)
        BY <1>5, <3>1, <3>2
      <4> QED BY <1>4, <4>1
    <3> QED BY <3>1, <3>3
  <2>2. LET c == Len(old) + 1
        IN  /\ c + 1 \in 1 .. Len(all) /\ all[c].kind = "type" /\ all[c + 1].kind = "count"
            /\ c + 2 + all[c + 1].n = Len(all) + 1
    <3>1. /\ (Len(old) + 1) - Len(old) = 1 /\ ((Len(old) + 1) + 1) - Len(old) = 2
          /\ Len(old) + 1 \in 1 .. Len(old) + Len(new) /\ (Len(old) + 1) + 1 \in 1 .. Len(old) + Len(new)
          /\ ~(Len(old) + 1 <= Len(old)) /\ ~((Len(old) + 1) + 1 <= Len(old))
      BY <1>5
    <3>2. all[Len(old) + 1] = new[1] /\ all[(Len(old) + 1) + 1] = new[2]
      BY <1>4, <3>1
    <3> QED BY <1>2, <1>5, <3>2
  <2>3. cuts \cup {Len(all) + 1} \subseteq 1 .. Len(all) + 1
    <3>1. cuts \subseteq 1 .. Len(old) + 1
      BY <1>7 DEF Framed
    <3>2. 1 .. Len(old) + 1 \subseteq 1 .. Len(all) + 1 /\ Len(all) + 1 \in 1 .. Len(all) + 1
      BY <1>5
    <3> QED BY <3>1, <3>2
  <2> QED BY <1>7, <2>1, <2>2, <2>3 DEF Framed
<1> QED BY <1>3, <1>6, <1>8 DEF StreamIsWhole, all

\* However much of it is read, what is left of the stream is whole, and every
\* message that was read is the server's.
LEMMA ReadIsWhole ==
    ASSUME StreamIsWhole, host \in Servers, OnTcpReadyRead
    PROVE  /\ StreamIsWhole'
           /\ \E signals \in Seq({Stats(host)}) : Emit(signals)
<1>0. PICK server \in Servers : server = host
  OBVIOUS
<1>1. PICK k \in 1 .. Len(wire) :
          LET parsed == Parse(buffer \o SubSeq(wire, 1, k)) IN
          /\ wire' = SubSeq(wire, k + 1, Len(wire)) /\ buffer' = parsed.rest
          /\ Emit(parsed.signals) /\ host' = host
  BY DEF OnTcpReadyRead
<1> DEFINE all == buffer \o wire
           upto == Len(buffer) + k
           stream == buffer \o SubSeq(wire, 1, k)
<1>2. /\ all \in Seq(Pieces) /\ Len(all) = Len(buffer) + Len(wire)
      /\ Len(buffer) \in Nat /\ Len(wire) \in Nat
      /\ \A i \in 1 .. Len(all) : all[i].from = server
  BY <1>0, ConcatProperties, LenProperties DEF StreamIsWhole
<1>3. /\ upto \in 0 .. Len(all) /\ upto - Len(buffer) = k
      /\ upto + 1 \in 1 .. Len(all) + 1
  BY <1>2
<1>4. stream = SubSeq(all, 1, upto)
  BY <1>2, PrefixOfConcat DEF StreamIsWhole
<1>5. SubSeq(wire, k + 1, Len(wire)) = SubSeq(all, upto + 1, Len(all))
  BY <1>2, SuffixOfConcat DEF StreamIsWhole
<1>6. PICK old : Framed(all, old)
  BY DEF StreamIsWhole
<1> HIDE DEF all, upto, stream
<1>7. 1 \in old
  BY <1>6 DEF Framed
<1> DEFINE T == {v \in Parsed(server) : \E c \in old : c <= upto + 1 /\ v.rest = SubSeq(all, c, upto)}
<1>8. Parse(stream) \in T
  <2>1. [rest |-> stream, signals |-> <<>>] \in T
    <3>1. <<>> \in Seq({Stats(server)}) /\ stream \in Seq(Pieces) /\ 1 <= upto + 1
      BY <1>2, <1>3, <1>4, EmptySeq, Slice
    <3> QED BY <1>4, <1>7, <3>1 DEF Parsed
  <2>2. ASSUME NEW v \in T PROVE ParseOne(v) \in T
    <3>1. PICK c \in old : c <= upto + 1 /\ v.rest = SubSeq(all, c, upto)
      OBVIOUS
    <3>2. v \in Parsed(server)
      OBVIOUS
    <3>3. ParseOne(v) \in Parsed(server) /\ \E d \in old : d <= upto + 1 /\ ParseOne(v).rest = SubSeq(all, d, upto)
      <4> HIDE DEF T
      <4>1. /\ all \in Seq(Pieces) /\ Framed(all, old) /\ \A i \in 1 .. Len(all) : all[i].from = server
            /\ upto \in 0 .. Len(all) /\ c <= upto + 1 /\ v \in Parsed(server) /\ v.rest = SubSeq(all, c, upto)
        BY <1>2, <1>3, <1>6, <3>1, <3>2
      <4> QED BY <4>1, ParsesFromCutToCut
    <3> QED BY <3>3
  <2>3. stream \in Seq(Pieces)
    BY <1>2, <1>3, <1>4, Slice
  <2> HIDE DEF T
  <2> QED BY <2>1, <2>2, <2>3, ParseKeeps
<1>9. /\ Parse(stream).signals \in Seq({Stats(server)})
      /\ \E c \in old : c <= upto + 1 /\ Parse(stream).rest = SubSeq(all, c, upto)
  BY <1>8 DEF Parsed
<1> HIDE DEF T
<1>10. PICK c \in old :
           /\ c <= upto + 1 /\ Emit(Parse(stream).signals)
           /\ buffer' = SubSeq(all, c, upto) /\ wire' = SubSeq(all, upto + 1, Len(all)) /\ host' = host
  BY <1>1, <1>5, <1>9 DEF stream
\* The rest begins at a cut.
<1> DEFINE r == SubSeq(all, c, Len(all))
           after == {d \in 1 .. Len(all) - c + 2 : d + c - 1 \in old}
<1>11. c \in 1 .. Len(all) + 1 /\ Len(all) \in Nat
  BY <1>2, <1>6 DEF Framed
<1>12. r \in Seq(Pieces) /\ Len(r) = Len(all) - c + 1 /\ \A i \in 1 .. Len(all) - c + 1 : r[i] = all[c + i - 1]
  <2>1. Len(all) \in c - 1 .. Len(all)
    BY <1>11
  <2> QED BY <1>2, <1>11, <2>1, Slice
<1>13. /\ buffer' \in Seq(Pieces) /\ wire' \in Seq(Pieces) /\ buffer' \o wire' = r
  <2>1. /\ c \in 1 .. Len(all) + 1 /\ upto \in c - 1 .. Len(all) /\ upto + 1 \in 1 .. Len(all) + 1
        /\ Len(all) \in upto .. Len(all) /\ Len(all) \in (upto + 1) - 1 .. Len(all)
    BY <1>2, <1>3, <1>10, <1>11
  <2> QED BY <1>2, <1>10, <2>1, Slice, ConcatAdjacentSubSeq
<1> HIDE DEF r
<1>14. ASSUME NEW i \in 1 .. Len(r) PROVE r[i].from = host
  <2>1. i \in 1 .. Len(all) - c + 1 /\ c + i - 1 \in 1 .. Len(all)
    BY <1>11, <1>12
  <2> QED BY <1>0, <1>2, <1>12, <2>1
<1>15. Framed(r, after)
  <2>1. after \subseteq 1 .. Len(r) + 1 /\ {1, Len(r) + 1} \subseteq after
    <3>1. 1 + c - 1 = c /\ (Len(r) + 1) + c - 1 = Len(all) + 1 /\ Len(all) + 1 \in old
      BY <1>6, <1>11, <1>12 DEF Framed
    <3>2. 1 \in 1 .. Len(all) - c + 2 /\ Len(r) + 1 \in 1 .. Len(all) - c + 2 /\ Len(r) + 1 = Len(all) - c + 2
      BY <1>11, <1>12
    <3> QED BY <3>1, <3>2
  <2>2. ASSUME NEW d \in after, d # Len(r) + 1
        PROVE  /\ d + 1 \in 1 .. Len(r) /\ r[d].kind = "type" /\ r[d + 1].kind = "count"
               /\ d + 2 + r[d + 1].n \in after
    <3> DEFINE e == d + c - 1
    <3>1. e \in old /\ e # Len(all) + 1 /\ d \in Nat /\ d >= 1
      BY <1>11, <1>12, <2>2
    <3>2. /\ e + 1 \in 1 .. Len(all) /\ all[e].kind = "type" /\ all[e + 1].kind = "count"
          /\ e + 2 + all[e + 1].n \in old /\ e + 2 + all[e + 1].n \in 1 .. Len(all) + 1
      BY <1>6, <3>1 DEF Framed
    <3>3. all[e + 1].n \in {0, 1}
      <4>1. all[e + 1] \in Pieces
        BY <1>2, <3>2, ElementOfSeq
      <4> QED BY <4>1 DEF Pieces
    <3>4. d + 1 \in 1 .. Len(r) /\ d \in 1 .. Len(r) /\ c + d - 1 = e /\ c + (d + 1) - 1 = e + 1
      BY <1>11, <1>12, <3>1, <3>2
    <3>5. r[d] = all[e] /\ r[d + 1] = all[e + 1]
      BY <1>12, <3>4
    <3> DEFINE n == all[e + 1].n
               f == d + 2 + n
    <3>6. f + c - 1 = e + 2 + n /\ f \in 1 .. Len(all) - c + 2
      <4> HIDE DEF n
      <4>1. n \in {0, 1} /\ e + 2 + n \in 1 .. Len(all) + 1
        BY <3>2, <3>3 DEF n
      <4> QED BY <1>11, <3>1, <4>1
    <3> QED BY <3>2, <3>4, <3>5, <3>6
  <2> HIDE DEF after
  <2> QED BY <2>1, <2>2 DEF Framed
<1>16. StreamIsWhole'
  BY <1>10, <1>13, <1>14, <1>15 DEF StreamIsWhole
<1> QED BY <1>0, <1>9, <1>10, <1>16

---------------------------------------------------------------------------
\* Types.  The parser never makes anything of the stream that nobody wrote.
Signals == {State(b) : b \in BOOLEAN} \cup {Update(s) : s \in Servers} \cup {Stats(s) : s \in Servers}
QueuedCalls == {Call("disconnect", None), Call("edit", None)}
               \cup {Call(k, s) : k \in {"connect", "edit"}, s \in Servers}

Typed ==
    /\ udp \in {"closed", "bound"} /\ told \in BOOLEAN
    /\ host \in Servers \cup {None} /\ lastSeq \in Servers \cup {None} /\ chosen \in Servers \cup {None}
    /\ host = None => tcp = "unconnected" /\ ~timer
    /\ toNet \in Seq(QueuedCalls)
    /\ toUi \in Seq(Signals)
    /\ players \in Servers \cup {None}

ClientInv == FlagsAgree /\ Typed /\ StreamIsWhole

\* A call to connect names a server.
LEMMA CallsToConnect ==
    ASSUME NEW call \in QueuedCalls, call.kind = "connect"
    PROVE  call.server \in Servers
  BY DEF QueuedCalls, Call

\* The three things a step does to the signals: the window handles one; the
\* network thread reports the state of the connection it has just changed; or
\* it passes on what the present server sent, which may be nothing.
Reports ==
    \E b \in BOOLEAN : \E signals \in Seq({State(b)}) :
        /\ signals # <<>> /\ toUi' = toUi \o signals
        /\ udp' = IF b THEN "bound" ELSE "closed"
        /\ b => host' = host
        /\ UNCHANGED <<told, players>>
PassesOn ==
    \E signals \in Seq({Update(host), Stats(host)}) :
        /\ toUi' = toUi \o signals
        /\ signals # <<>> => host \in Servers
        /\ UNCHANGED <<told, players, udp, host>>

LEMMA OneState ==
    ASSUME NEW b \in BOOLEAN
    PROVE  /\ <<State(b)>> \in Seq({State(b)}) /\ <<State(b)>> # <<>>
           /\ <<State(b), State(b)>> \in Seq({State(b)}) /\ <<State(b), State(b)>> # <<>>
<1> DEFINE x == State(b)
<1> HIDE DEF x
<1>1. <<x>> \in Seq({x}) /\ <<x, x>> \in Seq({x})
  OBVIOUS
<1>2. <<x>> # <<>> /\ <<x, x>> # <<>>
  OBVIOUS
<1> QED BY <1>1, <1>2 DEF x

LEMMA NothingToPassOn ==
    ASSUME toUi \in Seq(Signals), UNCHANGED <<toUi, told, players, udp, host>>
    PROVE  PassesOn
<1>1. <<>> \in Seq({Update(host), Stats(host)}) /\ toUi' = toUi \o <<>>
  BY EmptySeq, ConcatEmptySeq
<1> QED BY <1>1 DEF PassesOn

LEMMA StepEmits ==
    ASSUME ClientInv, [Next]_vars
    PROVE  HandleSignal \/ Reports \/ PassesOn
<1> USE DEF netVars, uiVars
<1>0. /\ toUi \in Seq(Signals) /\ (tcp # "unconnected" => host \in Servers)
      /\ (tcp # "connected" => udp = "closed") /\ (manual => tcp = "unconnected")
  BY DEF ClientInv, Typed, FlagsAgree, NothingLeftOver, StaysDisconnected
<1>1. CASE (\E s \in Servers : OpenConnectionDialog(s)) \/ PressDisconnect \/ SendEdit
  <2>1. UNCHANGED <<toUi, told, players, udp, host>>
    BY <1>1 DEF OpenConnectionDialog, PressDisconnect, SendEdit
  <2> QED BY <1>0, <2>1, NothingToPassOn
<1>2. CASE ConnectToServer
  <2>1. /\ udp' = "closed" /\ UNCHANGED <<told, players>>
        /\ toUi' = toUi \o (IF tcp = "connected" THEN <<State(FALSE), State(FALSE)>> ELSE <<State(FALSE)>>)
    BY <1>2 DEF ConnectToServer, Emit
  <2> QED BY <2>1, OneState DEF Reports
<1>3. CASE DisconnectFromServer
  <2>1. udp' = "closed" /\ UNCHANGED <<told, players>> /\ toUi' = toUi \o <<State(FALSE)>>
    BY <1>3 DEF DisconnectFromServer, Emit
  <2> QED BY <2>1, OneState DEF Reports
<1>4. CASE SendCommand
  BY <1>0, <1>4, NothingToPassOn DEF SendCommand
<1>5. ASSUME NEW bound \in BOOLEAN, OnTcpConnected(bound) PROVE Reports
  <2>1. /\ udp' = (IF bound THEN "bound" ELSE "closed") /\ UNCHANGED <<told, players, host>>
        /\ toUi' = toUi \o <<State(bound)>>
    BY <1>5 DEF OnTcpConnected, Emit
  <2> QED BY <2>1, OneState DEF Reports
<1>6. CASE ConnectFails
  <2>1. udp' = "closed" /\ UNCHANGED <<told, players>> /\ toUi' = toUi \o <<State(FALSE)>>
    BY <1>0, <1>6 DEF ConnectFails, Emit
  <2> QED BY <2>1, OneState DEF Reports
<1>7. CASE ConnectionLost
  <2>1. PICK errors \in {<<>>, <<State(FALSE)>>} : toUi' = toUi \o Append(errors, State(FALSE))
    BY <1>0, <1>7 DEF ConnectionLost, Emit
  <2>2. udp' = "closed" /\ UNCHANGED <<told, players>>
    BY <1>7 DEF ConnectionLost
  <2>3. Append(errors, State(FALSE)) \in Seq({State(FALSE)}) /\ Append(errors, State(FALSE)) # <<>>
    <3> DEFINE x == State(FALSE)
    <3>1. errors \in Seq({x})
      BY OneState, EmptySeq
    <3> HIDE DEF x
    <3>2. Append(errors, x) \in Seq({x}) /\ Append(errors, x) # <<>>
      BY <3>1, AppendProperties
    <3> QED BY <3>2 DEF x
  <2> QED BY <2>1, <2>2, <2>3 DEF Reports
<1>8. CASE ReconnectTick
  BY <1>0, <1>8, NothingToPassOn DEF ReconnectTick
<1>9. CASE ApplyDatagram
  <2>1. /\ UNCHANGED <<told, players, udp, host>> /\ toUi' = toUi \o <<Update(host)>>
        /\ host \in Servers
    BY <1>0, <1>9 DEF ApplyDatagram, Emit
  <2>2. <<Update(host)>> \in Seq({Update(host), Stats(host)})
    OBVIOUS
  <2> QED BY <2>1, <2>2 DEF PassesOn
<1>10. CASE ServerSendsStats
  BY <1>0, <1>10, NothingToPassOn DEF ServerSendsStats
<1>11. CASE OnTcpReadyRead
  <2>1. tcp = "connected" /\ UNCHANGED <<told, players, udp, host>>
    BY <1>11 DEF OnTcpReadyRead
  <2>2. host \in Servers
    BY <1>0, <2>1
  <2>3. PICK signals \in Seq({Stats(host)}) : Emit(signals)
    BY <1>11, <2>2, ReadIsWhole DEF ClientInv
  <2>4. signals \in Seq({Update(host), Stats(host)})
    OBVIOUS
  <2> QED BY <2>1, <2>2, <2>3, <2>4 DEF PassesOn, Emit
<1>12. CASE UNCHANGED vars
  BY <1>0, <1>12, NothingToPassOn DEF vars
<1> QED
  BY <1>1, <1>2, <1>3, <1>4, <1>5, <1>6, <1>7, <1>8, <1>9, <1>10, <1>11, <1>12 DEF Next, NetCall

---------------------------------------------------------------------------
\* What the invariants of the signals have in common: the first of them goes,
\* or others come after the last.
LEMMA FirstGone ==
    ASSUME Typed, HandleSignal
    PROVE  /\ Len(toUi) \in Nat \ {0} /\ DOMAIN toUi = 1 .. Len(toUi)
           /\ toUi' \in Seq(Signals) /\ Len(toUi') = Len(toUi) - 1 /\ DOMAIN toUi' = 1 .. Len(toUi) - 1
           /\ Head(toUi) = toUi[1] /\ toUi[1] \in Signals
           /\ \A i \in 1 .. Len(toUi) - 1 : toUi'[i] = toUi[i + 1]
<1>1. toUi \in Seq(Signals) /\ toUi # <<>> /\ toUi' = Tail(toUi)
  BY DEF Typed, HandleSignal
<1>2. Len(toUi) \in Nat \ {0} /\ DOMAIN toUi = 1 .. Len(toUi)
  BY <1>1, LenProperties, EmptySeq
<1>3. Head(toUi) = toUi[1] /\ toUi[1] \in Signals
  BY <1>1, <1>2, HeadTailProperties, ElementOfSeq
<1> QED BY <1>1, <1>2, <1>3, HeadTailProperties, LenProperties

LEMMA OthersAdded ==
    ASSUME Typed, NEW S, NEW signals \in Seq(S), S \subseteq Signals \/ signals = <<>>,
           toUi' = toUi \o signals
    PROVE  /\ Len(toUi) \in Nat /\ Len(signals) \in Nat /\ Len(toUi') = Len(toUi) + Len(signals)
           /\ DOMAIN toUi = 1 .. Len(toUi) /\ DOMAIN toUi' = 1 .. Len(toUi) + Len(signals)
           /\ toUi' \in Seq(Signals)
           /\ \A i \in 1 .. Len(toUi) : toUi'[i] = toUi[i]
           /\ \A i \in Len(toUi) + 1 .. Len(toUi) + Len(signals) : toUi'[i] \in S
<1>1. signals \in Seq(Signals)
  BY EmptySeq
<1>2. toUi \in Seq(Signals)
  BY DEF Typed
<1>3. Len(toUi) \in Nat /\ Len(signals) \in Nat /\ DOMAIN toUi = 1 .. Len(toUi)
  BY <1>2, LenProperties
<1>4. /\ toUi' \in Seq(Signals) /\ Len(toUi') = Len(toUi) + Len(signals)
      /\ \A i \in 1 .. Len(toUi) + Len(signals) :
             toUi'[i] = IF i <= Len(toUi) THEN toUi[i] ELSE signals[i - Len(toUi)]
  BY <1>1, <1>2, ConcatProperties
<1>5. \A i \in 1 .. Len(toUi) : toUi'[i] = toUi[i]
  BY <1>3, <1>4
<1>6. ASSUME NEW i \in Len(toUi) + 1 .. Len(toUi) + Len(signals) PROVE toUi'[i] \in S
  <2>1. i - Len(toUi) \in 1 .. Len(signals) /\ i \in 1 .. Len(toUi) + Len(signals) /\ ~(i <= Len(toUi))
    BY <1>3
  <2>2. signals[i - Len(toUi)] \in S
    BY <2>1, ElementOfSeq
  <2> QED BY <1>4, <2>1, <2>2
<1>7. DOMAIN toUi' = 1 .. Len(toUi) + Len(signals)
  BY <1>4, LenProperties
<1> QED BY <1>3, <1>4, <1>5, <1>6, <1>7

\* A report ends with the state it reports; what is passed on is no state.
LEMMA ReportLast ==
    ASSUME Typed, Reports
    PROVE  \E b \in BOOLEAN :
           /\ udp' = (IF b THEN "bound" ELSE "closed") /\ (b => host' = host) /\ UNCHANGED <<told, players>>
           /\ Len(toUi) \in Nat /\ Len(toUi') \in Nat /\ Len(toUi) < Len(toUi')
           /\ DOMAIN toUi = 1 .. Len(toUi) /\ DOMAIN toUi' = 1 .. Len(toUi')
           /\ toUi' \in Seq(Signals)
           /\ \A i \in 1 .. Len(toUi) : toUi'[i] = toUi[i]
           /\ \A i \in Len(toUi) + 1 .. Len(toUi') : toUi'[i] = State(b)
<1>1. PICK b \in BOOLEAN : \E signals \in Seq({State(b)}) :
          /\ signals # <<>> /\ toUi' = toUi \o signals
          /\ udp' = (IF b THEN "bound" ELSE "closed") /\ (b => host' = host)
          /\ UNCHANGED <<told, players>>
  BY DEF Reports
<1>2. PICK signals \in Seq({State(b)}) : signals # <<>> /\ toUi' = toUi \o signals
  BY <1>1
<1>3. {State(b)} \subseteq Signals
  BY DEF Signals
<1>4. Len(signals) \in Nat \ {0}
  BY <1>2, LenProperties, EmptySeq
<1> DEFINE S == {State(b)}
<1>5. /\ Len(toUi) \in Nat /\ Len(signals) \in Nat /\ Len(toUi') = Len(toUi) + Len(signals)
      /\ DOMAIN toUi = 1 .. Len(toUi) /\ DOMAIN toUi' = 1 .. Len(toUi) + Len(signals)
      /\ toUi' \in Seq(Signals)
      /\ \A i \in 1 .. Len(toUi) : toUi'[i] = toUi[i]
      /\ \A i \in Len(toUi) + 1 .. Len(toUi) + Len(signals) : toUi'[i] \in S
  <2> HIDE DEF S
  <2> QED BY <1>2, <1>3, OthersAdded DEF S
<1>6. /\ udp' = (IF b THEN "bound" ELSE "closed") /\ (b => host' = host) /\ UNCHANGED <<told, players>>
      /\ Len(toUi) \in Nat /\ Len(toUi') \in Nat /\ Len(toUi) < Len(toUi')
      /\ DOMAIN toUi = 1 .. Len(toUi) /\ DOMAIN toUi' = 1 .. Len(toUi')
      /\ toUi' \in Seq(Signals)
      /\ \A i \in 1 .. Len(toUi) : toUi'[i] = toUi[i]
      /\ \A i \in Len(toUi) + 1 .. Len(toUi') : toUi'[i] = State(b)
  BY <1>1, <1>4, <1>5
<1> WITNESS b \in BOOLEAN
<1> QED BY <1>6

LEMMA PassedOnLast ==
    ASSUME Typed, PassesOn
    PROVE  /\ UNCHANGED <<told, players, udp, host>>
           /\ Len(toUi) \in Nat /\ Len(toUi') \in Nat /\ Len(toUi) <= Len(toUi')
           /\ DOMAIN toUi = 1 .. Len(toUi) /\ DOMAIN toUi' = 1 .. Len(toUi')
           /\ toUi' \in Seq(Signals)
           /\ \A i \in 1 .. Len(toUi) : toUi'[i] = toUi[i]
           /\ \A i \in Len(toUi) + 1 .. Len(toUi') : toUi'[i].kind # "state" /\ toUi'[i].server = host
<1> DEFINE S == {Update(host), Stats(host)}
<1>1. PICK signals \in Seq(S) :
          toUi' = toUi \o signals /\ (signals # <<>> => host \in Servers)
          /\ UNCHANGED <<told, players, udp, host>>
  BY DEF PassesOn
<1>2. \A x \in S : x.kind # "state" /\ x.server = host
  BY DEF Update, Stats
<1>3. S \subseteq Signals \/ signals = <<>>
  BY <1>1 DEF Signals
<1> HIDE DEF S
<1>4. /\ Len(toUi) \in Nat /\ Len(signals) \in Nat /\ Len(toUi') = Len(toUi) + Len(signals)
      /\ DOMAIN toUi = 1 .. Len(toUi) /\ DOMAIN toUi' = 1 .. Len(toUi) + Len(signals)
      /\ toUi' \in Seq(Signals)
      /\ \A i \in 1 .. Len(toUi) : toUi'[i] = toUi[i]
      /\ \A i \in Len(toUi) + 1 .. Len(toUi) + Len(signals) : toUi'[i] \in S
  BY <1>1, <1>3, OthersAdded
<1> QED BY <1>1, <1>2, <1>4

LEMMA StepKeepsTypes == ClientInv /\ [Next]_vars => ClientInv'
<1> SUFFICES ASSUME ClientInv, [Next]_vars PROVE ClientInv'
  OBVIOUS
<1>0. FlagsAgree /\ Typed /\ StreamIsWhole
  BY DEF ClientInv
<1>1. FlagsAgree'
  BY <1>0, StepKeepsFlags
\* The signals, and the statistics taken from them.
<1>2. toUi' \in Seq(Signals) /\ told' \in BOOLEAN /\ players' \in Servers \cup {None}
  <2>1. CASE HandleSignal
    <3>1. toUi' \in Seq(Signals) /\ Head(toUi) \in Signals
      BY <1>0, <2>1, FirstGone
    <3>2. Head(toUi).kind = "state" => Head(toUi).connected \in BOOLEAN
      BY <3>1 DEF Signals, State, Update, Stats
    <3>3. Head(toUi).kind = "stats" => Head(toUi).server \in Servers
      BY <3>1 DEF Signals, State, Update, Stats
    <3>4. told' = IF Head(toUi).kind = "state" THEN Head(toUi).connected ELSE told
      BY <2>1 DEF HandleSignal
    <3>5. players' \in {Head(toUi).server, None, players} /\ (Head(toUi).kind # "stats" => players' \in {None, players})
      <4>1. State(FALSE).kind = "state"
        BY DEF State
      <4>2. players' = CASE Head(toUi).kind = "stats" -> Head(toUi).server
                         [] Head(toUi) = State(FALSE) -> None
                         [] OTHER -> players
        BY <2>1 DEF HandleSignal
      <4> QED BY <4>1, <4>2
    <3> QED BY <1>0, <3>1, <3>2, <3>3, <3>4, <3>5 DEF Typed
  <2>2. CASE Reports
    BY <1>0, <2>2, ReportLast DEF Typed
  <2>3. CASE PassesOn
    BY <1>0, <2>3, PassedOnLast DEF Typed
  <2> QED BY <2>1, <2>2, <2>3, StepEmits
<1> USE DEF netVars, uiVars
\* The queued calls.
<1>3. toNet' \in Seq(QueuedCalls) /\ chosen' \in Servers \cup {None}
  <2>1. toNet \in Seq(QueuedCalls) /\ chosen \in Servers \cup {None}
    BY <1>0 DEF Typed
  <2>2. ASSUME NEW call \in QueuedCalls, Post(call) PROVE toNet' \in Seq(QueuedCalls)
    BY <2>1, <2>2, AppendProperties DEF Post
  <2>3. ASSUME NEW s \in Servers, OpenConnectionDialog(s) PROVE toNet' \in Seq(QueuedCalls) /\ chosen' = s
    <3>1. Call("connect", s) \in QueuedCalls
      BY DEF QueuedCalls
    <3> QED BY <2>2, <2>3, <3>1 DEF OpenConnectionDialog
  <2>4. CASE PressDisconnect
    <3>1. Call("disconnect", None) \in QueuedCalls
      BY DEF QueuedCalls
    <3> QED BY <2>1, <2>2, <2>4, <3>1 DEF PressDisconnect
  <2>5. CASE SendEdit
    <3>1. Call("edit", chosen) \in QueuedCalls
      BY <2>1 DEF QueuedCalls
    <3> QED BY <2>1, <2>2, <2>5, <3>1 DEF SendEdit
  <2>6. CASE NetCall
    <3>1. toNet # <<>> /\ toNet' = Tail(toNet) /\ chosen' = chosen
      BY <2>6 DEF NetCall, ConnectToServer, DisconnectFromServer, SendCommand, Take
    <3> QED BY <2>1, <3>1, HeadTailProperties
  <2>7. CASE UNCHANGED <<toNet, chosen>>
    BY <2>1, <2>7
  <2>8. CASE OnTcpReadyRead
    BY <2>1, <2>8 DEF OnTcpReadyRead
  <2> QED
    BY <2>1, <2>3, <2>4, <2>5, <2>6, <2>7, <2>8 DEF Next, HandleSignal, OnTcpConnected, ConnectFails,
       ConnectionLost, ReconnectTick, ApplyDatagram, ServerSendsStats, vars
\* The connection and what is under way on it.
<1>4. /\ udp' \in {"closed", "bound"}
      /\ host' \in Servers \cup {None} /\ lastSeq' \in Servers \cup {None}
      /\ host' = None => tcp' = "unconnected" /\ ~timer'
      /\ StreamIsWhole'
  <2>0. /\ udp \in {"closed", "bound"} /\ host \in Servers \cup {None} /\ lastSeq \in Servers \cup {None}
        /\ (host = None => tcp = "unconnected" /\ ~timer) /\ StreamIsWhole
        /\ (tcp # "unconnected" => host \in Servers) /\ timer \in BOOLEAN
    BY <1>0 DEF Typed, FlagsAgree
  <2>1. CASE UNCHANGED netVars
    BY <2>0, <2>1 DEF StreamIsWhole
  <2>2. CASE ConnectToServer
    <3>1. Head(toNet) \in QueuedCalls
      BY <1>0, <2>2, HeadTailProperties DEF ConnectToServer, Take, Typed
    <3>2. Head(toNet).server \in Servers
      BY <2>2, <3>1, CallsToConnect DEF ConnectToServer, Take
    <3>3. host' \in Servers /\ lastSeq' = None /\ udp' = "closed" /\ buffer' = <<>> /\ wire' = <<>>
      BY <2>2, <3>2 DEF ConnectToServer
    <3> QED BY <3>3, ServersAssumption, EmptyStreamIsWhole
  <2>3. CASE DisconnectFromServer
    <3>1. /\ host' = host /\ lastSeq' = None /\ udp' = "closed" /\ buffer' = <<>> /\ wire' = <<>>
          /\ tcp' = "unconnected" /\ timer' = FALSE
      BY <2>3 DEF DisconnectFromServer
    <3> QED BY <2>0, <3>1, EmptyStreamIsWhole
  <2>4. ASSUME NEW bound \in BOOLEAN, OnTcpConnected(bound)
        PROVE  /\ udp' \in {"closed", "bound"} /\ UNCHANGED <<host, lastSeq, wire, buffer>> /\ host # None
    <3>1. tcp = "connecting" /\ udp' \in {"closed", "bound"} /\ UNCHANGED <<host, lastSeq, wire, buffer>>
      BY <2>4 DEF OnTcpConnected
    <3> QED BY <2>0, <3>1
  <2>5. CASE ConnectFails
    <3>1. tcp = "connecting" /\ UNCHANGED <<udp, host, lastSeq, wire, buffer>>
      BY <2>5 DEF ConnectFails
    <3> QED BY <2>0, <3>1 DEF StreamIsWhole
  <2>6. CASE ConnectionLost
    <3>1. tcp = "connected" /\ udp' = "closed" /\ wire' = <<>> /\ buffer' = <<>> /\ UNCHANGED <<host, lastSeq>>
      BY <2>6 DEF ConnectionLost
    <3> QED BY <2>0, <3>1, EmptyStreamIsWhole
  <2>7. CASE ReconnectTick
    <3>1. timer /\ UNCHANGED <<udp, host, lastSeq, wire, buffer>>
      BY <2>7 DEF ReconnectTick
    <3> QED BY <2>0, <3>1 DEF StreamIsWhole
  <2>8. CASE ApplyDatagram
    <3>1. lastSeq' = host /\ UNCHANGED <<tcp, udp, timer, host, wire, buffer>>
      BY <2>8 DEF ApplyDatagram
    <3> QED BY <2>0, <3>1 DEF StreamIsWhole
  <2>9. CASE ServerSendsStats
    <3>1. tcp = "connected" /\ UNCHANGED <<tcp, udp, timer, host, lastSeq>>
      BY <2>9 DEF ServerSendsStats
    <3> QED BY <2>0, <2>9, <3>1, WrittenIsWhole
  <2>10. CASE OnTcpReadyRead
    <3>1. tcp = "connected" /\ UNCHANGED <<tcp, udp, timer, host, lastSeq>>
      BY <2>10 DEF OnTcpReadyRead
    <3> QED BY <2>0, <2>10, <3>1, ReadIsWhole
  <2>11. ASSUME NEW bound \in BOOLEAN, OnTcpConnected(bound)
         PROVE  StreamIsWhole'
    BY <2>0, <2>4, <2>11 DEF StreamIsWhole
  <2>12. CASE (\E s \in Servers : OpenConnectionDialog(s)) \/ PressDisconnect \/ SendEdit \/ HandleSignal \/ SendCommand
    <3>1. UNCHANGED netVars
      BY <2>12 DEF OpenConnectionDialog, PressDisconnect, SendEdit, HandleSignal, SendCommand
    <3> QED BY <2>1, <3>1
  <2>13. CASE UNCHANGED vars
    BY <2>1, <2>13 DEF vars
  <2>14. CASE \E bound \in BOOLEAN : OnTcpConnected(bound)
    BY <2>0, <2>4, <2>11, <2>14
  <2> HIDE DEF netVars, uiVars
  <2> QED BY <2>2, <2>3, <2>5, <2>6, <2>7, <2>8, <2>9, <2>10, <2>12, <2>13, <2>14 DEF Next, NetCall
<1>5. Typed'
  BY <1>2, <1>3, <1>4 DEF Typed
<1> QED BY <1>1, <1>4, <1>5 DEF ClientInv

LEMMA ClientInvHolds == Spec => []ClientInv
<1>1. Init => ClientInv
  <2> SUFFICES ASSUME Init PROVE ClientInv
    OBVIOUS
  <2>1. FlagsAgree
    BY DEF Init, FlagsAgree, NothingLeftOver, NeverGivesUp, StaysDisconnected
  <2>2. Typed
    BY EmptySeq DEF Init, Typed
  <2>3. StreamIsWhole
    BY NothingIsFramed DEF Init, StreamIsWhole
  <2> QED BY <2>1, <2>2, <2>3 DEF ClientInv
<1> QED BY <1>1, StepKeepsTypes, PTL DEF Spec

\* Whatever the timer, the user, the network and the parser do, every flag,
\* queue and buffer keeps the values its code expects: there is no connection
\* before a server was named, and what has been read of the stream is pieces of
\* messages (GameNetworkClient.cpp:110-194).
THEOREM TypeCorrect == Spec => []TypeOK
<1>1. ClientInv => TypeOK
  <2> SUFFICES ASSUME ClientInv PROVE TypeOK
    OBVIOUS
  <2>1. /\ FlagsAgree /\ Typed /\ buffer \in Seq(Pieces) /\ wire \in Seq(Pieces)
    BY DEF ClientInv, StreamIsWhole
  <2>2. Signals \subseteq {State(b) : b \in BOOLEAN} \cup {Update(s) : s \in Servers}
                          \cup {Stats(s) : s \in Servers \cup {Garbled}}
    BY DEF Signals
  <2>3. toUi \in Seq({State(b) : b \in BOOLEAN} \cup {Update(s) : s \in Servers}
                     \cup {Stats(s) : s \in Servers \cup {Garbled}})
    BY <2>1, <2>2 DEF Typed
  <2>4. {wire, buffer} \subseteq Seq([kind : {"type", "count", "entry"}, n : {0, 1}, from : Servers])
    BY <2>1 DEF Pieces
  <2>5. toNet \in Seq({Call("disconnect", None), Call("edit", None)}
                      \cup {Call(k, s) : k \in {"connect", "edit"}, s \in Servers})
    BY <2>1 DEF Typed, QueuedCalls
  <2>6. /\ {timer, manual, told} \subseteq BOOLEAN /\ {host, lastSeq, chosen} \subseteq Servers \cup {None}
        /\ tcp \in {"unconnected", "connecting", "connected"} /\ udp \in {"closed", "bound"}
        /\ (host = None => tcp = "unconnected" /\ ~timer) /\ players \in Servers \cup {None, Garbled}
    BY <2>1 DEF Typed, FlagsAgree
  <2> QED BY <2>3, <2>4, <2>5, <2>6 DEF TypeOK
<1> QED BY <1>1, ClientInvHolds, PTL

---------------------------------------------------------------------------
\* What the window will have been told once it has read the signals.
WillBeTold ==
    /\ WindowIsTold
    /\ \A i \in DOMAIN toUi :
           toUi[i].kind = "state" /\ (\A j \in i + 1 .. Len(toUi) : toUi[j].kind # "state")
           => (toUi[i].connected <=> udp = "bound")

LEMMA StepKeepsTold == ClientInv /\ WillBeTold /\ [Next]_vars => WillBeTold'
<1> SUFFICES ASSUME ClientInv, WillBeTold, [Next]_vars PROVE WillBeTold'
  OBVIOUS
<1>0. Typed
  BY DEF ClientInv
<1>1. CASE HandleSignal
  <2>1. /\ Len(toUi) \in Nat \ {0} /\ DOMAIN toUi = 1 .. Len(toUi)
        /\ Len(toUi') = Len(toUi) - 1 /\ DOMAIN toUi' = 1 .. Len(toUi) - 1
        /\ \A i \in 1 .. Len(toUi) - 1 : toUi'[i] = toUi[i + 1]
    BY <1>0, <1>1, FirstGone
  <2>2. /\ told' = (IF toUi[1].kind = "state" THEN toUi[1].connected ELSE told) /\ udp' = udp
    BY <1>0, <1>1, FirstGone DEF HandleSignal, netVars
  <2>3. ASSUME \A i \in DOMAIN toUi' : toUi'[i].kind # "state" PROVE told' <=> udp' = "bound"
    <3>1. \A j \in 2 .. Len(toUi) : toUi[j].kind # "state"
      <4> SUFFICES ASSUME NEW j \in 2 .. Len(toUi) PROVE toUi[j].kind # "state"
        OBVIOUS
      <4>1. j - 1 \in 1 .. Len(toUi) - 1 /\ (j - 1) + 1 = j
        BY <2>1
      <4> QED BY <2>1, <2>3, <4>1
    <3>2. CASE toUi[1].kind = "state"
      <4>1. 1 \in DOMAIN toUi /\ 1 + 1 = 2
        BY <2>1
      <4>2. toUi[1].connected <=> udp = "bound"
        BY <3>1, <3>2, <4>1 DEF WillBeTold
      <4> QED BY <2>2, <3>2, <4>2
    <3>3. CASE toUi[1].kind # "state"
      <4>1. \A j \in 1 .. Len(toUi) : j = 1 \/ j \in 2 .. Len(toUi)
        BY <2>1
      <4>2. told <=> udp = "bound"
        BY <2>1, <3>1, <3>3, <4>1 DEF WillBeTold, WindowIsTold
      <4> QED BY <2>2, <3>3, <4>2
    <3> QED BY <3>2, <3>3
  <2>4. ASSUME NEW i \in DOMAIN toUi', toUi'[i].kind = "state",
               \A j \in i + 1 .. Len(toUi') : toUi'[j].kind # "state"
        PROVE  toUi'[i].connected <=> udp' = "bound"
    <3>1. i \in 1 .. Len(toUi) - 1 /\ i + 1 \in 1 .. Len(toUi) /\ toUi'[i] = toUi[i + 1]
      BY <2>1
    <3>2. ASSUME NEW j \in (i + 1) + 1 .. Len(toUi) PROVE toUi[j].kind # "state"
      <4>1. j - 1 \in i + 1 .. Len(toUi') /\ j - 1 \in 1 .. Len(toUi) - 1 /\ (j - 1) + 1 = j
        BY <2>1, <3>1
      <4> QED BY <2>1, <2>4, <4>1
    <3>3. toUi[i + 1].connected <=> udp = "bound"
      BY <2>1, <2>4, <3>1, <3>2 DEF WillBeTold
    <3> QED BY <2>2, <3>1, <3>3
  <2> QED BY <2>3, <2>4 DEF WillBeTold, WindowIsTold
<1>2. CASE Reports
  <2>1. PICK b \in BOOLEAN :
           /\ udp' = (IF b THEN "bound" ELSE "closed")
           /\ Len(toUi) \in Nat /\ Len(toUi') \in Nat /\ Len(toUi) < Len(toUi')
           /\ DOMAIN toUi' = 1 .. Len(toUi')
           /\ \A i \in Len(toUi) + 1 .. Len(toUi') : toUi'[i] = State(b)
    BY <1>0, <1>2, ReportLast
  <2>2. State(b).kind = "state" /\ State(b).connected = b /\ (b <=> udp' = "bound")
    BY <2>1 DEF State
  <2>3. /\ Len(toUi') \in Len(toUi) + 1 .. Len(toUi') /\ Len(toUi') \in DOMAIN toUi'
        /\ toUi'[Len(toUi')] = State(b)
    BY <2>1
  <2>4. ASSUME NEW i \in DOMAIN toUi', \A j \in i + 1 .. Len(toUi') : toUi'[j].kind # "state"
        PROVE  toUi'[i] = State(b)
    <3>1. ~(Len(toUi') \in i + 1 .. Len(toUi'))
      BY <2>2, <2>3, <2>4
    <3>2. i = Len(toUi')
      BY <2>1, <3>1
    <3> QED BY <2>3, <3>2
  <2> QED BY <2>2, <2>3, <2>4 DEF WillBeTold, WindowIsTold
<1>3. CASE PassesOn
  <2>1. /\ UNCHANGED <<told, udp>>
        /\ Len(toUi) \in Nat /\ Len(toUi') \in Nat /\ Len(toUi) <= Len(toUi')
        /\ DOMAIN toUi = 1 .. Len(toUi) /\ DOMAIN toUi' = 1 .. Len(toUi')
        /\ \A i \in 1 .. Len(toUi) : toUi'[i] = toUi[i]
        /\ \A i \in Len(toUi) + 1 .. Len(toUi') : toUi'[i].kind # "state"
    BY <1>0, <1>3, PassedOnLast
  <2>2. ASSUME \A i \in DOMAIN toUi' : toUi'[i].kind # "state" PROVE told' <=> udp' = "bound"
    <3>1. \A i \in 1 .. Len(toUi) : i \in 1 .. Len(toUi')
      BY <2>1
    <3> QED BY <2>1, <2>2, <3>1 DEF WillBeTold, WindowIsTold
  <2>3. ASSUME NEW i \in DOMAIN toUi', toUi'[i].kind = "state",
               \A j \in i + 1 .. Len(toUi') : toUi'[j].kind # "state"
        PROVE  toUi'[i].connected <=> udp' = "bound"
    <3>1. i \in 1 .. Len(toUi)
      BY <2>1, <2>3
    <3>2. \A j \in i + 1 .. Len(toUi) : toUi[j].kind # "state"
      BY <2>1, <2>3, <3>1
    <3> QED BY <2>1, <2>3, <3>1, <3>2 DEF WillBeTold
  <2> QED BY <2>2, <2>3 DEF WillBeTold, WindowIsTold
<1> QED BY <1>1, <1>2, <1>3, StepEmits

\* Whatever is still to be read, the window ends up knowing whether the client
\* is connected (GameNetworkClient.cpp:40-78, 110-155).
THEOREM WindowEndsUpTold == Spec => []WindowIsTold
<1>1. Init => WillBeTold
  <2>1. DOMAIN <<>> = {}
    OBVIOUS
  <2> QED BY <2>1 DEF Init, WillBeTold, WindowIsTold
<1>2. WillBeTold => WindowIsTold
  BY DEF WillBeTold
<1> QED BY <1>1, <1>2, ClientInvHolds, StepKeepsTold, PTL DEF Spec

---------------------------------------------------------------------------
\* Updates and statistics of the server before.
LEMMA StepKeepsOrder == ClientInv /\ UpdatesComeInOrder /\ [Next]_vars => UpdatesComeInOrder'
<1> SUFFICES ASSUME ClientInv, UpdatesComeInOrder, [Next]_vars,
                    NEW i \in DOMAIN toUi', toUi'[i].kind \in {"update", "stats"}, toUi'[i].server # host'
             PROVE  \E j \in i + 1 .. Len(toUi') : toUi'[j] = State(FALSE)
  BY DEF UpdatesComeInOrder
<1>0. Typed
  BY DEF ClientInv
<1>1. CASE HandleSignal
  <2>1. /\ Len(toUi) \in Nat \ {0} /\ DOMAIN toUi = 1 .. Len(toUi)
        /\ Len(toUi') = Len(toUi) - 1 /\ DOMAIN toUi' = 1 .. Len(toUi) - 1
        /\ \A k \in 1 .. Len(toUi) - 1 : toUi'[k] = toUi[k + 1]
    BY <1>0, <1>1, FirstGone
  <2>2. host' = host
    BY <1>1 DEF HandleSignal, netVars
  <2>3. i + 1 \in DOMAIN toUi /\ toUi'[i] = toUi[i + 1]
    BY <2>1
  <2>4. PICK j \in (i + 1) + 1 .. Len(toUi) : toUi[j] = State(FALSE)
    BY <2>2, <2>3 DEF UpdatesComeInOrder
  <2>5. j - 1 \in i + 1 .. Len(toUi') /\ j - 1 \in 1 .. Len(toUi) - 1 /\ (j - 1) + 1 = j
    BY <2>1, <2>4
  <2> QED BY <2>1, <2>4, <2>5
<1>2. CASE Reports
  <2>1. PICK b \in BOOLEAN :
           /\ b => host' = host
           /\ Len(toUi) \in Nat /\ Len(toUi') \in Nat /\ Len(toUi) < Len(toUi')
           /\ DOMAIN toUi = 1 .. Len(toUi) /\ DOMAIN toUi' = 1 .. Len(toUi')
           /\ \A k \in 1 .. Len(toUi) : toUi'[k] = toUi[k]
           /\ \A k \in Len(toUi) + 1 .. Len(toUi') : toUi'[k] = State(b)
    BY <1>0, <1>2, ReportLast
  <2>2. i \in 1 .. Len(toUi)
    BY <2>1 DEF State
  <2>3. CASE b
    <3>1. PICK j \in i + 1 .. Len(toUi) : toUi[j] = State(FALSE)
      BY <2>1, <2>2, <2>3 DEF UpdatesComeInOrder
    <3>2. j \in i + 1 .. Len(toUi') /\ j \in 1 .. Len(toUi)
      BY <2>1, <2>2
    <3> QED BY <2>1, <3>1, <3>2
  <2>4. CASE ~b
    <3>1. Len(toUi') \in i + 1 .. Len(toUi') /\ Len(toUi') \in Len(toUi) + 1 .. Len(toUi')
      BY <2>1, <2>2
    <3>2. b = FALSE
      BY <2>4
    <3> QED BY <2>1, <3>1, <3>2
  <2> QED BY <2>3, <2>4
<1>3. CASE PassesOn
  <2>1. /\ UNCHANGED host
        /\ Len(toUi) \in Nat /\ Len(toUi') \in Nat /\ Len(toUi) <= Len(toUi')
        /\ DOMAIN toUi = 1 .. Len(toUi) /\ DOMAIN toUi' = 1 .. Len(toUi')
        /\ \A k \in 1 .. Len(toUi) : toUi'[k] = toUi[k]
        /\ \A k \in Len(toUi) + 1 .. Len(toUi') : toUi'[k].server = host
    BY <1>0, <1>3, PassedOnLast
  <2>2. i \in 1 .. Len(toUi)
    BY <2>1
  <2>3. PICK j \in i + 1 .. Len(toUi) : toUi[j] = State(FALSE)
    BY <2>1, <2>2 DEF UpdatesComeInOrder
  <2>4. j \in i + 1 .. Len(toUi') /\ j \in 1 .. Len(toUi)
    BY <2>1, <2>2
  <2> QED BY <2>1, <2>3, <2>4
<1> QED BY <1>1, <1>2, <1>3, StepEmits

\* An update or a message of a server the client has left is followed by the
\* signal that clears what the window shows (GameNetworkClient.cpp:40-64,
\* 135-182).
THEOREM LeftServersAreCleared == Spec => []UpdatesComeInOrder
<1>1. Init => UpdatesComeInOrder
  <2>1. DOMAIN <<>> = {}
    OBVIOUS
  <2> QED BY <2>1 DEF Init, UpdatesComeInOrder
<1> QED BY <1>1, ClientInvHolds, StepKeepsOrder, PTL DEF Spec

\* The balances shown are those of the present server, or about to be cleared.
LEMMA StepKeepsBalances ==
    ClientInv /\ UpdatesComeInOrder /\ StatisticsAreGenuine /\ [Next]_vars => StatisticsAreGenuine'
<1> SUFFICES ASSUME ClientInv, UpdatesComeInOrder, StatisticsAreGenuine, [Next]_vars, players' # None
             PROVE  players' = host' \/ \E i \in DOMAIN toUi' : toUi'[i] = State(FALSE)
  <2>1. ASSUME ClientInv, [Next]_vars PROVE players' # Garbled
    <3>1. players' \in Servers \cup {None}
      BY <2>1, StepKeepsTypes DEF ClientInv, Typed
    <3> QED BY <3>1, ServersAssumption DEF None, Garbled
  <2> QED BY <2>1 DEF StatisticsAreGenuine
<1>0. Typed
  BY DEF ClientInv
<1>1. CASE HandleSignal
  <2>1. /\ Len(toUi) \in Nat \ {0} /\ DOMAIN toUi = 1 .. Len(toUi)
        /\ DOMAIN toUi' = 1 .. Len(toUi) - 1 /\ Head(toUi) = toUi[1]
        /\ \A k \in 1 .. Len(toUi) - 1 : toUi'[k] = toUi[k + 1]
    BY <1>0, <1>1, FirstGone
  <2>2. host' = host
    BY <1>1 DEF HandleSignal, netVars
  <2>3. players' = CASE toUi[1].kind = "stats" -> toUi[1].server
                     [] toUi[1] = State(FALSE) -> None
                     [] OTHER -> players
    BY <1>1, <2>1 DEF HandleSignal
  <2>4. State(FALSE).kind = "state"
    BY DEF State
  <2>5. ASSUME NEW j \in 2 .. Len(toUi), toUi[j] = State(FALSE)
        PROVE  \E i \in DOMAIN toUi' : toUi'[i] = State(FALSE)
    <3>1. j - 1 \in DOMAIN toUi' /\ j - 1 \in 1 .. Len(toUi) - 1 /\ (j - 1) + 1 = j
      BY <2>1, <2>5
    <3> QED BY <2>1, <2>5, <3>1
  <2>6. CASE toUi[1].kind = "stats"
    <3>1. players' = toUi[1].server
      BY <2>3, <2>4, <2>6
    <3> SUFFICES ASSUME toUi[1].server # host PROVE \E i \in DOMAIN toUi' : toUi'[i] = State(FALSE)
      BY <2>2, <3>1
    <3>2. 1 \in DOMAIN toUi /\ 1 + 1 = 2
      BY <2>1
    <3>3. \E j \in 2 .. Len(toUi) : toUi[j] = State(FALSE)
      BY <2>6, <3>2 DEF UpdatesComeInOrder
    <3> QED BY <2>5, <3>3
  <2>7. CASE toUi[1].kind # "stats"
    <3>1. toUi[1] # State(FALSE) /\ players' = players
      BY <2>3, <2>7
    <3>2. \A j \in DOMAIN toUi : j = 1 \/ j \in 2 .. Len(toUi)
      BY <2>1
    <3> QED BY <2>2, <2>5, <3>1, <3>2 DEF StatisticsAreGenuine
  <2> QED BY <2>6, <2>7
<1>2. CASE Reports
  <2>1. PICK b \in BOOLEAN :
           /\ (b => host' = host) /\ UNCHANGED players
           /\ Len(toUi) \in Nat /\ Len(toUi') \in Nat /\ Len(toUi) < Len(toUi')
           /\ DOMAIN toUi = 1 .. Len(toUi) /\ DOMAIN toUi' = 1 .. Len(toUi')
           /\ \A k \in 1 .. Len(toUi) : toUi'[k] = toUi[k]
           /\ \A k \in Len(toUi) + 1 .. Len(toUi') : toUi'[k] = State(b)
    BY <1>0, <1>2, ReportLast
  <2>2. Len(toUi') \in DOMAIN toUi' /\ Len(toUi') \in Len(toUi) + 1 .. Len(toUi')
        /\ \A k \in DOMAIN toUi : k \in DOMAIN toUi'
    BY <2>1
  <2>3. CASE b
    BY <2>1, <2>2, <2>3 DEF StatisticsAreGenuine
  <2>4. CASE b = FALSE
    BY <2>1, <2>2, <2>4
  <2> QED BY <2>3, <2>4
<1>3. CASE PassesOn
  <2>1. /\ UNCHANGED <<players, host>>
        /\ Len(toUi) \in Nat /\ Len(toUi') \in Nat /\ Len(toUi) <= Len(toUi')
        /\ DOMAIN toUi = 1 .. Len(toUi) /\ DOMAIN toUi' = 1 .. Len(toUi')
        /\ \A k \in 1 .. Len(toUi) : toUi'[k] = toUi[k]
    BY <1>0, <1>3, PassedOnLast
  <2>2. \A k \in DOMAIN toUi : k \in DOMAIN toUi'
    BY <2>1
  <2> QED BY <2>1, <2>2 DEF StatisticsAreGenuine
<1> QED BY <1>1, <1>2, <1>3, StepEmits

\* However the stream is cut and whatever its bytes look like, the balances
\* shown are of a message the server wrote, and of the present server unless
\* the signal that clears them is on its way (ClientParsers.cpp:61-101,
\* GameNetworkClient.cpp:165-182).
THEOREM BalancesAreGenuine == Spec => []StatisticsAreGenuine
<1>1. Init => StatisticsAreGenuine
  BY DEF Init, StatisticsAreGenuine
<1> QED BY <1>1, ClientInvHolds, LeftServersAreCleared, StepKeepsBalances, PTL DEF Spec

=============================================================================
