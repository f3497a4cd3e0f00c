---------------------------- MODULE SessionsProofs ----------------------------
(***************************************************************************)
(* Proofs about Sessions.tla, for any connections and any players: the     *)
(* types, and the invariants that its run checks on two connections.       *)
(*                                                                         *)
(* They rest on one inductive invariant, IInv, of what a session's stage   *)
(* says about its entries in the two maps.                                 *)
(***************************************************************************)
EXTENDS Sessions, TLAPS

\* A session that reads messages has a player the game knows.
GreetedAreKnown == \A c \in Conns : stage[c] \in {"open", "body"} => player[c] \in known

\* Between its two halves, the handshake's handler has a greeted session.
HandlingIsGreeted == handling # Nobody => stage[handling] = "greeted" /\ player[handling] \in known

\* The flag is lowered by nothing but a snapshot.
UnservedNeedFull == \A c \in Conns : first[c] = "nothing" => needsFull[c]

\* The io thread returns with nothing pending, and nothing comes after it.
ReturnedIsQuiet == io = "returned" => ~running /\ ~accepting /\ Pending = {}

MapsAreFunctions ==
    /\ sessions = [p \in DOMAIN sessions |-> sessions[p]]
    /\ endpoints = [p \in DOMAIN endpoints |-> endpoints[p]]

IInv ==
    /\ TypeOK
    /\ MapsAreFunctions
    /\ GreetedAreKnown
    /\ HandlingIsGreeted
    /\ RegistryIsSound
    /\ UnservedNeedFull
    /\ SnapshotIsFirst
    /\ CommandersAreKnown
    /\ ReturnedIsQuiet

---------------------------------------------------------------------------
\* No session is registered, and nothing pending, at the start.
LEMMA InitIsSound == Init => IInv
  BY DEF Init, IInv, TypeOK, MapsAreFunctions, GreetedAreKnown, HandlingIsGreeted, RegistryIsSound,
     UnservedNeedFull, SnapshotIsFirst, CommandersAreKnown, ReturnedIsQuiet, NoSessions, Stages
---------------------------------------------------------------------------
\* Every step keeps it.  A step of a connection whose session is not read yet
\* leaves the registry alone; the end of a session removes the entries of its
\* player, the only ones that can lead to it.
LEMMA StepIsSound == IInv /\ [Next]_vars => IInv'
<1> SUFFICES ASSUME IInv, [Next]_vars PROVE IInv'
  OBVIOUS
<1> USE DEF IInv, stopVars, ioVars, connVars, registry, callbacks
<1>1. ASSUME NEW c \in Conns, Connect(c) PROVE IInv'
  <2>1. TypeOK'
    BY <1>1 DEF Connect, TypeOK, Stages
  <2>2. GreetedAreKnown'
    BY <1>1 DEF Connect, GreetedAreKnown, TypeOK
  <2>3. HandlingIsGreeted'
    BY <1>1 DEF Connect, HandlingIsGreeted, TypeOK
  <2>4. RegistryIsSound'
    BY <1>1 DEF Connect, RegistryIsSound, TypeOK
  <2>5. ReturnedIsQuiet'
    BY <1>1 DEF Connect, ReturnedIsQuiet, Pending
  <2> QED
    BY <1>1, <2>1, <2>2, <2>3, <2>4, <2>5 DEF Connect, MapsAreFunctions, UnservedNeedFull,
       SnapshotIsFirst, CommandersAreKnown
<1>2. ASSUME NEW c \in Conns, Leave(c) PROVE IInv'
  <2>1. TypeOK'
    BY <1>2 DEF Leave, TypeOK
  <2> QED
    BY <1>2, <2>1 DEF Leave, MapsAreFunctions, GreetedAreKnown, HandlingIsGreeted, RegistryIsSound,
       UnservedNeedFull, SnapshotIsFirst, CommandersAreKnown, ReturnedIsQuiet, Pending
<1>3. ASSUME NEW c \in Conns, HandshakeArrives(c) PROVE IInv'
  <2>1. TypeOK'
    BY <1>3 DEF HandshakeArrives, TypeOK, Stages
  <2>2. GreetedAreKnown'
    BY <1>3 DEF HandshakeArrives, GreetedAreKnown, TypeOK
  <2>3. HandlingIsGreeted'
    BY <1>3 DEF HandshakeArrives, HandlingIsGreeted, TypeOK
  <2>4. RegistryIsSound'
    BY <1>3 DEF HandshakeArrives, RegistryIsSound, TypeOK
  <2>5. ReturnedIsQuiet'
    BY <1>3 DEF HandshakeArrives, ReturnedIsQuiet, Pending
  <2> QED
    BY <1>3, <2>1, <2>2, <2>3, <2>4, <2>5 DEF HandshakeArrives, MapsAreFunctions, UnservedNeedFull,
       SnapshotIsFirst, CommandersAreKnown
<1>4. ASSUME NEW c \in Conns, Accept(c) PROVE IInv'
  <2>1. TypeOK'
    BY <1>4 DEF Accept, TypeOK, IoFree, EndpointThrows, Stages
  <2>2. GreetedAreKnown'
    BY <1>4 DEF Accept, GreetedAreKnown, TypeOK, IoFree
  <2>3. HandlingIsGreeted'
    BY <1>4 DEF Accept, HandlingIsGreeted, TypeOK, IoFree
  <2>4. RegistryIsSound'
    <3>1. \A d \in Conns : stage[d] \in {"open", "body"} => stage'[d] = stage[d]
      BY <1>4 DEF Accept, TypeOK
    <3>2. io' # "died" => io # "died"
      BY <1>4 DEF Accept, IoFree
    <3> QED BY <1>4, <3>1, <3>2 DEF Accept, RegistryIsSound, TypeOK
  <2>5. ReturnedIsQuiet'
    BY <1>4 DEF Accept, ReturnedIsQuiet, TypeOK, IoFree, Pending
  <2> QED
    BY <1>4, <2>1, <2>2, <2>3, <2>4, <2>5 DEF Accept, MapsAreFunctions, UnservedNeedFull,
       SnapshotIsFirst, CommandersAreKnown
<1>5. ASSUME NEW c \in Conns, HandshakeFails(c) PROVE IInv'
  <2>1. TypeOK'
    BY <1>5 DEF HandshakeFails, TypeOK, Stages
  <2>2. GreetedAreKnown'
    BY <1>5 DEF HandshakeFails, GreetedAreKnown, TypeOK
  <2>3. HandlingIsGreeted'
    BY <1>5 DEF HandshakeFails, HandlingIsGreeted, IoFree
  <2>4. RegistryIsSound'
    BY <1>5 DEF HandshakeFails, RegistryIsSound, TypeOK
  <2>5. ReturnedIsQuiet'
    BY <1>5 DEF HandshakeFails, ReturnedIsQuiet, IoFree, Pending
  <2> QED
    BY <1>5, <2>1, <2>2, <2>3, <2>4, <2>5 DEF HandshakeFails, MapsAreFunctions, UnservedNeedFull,
       SnapshotIsFirst, CommandersAreKnown
<1>6. ASSUME NEW c \in Conns, Greet(c) PROVE IInv'
  <2>1. TypeOK'
    BY <1>6 DEF Greet, TypeOK, EndpointThrows, Stages
  <2>2. GreetedAreKnown'
    BY <1>6 DEF Greet, GreetedAreKnown, TypeOK, IoFree
  <2>3. HandlingIsGreeted'
    BY <1>6 DEF Greet, HandlingIsGreeted, TypeOK, IoFree, EndpointThrows
  <2>4. RegistryIsSound'
    BY <1>6 DEF Greet, RegistryIsSound, TypeOK, IoFree
  <2>5. UnservedNeedFull'
    BY <1>6 DEF Greet, UnservedNeedFull, TypeOK
  <2>6. CommandersAreKnown'
    BY <1>6 DEF Greet, CommandersAreKnown
  <2>7. ReturnedIsQuiet'
    BY <1>6 DEF Greet, ReturnedIsQuiet, TypeOK, IoFree, Pending
  <2> QED
    BY <1>6, <2>1, <2>2, <2>3, <2>4, <2>5, <2>6, <2>7 DEF Greet, MapsAreFunctions, SnapshotIsFirst
<1>7. ASSUME NEW c \in Conns, ReadType(c) PROVE IInv'
  <2>1. TypeOK'
    <3>1. needsFull' \in [Conns -> BOOLEAN] /\ stage' \in [Conns -> Stages]
      BY <1>7 DEF ReadType, TypeOK, Stages
    <3> QED BY <1>7, <3>1 DEF ReadType, TypeOK
  <2>2. GreetedAreKnown'
    BY <1>7 DEF ReadType, GreetedAreKnown, TypeOK
  <2>3. HandlingIsGreeted'
    BY <1>7 DEF ReadType, HandlingIsGreeted, IoFree
  <2>4. RegistryIsSound'
    BY <1>7 DEF ReadType, RegistryIsSound, TypeOK
  <2>5. UnservedNeedFull'
    BY <1>7 DEF ReadType, UnservedNeedFull, TypeOK
  <2>6. ReturnedIsQuiet'
    BY <1>7 DEF ReadType, ReturnedIsQuiet, IoFree, Pending
  <2> QED
    BY <1>7, <2>1, <2>2, <2>3, <2>4, <2>5, <2>6 DEF ReadType, MapsAreFunctions, SnapshotIsFirst,
       CommandersAreKnown
<1>8. ASSUME NEW c \in Conns, ReadBody(c) PROVE IInv'
  <2>1. TypeOK'
    BY <1>8 DEF ReadBody, TypeOK, Stages
  <2>2. GreetedAreKnown'
    BY <1>8 DEF ReadBody, GreetedAreKnown, TypeOK
  <2>3. HandlingIsGreeted'
    BY <1>8 DEF ReadBody, HandlingIsGreeted, IoFree
  <2>4. RegistryIsSound'
    BY <1>8 DEF ReadBody, RegistryIsSound, TypeOK
  <2>5. CommandersAreKnown'
    BY <1>8 DEF ReadBody, CommandersAreKnown, GreetedAreKnown, TypeOK
  <2>6. ReturnedIsQuiet'
    BY <1>8 DEF ReadBody, ReturnedIsQuiet, IoFree, Pending
  <2> QED
    BY <1>8, <2>1, <2>2, <2>3, <2>4, <2>5, <2>6 DEF ReadBody, MapsAreFunctions, UnservedNeedFull,
       SnapshotIsFirst
<1>9. ASSUME NEW c \in Conns, ReadFails(c) PROVE IInv'
  <2>1. TypeOK'
    BY <1>9 DEF ReadFails, TypeOK, RemoveSession, Stages
  <2>2. MapsAreFunctions'
    BY <1>9 DEF ReadFails, MapsAreFunctions, RemoveSession
  <2>3. GreetedAreKnown'
    BY <1>9 DEF ReadFails, GreetedAreKnown, TypeOK
  <2>4. HandlingIsGreeted'
    BY <1>9 DEF ReadFails, HandlingIsGreeted, IoFree
  <2>5. RegistryIsSound'
    BY <1>9 DEF ReadFails, RegistryIsSound, TypeOK, RemoveSession, IoFree
  <2>6. ReturnedIsQuiet'
    BY <1>9 DEF ReadFails, ReturnedIsQuiet, IoFree, Pending
  <2> QED
    BY <1>9, <2>1, <2>2, <2>3, <2>4, <2>5, <2>6 DEF ReadFails, UnservedNeedFull, SnapshotIsFirst,
       CommandersAreKnown
<1>10. ASSUME NEW c \in Conns, StatsWritten(c) PROVE IInv'
  <2>1. TypeOK'
    BY <1>10 DEF StatsWritten, TypeOK
  <2> QED
    BY <1>10, <2>1 DEF StatsWritten, MapsAreFunctions, GreetedAreKnown, HandlingIsGreeted,
       RegistryIsSound, UnservedNeedFull, SnapshotIsFirst, CommandersAreKnown, ReturnedIsQuiet, Pending
<1>11. CASE AcceptAborted
  <2>1. TypeOK'
    BY <1>11 DEF AcceptAborted, TypeOK
  <2>2. ReturnedIsQuiet'
    BY <1>11 DEF AcceptAborted, ReturnedIsQuiet, IoFree, Pending
  <2> QED
    BY <1>11, <2>1, <2>2 DEF AcceptAborted, MapsAreFunctions, GreetedAreKnown, HandlingIsGreeted,
       RegistryIsSound, UnservedNeedFull, SnapshotIsFirst, CommandersAreKnown
<1>12. CASE Register
  <2>1. TypeOK'
    <3>1. handling \in Conns /\ player[handling] \in Players
      BY <1>12 DEF Register, HandlingIsGreeted, TypeOK
    <3>2. \A f \in {sessions', endpoints'} : DOMAIN f \subseteq Players /\ \A p \in DOMAIN f : f[p] \in Conns
      BY <1>12, <3>1 DEF Register, TypeOK
    <3>3. stage' \in [Conns -> Stages] /\ io' \in {"runs", "died"}
      BY <1>12 DEF Register, TypeOK, Stages
    <3> QED BY <1>12, <3>2, <3>3 DEF Register, TypeOK
  <2>2. MapsAreFunctions'
    BY <1>12 DEF Register, MapsAreFunctions
  <2>3. GreetedAreKnown'
    BY <1>12 DEF Register, GreetedAreKnown, HandlingIsGreeted, TypeOK
  <2>4. HandlingIsGreeted'
    BY <1>12 DEF Register, HandlingIsGreeted
  <2>5. RegistryIsSound'
    BY <1>12 DEF Register, RegistryIsSound, HandlingIsGreeted, TypeOK, EndpointThrows
  <2>6. ReturnedIsQuiet'
    BY <1>12 DEF Register, ReturnedIsQuiet, Pending
  <2> QED
    BY <1>12, <2>1, <2>2, <2>3, <2>4, <2>5, <2>6 DEF Register, UnservedNeedFull, SnapshotIsFirst,
       CommandersAreKnown
<1>13. CASE StatsBegin
  <2>1. TypeOK'
    BY <1>13 DEF StatsBegin, TypeOK
  <2> QED
    BY <1>13, <2>1 DEF StatsBegin, MapsAreFunctions, GreetedAreKnown, HandlingIsGreeted,
       RegistryIsSound, UnservedNeedFull, SnapshotIsFirst, CommandersAreKnown, ReturnedIsQuiet, Pending
<1>14. CASE RunReturns
  <2>1. TypeOK'
    BY <1>14 DEF RunReturns, TypeOK
  <2>2. RegistryIsSound'
    BY <1>14 DEF RunReturns, RegistryIsSound, IoFree
  <2>3. ReturnedIsQuiet'
    BY <1>14 DEF RunReturns, ReturnedIsQuiet, Pending
  <2> QED
    BY <1>14, <2>1, <2>2, <2>3 DEF RunReturns, MapsAreFunctions, GreetedAreKnown,
       HandlingIsGreeted, UnservedNeedFull, SnapshotIsFirst, CommandersAreKnown
<1>15. CASE Broadcast
  <2>1. TypeOK'
    BY <1>15 DEF Broadcast, TypeOK, ServedFull
  <2>2. UnservedNeedFull'
    BY <1>15 DEF Broadcast, UnservedNeedFull, TypeOK, RegistryIsSound, IoFree, ServedFull,
       Addressees
  <2>3. SnapshotIsFirst'
    BY <1>15 DEF Broadcast, SnapshotIsFirst, TypeOK, RegistryIsSound, UnservedNeedFull, IoFree,
       ServedFull, Addressees
  <2> QED
    BY <1>15, <2>1, <2>2, <2>3 DEF Broadcast, MapsAreFunctions, GreetedAreKnown, HandlingIsGreeted,
       RegistryIsSound, CommandersAreKnown, ReturnedIsQuiet, Pending
<1>16. CASE StopBegins
  <2>1. TypeOK'
    BY <1>16 DEF StopBegins, TypeOK, Stages
  <2>2. GreetedAreKnown'
    BY <1>16 DEF StopBegins, GreetedAreKnown, TypeOK
  <2>3. HandlingIsGreeted'
    BY <1>16 DEF StopBegins, HandlingIsGreeted, TypeOK
  <2>4. RegistryIsSound'
    BY <1>16 DEF StopBegins, RegistryIsSound, TypeOK
  <2>5. ReturnedIsQuiet'
    BY <1>16 DEF StopBegins, ReturnedIsQuiet, TypeOK, Pending
  <2> QED
    BY <1>16, <2>1, <2>2, <2>3, <2>4, <2>5 DEF StopBegins, MapsAreFunctions, UnservedNeedFull,
       SnapshotIsFirst, CommandersAreKnown
<1>17. CASE StopClears
  <2>1. TypeOK'
    BY <1>17 DEF StopClears, TypeOK, NoSessions
  <2>2. MapsAreFunctions'
    BY <1>17 DEF StopClears, MapsAreFunctions, NoSessions
  <2>3. RegistryIsSound'
    BY <1>17 DEF StopClears, RegistryIsSound, NoSessions
  <2> QED
    BY <1>17, <2>1, <2>2, <2>3 DEF StopClears, GreetedAreKnown, HandlingIsGreeted,
       UnservedNeedFull, SnapshotIsFirst, CommandersAreKnown, ReturnedIsQuiet, Pending
<1>18. CASE StopJoins
  <2>1. TypeOK'
    BY <1>18 DEF StopJoins, TypeOK
  <2> QED
    BY <1>18, <2>1 DEF StopJoins, MapsAreFunctions, GreetedAreKnown, HandlingIsGreeted,
       RegistryIsSound, UnservedNeedFull, SnapshotIsFirst, CommandersAreKnown, ReturnedIsQuiet, Pending
<1>19. CASE UNCHANGED vars
  BY <1>19 DEF vars, TypeOK, MapsAreFunctions, GreetedAreKnown, HandlingIsGreeted, RegistryIsSound,
     UnservedNeedFull, SnapshotIsFirst, CommandersAreKnown, ReturnedIsQuiet, Pending
<1> QED
  BY <1>1, <1>2, <1>3, <1>4, <1>5, <1>6, <1>7, <1>8, <1>9, <1>10, <1>11, <1>12, <1>13, <1>14,
     <1>15, <1>16, <1>17, <1>18, <1>19 DEF Next, Handler

---------------------------------------------------------------------------
\* The theorems are about the sessions without fairness, and so hold with it.
LEMMA IInvHolds == Spec => []IInv
<1>1. Init => IInv
  BY InitIsSound
<1>2. IInv /\ [Next]_vars => IInv'
  BY StepIsSound
<1> QED BY <1>1, <1>2, PTL DEF Spec

\* The io thread, stop() and the sessions keep their types.
THEOREM TypeCorrect == Spec => []TypeOK
<1>1. IInv => TypeOK
  BY DEF IInv
<1> QED BY <1>1, IInvHolds, PTL

\* Whatever sessions displace each other, and whenever stop() clears the maps,
\* these agree, and lead to sessions that are read and belong to the player.
THEOREM RegistrySound == Spec => []RegistryIsSound
<1>1. IInv => RegistryIsSound
  BY DEF IInv
<1> QED BY <1>1, IInvHolds, PTL

\* The first update that reaches a session serves it a snapshot: what it is
\* sent before any delta is the world, or nothing when no cell lives.
THEOREM SnapshotFirst == Spec => []SnapshotIsFirst
<1>1. IInv => SnapshotIsFirst
  BY DEF IInv
<1> QED BY <1>1, IInvHolds, PTL

\* Commands come from players the add-player callback has been given.
THEOREM KnownCommanders == Spec => []CommandersAreKnown
<1>1. IInv => CommandersAreKnown
  BY DEF IInv
<1> QED BY <1>1, IInvHolds, PTL

\* When stop() has returned no session is registered and no read is pending,
\* unless the io thread died: an entry would lead to a session that is read.
THEOREM StoppedIsQuiet == Spec => []QuietAfterStop
<1>1. IInv => QuietAfterStop
  <2> SUFFICES ASSUME IInv, io = "returned" PROVE sessions = NoSessions /\ Pending = {}
    BY DEF QuietAfterStop
  <2>1. Pending = {}
    BY DEF IInv, ReturnedIsQuiet
  <2>2. \A p \in DOMAIN sessions : sessions[p] \in Pending
    BY DEF IInv, TypeOK, RegistryIsSound, Pending
  <2>3. DOMAIN sessions = {}
    BY <2>1, <2>2
  <2>4. sessions = NoSessions
    BY <2>3 DEF IInv, MapsAreFunctions, NoSessions
  <2> QED BY <2>1, <2>4
<1> QED BY <1>1, IInvHolds, PTL

=============================================================================
