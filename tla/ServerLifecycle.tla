--------------------------- MODULE ServerLifecycle ---------------------------
(***************************************************************************)
(* The life of a GameServer: one thread constructs it, starts and stops it *)
(* any number of times and destroys it; the scheduler's thread ticks, the  *)
(* pool's workers run the tasks of the ticks, the network's io thread runs *)
(* the handlers of the clients' messages and of the updates posted to it.  *)
(*                                                                         *)
(* What a tick computes is GameServer.tla's subject, what a session does   *)
(* that of Sessions.tla: here a tick is its use of the queue, the pool and *)
(* the network, and the network one queue of ready handlers.               *)
(***************************************************************************)
EXTENDS ThreadPool, SequencesExt

CONSTANTS
    MaxQueue,       \* bound on the commands waiting for a tick
    MaxReady        \* bound on the handshakes and updates waiting for the io thread

ASSUME LifecycleAssumption == {MaxQueue, MaxReady} \subseteq Nat

VARIABLES
    owner,          \* where the owner's thread stands in start, stop, ~GameServer
    destroying,     \* the stop under way is the destructor's
    active,         \* GameServer::m_running
    ticking,        \* TickScheduler::m_running
    listening,      \* BoostNetworkManager::m_running
    tick,           \* where the scheduler's thread stands; "none" without one
    round,          \* the round of tasks under way
    chunks, next,   \* the chunks of this tick, and the next to get a task
    queue,          \* how many commands are in m_commandQueue
    io,             \* the io thread: "none", "runs", "returned"
    ready,          \* handshakes and updates in m_ioc, in the order they will run
    greeting,       \* a connection is read that still owes its handshake
    session,        \* one is read that has given it, in the maps or displaced
    thrown,         \* a handler's exception has ended an io thread
    provider        \* m_fullSnapshotProvider is set

ownerVars == <<owner, destroying, active>>
tickVars == <<tick, round, chunks, next>>
clients == <<greeting, session>>
netVars == <<listening, io, ready, clients, thrown>>
vars == <<poolVars, ownerVars, ticking, tickVars, queue, netVars, provider>>

InStart == {"network", "provide", "refresh", "schedule"}
InStop == {"unschedule", "joinTick", "close", "joinIo"}
InDestructor == {"free", "shutdown", "notify", "joinPool"}
TickStages == {"check", "drain", "enqueue", "notify", "wait", "rest", "sleep"}
Handlers == {"hello", "update"}

Init ==
    /\ PoolInit
    /\ owner = "idle" /\ destroying = FALSE /\ active = FALSE
    /\ ticking = FALSE /\ tick = "none" /\ round = "none" /\ chunks = 0 /\ next = 1
    /\ queue = 0
    /\ listening = FALSE /\ io = "none" /\ ready = <<>>
    /\ greeting = FALSE /\ session = FALSE /\ thrown = FALSE
    /\ provider = FALSE

---------------------------------------------------------------------------
\* GameServer::start.

Start ==
    /\ owner = "idle" /\ ~active
    /\ active' = TRUE /\ owner' = "network"
    /\ UNCHANGED <<poolVars, destroying, ticking, tickVars, queue, netVars, provider>>

\* Mistaken variant: the ticks start with no snapshot to serve.
StartNetworkOnly ==
    /\ owner = "network"
    /\ listening' = TRUE /\ io' = "runs"
    /\ owner' = "schedule"
    /\ UNCHANGED <<poolVars, destroying, active, ticking, tickVars, queue, ready, clients, thrown, provider>>

\* BoostNetworkManager::start: a port may be taken, which is only logged.
\* What an earlier life has left in m_ioc is resumed.
StartNetwork ==
    /\ owner = "network"
    /\ \/ listening' = TRUE /\ io' = "runs"
       \/ UNCHANGED <<listening, io>>
    /\ owner' = "provide"
    /\ UNCHANGED <<poolVars, destroying, active, ticking, tickVars, queue, ready, clients, thrown, provider>>

SetProvider ==
    /\ owner = "provide"
    /\ provider' = TRUE /\ owner' = "refresh"
    /\ UNCHANGED <<poolVars, destroying, active, ticking, tickVars, queue, netVars>>

\* The owner's thread serialises the world.
RefreshCache ==
    /\ owner = "refresh"
    /\ owner' = "schedule"
    /\ UNCHANGED <<poolVars, destroying, active, ticking, tickVars, queue, netVars, provider>>

StartScheduler ==
    /\ owner = "schedule"
    /\ ticking' = TRUE /\ tick' = "check" /\ owner' = "idle"
    /\ UNCHANGED <<poolVars, destroying, active, round, chunks, next, queue, netVars, provider>>

---------------------------------------------------------------------------
\* GameServer::stop, and ~GameServer, which begins with it.

Stop ==
    /\ owner = "idle" /\ active
    /\ active' = FALSE /\ owner' = "unschedule"
    /\ UNCHANGED <<poolVars, destroying, ticking, tickVars, queue, netVars, provider>>

Destroy ==
    /\ owner = "idle"
    /\ destroying' = TRUE
    /\ active' = FALSE /\ owner' = IF active THEN "unschedule" ELSE "free"
    /\ UNCHANGED <<poolVars, ticking, tickVars, queue, netVars, provider>>

StopScheduler ==
    /\ owner = "unschedule"
    /\ ticking' = FALSE /\ owner' = "joinTick"
    /\ UNCHANGED <<poolVars, destroying, active, tickVars, queue, netVars, provider>>

\* Mistaken variant: the thread is left to end by itself.
DetachTick ==
    /\ owner = "joinTick"
    /\ owner' = "close"
    /\ UNCHANGED <<poolVars, destroying, active, ticking, tickVars, queue, netVars, provider>>

JoinTick ==
    /\ owner = "joinTick" /\ tick = "ended"
    /\ tick' = "none" /\ owner' = "close"
    /\ UNCHANGED <<poolVars, destroying, active, ticking, round, chunks, next, queue, netVars, provider>>

Stopped == IF destroying THEN "free" ELSE "idle"

\* BoostNetworkManager::stop up to the join: nothing if it never started.  The
\* sockets in the maps are closed, those of displaced sessions stay open.
CloseNetwork ==
    /\ owner = "close"
    /\ listening' = FALSE
    /\ session' \in {session, session /\ ~listening}
    /\ owner' = IF listening THEN "joinIo" ELSE Stopped
    /\ UNCHANGED <<poolVars, destroying, active, ticking, tickVars, queue, io, ready, greeting, thrown, provider>>

JoinIo ==
    /\ owner = "joinIo" /\ io = "returned"
    /\ io' = "none" /\ owner' = Stopped
    /\ UNCHANGED <<poolVars, destroying, active, ticking, tickVars, queue, listening, ready, clients, thrown, provider>>

\* The members declared after the pool go before it does: the queue, the
\* scheduler, the balances and the world.
FreeGame ==
    /\ owner = "free"
    /\ owner' = "shutdown"
    /\ UNCHANGED <<poolVars, destroying, active, ticking, tickVars, queue, netVars, provider>>

StopPool ==
    /\ owner = "shutdown"
    /\ BeginShutdown
    /\ owner' = "notify"
    /\ UNCHANGED <<destroying, active, ticking, tickVars, queue, netVars, provider>>

NotifyPool ==
    /\ owner = "notify"
    /\ NotifyAll
    /\ owner' = "joinPool"
    /\ UNCHANGED <<destroying, active, ticking, tickVars, queue, netVars, provider>>

\* The last member is the network manager, which has been stopped.
JoinPool ==
    /\ owner = "joinPool" /\ AllJoined
    /\ owner' = "gone"
    /\ UNCHANGED <<poolVars, destroying, active, ticking, tickVars, queue, netVars, provider>>

\* The steps inside a call.
OwnerStep ==
    \/ StartNetwork \/ SetProvider \/ RefreshCache \/ StartScheduler
    \/ StopScheduler \/ JoinTick \/ CloseNetwork \/ JoinIo
    \/ FreeGame \/ StopPool \/ NotifyPool \/ JoinPool

---------------------------------------------------------------------------
\* The scheduler's thread: runLoop, and onTick as far as others notice it.

CheckTicking ==
    /\ tick = "check"
    /\ tick' = IF ticking THEN "drain" ELSE "ended"
    /\ UNCHANGED <<poolVars, ownerVars, ticking, round, chunks, next, queue, netVars, provider>>

TryPop ==
    /\ tick = "drain" /\ queue > 0
    /\ queue' = queue - 1
    /\ UNCHANGED <<poolVars, ownerVars, ticking, tickVars, netVars, provider>>

\* Mistaken variant: chunks are counted from zero.
PrepareChunksFromZero ==
    /\ tick = "drain" /\ queue = 0
    /\ tick' = "enqueue" /\ round' = "calculate" /\ next' = 0 /\ done' = {}
    /\ chunks' \in 0 .. MaxChunks
    /\ UNCHANGED <<tasks, worker, running, stopping, ownerVars, ticking, queue, netVars, provider>>

\* tryPop fails; the borders are exchanged and the chunks listed.
PrepareChunks ==
    /\ tick = "drain" /\ queue = 0
    /\ tick' = "enqueue" /\ round' = "calculate" /\ next' = 1 /\ done' = {}
    /\ chunks' \in 0 .. MaxChunks
    /\ UNCHANGED <<tasks, worker, running, stopping, ownerVars, ticking, queue, netVars, provider>>

EnqueueTask ==
    /\ tick = "enqueue" /\ next <= chunks
    /\ Push(next)
    /\ tick' = "notify"
    /\ UNCHANGED <<ownerVars, ticking, round, chunks, next, queue, netVars, provider>>

NotifyWorker ==
    /\ tick = "notify"
    /\ NotifyOne
    /\ tick' = "enqueue" /\ next' = next + 1
    /\ UNCHANGED <<ownerVars, ticking, round, chunks, queue, netVars, provider>>

EndEnqueue ==
    /\ tick = "enqueue" /\ next > chunks
    /\ tick' = "wait"
    /\ UNCHANGED <<poolVars, ownerVars, ticking, round, chunks, next, queue, netVars, provider>>

\* Mistaken variant: only the last future is waited for.
LastFutureReady == chunks > 0 => chunks \in done

FuturesReady == 1 .. chunks \subseteq done

CalculateDone ==
    /\ tick = "wait" /\ round = "calculate" /\ FuturesReady
    /\ tick' = "enqueue" /\ round' = "swap" /\ next' = 1 /\ done' = {}
    /\ UNCHANGED <<tasks, worker, running, stopping, ownerVars, ticking, chunks, queue, netVars, provider>>

SwapDone ==
    /\ tick = "wait" /\ round = "swap" /\ FuturesReady
    /\ tick' = "rest" /\ round' = "none"
    /\ UNCHANGED <<poolVars, ownerVars, ticking, chunks, next, queue, netVars, provider>>

\* The edits, the income and the snapshot; then what changed is posted to the
\* io thread, also when there is none.  Beyond MaxReady one update more makes
\* no difference.
FinishTick ==
    /\ tick = "rest"
    /\ tick' = "sleep"
    /\ ready' \in {ready, IF Len(ready) < MaxReady THEN Append(ready, "update") ELSE ready}
    /\ UNCHANGED <<poolVars, ownerVars, ticking, round, chunks, next, queue, listening, io, clients, thrown, provider>>

\* sleep_until returns, with the next tick due or overdue.
WakeUp ==
    /\ tick = "sleep"
    /\ tick' = "check"
    /\ UNCHANGED <<poolVars, ownerVars, ticking, round, chunks, next, queue, netVars, provider>>

TickStep ==
    \/ CheckTicking \/ TryPop \/ PrepareChunks \/ EnqueueTask \/ NotifyWorker
    \/ EndEnqueue \/ CalculateDone \/ SwapDone \/ FinishTick \/ WakeUp

---------------------------------------------------------------------------
\* The workers.
poolOnly == <<ownerVars, ticking, tickVars, queue, netVars, provider>>
Work(w) == (Look(w) \/ Run(w)) /\ UNCHANGED poolOnly
Stir(w) == WakeSpuriously(w) /\ UNCHANGED poolOnly

---------------------------------------------------------------------------
\* The network.

\* doAccept's handler: the connection is read before it is in any map.
Accept ==
    /\ io = "runs" /\ listening
    /\ greeting' = TRUE
    /\ UNCHANGED <<poolVars, ownerVars, ticking, tickVars, queue, listening, io, ready, session, thrown, provider>>

\* A connection's handshake has arrived, the io thread finds it and queues its
\* handler.  Others may still owe theirs.
Arrive ==
    /\ io = "runs" /\ greeting /\ Len(ready) < MaxReady
    /\ ready' = Append(ready, "hello")
    /\ greeting' \in BOOLEAN
    /\ UNCHANGED <<poolVars, ownerVars, ticking, tickVars, queue, listening, io, session, thrown, provider>>

\* A session's command has arrived and is pushed by onCommandsFromNetwork.  Its
\* place among the other handlers makes no difference.
Command ==
    /\ io = "runs" /\ session /\ queue < MaxQueue
    /\ queue' = queue + 1
    /\ UNCHANGED <<poolVars, ownerVars, ticking, tickVars, netVars, provider>>

\* run() runs the next of these: a handshake registers a session, an update is
\* sent to the sessions.
Handle ==
    /\ io = "runs" /\ ready # <<>>
    /\ ready' = Tail(ready)
    /\ session' = (session \/ Head(ready) = "hello")
    /\ UNCHANGED <<poolVars, ownerVars, ticking, tickVars, queue, listening, io, greeting, thrown, provider>>

\* remote_endpoint() throws in the handler of an accept or of a handshake, whose
\* session is not read then.  run() ends with whatever m_ioc still holds, and
\* the thread with its catch.
HandlerThrows ==
    /\ io = "runs"
    /\ \/ listening /\ UNCHANGED ready
       \/ ready # <<>> /\ Head(ready) = "hello" /\ ready' = Tail(ready)
    /\ io' = "returned" /\ thrown' = TRUE
    /\ UNCHANGED <<poolVars, ownerVars, ticking, tickVars, queue, listening, clients, provider>>

\* The clients have gone and the entries of their players are removed.
SessionsEnd ==
    /\ io = "runs" /\ session
    /\ session' = FALSE
    /\ UNCHANGED <<poolVars, ownerVars, ticking, tickVars, queue, listening, io, ready, greeting, thrown, provider>>

\* So have those that owed a handshake, or theirs was not one.
GreetingsEnd ==
    /\ io = "runs" /\ greeting
    /\ greeting' = FALSE
    /\ UNCHANGED <<poolVars, ownerVars, ticking, tickVars, queue, listening, io, ready, session, thrown, provider>>

\* run() returns once the work guard is released and nothing is left to do.
RunReturns ==
    /\ io = "runs" /\ ~listening /\ ready = <<>> /\ ~greeting /\ ~session
    /\ io' = "returned"
    /\ UNCHANGED <<poolVars, ownerVars, ticking, tickVars, queue, listening, ready, clients, thrown, provider>>

NetworkStep ==
    \/ Accept \/ Arrive \/ Command \/ Handle \/ HandlerThrows
    \/ SessionsEnd \/ GreetingsEnd \/ RunReturns

---------------------------------------------------------------------------
Gone == owner = "gone" /\ UNCHANGED vars

Next ==
    \/ Start \/ Stop \/ Destroy \/ OwnerStep
    \/ TickStep
    \/ \E w \in Workers : Work(w) \/ Stir(w)
    \/ NetworkStep
    \/ Gone

\* Threads that can run do; the clients of a server that is being stopped
\* leave some day, as Sessions.tla explains.
Fairness ==
    /\ WF_vars(OwnerStep) /\ WF_vars(TickStep)
    /\ \A w \in Workers : WF_vars(Work(w))
    /\ WF_vars(Handle) /\ WF_vars(RunReturns)
    /\ WF_vars(SessionsEnd /\ ~listening) /\ WF_vars(GreetingsEnd /\ ~listening)

Spec == Init /\ [][Next]_vars
FairSpec == Spec /\ Fairness

---------------------------------------------------------------------------
\* Properties.

TypeOK ==
    /\ PoolTypeOK
    /\ owner \in {"idle", "gone"} \cup InStart \cup InStop \cup InDestructor
    /\ {destroying, active, ticking, listening, greeting, session, thrown, provider} \subseteq BOOLEAN
    /\ tick \in {"none", "ended"} \cup TickStages
    /\ round \in {"none", "calculate", "swap"}
    /\ chunks \in 0 .. MaxChunks /\ next \in 1 .. MaxChunks + 1
    /\ queue \in Nat
    /\ io \in {"none", "runs", "returned"}
    /\ ready \in Seq(Handlers)

\* When stop() has returned, and from the moment the destructor frees the
\* queue, the balances and the world (GameServer.hpp:69-75), no thread is
\* left that would touch them or that a second start() would overwrite, and
\* no task is left in the pool that outlives them.
NothingOutlives ==
    (owner = "idle" /\ ~active) \/ owner \in InDestructor \cup {"network", "gone"} =>
        tick = "none" /\ io = "none" /\ PoolIsQuiet

\* The owner's thread reads the world and sets the snapshot provider without
\* a lock.  No tick is under way then, and no update finds a session, which
\* could ask for a snapshot, before there is a provider.  While it is being
\* set no update finds one either, unless an io thread was ended by an
\* exception: what that left in m_ioc may meet the setting of a second start.
StartIsUndisturbed ==
    /\ owner \in {"provide", "refresh"} => tick = "none"
    /\ io = "runs" /\ ready # <<>> /\ Head(ready) = "update" /\ session =>
        provider /\ (owner = "provide" => thrown)

\* A task waits only while every worker has something else to do: as long as
\* a worker sleeps, there are no more tasks than workers that have been woken
\* or are about to be.  And no worker sleeps through the end of the pool.
NoTaskWaitsForASleeper ==
    Those("asleep") # {} =>
        /\ Len(tasks) <= Cardinality(Those("looks")) + (IF tick = "notify" THEN 1 ELSE 0)
        /\ stopping => owner = "notify"

\* The enqueueing one by one, the wake-ups and the futures make of each round
\* what TaskRounds.tla says; the tasks still to be enqueued count as given.
StillToEnqueue ==
    CASE tick = "enqueue" -> next .. chunks
      [] tick = "notify" -> next + 1 .. chunks
      [] OTHER -> {}
Rounds == INSTANCE TaskRounds WITH
    size <- chunks, pool <- ToSet(tasks) \cup StillToEnqueue
ImplementsTaskRounds == Rounds!Spec

\* Clients send commands so fast that the drain of a tick never ends.
Flooded == <>[](tick = "drain") /\ []<>(queue > 0)

\* A server that is not stopped ticks for ever, also when its network did not
\* start: only a flood of commands can keep it from that.
TicksGoOn == <>[]ticking => []<>(tick = "sleep") \/ Flooded

\* start(), stop() and the destructor return: the flag is seen by the next
\* tick, every worker by the shutdown.  But a stop() waits for the tick
\* before it closes the network, so a flood holds it up as well.
CallsReturn == Flooded \/ (owner \notin {"idle", "gone"} ~> owner \in {"idle", "gone"})
=============================================================================
