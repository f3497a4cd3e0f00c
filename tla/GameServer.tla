----------------------------- MODULE GameServer -----------------------------
(***************************************************************************)
(* One tick of the server (GameServer::onTick, server/src/GameServer.cpp)  *)
(* and the threads around it: the scheduler's thread runs the tick, the    *)
(* workers of the thread pool compute and swap chunks in parallel, and the *)
(* network's io thread adds players and pushes commands at any moment.     *)
(*                                                                         *)
(* How the pool wakes its workers, and how the threads begin and end, is   *)
(* ServerLifecycle.tla's subject: it shows that the rounds of tasks are    *)
(* those taken for granted here.                                           *)
(***************************************************************************)
EXTENDS World, Sequences

CONSTANTS
    Workers,        \* threads of the pool
    Requests,       \* bursts of commands of one player that clients may send
    MaxTicks,       \* bound on the ticks of a behaviour
    MaxRequests,    \* bound on the requests received
    MaxJoins        \* bound on the handshakes completed

ASSUME GameServerAssumption ==
    /\ Workers # {}
    /\ Requests \subseteq Seq(Command) \ {<<>>}
    /\ {MaxTicks, MaxRequests, MaxJoins} \subseteq Nat

VARIABLES
    world,          \* m_world: chunk coordinates -> chunk
    balance,        \* m_resourceManager
    arriving,       \* commands onCommandsFromNetwork has still to push
    queue,          \* m_commandQueue
    seq,            \* m_broadcastSeq
    phase,          \* where the scheduler's thread stands in onTick
    batch,          \* the commands drained by this tick and not yet applied
    pool,           \* tasks in the thread pool that no worker has taken
    running,        \* the task each worker executes, or Idle
    counts,         \* totalCounts
    cache,          \* m_cachedFullSnapshot
    stats,          \* the last ServerStats message
    mirror,         \* a reader that applies every delta, in order and once
    pushed,         \* every command pushed so far, in order
    applied,        \* how many of them applyCommands has gone through
    requests, joins \* how many there have been

poolVars == <<pool, running>>
outVars == <<cache, stats, mirror>>
logVars == <<pushed, applied>>
ioVars == <<requests, joins>>
vars == <<world, balance, arriving, queue, seq, phase, batch, poolVars, counts, outVars, logVars, ioVars>>

Idle == << >>                   \* no task
Phases == {"idle", "drain", "calculate", "swap", "apply", "award", "refresh", "broadcast", "stats"}

---------------------------------------------------------------------------
\* What the tick computes from the world.

\* Live cells with an owner, summed over the chunks.
LiveCellsOf(w, p) ==
    {x \in (DOMAIN w) \X Inner : LET cell == GetCell(w[x[1]], x[2]) IN cell.alive /\ cell.owner = p}
LiveCounts(w) ==
    [p \in {q \in Players \ {NoOwner} : LiveCellsOf(w, q) # {}} |-> Cardinality(LiveCellsOf(w, p))]

\* Mistaken variant: the snapshot reads buffer 0, whichever is current.
FullSnapshotOfBufferZero(w) ==
    LET first == [c \in DOMAIN w |-> [w[c] EXCEPT !.cur = 0]] IN
    [c \in {d \in DOMAIN w : HasLiveCells(first[d])} |->
        [l \in {m \in Inner : GetCell(first[c], m).alive} |-> GetCell(first[c], l).owner]]

\* WorldSerializer::serializeFull: live cells; a chunk without any is not there.
FullSnapshot(w) ==
    [c \in {d \in DOMAIN w : HasLiveCells(w[d])} |->
        [l \in {m \in Inner : GetCell(w[c], m).alive} |-> GetCell(w[c], l).owner]]

\* Mistaken variant: the delta reads the buffer that is not current.
DeltaOfOtherBuffer(w) ==
    [c \in {d \in DOMAIN w : w[d].dirty # {}} |-> [l \in w[c].dirty |-> GetCell(SwapBuffers(w[c]), l)]]

\* WorldSerializer::serializeDelta: the current value of each dirty cell.
Delta(w) == [c \in {d \in DOMAIN w : w[d].dirty # {}} |-> [l \in w[c].dirty |-> GetCell(w[c], l)]]

View(c, l) == IF c \in DOMAIN mirror THEN mirror[c][l] ELSE Dead

---------------------------------------------------------------------------
Init ==
    /\ world = EmptyWorld
    /\ balance = [p \in {} |-> 0]
    /\ arriving = <<>> /\ queue = <<>> /\ batch = <<>>
    /\ seq = 0
    /\ phase = "idle"
    /\ pool = {} /\ running = [w \in Workers |-> Idle]
    /\ counts = [p \in {} |-> 0]
    /\ cache = FullSnapshot(EmptyWorld)
    /\ stats = [generation |-> 0, live |-> counts, balance |-> balance]
    /\ mirror = [c \in {} |-> [l \in Inner |-> Dead]]
    /\ pushed = <<>> /\ applied = 0
    /\ requests = 0 /\ joins = 0

---------------------------------------------------------------------------
\* The io thread.

\* A handshake: main.cpp's callback adds the player, again if it was there.
Join(p) ==
    /\ joins < MaxJoins
    /\ joins' = joins + 1
    /\ balance' = AddPlayer(balance, p)
    /\ UNCHANGED <<world, arriving, queue, seq, phase, batch, poolVars, counts, outVars, logVars, requests>>

\* A player whose session is up sends commands.  BoostNetworkManager calls
\* back with one at a time, the interface takes any number.
Receive(request) ==
    /\ arriving = <<>>
    /\ requests < MaxRequests /\ seq < MaxTicks
    /\ Head(request).player \in DOMAIN balance
    /\ requests' = requests + 1
    /\ arriving' = request
    /\ UNCHANGED <<world, balance, queue, seq, phase, batch, poolVars, counts, outVars, logVars, joins>>

\* One iteration of onCommandsFromNetwork's loop: the queue's lock is taken
\* for each command, so a tick may drain part of a burst.
PushCommand ==
    /\ arriving # <<>>
    /\ seq < MaxTicks
    /\ queue' = Append(queue, Head(arriving))
    /\ arriving' = Tail(arriving)
    /\ pushed' = Append(pushed, Head(arriving))
    /\ UNCHANGED <<world, balance, seq, phase, batch, poolVars, counts, outVars, applied, ioVars>>

---------------------------------------------------------------------------
\* The scheduler's thread: onTick from top to bottom.

StartTick ==
    /\ phase = "idle" /\ seq < MaxTicks
    /\ seq' = seq + 1
    /\ phase' = "drain"
    /\ batch' = <<>>
    /\ UNCHANGED <<world, balance, arriving, queue, poolVars, counts, outVars, logVars, ioVars>>

\* Mistaken variant: the newest command first.
TryPopNewest ==
    /\ phase = "drain" /\ queue # <<>>
    /\ batch' = Append(batch, queue[Len(queue)])
    /\ queue' = SubSeq(queue, 1, Len(queue) - 1)
    /\ UNCHANGED <<world, balance, arriving, seq, phase, poolVars, counts, outVars, logVars, ioVars>>

TryPop ==
    /\ phase = "drain" /\ queue # <<>>
    /\ batch' = Append(batch, Head(queue))
    /\ queue' = Tail(queue)
    /\ UNCHANGED <<world, balance, arriving, seq, phase, poolVars, counts, outVars, logVars, ioVars>>

\* tryPop fails, exchangeBorders and allChunks follow, and a calculateNext
\* is enqueued for every chunk.
PrepareChunks ==
    /\ phase = "drain" /\ queue = <<>>
    /\ world' = ExchangeBorders(world)
    /\ pool' = {<<"calculate", c>> : c \in DOMAIN world'}
    /\ phase' = "calculate"
    /\ UNCHANGED <<balance, arriving, queue, seq, batch, running, counts, outVars, logVars, ioVars>>

\* Mistaken variant: a task that has begun counts as done.
AllTaken == pool = {}

\* Every future is ready: no task waits in the pool or runs.
FuturesReady == pool = {} /\ \A w \in Workers : running[w] = Idle

CalculateDone ==
    /\ phase = "calculate" /\ FuturesReady
    /\ pool' = {<<"swap", c>> : c \in DOMAIN world}
    /\ phase' = "swap"
    /\ UNCHANGED <<world, balance, arriving, queue, seq, batch, running, counts, outVars, logVars, ioVars>>

SwapDone ==
    /\ phase = "swap" /\ FuturesReady
    /\ phase' = "apply"
    /\ UNCHANGED <<world, balance, arriving, queue, seq, batch, poolVars, counts, outVars, logVars, ioVars>>

\* One command of applyCommands; a join may come between two of them.
ApplyCommand ==
    /\ phase = "apply" /\ batch # <<>>
    /\ world' = ApplyToWorld(world, balance, Head(batch))
    /\ balance' = ApplyToBalance(world, balance, Head(batch))
    /\ batch' = Tail(batch)
    /\ applied' = applied + 1
    /\ UNCHANGED <<arriving, queue, seq, phase, poolVars, counts, outVars, pushed, ioVars>>

CountLiveCells ==
    /\ phase = "apply" /\ batch = <<>>
    /\ counts' = LiveCounts(world)
    /\ phase' = "award"
    /\ UNCHANGED <<world, balance, arriving, queue, seq, batch, poolVars, outVars, logVars, ioVars>>

AwardIncome ==
    /\ phase = "award"
    /\ balance' = AwardFromLiveCounts(balance, counts)
    /\ phase' = "refresh"
    /\ UNCHANGED <<world, arriving, queue, seq, batch, poolVars, counts, outVars, logVars, ioVars>>

RefreshFullSnapshotCache ==
    /\ phase = "refresh"
    /\ cache' = FullSnapshot(world)
    /\ phase' = "broadcast"
    /\ UNCHANGED <<world, balance, arriving, queue, seq, batch, poolVars, counts, stats, mirror, logVars, ioVars>>

\* serializeDelta clears the dirty lists; the mirror applies the delta.
BroadcastDelta ==
    /\ phase = "broadcast"
    /\ LET delta == Delta(world) IN
       mirror' = [c \in DOMAIN mirror \cup DOMAIN delta |-> [l \in Inner |->
                    IF c \in DOMAIN delta /\ l \in DOMAIN delta[c] THEN delta[c][l] ELSE View(c, l)]]
    /\ world' = [c \in DOMAIN world |-> ClearDirty(world[c])]
    /\ phase' = "stats"
    /\ UNCHANGED <<balance, arriving, queue, seq, batch, poolVars, counts, cache, stats, logVars, ioVars>>

BroadcastStats ==
    /\ phase = "stats"
    /\ stats' = [generation |-> seq, live |-> counts, balance |-> balance]
    /\ phase' = "idle"
    /\ UNCHANGED <<world, balance, arriving, queue, seq, batch, poolVars, counts, cache, mirror, logVars, ioVars>>

Tick ==
    \/ StartTick \/ TryPop \/ PrepareChunks \/ CalculateDone \/ SwapDone
    \/ ApplyCommand \/ CountLiveCells \/ AwardIncome
    \/ RefreshFullSnapshotCache \/ BroadcastDelta \/ BroadcastStats

---------------------------------------------------------------------------
\* The workers: workerLoop takes a task and runs it outside the pool's lock.
\* Tasks leave in the order of the map of chunks, some fixed order; each
\* touches its own chunk only.

TakeTask(w) ==
    /\ running[w] = Idle /\ pool # {}
    /\ LET task == CHOOSE t \in pool : TRUE
       IN  running' = [running EXCEPT ![w] = task] /\ pool' = pool \ {task}
    /\ UNCHANGED <<world, balance, arriving, queue, seq, phase, batch, counts, outVars, logVars, ioVars>>

RunTask(w) ==
    /\ running[w] # Idle
    /\ LET task == running[w] IN
       world' = [world EXCEPT ![task[2]] =
                    IF task[1] = "calculate" THEN CalculateNext(world[task[2]])
                    ELSE SwapBuffers(world[task[2]])]
    /\ running' = [running EXCEPT ![w] = Idle]
    /\ UNCHANGED <<balance, arriving, queue, seq, phase, batch, pool, counts, outVars, logVars, ioVars>>

Work(w) == TakeTask(w) \/ RunTask(w)

---------------------------------------------------------------------------
\* The bound on ticks is reached and nothing is under way.
Finished ==
    /\ phase = "idle" /\ seq = MaxTicks
    /\ UNCHANGED vars

Next ==
    \/ \E p \in Players : Join(p)
    \/ \E r \in Requests : Receive(r)
    \/ PushCommand
    \/ Tick
    \/ \E w \in Workers : Work(w)
    \/ Finished

Spec == Init /\ [][Next]_vars

---------------------------------------------------------------------------
\* Properties.

TypeOK ==
    /\ DOMAIN world \subseteq Coord
    /\ \A c \in DOMAIN world : world[c] \in ChunkType
    /\ DOMAIN balance \subseteq Players
    /\ \A p \in DOMAIN balance : balance[p] \in Nat
    /\ {arriving, queue, batch, pushed} \subseteq Seq(Command)
    /\ applied \in Nat
    /\ seq \in 0 .. MaxTicks
    /\ phase \in Phases
    /\ pool \subseteq {"calculate", "swap"} \X (DOMAIN world)
    /\ running \in [Workers -> {Idle} \cup ({"calculate", "swap"} \X (DOMAIN world))]
    /\ DOMAIN counts \subseteq Players /\ \A p \in DOMAIN counts : counts[p] \in Nat
    /\ DOMAIN mirror \subseteq DOMAIN world
    /\ \A c \in DOMAIN mirror : mirror[c] \in [Inner -> Cell]

\* A cell has an owner exactly if it is alive, in both buffers and in the
\* ghost border: what NextOwner's `owner != 0` filter, applyCommands' test of
\* `owner == 0` for an empty cell and Types.hpp:13 take for granted.
OwnedIffAlive ==
    \A c \in DOMAIN world : \A b \in {0, 1} : \A s \in Storage :
        LET cell == world[c].buf[b][s] IN cell.alive <=> cell.owner # NoOwner

\* A reader that applied every delta sees each cell as it is, unless the cell
\* is dirty and will be in the next delta: no birth, death or edit is ever
\* lost to the incremental updates.  Nothing is said while the chunks are
\* swapped, some before and some after the others; the proof has what holds
\* then (CoverInv of GameServerProofs.tla).
DeltaCoversChanges ==
    phase # "swap" =>
        \A c \in DOMAIN world : \A l \in Inner :
            GetCell(world[c], l) # View(c, l) => l \in world[c].dirty

\* Between ticks the cached full snapshot, the deltas sent so far and the
\* statistics describe the same world, the one the last tick left.
OutputsAgree ==
    phase = "idle" =>
        /\ cache = FullSnapshot(world)
        /\ stats.live = LiveCounts(world) /\ stats.generation = seq
        /\ \A c \in DOMAIN world : \A l \in Inner : View(c, l) = GetCell(world[c], l)

\* What the io thread may serve to a joining player: the world after an entire
\* tick, never one that is being computed, and never one older than the deltas
\* broadcast before it.  Between the refresh of the cache and the end of the
\* tick the snapshot is ahead of the deltas, and may be served then: that this
\* does no harm to a client is WorldSync's to show (NoMissingCell).
SnapshotIsATick ==
    phase \notin {"broadcast", "stats"} =>
        \A c \in DOMAIN world : \A l \in Inner :
            LET shown == IF c \in DOMAIN cache /\ l \in DOMAIN cache[c]
                         THEN [alive |-> TRUE, owner |-> cache[c][l]] ELSE Dead
            IN  shown = View(c, l)

\* No chunk is swapped while another still has to be computed, no command is
\* applied and nothing is counted while a worker has the chunk: the two
\* barriers of onTick.
WorkersOnlyBetweenBarriers ==
    /\ (\E w \in Workers : running[w] # Idle) \/ pool # {} => phase \in {"calculate", "swap"}
    /\ \A w \in Workers : running[w] # Idle => running[w][1] = phase
    /\ \A v, w \in Workers : running[v] # Idle /\ running[v] = running[w] => v = w

\* Each command pushed is applied once, in the order of the queue, also when
\* a tick drains only part of what a client sent.
CommandsInOrder == SubSeq(pushed, applied + 1, Len(pushed)) = batch \o queue
=============================================================================
