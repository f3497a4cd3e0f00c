# A specification of Multilife

TLA+ modules, TLC configurations and TLAPS proofs for the Multilife server
(C++, Boost.Asio) and client (C++, Qt). Paths below are relative to the
repository; `PROJECT.json` maps every definition to the lines it models and
lists the runs, the mutants, the findings, the hazards and the theorems.

## 1. The system

A server keeps one unbounded plane of Conway cells, split into chunks of
64 x 64, and steps it every five seconds. Each living cell has an owner. Players
place and remove cells over TCP, pay for them from a balance and earn a coin per
living cell and tick. After each tick the server sends the changed cells to all
players over UDP, and a client that sees a gap in the sequence numbers asks for
a full snapshot over TCP.

| Component | State | Operations | Talks to |
| --- | --- | --- | --- |
| `Chunk` | two buffers of cells with a ghost border, the current buffer, the dirty list | `setCell`, `setGhostCell`, `calculateNext`, `swapBuffers`, `clearDirty` | called by `World` and by tasks of the pool |
| `World` | the chunks by coordinate | `exchangeBorders` (with the simulation margin), `applyCommands` | `Chunk`, `ResourceManager` |
| `ResourceManager` | balances, under a mutex | `addPlayer`, `trySpend`, `award`, `awardFromLiveCounts` | called by the tick and by the io thread |
| `GameServer` | command queue, tick counter, cached snapshot, `m_running` | `onTick`, `onCommandsFromNetwork`, `start`, `stop`, the destructor | everything on the server |
| `ThreadPool` | tasks, workers on a condition variable, `m_stopping` | `enqueue`, `workerLoop`, `shutdown` | used by `onTick` twice per tick |
| `TickScheduler`, `ThreadSafeQueue` | a thread that calls `onTick`, its flag; a locked queue | `start`, `stop`, `runLoop`; `push`, `tryPop` | `GameServer` |
| `WorldSerializer` | none | `serializeDelta`, `serializeFull`, `appendChunk` | `GameServer`; read by the client |
| `BoostNetworkManager` | sessions and UDP endpoints by player, `needsFullSnapshot` of each session, the update counter, `m_running` | accept, handshake, reading messages, `broadcastWorldUpdate`, `broadcastServerStats`, `stop` | callbacks into `GameServer` and `ResourceManager` |
| `GameNetworkClient` | TCP and UDP sockets, reconnect timer, last sequence number, buffer of the statistics stream | connect, disconnect, commands, socket handlers, `reconnectTick` | signals to the window |
| `ClientRuntime` | the network thread and the queues to and from it | queued calls, forwarded signals | `GameWindow`, `GameNetworkClient` |
| `WorldModel` | the owners of cells by chunk | `applyUpdate`, `reset` | fed by `GameWindow`, drawn by `InfiniteGridView` |
| `GameWindow` | connection parameters, pending edits, balances shown | clicks at once or queued, apply, clear, the connection dialog, signals | `ClientRuntime`, `WorldModel`, `InfiniteGridView` |
| `InfiniteGridView` | visuals of the cells, a copy of the pending edits, the mouse button | `syncVisualState`, the animation's timer, the mouse | `GameWindow`, `WorldModel` |
| `ClientParsers` | none | datagrams and the statistics stream | `GameNetworkClient` |

Four kinds of threads share the server: the scheduler's (it runs `onTick`), the
workers of the pool, the io thread of the network manager and the thread that
calls `stop`. The client has a UI thread and a network thread.

What is hard here, and where:

- **The tick.** It reads what the io thread writes meanwhile (queue, balances),
  hands chunks to workers twice with a barrier after each, and must put all
  changes (births, deaths, changes of owner, edits) into dirty lists of a double
  buffer whose other half is two generations old.
- **The geometry.** A pattern must evolve across chunk borders and corners and
  over negative coordinates as on one plane.
- **Threads that begin and end.** `start` lets the network run before the first
  snapshot exists, `stop` ends a thread that may be in the middle of a tick, and
  the destructor frees the world before the pool that computed it.
- **The update stream.** Deltas and snapshots are numbered by two counters,
  snapshots are served from a cache that is replaced while deltas wait, and UDP
  loses and reorders.
- **Sessions.** A player may connect again before its old connection ended;
  handlers throw when a client resets its connection; `stop` waits for a thread
  whose pending reads it only partly cancels.
- **The client's connection.** A timer, user actions, failures of two sockets and
  signals delivered late across threads all change the same few flags; the
  statistics arrive cut anywhere.
- **The client's edits.** They are judged by a copy of the server's rules, on a
  world and a balance that are replaced while edits are queued.

What makes each part correct: the tick implements the game (`ImplementsLifeGame`)
and its outputs agree with it; a client shows the world of the server once it
is up to date; the registry of sessions has the sessions that are alive and
`stop` ends them all and leaves no thread behind; the pool runs each task of a
round once; the client goes on trying, stays disconnected when told to, never
mixes two servers, and judges edits as the server does.

## 2. The modules

| Module | Models | State and actions |
| --- | --- | --- |
| `Chunk` | `Chunk.cpp` | operators on a record `[buf, cur, dirty]`; chunks have `Width` x `Height` cells |
| `Resources` | `ResourceManager.cpp` | operators on the function from players to balances |
| `World` | `World.cpp` | operators on the function from coordinates to chunks; C++ truncating division is written out |
| `GameServer` | `onTick` of `GameServer.cpp`, queue | one variable per field, one action per step of `onTick` that another thread can interleave with; `Join`, `Receive`, `PushCommand` are the io thread's, `TakeTask`, `RunTask` a worker's |
| `LifeGame` | what the server promises | the plane as a function from living positions to owners; abstract |
| `GameServerRefinement` | - | the refinement mapping of `GameServer` to `LifeGame`; what a command does on the plane |
| `MCGameServer` | - | commands and bounds for TLC |
| `ThreadPool` | `ThreadPool.cpp` | its fields, and each half of `enqueue`, `shutdown` and `workerLoop` that a lock separates as an operator |
| `ServerLifecycle` | `GameServer::start`, `stop`, the destructor, `TickScheduler.cpp`, `BoostNetworkManager::start` and the end of `stop`, on top of `ThreadPool` | where each thread stands; one action per step of the owner's, the scheduler's, the workers' and the io thread |
| `TaskRounds` | what a tick takes for granted of the pool | a round of tasks given at once, taken and run once each; abstract |
| `UpdatePackets` | `WorldSerializer.hpp`, `WorldModel::applyUpdate` | packets as records, the split into packets |
| `WorldSync` | the end of `onTick`, `doUdpBroadcast`, handshake and resync, the datagrams, `applyDatagram` | one client and the server's stream to it |
| `Sessions` | the TCP half of `BoostNetworkManager.cpp` | one action per handler or part of one that `stop` can interleave with, among them the blocking write of the statistics |
| `ClientConnection` | `GameNetworkClient.cpp`, `ClientRuntime.cpp`, `ClientParsers.cpp`, part of `GameWindow.cpp` | one action per slot; two queues between the threads; the statistics stream as pieces of messages |
| `GameWindow` | the edits of `GameWindow.cpp`, the state of `InfiniteGridView.cpp` | one action per slot or mouse event |
| `WorldProofs`, `GameServerProofs`, `RefinementProofs` | - | theorems about the tick (section 5) |
| `SyncProofs`, `SessionsProofs`, `LifecycleProofs`, `ClientProofs`, `WindowProofs` | - | theorems about `WorldSync`, `Sessions`, `ServerLifecycle`, `ClientConnection`, `GameWindow` |

`GameServer` is built on `World`, which is built on `Chunk` and `Resources`.
`WorldSync` takes from it only that any world may follow any world and that the
dirty lists cover the difference (`DeltaCoversChanges` is why it may), and with it
the cells that were commanded, changed or not.
`ClientConnection` and `WorldSync` meet at `ApplyDatagram`: the former keeps the
sockets and drops the contents, the latter keeps the contents.
`GameServer` gives the pool a round of tasks at once; `ServerLifecycle`, which has
the queue, the condition variable and the futures, implements `TaskRounds`
(`ImplementsTaskRounds`), and that is the use `GameServer` makes of it.
`ServerLifecycle` in turn knows of a tick only what other threads notice, and of
the sessions only that some are registered: `Sessions` has the rest.
`GameWindow` uses the server's own guards, by `INSTANCE World`, to compare the
client's checks with them; what it sends is `SendEdit` of `ClientConnection`.

Choices that a reader comparing with the code should know:

- A step is as long as the code holds a lock or does not touch shared state.
  `applyCommands` gives one step per command because a handshake may change a
  balance between two; the live count and the award are two steps for the same
  reason. `serializeServerStats` reads the balances one by one; the model reads
  them at once, so a handshake in the middle of it is left out.
- The pool's tasks are a set. The code's queue is filled from an unordered map,
  so its order is unspecified; the model takes some fixed order, which is enough
  because a task touches its own chunk only. No exception in a task is modelled:
  `calculateNext` and `swapBuffers` do not throw.
- `mirror`, `pushed` and `applied` in `GameServer`, `served` in `WorldSync`,
  `first`, `known` and `commanding` in `Sessions`, `thrown` in `ServerLifecycle`,
  `sent`, `refused` and `news` in `GameWindow` are history: no guard reads them. `GameServer.Receive` asks that the
  player of a command has a balance:
  `CommandersAreKnown` of `Sessions` is why it may.
- `m_ioc` of `ServerLifecycle` is one queue of handlers. `stop` closes the sessions'
  sockets, but a handler that is ready then still runs, and so does a broadcast
  posted by the last tick: `run` returns when nothing is left. Nothing is left only
  when the connections in no map have gone, too (`greeting` and `session`). When a
  handler throws, `run` ends with whatever there is, and a later `start` resumes it.
- A connection that the client of `WorldSync` has left is read on by the server, its
  end included, before or after the client is back (`stale`): its end erases the
  entry of the connection that followed it, as `removeSession` does.
- A message of the statistics is cut in `ClientConnection` into its type byte, the
  rest of its header and its entries; an entry may look like a type byte, as a
  name or a balance may. The parser's arithmetic on byte counts becomes counting
  pieces.
- In `GameWindow` `life` counts steps of the timer (at the code's speed of 0.12 there
  are 9 of them, `FullLife` stands for them); any world and any statistics may
  come at any time.
- Chunk coordinates are not narrowed to `int`, and 64-bit balances do not
  overflow.
- An operator named as a *mistaken variant* is the definition below it with a
  plausible bug; nothing uses it in the specification. The mutants of
  `PROJECT.json` put it in the place of the correct one and TLC refutes the
  property they name: this is how each property is shown to say something.

## 3. What is checked

Passing runs. "States" are distinct states of the whole reachable graph.

| Run | Instance | States | Shows |
| --- | --- | --- | --- |
| `tick` | 2 x 2 chunks, 2 players, 1 worker, 3 ticks, 2 bursts of commands, 2 handshakes | 450,000 | the nine properties of the tick, among them that it implements `LifeGame` and carries out what is asked |
| `lifecycle` | 2 workers, 2 chunks, 1 command and 2 handlers waiting; start, stop, destruction and exceptions on the io thread at any time | 354,000 | nothing outlives the server, the pool implements rounds, ticks go on, calls return |
| `sync_in_order` | 2 chunks of one cell, 2 broadcasts waiting, resync requests at any time, edits that change nothing, reconnections, no loss | 5,800,000 | no living cell is missing at rest; exact after one snapshot |
| `sync_lossy` | 1 chunk, numbers modulo 2, loss, reordering, reconnections | 161,000 | resync requests are heard and owed snapshots sent |
| `sessions` | 2 connections, 2 players, resets, blocking writes, `stop` at any time | 263,000 | the registry, the first update, `stop`'s result, who may command; `stop` returns |
| `client` | 2 servers, queues of 2 calls and 3 signals, 3 pieces of statistics under way, failing binds | 116,000 | the client's flags, signals, edits and statistics; it gets connected |
| `window` | 2 cells, 2 players, balances 1 and 4, 2 steps of fading | 537,000 | edits are judged as by the server, the queue can be paid, what is drawn follows the world |

The properties, by what could go wrong:

- *A change that no client is told.* `DeltaCoversChanges` compares, at every step
  of the tick but the swaps, the cells with what a reader of all deltas has, and
  demands that each difference is dirty. The double buffer makes this hard: `calculateNext`
  compares with the current buffer while the dirty list survives the swap.
  `OutputsAgree` and `SnapshotIsATick` add that snapshot, deltas and statistics
  tell of the same world, and that the io thread never sees a half-made one. From
  the refresh of the cache to the end of the tick the snapshot is ahead of the
  deltas, which `SnapshotIsATick` exempts: that it does no harm to be served then is
  what `NoMissingCell` says.
- *A pattern that breaks at a border, a price or an income that is not the game's.*
  `ImplementsLifeGame`: each step of the chunked, threaded server is one of the
  game's or changes nothing of it. The plane of the game changes when the last
  `calculateNext` is done; a chunk not yet swapped then counts with its other buffer.
- *An edit that is lost, made twice, made elsewhere or in the wrong order.* The game
  would take any legal edit for any other, so this is not the refinement's to say.
  `CommandsInOrder` follows the commands through queue and batch, and
  `EditsAreCarriedOut` says what the next one does: it is made at its position, for
  its player and at its price exactly if the plane and the balance allow it, and
  between generation and income nothing else changes the plane. The position goes
  through the truncating division of `applyCommands`; its mutant, an index that is not
  floored, passes the refinement.
- *A living cell that nobody owns.* `OwnedIffAlive` is what `NextOwner` and
  `applyCommands` rely on when they take owner 0 for an empty cell.
- *A wake-up that is lost, a future nobody makes ready, a chunk swapped too early.*
  `NoTaskWaitsForASleeper` relates the queue to the sleeping workers: the
  notification comes after the lock is released, so a worker may have taken the
  task before it, and another be woken for nothing. `ImplementsTaskRounds` says
  what a tick needs of all that, including that each round ends;
  `WorkersOnlyBetweenBarriers` is its counterpart in `GameServer`.
- *Threads that outlive what they use.* `NothingOutlives` holds where `stop` has
  returned, and from where the destructor frees the world. `StartIsUndisturbed`:
  the owner's thread reads the world and sets the provider without a lock, while
  the io thread already runs. No update is ever served without a provider; while it
  is being set none is served at all, unless an exception has ended an io thread
  (section 4). `TicksGoOn` and `CallsReturn` hold also when the
  network did not start, and except for a flood of commands: `onTick` drains the
  queue until it is empty, so clients that send faster hold up the tick and, since
  `stop` waits for the tick before it closes the network, `stop` too.
- *A client that shows something else.* `NoMissingCell` holds whenever the client
  is up to date, however snapshots and older deltas followed each other: the
  snapshot served under an update's number may be younger than deltas sent after
  it. `ExactAfterFirstSnapshot` excludes cells that should be gone, for clients
  that were served once.
- *A snapshot that is never sent, or sent for ever, a request nobody hears.*
  `RequestsAreServed`, for a client that has its entry: one whose entry the late end
  of its former connection erased is exempt (`Unlisted`; section 4).
- *Sessions that displace each other, handlers that throw, `stop` at a bad moment.*
  `RegistryIsSound`, `SnapshotIsFirst`, `QuietAfterStop`, `CommandersAreKnown`, and
  `StopReturns`, which includes that the io thread may be in the middle of a
  blocking write to a client that does not read.
- *Flags of the client's connection out of step.* `NothingLeftOver`,
  `NeverGivesUp`, `StaysDisconnected`, `WindowIsTold`, `EditsGoWhereMeant`,
  `UpdatesComeInOrder`, `GetsConnected`. `NothingLeftOver` says that half messages and
  datagrams do not survive a connection, and that a sequence number does not survive
  a change of the server; for the same server the code keeps it.
- *A message cut in two, or bytes that look like one.* `StatisticsAreGenuine`: the
  balances shown were written by one server in one message, and by the server the
  client is connected to.
- *Edits the server ignores, or that cannot be paid.* `JudgesLikeTheServer` compares
  the client's checks with the guards of `World`: each edit sent, at once or from the
  queue, is one the server would do, and each one rejected, at once, for the queue or
  when the queue is applied, is one it would not do, or one that overdraws the balance
  together with what is queued. A batch can be paid for as a whole if neither the
  world nor a balance has changed since it was queued; otherwise the server may ignore
  part of it (section 4). `QueueIsAffordable` follows the queue through edits that
  replace each other or are taken back, up to the next such change.
- *A picture that is not the world's.* `VisualsFollow` and `VisualsSettle`: the visual
  of a cell that dies and is born again while it fades is on its way back, and none
  of a cell that died is kept for ever.

### Bounds

- Chunks of 2 x 2 put every cell on a border and in a corner, so that each
  generation crosses chunks in all directions, and a blinker around the origin
  reaches the negative side. Three ticks give every chunk each buffer twice and
  the margin time to grow; two bursts collide on the same cells, and the last
  command of `Edit` costs more than its player has left unless income came first.
  One worker is enough there, for tasks do not interact and the properties are
  proved for any number.
- In `lifecycle` two tasks and two workers let a worker take both tasks of a round
  while the other sleeps, is woken for nothing or has not looked yet; two handlers
  let an update wait behind a handshake; one command lets the drain meet one that
  came after it began, again and again. `MaxReady` lets an update be dropped where as many handlers
  wait already, which no property can tell.
- In `WorldSync` two chunks are needed for an update of two packets and for a
  chunk to die out while another lives; one cell per chunk is then enough, for
  cells of a chunk travel together, except where a chunk's packets are split: the
  run `sync_split`. In `sync_in_order` the resync button may be pressed
  at any time, which includes every request that a gap in the numbers would cause;
  what the numbers are then makes no difference to the two properties, and
  `SeqLimit = 1` leaves them out. In `sync_lossy` `SeqLimit = 2` makes them wrap
  constantly, and gaps are the only source of requests. `Disconnect` waits until the
  server has read the end of the connection before: two connections at a time, the
  old and the new one, are enough for either to disturb the other.
- Two connections let one session displace the other, and two players let one
  claim to be the other. A third could displace the one that displaced the first:
  the four invariants are proved for any number, and `StopReturns` speaks of each
  connection by itself.
- Two servers tell the old from the new; two calls and three signals let a call
  overtake what a previous call is about to signal. Three pieces hold a message
  with one entry, which may be cut at two places, or the tail of one and a
  shorter one.
- In `window` two cells let one edit use up the balance another needs; a balance of
  1 pays nothing and one of 4 both cells, but not a third edit put on top of two in
  the queue; two steps of fading let a cell die or
  come back halfway.
- `MaxTicks`, `MaxRequests`, `MaxJoins`, `MaxPosted`, `MaxInFlight`, `MaxRequests`
  (of `WorldSync`), `MaxToNet`, `MaxToUi`, `MaxOnWire`, `MaxQueue` and `MaxReady` bound
  what the code leaves unbounded, `MaxChunks` the size of a world. They only
  disable actions, but for the update dropped at `MaxReady`. Deadlock is checked in all runs but those of
  `Sessions`, where a server that has stopped really stops; `GameServer.Finished`
  stands for the end of a bounded behaviour, `ServerLifecycle.Gone` for that of a
  destroyed server.

### Fairness

- `ServerLifecycle.Fairness`: each thread that can go on does: the owner's within a
  call, the scheduler's, the workers', the io thread's. None of it says that a call
  is made. Of the clients it says that those of a server being stopped leave,
  which `Sessions` takes apart, and so do those that still owe a handshake.
- `WorldSync.Fairness`: ticks come, the io thread runs what is posted and reads what
  the client has sent, and datagrams that are not lost arrive (strongly, because the bounds on messages
  disable a sender now and then). `RequestsAreServed` is for behaviours
  with updates to broadcast for ever, for the code sends snapshots in their place
  only. There is no fairness for `ReadStale`: when, and whether, the end of a former
  connection is noticed is up to the network.
- `Sessions.Fairness`: ready handlers of one `io_context` are run in turn, so a
  handler that becomes ready again and again is run (strong fairness), `stop`, once
  called, goes on, and a blocking write ends when its client has gone. `ClientsLeave` is an assumption about the clients
  and `StopReturns` needs it: sockets of sessions that are in no map are not
  closed by `stop`.
- `ClientConnection.Fairness`: both event loops go on, an active timer fires, and
  an attempt is answered and the bind succeeds if attempts go on for ever. Without
  the latter no client could promise to connect.
- `GameWindow.Fairness`: the animation's timer, which is never stopped, fires.

## 4. Where code and documents disagree

Runs that TLC finds violated; each checks what a document says.

| Run | Property | Disagreement |
| --- | --- | --- |
| `sync_phantom` | `SameWorld` | a snapshot says nothing of a chunk that has died out; a client that had it goes on showing it (`WorldSerializer.hpp:68`) |
| `sync_split` | `NoMissingCell` | each packet of a snapshot erases the chunk, also what the one before it brought (`WorldModel.cpp:49`) |
| `sync_joiner` | `JoinerIsServed` | a client that joins a still world is sent nothing until something changes (`BoostNetworkManager.cpp:191`) |
| `sessions_displaced` | `ClientsAreListed` | the end of an old session removes its successor's entry (`BoostNetworkManager.cpp:307`) |
| `sessions_reset` | `KeepsServing` | a reset before `remote_endpoint()` throws through `run()` and ends the io thread (`BoostNetworkManager.cpp:356`) |

Others were met while modelling. They have no run of their own, the models
contain the behaviour, and no property above denies it:

- A session is owed a full snapshot, "first message must be a full snap"
  (`BoostNetworkManager.cpp:349`), but `sendPayloadTo` sends nothing when the world is
  dead (line 274), and the flag is cleared all the same: the next delta is then the
  first thing sent. `SnapshotIsFirst` therefore speaks of what a session is served,
  not of what arrives. The delta makes up for it, as `ExactAfterFirstSnapshot` shows.
- When a handler throws (`sessions_reset`) and the owner stops the server and starts it
  again, the new io thread resumes the connections and updates left in `m_ioc`, and
  `doUdpBroadcast` may read `m_fullSnapshotProvider` while `GameServer::start` assigns
  it (`GameServer.cpp:103`). `StartIsUndisturbed` exempts this, and TLC finds it when the
  exemption is dropped. `main` starts its server once.
- The client whose entry was erased by the late end of its former connection
  (`sessions_displaced`) asks for snapshots in vain (`BoostNetworkManager.cpp:396`), and
  gets no updates until it connects again: `Unlisted` of `WorldSync`.
- A batch of queued edits is judged edit by edit against one balance
  (`GameWindow.cpp:474`, 363): when the balance has dropped since they were queued, more
  are sent than can be paid for and the server ignores the rest, of which the player
  is not told.
- Player id 0 is accepted (`BoostNetworkManager.cpp:347`), although 0 means "no
  owner" (`Types.hpp:13`): living cells of player 0 count as empty.
  `Ownership` is proved for players other than 0.
- A player that connects again has its balance set to the starting balance
  (`ResourceManager.cpp:12`); `LifeGame.Join` says so.
- All packets of an update carry one number, while the client expects each delta
  packet to be one more than the last (`WorldSerializer.hpp:107`,
  `GameNetworkClient.cpp:251`): every update of two packets causes a resync.
- While `m_lastSeqNum` is empty nothing is compared (`GameNetworkClient.cpp:250`): if
  the first snapshot is lost, the delta after it is taken and nothing is asked for.
- Snapshots are numbered by `m_seqNum`, which counts broadcasts, deltas by
  `m_broadcastSeq`, which counts ticks: after quiet ticks a snapshot takes the
  generation shown by the client back.
- When the UDP bind fails, the timer is started (`GameNetworkClient.cpp:121`) but
  finds TCP connected and stops (line 186): the client has no updates from then
  on. `GetsConnected` therefore promises TCP only.
- When the network cannot start, `GameServer::start` goes on without it
  (`BoostNetworkManager.cpp:86`) and `main` says that the server is listening.
- The comments of `pendingColor` (`InfiniteGridView.cpp:428-438`) number the actions
  otherwise than the enumeration: the colours of queued edits are exchanged.
- Queued edits are not cleared when the player connects to another server or as
  another player (`GameWindow.cpp:583`): `ApplyPendingEdits` judges and sends them there.
- A click that would take a queued edit back is refused when the edit could not be
  paid a second time, for its cost is counted twice (`GameWindow.cpp:445`):
  `Affordable` of `GameWindow` does the same.
- The last delta before the world comes to rest has no successor whose number
  could show that it was lost.
- `GameWindow.cpp:585` resets the model before the old connection is closed: updates
  of the old server that are queued are applied to the new model.
  `UpdatesComeInOrder` shows that a signal separates them from the new ones.

## 5. What is proved

TLAPS proves these for chunks of any size, any set of players, any workers, any
bursts of commands at any coordinates, any number of ticks, any connections and
servers, and queues of any length. The assumptions are the named ones of the
modules: sizes of chunks are positive and player ids naturals
(`ChunkAssumption`), bursts are non-empty sequences of commands
(`GameServerAssumption`), the workers of the pool are finitely many and at least
one (`PoolAssumption`), players of the window are not 0 and its balances are
naturals (`GameWindowAssumption`), chunks, cells of a chunk and cells of a packet
are at least one (`UpdatePacketsAssumption`), and no server of the client stands for
having none or for what nobody wrote (`ServersAssumption`); the rest of them says
that bounds are naturals and switches are Booleans.

| Theorem | States |
| --- | --- |
| *`GameServerProofs`* | |
| `TypeCorrect` | `Spec => []TypeOK`: no index leaves its chunk, no balance becomes negative |
| `Barriers` | `Spec => []WorkersOnlyBetweenBarriers` |
| `Ownership` | if no player is 0, `Spec => []OwnedIffAlive` |
| `DeltasAreComplete` | `Spec => []DeltaCoversChanges` |
| `OrderKept` | `Spec => []CommandsInOrder` |
| `OutputsOfATick` | `Spec => []OutputsAgree` |
| `SnapshotOfATick` | if no player is 0, `Spec => []SnapshotIsATick` |
| *`RefinementProofs`* | |
| `GameIsImplemented` | if no player is 0, `Spec => ImplementsLifeGame`: the server plays the game |
| `EditsCarriedOut` | if no player is 0, `Spec => EditsAreCarriedOut`: and plays it as it is asked |
| *`SyncProofs`* | |
| `TypeCorrect` | `Spec => []TypeOK`, whatever is lost and reordered |
| `NothingIsMissing` | if nothing is lost or reordered, `Spec /\ []SnapshotsFit => []NoMissingCell` |
| `FirstSnapshotIsExact` | if nothing is lost or reordered, `Spec /\ []SnapshotsFit => []ExactAfterFirstSnapshot` |
| *`SessionsProofs`* | |
| `TypeCorrect` | `Spec => []TypeOK` |
| `RegistrySound` | `Spec => []RegistryIsSound` |
| `SnapshotFirst` | `Spec => []SnapshotIsFirst` |
| `KnownCommanders` | `Spec => []CommandersAreKnown` |
| `StoppedIsQuiet` | `Spec => []QuietAfterStop` |
| *`LifecycleProofs`* | |
| `TypeCorrect` | `Spec => []TypeOK` |
| `AllIsQuiet` | `Spec => []NothingOutlives` |
| `StartUndisturbed` | `Spec => []StartIsUndisturbed` |
| `WorkersAreWoken` | `Spec => []NoTaskWaitsForASleeper` |
| `RoundsAreImplemented` | `Spec => Rounds!Init /\ [][Rounds!Next]_(Rounds!vars)`, the safety half of `ImplementsTaskRounds` |
| *`ClientProofs`* | |
| `NoRemains` | `Spec => []NothingLeftOver` |
| `GoesOnTrying` | `Spec => []NeverGivesUp` |
| `StaysAway` | `Spec => []StaysDisconnected` |
| `EditsAreMeant` | `Spec => []EditsGoWhereMeant` |
| `TypeCorrect` | `Spec => []TypeOK` |
| `WindowEndsUpTold` | `Spec => []WindowIsTold` |
| `LeftServersAreCleared` | `Spec => []UpdatesComeInOrder` |
| `BalancesAreGenuine` | `Spec => []StatisticsAreGenuine` |
| *`WindowProofs`* | |
| `TypeCorrect` | `Spec => []TypeOK` |
| `SameRules` | `Spec => []JudgesLikeTheServer` |
| `DrawnAsLiving` | `Spec => []VisualsFollow` |
| `QueueIsPaidFor` | `Spec => []QueueIsAffordable` |

The invariants are not inductive as stated. The proofs use:

- `TypeInv`: `TypeOK` and that the chunks are finitely many. Counting live cells
  needs it, and so does the majority among a newborn cell's parents
  (`NextOwnerIsAPlayer`: three neighbours have a most frequent owner).
- `TasksInv`: waiting and running tasks are all of the present phase, and none is
  there twice. `WorkersOnlyBetweenBarriers` says so of running tasks only, and a
  task that is taken was a waiting one.
- `OwnedWorld`: the same as `OwnedIffAlive`, chunk by chunk, so that the lemmas
  about `CalculateNext`, `SetCell` and `ExchangeBorders` can speak of it.
- `CoverInv`: between `calculateNext` and the last swap the dirty list covers a
  buffer that is not shown yet. A chunk that has been computed is covered in its
  other buffer too; in the swap phase a chunk is covered in the buffer it will
  show when the phase is over, whether or not it has been swapped. `TasksInv`
  gives that the phase ends with nothing outstanding, where `CoverInv` is
  `DeltaCoversChanges`.
- `OrderInv`: `CommandsInOrder` element by element, so that `Append` and `Tail` can be
  followed, and that a batch is only there until it is applied.
- `OutputInv`: from the count, the refresh and the broadcast on, each output is of the
  world as it is until the next generation. A reader is up to date after a
  broadcast (`UpToDate`) because `CoverInv` holds and nothing is dirty then.
- `SnapshotInv`: `SnapshotIsATick` for chunks that do not exist, too.
- `ComputeInv`, for the refinement: while chunks are computed, a chunk with a live cell
  has all its neighbours (the margin), the border of each shows the cells of its
  neighbours, and a chunk whose task is done has the next generation in its other
  buffer. Tasks write other buffers only, so none of it is disturbed.

The refinement goes through `CellOn`, the cell at a position: `Grid` says that
positions and pairs of chunk and local cell correspond one to one (with floored
division; `Positions` relates it to the truncating one of the code), `PlaneFacts`
that the plane consists of the cells that live. Then each action is one step:
most leave every `CellOn` alone (`CellsStay`), among them each swap, whose chunk
counted with the other buffer before; an edit changes one (`EditedCells`) and is
`Place`, `Remove` or nothing, at the position of the next command pushed (`EditIsMade`
with `OrderInv`); the live counts of the chunks are the game's
(`CountsAreBelongings`, a bijection). For the end of the computation
`BufferShows` says that a buffer with its border shows the plane around its chunk,
whatever chunks the neighbours lie in; hence the live neighbours of a slot are the
parents of its position (`ParentsAreLiveNeighbours`), counts and votes agree
(`CountsAgree`), the chosen owner is the game's heir (`HeirIsNextOwner`), and a
position without a chunk has no parents (`NoParentsOutside`: the margin reaches far
enough).

For the other components:

- `WorldSync`: `SyncInv` follows one cell of one chunk through dirty list, posted
  broadcasts and datagrams. What is posted may be wrong about a cell, for the world
  has moved on, but the last word is the truth, or the cell is dirty and will be told
  again (`LastWordIsTrue`). So is the last word in flight, and if none is, the model
  is right or a true word waits to be sent (`WillShow`), for every living cell of a
  client that has its entry and is owed no snapshot, and for dead ones until a second snapshot. That
  is why a snapshot younger than the deltas behind it does no harm: they end with
  the truth. `PacketsOfUpdate`, `DeltaSays` and `SnapshotSays` say what the packets
  of an update contain, however they are split, and `Applied` what applying one does.
  `SnapshotsFit`, at most `MaxCellsPerPacket` (125) living cells in each chunk, is a
  hypothesis on the world because the code is wrong without it: `sync_split` is the
  counterexample. It is needed in the one step that sends a snapshot; deltas may be
  of any length.
- `Sessions`: a session that reads messages has a player the game knows
  (`GreetedAreKnown`), and so has the one whose handshake is being handled
  (`HandlingIsGreeted`); one that was sent nothing still needs the full snapshot
  (`UnservedNeedFull`); when the io thread has returned nothing is pending and
  nothing comes after it (`ReturnedIsQuiet`).
- `ServerLifecycle`: which threads exist follows from where the owner's thread stands
  (`ThreadsAreJoined`), a round is under way exactly while a tick enqueues it or waits
  for it (`RoundIsTicks`), a task is once in the queue, with one worker or done
  (`TaskIsOnce`), the pool has none but those given by this round (`OnlyGiven`), no
  update is posted before there is a provider (`NoneBeforeProvider`), and unless a
  handler has thrown, updates left over from an earlier life come before any client
  of this one (`UpdatesComeFirst`). `NoTaskWaitsForASleeper` is inductive with them.
- `ClientConnection`: the flags are inductive taken together (`FlagsAgree`); an edit
  under way was made for the server that the last connect before it in the queue
  names, or for the present one (`EditsMeetTheirServer`). `StreamIsWhole`: what has
  been read and not parsed, followed by what is on the wire, can be cut into whole
  messages of the present server. A call of the parser that starts at a cut stops at a cut
  (`ParsesFromCutToCut`), so that no entry is ever taken for the start of a message
  and every signal is a message (`ReadIsWhole`). `StepEmits` says what an action
  adds to the signals: a report of the connection's state that ends with the true one,
  or updates and statistics of the present server. `WindowIsTold` and
  `UpdatesComeInOrder` follow with `WillBeTold`: the last state signalled, or what
  the window knows if there is none, is the truth.
- `GameWindow`: `SameJudgement` compares the client's checks with the server's guards
  for one cell and one balance; what was queued is judged again when it is sent
  (`SentIsJudged`), and what is turned away is accounted for (`RejectionIsJudged`).
  `SpendIsCounted`: the fold by which `onGridCellClicked` adds up the queue is two
  coins for each edit that places on an empty cell (`PriceIsCounted`), hence an edit
  accepted on top of it is affordable, and `QueueInv` is kept by edits that replace each other.

`WorldProofs` has the lemmas about the data: slots of the buffers, truncating
division (`Positions`: every position has one chunk and one cell in it, and it
is the one the client draws), and for each operator of `Chunk` and `World` what it
changes, keeps and makes dirty. The other modules have one lemma per invariant for
the initial state and one for a step, split by action where an action disturbs
something.

What a fold, a flattened sequence or the parser's loop computes is an induction over
data. The library's induction theorems take an operator as a parameter, so the proofs use
the least counterexample instead: the naturals and the subsets of a finite set are
well founded (`NatLessThanWellFounded`, `FS_StrictSubsetOrderingWellFounded`), a set
of counterexamples has a minimal element (`WFMin`), and the step to it refutes it
(`LeastNat` and `Induction` of `ClientProofs` and `SyncProofs`, `SpendIsCounted`).

Every invariant of the passing runs is proved, `NoMissingCell` and
`ExactAfterFirstSnapshot` under the hypotheses above, which their run has too. Only
model-checked is liveness under fairness, for the prover does not reason about
`ENABLED`: `TicksGoOn`, `CallsReturn`, the fairness of `ImplementsTaskRounds`,
`RequestsAreServed`, `StopReturns`, `GetsConnected` and `VisualsSettle`. No module that a theorem reaches declares a
recursive operator.

## 6. What is not modelled

- A pool without workers, which would take tasks and never run them:
  `PoolAssumption` excludes it, for `main.cpp:18` asks for a fixed number.
- The reasons why the network does not start: `ServerLifecycle` has that it does not,
  and that it is started again.
- The narrowing of chunk coordinates to `int`: it needs positions beyond 2^31 chunks.
- Several clients in `WorldSync`: sessions share only the cache and the counters,
  which they do not change, and `Sessions` models how sessions interact.
- Painting, scrolling, scaling and the minimap of `InfiniteGridView`, the labels, lists
  and settings of `GameWindow`: they keep no state of the game.
- The destructor of `ClientRuntime`, which waits for the client's network thread when
  the window is gone; `main` of the client and the build files.
- Byte layouts of the messages, checked by the unit tests of both sides.

## 7. Plan

The order follows what matters most to players: the game, what they see, who
may play, whether they stay connected.

1. *Done.* `Chunk`, `Resources`, `World`, `GameServer`; `LifeGame` and the refinement with
   its proof; `UpdatePackets`, `WorldSync`; `Sessions`; `ClientConnection`;
   `ThreadPool`, `TaskRounds`, `ServerLifecycle`; `GameWindow`; the proofs of section 5.
2. *Models.* The destructor of `ClientRuntime` in `ClientConnection`: a blocking call
   to a thread with calls queued. Two clients in `WorldSync`, one joining while the
   other is served.
3. *Proofs.* The refinement of an abstract update stream: a specification in which a
   client's model moves from one world of the server to a later one, implemented by
   `WorldSync` under the hypotheses of `NothingIsMissing`.
