-------------------------- MODULE GameServerProofs --------------------------
(***************************************************************************)
(* Proofs about the server's tick, for chunks of any size, any players,    *)
(* workers and requests, and any number of ticks:                          *)
(*   - the types (TypeCorrect);                                            *)
(*   - the two barriers of onTick (Barriers);                              *)
(*   - cells are owned exactly if they are alive, if no player is 0        *)
(*     (Ownership);                                                        *)
(*   - the deltas miss no change (DeltasAreComplete);                      *)
(*   - each command is applied once, in the order of the queue             *)
(*     (OrderKept);                                                        *)
(*   - between ticks the snapshot, the deltas and the statistics agree     *)
(*     (OutputsOfATick);                                                   *)
(*   - the cached snapshot is the world after an entire tick, if no player *)
(*     is 0 (SnapshotOfATick).                                             *)
(***************************************************************************)
EXTENDS GameServer, WorldProofs, SequenceTheorems

---------------------------------------------------------------------------
\* The inductive invariants.

\* The chunks are finitely many at any time: the live cells can be counted.
TypeInv == TypeOK /\ WorldOK(world)

\* Every task that waits or runs is of the present phase, is there once, and
\* there is none outside the two parallel phases.
TasksInv ==
    /\ \A t \in pool : t[1] = phase
    /\ \A w \in Workers : running[w] # Idle => running[w][1] = phase /\ running[w] \notin pool
    /\ \A v, w \in Workers : running[v] # Idle /\ running[v] = running[w] => v = w

\* Chunk c still has its task of this phase before it.
Outstanding(c) == <<phase, c>> \in pool \/ \E w \in Workers : running[w] = <<phase, c>>

\* The dirty list of a chunk names what the deltas have not said of it.
Covered(c, chunk) == \A l \in Inner : GetCell(chunk, l) # View(c, l) => l \in chunk.dirty

\* The dirty lists run ahead of the cells: once a chunk is computed they
\* cover the buffer that is not shown yet, and from the first swap to the
\* last each chunk is covered in the buffer that will be shown.
CoverInv ==
    \A c \in DOMAIN world :
        /\ phase # "swap" \/ ~Outstanding(c) => Covered(c, world[c])
        /\ \/ phase = "calculate" /\ ~Outstanding(c)
           \/ phase = "swap" /\ Outstanding(c)
           => Covered(c, SwapBuffers(world[c]))

---------------------------------------------------------------------------
\* What the tick computes has its type.

LEMMA LiveCountsType ==
    ASSUME NEW w, WorldOK(w)
    PROVE  /\ DOMAIN LiveCounts(w) \subseteq Players
           /\ \A p \in DOMAIN LiveCounts(w) : LiveCounts(w)[p] \in Nat
<1>1. IsFiniteSet(Inner)
  <2>1. IsFiniteSet(0 .. Width - 1) /\ IsFiniteSet(0 .. Height - 1)
    BY ChunkAssumption, FS_Interval
  <2> QED BY <2>1, FS_Product DEF Inner
<1>2. IsFiniteSet((DOMAIN w) \X Inner)
  BY <1>1, FS_Product DEF WorldOK
<1>3. ASSUME NEW p PROVE Cardinality(LiveCellsOf(w, p)) \in Nat
  <2>1. LiveCellsOf(w, p) \in SUBSET ((DOMAIN w) \X Inner)
    BY DEF LiveCellsOf
  <2>2. IsFiniteSet(LiveCellsOf(w, p))
    BY <1>2, <2>1, FS_Subset
  <2> QED BY <2>2, FS_CardinalityType
<1> QED BY <1>3 DEF LiveCounts

\* The manager's operations keep balances natural numbers.
LEMMA BalanceTypes ==
    ASSUME NEW b, DOMAIN b \subseteq Players, \A p \in DOMAIN b : b[p] \in Nat
    PROVE  /\ \A p \in Players :
                 /\ DOMAIN AddPlayer(b, p) \subseteq Players
                 /\ \A q \in DOMAIN AddPlayer(b, p) : AddPlayer(b, p)[q] \in Nat
           /\ \A cell, cmd :
                 /\ DOMAIN BalanceAfter(cell, b, cmd) \subseteq Players
                 /\ \A q \in DOMAIN BalanceAfter(cell, b, cmd) : BalanceAfter(cell, b, cmd)[q] \in Nat
           /\ \A n : DOMAIN n \subseteq Players /\ (\A p \in DOMAIN n : n[p] \in Nat) =>
                 /\ DOMAIN AwardFromLiveCounts(b, n) \subseteq Players
                 /\ \A q \in DOMAIN AwardFromLiveCounts(b, n) : AwardFromLiveCounts(b, n)[q] \in Nat
<1>1. ASSUME NEW p \in Players, NEW q \in DOMAIN AddPlayer(b, p)
      PROVE  q \in Players /\ AddPlayer(b, p)[q] \in Nat
  BY <1>1 DEF AddPlayer, StartBalance
<1>2. ASSUME NEW cell, NEW cmd, NEW q \in DOMAIN BalanceAfter(cell, b, cmd)
      PROVE  q \in Players /\ BalanceAfter(cell, b, cmd)[q] \in Nat
  <2>1. CASE Places(cell, b, cmd)
    <3>1. b[cmd.player] \in Nat /\ b[cmd.player] >= 2 /\ BalanceAfter(cell, b, cmd) = Spend(b, cmd.player, 2)
      BY <2>1 DEF Places, CanSpend, PlaceCost, BalanceAfter
    <3> QED BY <3>1 DEF Spend
  <2>2. CASE ~Places(cell, b, cmd) /\ Removes(cell, b, cmd)
    <3>1. b[cmd.player] \in Nat /\ BalanceAfter(cell, b, cmd) = Award(b, cmd.player, 1)
      BY <2>2 DEF Removes, CanAward, RemoveAward, BalanceAfter
    <3> QED BY <3>1 DEF Award
  <2>3. CASE ~Places(cell, b, cmd) /\ ~Removes(cell, b, cmd)
    BY <2>3 DEF BalanceAfter
  <2> QED BY <2>1, <2>2, <2>3
<1>3. ASSUME NEW n, DOMAIN n \subseteq Players, \A p \in DOMAIN n : n[p] \in Nat,
             NEW q \in DOMAIN AwardFromLiveCounts(b, n)
      PROVE  q \in Players /\ AwardFromLiveCounts(b, n)[q] \in Nat
  <2>1. GetBalance(b, q) \in Nat
    BY DEF GetBalance
  <2>2. q \in DOMAIN b \cup DOMAIN n
    BY DEF AwardFromLiveCounts
  <2>3. AwardFromLiveCounts(b, n)[q] = GetBalance(b, q) + IF q \in DOMAIN n THEN 1 * n[q] ELSE 0
    BY <2>2 DEF AwardFromLiveCounts, AliveAward
  <2>4. q \in DOMAIN n => n[q] \in Nat
    BY <1>3
  <2> HIDE DEF AwardFromLiveCounts
  <2> QED BY <1>3, <2>1, <2>2, <2>3, <2>4
<1> QED BY <1>1, <1>2, <1>3

\* A waiting command is a command.
LEMMA CommandSequences ==
    ASSUME NEW s \in Seq(Command), s # <<>>
    PROVE  Head(s) \in Command /\ Tail(s) \in Seq(Command)
OBVIOUS

\* The mirror shows cells, for chunks that exist.
LEMMA MirrorType ==
    ASSUME TypeInv, BroadcastDelta
    PROVE  DOMAIN mirror' \subseteq DOMAIN world' /\ \A c \in DOMAIN mirror' : mirror'[c] \in [Inner -> Cell]
<1>1. ASSUME NEW c \in DOMAIN Delta(world)
      PROVE  c \in DOMAIN world /\ \A l \in DOMAIN Delta(world)[c] : Delta(world)[c][l] \in Cell
  <2>1. c \in DOMAIN world /\ world[c] \in ChunkType
    BY DEF Delta, TypeInv, WorldOK
  <2>2. Delta(world)[c] = [l \in world[c].dirty |-> GetCell(world[c], l)]
    BY DEF Delta
  <2>3. world[c].dirty \subseteq Inner
    BY <2>1 DEF ChunkType
  <2> QED BY <2>1, <2>2, <2>3, GetCellType
<1>2. ASSUME NEW c, NEW l \in Inner PROVE View(c, l) \in Cell
  BY DEF View, TypeInv, TypeOK, Dead, Cell, Owner
<1>3. mirror' = [c \in DOMAIN mirror \cup DOMAIN Delta(world) |-> [l \in Inner |->
                    IF c \in DOMAIN Delta(world) /\ l \in DOMAIN Delta(world)[c]
                    THEN Delta(world)[c][l] ELSE View(c, l)]]
  BY DEF BroadcastDelta
<1>4. DOMAIN world' = DOMAIN world
  BY DEF BroadcastDelta
<1>5. DOMAIN mirror' \subseteq DOMAIN world'
  BY <1>1, <1>3, <1>4 DEF TypeInv, TypeOK
<1> QED BY <1>1, <1>2, <1>3, <1>5

\* What the steps do to the world keeps it a finite set of chunks.
LEMMA WorldStep ==
    ASSUME TypeInv, [Next]_vars
    PROVE  WorldOK(world)' /\ DOMAIN world \subseteq DOMAIN world'
<1>1. CASE PrepareChunks
  <2>1. world' = ExchangeBorders(world)
    BY <1>1 DEF PrepareChunks
  <2> QED BY <2>1, ExchangeBordersFacts DEF TypeInv
<1>2. CASE ApplyCommand
  <2>1. Head(batch) \in Command
    BY <1>2, CommandSequences DEF ApplyCommand, TypeInv, TypeOK
  <2>2. world' = ApplyToWorld(world, balance, Head(batch))
    BY <1>2 DEF ApplyCommand
  <2> QED BY <2>1, <2>2, ApplyToWorldFacts DEF TypeInv
<1>3. CASE BroadcastDelta
  <2>1. world' = [c \in DOMAIN world |-> ClearDirty(world[c])]
    BY <1>3 DEF BroadcastDelta
  <2>2. \A c \in DOMAIN world : ClearDirty(world[c]) \in ChunkType
    BY ClearDirtyFacts DEF TypeInv, WorldOK
  <2> QED BY <2>1, <2>2 DEF TypeInv, WorldOK
<1>4. ASSUME NEW w \in Workers, RunTask(w) PROVE WorldOK(world)' /\ DOMAIN world \subseteq DOMAIN world'
  <2>1. running[w][2] \in DOMAIN world
    BY <1>4 DEF RunTask, TypeInv, TypeOK, Idle
  <2>2. DOMAIN world' = DOMAIN world
        /\ \A c \in DOMAIN world : world'[c] \in {world[c], CalculateNext(world[c]), SwapBuffers(world[c])}
    BY <1>4, <2>1 DEF RunTask
  <2>3. \A c \in DOMAIN world :
            CalculateNext(world[c]) \in ChunkType /\ SwapBuffers(world[c]) \in ChunkType
    BY CalculateNextFacts, SwapFacts DEF TypeInv, WorldOK
  <2> QED BY <2>2, <2>3 DEF TypeInv, WorldOK
<1>5. CASE UNCHANGED world
  BY <1>5 DEF TypeInv, WorldOK
<1> QED
  BY <1>1, <1>2, <1>3, <1>4, <1>5
  DEF Next, vars, Join, Receive, PushCommand, Tick, StartTick, TryPop, CalculateDone, SwapDone, CountLiveCells,
      AwardIncome, RefreshFullSnapshotCache, BroadcastStats, Work, TakeTask, Finished

LEMMA TypeInit == Init => TypeInv
<1> SUFFICES ASSUME Init PROVE TypeInv
  OBVIOUS
<1>1. DOMAIN world = {}
  BY DEF Init, EmptyWorld
<1>2. WorldOK(world)
  BY <1>1, FS_EmptySet DEF WorldOK
<1>3. running \in [Workers -> {Idle} \cup ({"calculate", "swap"} \X (DOMAIN world))]
  BY DEF Init
<1>4. {arriving, queue, batch, pushed} \subseteq Seq(Command)
  BY DEF Init
<1>5. seq \in 0 .. MaxTicks /\ phase \in Phases /\ applied \in Nat
  BY GameServerAssumption DEF Init, Phases
<1> QED BY <1>1, <1>2, <1>3, <1>4, <1>5 DEF Init, TypeInv, TypeOK

\* Balances stay natural numbers: what is spent was there.
LEMMA BalanceStep ==
    ASSUME TypeInv, [Next]_vars
    PROVE  /\ DOMAIN balance' \subseteq Players /\ \A p \in DOMAIN balance' : balance'[p] \in Nat
           /\ DOMAIN counts' \subseteq Players /\ \A p \in DOMAIN counts' : counts'[p] \in Nat
<1> USE DEF TypeInv, TypeOK
<1>1. ASSUME NEW p \in Players, Join(p)
      PROVE  DOMAIN balance' \subseteq Players /\ \A q \in DOMAIN balance' : balance'[q] \in Nat
  <2>1. balance' = AddPlayer(balance, p)
    BY <1>1 DEF Join
  <2> QED BY <2>1, BalanceTypes
<1>2. CASE ApplyCommand
  <2>1. balance' = BalanceAfter(Target(world, Head(batch)), balance, Head(batch)) /\ counts' = counts
    BY <1>2 DEF ApplyCommand, ApplyToBalance, outVars
  <2> QED BY <2>1, BalanceTypes
<1>3. CASE AwardIncome
  <2>1. balance' = AwardFromLiveCounts(balance, counts) /\ counts' = counts
    BY <1>3 DEF AwardIncome
  <2> QED BY <2>1, BalanceTypes
<1>4. CASE CountLiveCells
  <2>1. counts' = LiveCounts(world) /\ balance' = balance
    BY <1>4 DEF CountLiveCells
  <2> QED BY <2>1, LiveCountsType
<1>5. CASE UNCHANGED <<balance, counts>>
  BY <1>5
<1>6. \A p \in Players : Join(p) => counts' = counts
  BY DEF Join
<1> QED
  BY <1>1, <1>2, <1>3, <1>4, <1>5, <1>6
  DEF Next, vars, Receive, PushCommand, Tick, StartTick, TryPop, PrepareChunks, CalculateDone, SwapDone,
      RefreshFullSnapshotCache, BroadcastDelta, BroadcastStats, Work, TakeTask, RunTask, Finished

\* Commands stay commands wherever they wait.
LEMMA QueueStep ==
    ASSUME TypeInv, [Next]_vars
    PROVE  {arriving', queue', batch', pushed'} \subseteq Seq(Command) /\ applied' \in Nat
<1> USE DEF TypeInv, TypeOK
<1>1. ASSUME NEW r \in Requests, Receive(r)
      PROVE  {arriving', queue', batch', pushed'} \subseteq Seq(Command) /\ applied' \in Nat
  BY <1>1, GameServerAssumption DEF Receive, logVars
<1>2. CASE PushCommand
  <2>1. Head(arriving) \in Command /\ Tail(arriving) \in Seq(Command)
    BY <1>2, CommandSequences DEF PushCommand
  <2> QED BY <1>2, <2>1 DEF PushCommand
<1>3. CASE StartTick
  BY <1>3 DEF StartTick, logVars
<1>4. CASE TryPop
  <2>1. Head(queue) \in Command /\ Tail(queue) \in Seq(Command)
    BY <1>4, CommandSequences DEF TryPop
  <2> QED BY <1>4, <2>1 DEF TryPop, logVars
<1>5. CASE ApplyCommand
  <2>1. Tail(batch) \in Seq(Command)
    BY <1>5, CommandSequences DEF ApplyCommand
  <2> QED BY <1>5, <2>1 DEF ApplyCommand
<1>6. CASE UNCHANGED <<arriving, queue, batch, pushed, applied>>
  BY <1>6
<1> QED
  BY <1>1, <1>2, <1>3, <1>4, <1>5, <1>6
  DEF Next, vars, logVars, Join, Tick, PrepareChunks, CalculateDone, SwapDone, CountLiveCells, AwardIncome,
      RefreshFullSnapshotCache, BroadcastDelta, BroadcastStats, Work, TakeTask, RunTask, Finished

LEMMA TypeStep == ASSUME TypeInv, [Next]_vars PROVE TypeInv'
<1> DEFINE Task(w) == {"calculate", "swap"} \X (DOMAIN w)
<1>1. WorldOK(world)' /\ DOMAIN world \subseteq DOMAIN world'
  BY WorldStep
<1>2. Task(world) \subseteq Task(world')
  BY <1>1
<1>3. seq' \in 0 .. MaxTicks
  BY GameServerAssumption
  DEF TypeInv, TypeOK, Next, vars, Join, Receive, PushCommand, Tick, StartTick, TryPop, PrepareChunks, CalculateDone,
      SwapDone, ApplyCommand, CountLiveCells, AwardIncome, RefreshFullSnapshotCache, BroadcastDelta,
      BroadcastStats, Work, TakeTask, RunTask, Finished
<1>4. phase' \in Phases
  BY DEF TypeInv, TypeOK, Phases, Next, vars, Join, Receive, PushCommand, Tick, StartTick, TryPop, PrepareChunks,
      CalculateDone, SwapDone, ApplyCommand, CountLiveCells, AwardIncome, RefreshFullSnapshotCache, BroadcastDelta,
      BroadcastStats, Work, TakeTask, RunTask, Finished
<1>5. pool' \subseteq Task(world') /\ running' \in [Workers -> {Idle} \cup Task(world')]
  <2>1. pool \subseteq Task(world) /\ running \in [Workers -> {Idle} \cup Task(world)]
    BY DEF TypeInv, TypeOK
  <2>2. pool \subseteq Task(world') /\ running \in [Workers -> {Idle} \cup Task(world')]
    BY <1>2, <2>1
  <2>3. CASE PrepareChunks \/ CalculateDone
    BY <2>2, <2>3 DEF PrepareChunks, CalculateDone
  <2>4. ASSUME NEW w \in Workers, TakeTask(w)
        PROVE  pool' \subseteq Task(world') /\ running' \in [Workers -> {Idle} \cup Task(world')]
    <3> DEFINE task == CHOOSE t \in pool : TRUE
    <3>1. running' = [running EXCEPT ![w] = task] /\ pool' = pool \ {task}
      BY <2>4 DEF TakeTask
    <3>2. task \in pool
      BY <2>4 DEF TakeTask
    <3> HIDE DEF task, Task
    <3> QED BY <2>2, <3>1, <3>2
  <2>5. ASSUME NEW w \in Workers, RunTask(w)
        PROVE  pool' \subseteq Task(world') /\ running' \in [Workers -> {Idle} \cup Task(world')]
    <3>1. running' = [running EXCEPT ![w] = Idle] /\ pool' = pool
      BY <2>5 DEF RunTask
    <3> HIDE DEF Task
    <3> QED BY <2>2, <3>1
  <2>6. CASE UNCHANGED poolVars
    BY <2>2, <2>6 DEF poolVars
  <2> QED
    BY <2>3, <2>4, <2>5, <2>6
    DEF Next, vars, Join, Receive, PushCommand, Tick, StartTick, TryPop, SwapDone, ApplyCommand, CountLiveCells,
        AwardIncome, RefreshFullSnapshotCache, BroadcastDelta, BroadcastStats, Work, Finished
<1>6. DOMAIN mirror' \subseteq DOMAIN world' /\ \A c \in DOMAIN mirror' : mirror'[c] \in [Inner -> Cell]
  <2>1. CASE UNCHANGED mirror
    BY <1>1, <2>1 DEF TypeInv, TypeOK
  <2> QED
    BY <2>1, MirrorType
    DEF Next, vars, outVars, Join, Receive, PushCommand, Tick, StartTick, TryPop, PrepareChunks, CalculateDone,
        SwapDone, ApplyCommand, CountLiveCells, AwardIncome, RefreshFullSnapshotCache, BroadcastStats, Work, TakeTask,
        RunTask, Finished
<1> QED BY <1>1, <1>3, <1>4, <1>5, <1>6, BalanceStep, QueueStep DEF TypeInv, TypeOK, WorldOK

\* Every variable keeps its type: balances never go below zero, the chunks a
\* task names exist, and a reader of the deltas knows existing chunks only.
THEOREM TypeCorrect == Spec => []TypeOK
<1>1. TypeInv /\ [Next]_vars => TypeInv'
  BY TypeStep
<1>2. TypeInv => TypeOK
  BY DEF TypeInv
<1> QED BY TypeInit, <1>1, <1>2, PTL DEF Spec

---------------------------------------------------------------------------
\* The barriers.

LEMMA TasksInit == Init => TasksInv
BY DEF Init, TasksInv

LEMMA TasksStep == ASSUME TypeInv, TasksInv, [Next]_vars PROVE TasksInv'
<1>1. ASSUME NEW w \in Workers, TakeTask(w) PROVE TasksInv'
  <2> DEFINE task == CHOOSE t \in pool : TRUE
  <2>1. running' = [running EXCEPT ![w] = task] /\ pool' = pool \ {task} /\ phase' = phase
    BY <1>1 DEF TakeTask
  <2>2. task \in pool
    BY <1>1 DEF TakeTask
  <2>3. \A v \in Workers : v # w => running'[v] = running[v]
    BY <2>1 DEF TypeInv, TypeOK
  <2>4. running'[w] = task
    BY <2>1 DEF TypeInv, TypeOK
  <2> HIDE DEF task
  <2> QED BY <2>1, <2>2, <2>3, <2>4 DEF TasksInv
<1>2. ASSUME NEW w \in Workers, RunTask(w) PROVE TasksInv'
  <2>1. running' = [running EXCEPT ![w] = Idle] /\ pool' = pool /\ phase' = phase
    BY <1>2 DEF RunTask
  <2> QED BY <2>1 DEF TasksInv, TypeInv, TypeOK
<1>3. CASE PrepareChunks
  <2>1. pool = {} /\ \A w \in Workers : running[w] = Idle
    BY <1>3 DEF PrepareChunks, TasksInv, TypeInv, TypeOK
  <2> QED BY <1>3, <2>1 DEF PrepareChunks, TasksInv
<1>4. CASE CalculateDone
  BY <1>4 DEF CalculateDone, FuturesReady, TasksInv
<1>5. CASE SwapDone
  BY <1>5 DEF SwapDone, FuturesReady, TasksInv, poolVars
<1>6. CASE UNCHANGED <<poolVars, phase>>
  BY <1>6 DEF TasksInv, poolVars
<1>7. ASSUME phase \notin {"calculate", "swap"}, UNCHANGED poolVars PROVE TasksInv'
  <2>1. pool = {} /\ \A w \in Workers : running[w] = Idle
    BY <1>7 DEF TasksInv, TypeInv, TypeOK
  <2> QED BY <1>7, <2>1 DEF TasksInv, poolVars
<1> QED
  BY <1>1, <1>2, <1>3, <1>4, <1>5, <1>6, <1>7
  DEF Next, vars, Join, Receive, PushCommand, Tick, StartTick, TryPop, ApplyCommand, CountLiveCells, AwardIncome,
      RefreshFullSnapshotCache, BroadcastDelta, BroadcastStats, Work, Finished

\* The two waits of onTick are barriers: no worker has a task outside the
\* parallel phases, none of the wrong phase, and no chunk has two.
THEOREM Barriers == Spec => []WorkersOnlyBetweenBarriers
<1>1. TypeInv /\ TasksInv /\ [Next]_vars => TypeInv' /\ TasksInv'
  BY TypeStep, TasksStep
<1>2. TypeInv /\ TasksInv => WorkersOnlyBetweenBarriers
  BY DEF WorkersOnlyBetweenBarriers, TypeInv, TypeOK, TasksInv
<1> QED BY TypeInit, TasksInit, <1>1, <1>2, PTL DEF Spec

---------------------------------------------------------------------------
\* Ownership.

LEMMA OwnedStep ==
    ASSUME TypeInv, OwnedWorld(world), NoOwner \notin Players, [Next]_vars
    PROVE  OwnedWorld(world)'
<1>1. CASE PrepareChunks
  <2>1. world' = ExchangeBorders(world)
    BY <1>1 DEF PrepareChunks
  <2> QED BY <2>1, ExchangeBordersFacts DEF TypeInv
<1>2. CASE ApplyCommand
  <2>1. Head(batch) \in Command
    BY <1>2, CommandSequences DEF ApplyCommand, TypeInv, TypeOK
  <2>2. world' = ApplyToWorld(world, balance, Head(batch))
    BY <1>2 DEF ApplyCommand
  <2>3. Head(batch).player # NoOwner
    BY <2>1 DEF Command
  <2> QED BY <2>1, <2>2, <2>3, ApplyToWorldFacts DEF TypeInv
<1>3. CASE BroadcastDelta
  <2>1. world' = [c \in DOMAIN world |-> ClearDirty(world[c])]
    BY <1>3 DEF BroadcastDelta
  <2>2. \A c \in DOMAIN world : OwnedChunk(ClearDirty(world[c]))
    BY ClearDirtyFacts DEF TypeInv, WorldOK, OwnedWorld
  <2> QED BY <2>1, <2>2 DEF OwnedWorld
<1>4. ASSUME NEW w \in Workers, RunTask(w) PROVE OwnedWorld(world)'
  <2>1. DOMAIN world' = DOMAIN world
        /\ \A c \in DOMAIN world : world'[c] \in {world[c], CalculateNext(world[c]), SwapBuffers(world[c])}
    BY <1>4 DEF RunTask
  <2>2. \A c \in DOMAIN world : OwnedChunk(CalculateNext(world[c])) /\ OwnedChunk(SwapBuffers(world[c]))
    BY CalculateNextFacts, SwapFacts DEF TypeInv, WorldOK, OwnedWorld
  <2> QED BY <2>1, <2>2 DEF OwnedWorld
<1>5. CASE UNCHANGED world
  BY <1>5 DEF OwnedWorld
<1> QED
  BY <1>1, <1>2, <1>3, <1>4, <1>5
  DEF Next, vars, Join, Receive, PushCommand, Tick, StartTick, TryPop, CalculateDone, SwapDone, CountLiveCells,
      AwardIncome, RefreshFullSnapshotCache, BroadcastStats, Work, TakeTask, Finished

\* As long as nobody plays as 0, a cell has an owner exactly if it is alive,
\* through births, deaths, border exchanges, swaps and edits.
THEOREM Ownership == ASSUME NoOwner \notin Players PROVE Spec => []OwnedIffAlive
<1>1. Init => OwnedWorld(world)
  BY DEF Init, EmptyWorld, OwnedWorld
<1>2. TypeInv /\ OwnedWorld(world) /\ [Next]_vars => TypeInv' /\ OwnedWorld(world)'
  BY TypeStep, OwnedStep
<1>3. OwnedWorld(world) => OwnedIffAlive
  BY DEF OwnedIffAlive, OwnedWorld, OwnedChunk, OwnedCell
<1> QED BY TypeInit, <1>1, <1>2, <1>3, PTL DEF Spec

---------------------------------------------------------------------------
\* The deltas.

LEMMA CoverInit == Init => CoverInv
BY DEF Init, EmptyWorld, CoverInv

\* Outside the parallel phases nothing is outstanding.
LEMMA NothingOutstanding ==
    ASSUME TypeInv, TasksInv, phase \notin {"calculate", "swap"} \/ FuturesReady
    PROVE  \A c \in DOMAIN world : ~Outstanding(c)
<1>1. \A op, c : <<op, c>> # Idle
  BY DEF Idle
<1>2. pool = {} /\ \A w \in Workers : running[w] = Idle
  <2>1. CASE FuturesReady
    BY <2>1 DEF FuturesReady
  <2>2. CASE phase \notin {"calculate", "swap"}
    <3>1. pool = {}
      BY <2>2 DEF TypeInv, TypeOK, TasksInv
    <3>2. ASSUME NEW w \in Workers, running[w] # Idle PROVE FALSE
      BY <2>2, <3>2 DEF TypeInv, TypeOK, TasksInv
    <3> QED BY <3>1, <3>2
  <2> QED BY <2>1, <2>2
<1> QED BY <1>1, <1>2 DEF Outstanding

LEMMA CoverPrepare == ASSUME TypeInv, TasksInv, CoverInv, PrepareChunks PROVE CoverInv'
<1>1. world' = ExchangeBorders(world) /\ mirror' = mirror /\ phase' = "calculate"
  BY DEF PrepareChunks, outVars
<1>2. \A c \in DOMAIN world' : Outstanding(c)'
  BY DEF PrepareChunks, Outstanding
<1>3. \A c : \A l \in Inner : View(c, l)' = View(c, l)
  BY <1>1 DEF View
<1>4. ASSUME NEW c \in DOMAIN world' PROVE Covered(c, world[c])'
  <2>1. CASE c \in DOMAIN world
    <3>1. Covered(c, world[c])
      BY <2>1 DEF CoverInv, PrepareChunks
    <3> QED BY <1>1, <1>3, <2>1, <3>1, ExchangeBordersFacts DEF Covered, TypeInv
  <2>2. CASE c \notin DOMAIN world
    <3>1. \A l \in Inner : View(c, l) = Dead
      BY <2>2 DEF View, TypeInv, TypeOK
    <3> QED BY <1>1, <1>3, <2>2, <3>1, ExchangeBordersFacts DEF Covered, TypeInv
  <2> QED BY <2>1, <2>2
<1> QED BY <1>1, <1>2, <1>4 DEF CoverInv

LEMMA CoverApply == ASSUME TypeInv, TasksInv, CoverInv, ApplyCommand PROVE CoverInv'
<1> DEFINE cmd == Head(batch)
<1>1. world' = ApplyToWorld(world, balance, cmd) /\ mirror' = mirror /\ phase = "apply" /\ phase' = "apply"
  BY DEF ApplyCommand, outVars
<1>2. cmd \in Command
  BY CommandSequences DEF ApplyCommand, TypeInv, TypeOK
<1>3. \A c : \A l \in Inner : View(c, l)' = View(c, l)
  BY <1>1 DEF View
<1> HIDE DEF cmd
<1>4. ASSUME NEW c \in DOMAIN world' PROVE Covered(c, world[c])'
  <2>1. ASSUME NEW l \in Inner, ReadOrDead(world, c, l) # View(c, l) PROVE l \in world'[c].dirty
    <3>1. c \in DOMAIN world
      BY <2>1 DEF ReadOrDead, View, TypeInv, TypeOK
    <3>2. l \in world[c].dirty
      BY <1>1, <2>1, <3>1 DEF CoverInv, Covered, ReadOrDead
    <3> QED BY <1>1, <1>2, <3>1, <3>2, ApplyToWorldFacts DEF TypeInv
  <2>2. ASSUME NEW l \in Inner, GetCell(world'[c], l) # ReadOrDead(world, c, l) PROVE l \in world'[c].dirty
    BY <1>1, <1>2, <2>2, ApplyToWorldFacts DEF TypeInv
  <2> QED BY <1>3, <2>1, <2>2 DEF Covered
<1> QED BY <1>1, <1>4 DEF CoverInv

LEMMA CoverBroadcast == ASSUME TypeInv, TasksInv, CoverInv, BroadcastDelta PROVE CoverInv'
<1>1. world' = [c \in DOMAIN world |-> ClearDirty(world[c])] /\ phase = "broadcast" /\ phase' = "stats"
  BY DEF BroadcastDelta
<1>2. mirror' = [c \in DOMAIN mirror \cup DOMAIN Delta(world) |-> [l \in Inner |->
                    IF c \in DOMAIN Delta(world) /\ l \in DOMAIN Delta(world)[c]
                    THEN Delta(world)[c][l] ELSE View(c, l)]]
  BY DEF BroadcastDelta
<1>3. ASSUME NEW c \in DOMAIN world, NEW l \in Inner PROVE View(c, l)' = GetCell(world[c], l)
  <2>1. CASE l \in world[c].dirty
    <3>1. c \in DOMAIN Delta(world) /\ l \in DOMAIN Delta(world)[c] /\ Delta(world)[c][l] = GetCell(world[c], l)
      BY <2>1 DEF Delta
    <3> QED BY <1>2, <3>1 DEF View
  <2>2. CASE l \notin world[c].dirty
    <3>1. View(c, l) = GetCell(world[c], l)
      BY <1>1, <2>2 DEF CoverInv, Covered
    <3>2. c \in DOMAIN Delta(world) => l \notin DOMAIN Delta(world)[c]
      BY <2>2 DEF Delta
    <3>3. c \notin DOMAIN mirror => View(c, l) = Dead
      BY DEF View
    <3> QED BY <1>2, <3>1, <3>2, <3>3 DEF View
  <2> QED BY <2>1, <2>2
<1>4. \A c \in DOMAIN world : \A l \in Inner : GetCell(ClearDirty(world[c]), l) = GetCell(world[c], l)
  BY ClearDirtyFacts DEF TypeInv, WorldOK
<1> QED BY <1>1, <1>3, <1>4 DEF CoverInv, Covered

\* Whose task it is, and what the task does to the chunk.
LEMMA TaskOf ==
    ASSUME TypeInv, TasksInv, NEW w \in Workers, RunTask(w)
    PROVE  \E d \in DOMAIN world :
              /\ running[w] = <<phase, d>> /\ phase \in {"calculate", "swap"}
              /\ world' = [world EXCEPT ![d] =
                    IF phase = "calculate" THEN CalculateNext(world[d]) ELSE SwapBuffers(world[d])]
              /\ Outstanding(d) /\ ~Outstanding(d)'
              /\ \A c \in DOMAIN world : c # d => (Outstanding(c)' <=> Outstanding(c))
<1>1. PICK d \in DOMAIN world : running[w] = <<phase, d>> /\ phase \in {"calculate", "swap"}
  <2>1. running[w] = <<running[w][1], running[w][2]>>
        /\ running[w][2] \in DOMAIN world /\ running[w][1] \in {"calculate", "swap"}
    BY DEF RunTask, TypeInv, TypeOK, Idle
  <2>2. running[w][1] = phase
    BY DEF RunTask, TasksInv
  <2> QED BY <2>1, <2>2
<1>2. /\ running' = [running EXCEPT ![w] = Idle] /\ pool' = pool /\ phase' = phase
      /\ world' = [world EXCEPT ![d] =
                      IF phase = "calculate" THEN CalculateNext(world[d]) ELSE SwapBuffers(world[d])]
  BY <1>1 DEF RunTask
<1> DEFINE task == <<phase, d>>
<1>3. \A op, c : <<op, c>> # Idle
  BY DEF Idle
<1>4. running'[w] = Idle /\ \A v \in Workers : v # w => running'[v] = running[v]
  BY <1>2 DEF TypeInv, TypeOK
<1>5. Outstanding(d) /\ ~Outstanding(d)'
  <2>1. \A v \in Workers : running'[v] # task
    BY <1>1, <1>3, <1>4 DEF TasksInv
  <2>2. task \notin pool'
    BY <1>1, <1>2, <1>3 DEF TasksInv
  <2> QED BY <1>1, <1>2, <2>1, <2>2 DEF Outstanding
<1>6. ASSUME NEW c \in DOMAIN world, c # d PROVE Outstanding(c)' <=> Outstanding(c)
  <2>1. running[w] # <<phase, c>> /\ running'[w] # <<phase, c>>
    BY <1>1, <1>3, <1>4, <1>6
  <2> QED BY <1>2, <1>4, <2>1 DEF Outstanding
<1> QED BY <1>1, <1>2, <1>5, <1>6

\* Who takes a task does not finish it.
LEMMA TakingKeepsOutstanding ==
    ASSUME TypeInv, NEW w \in Workers, TakeTask(w), NEW c
    PROVE  Outstanding(c)' <=> Outstanding(c)
<1> DEFINE task == CHOOSE t \in pool : TRUE
<1>1. running' = [running EXCEPT ![w] = task] /\ pool' = pool \ {task} /\ phase' = phase
  BY DEF TakeTask
<1>2. task \in pool /\ running[w] = Idle
  BY DEF TakeTask
<1> HIDE DEF task
<1>3. running'[w] = task /\ \A v \in Workers : v # w => running'[v] = running[v]
  BY <1>1 DEF TypeInv, TypeOK
<1>4. running[w] # <<phase, c>>
  BY <1>2 DEF Idle
<1> QED BY <1>1, <1>2, <1>3, <1>4 DEF Outstanding

LEMMA CoverRun ==
    ASSUME TypeInv, TasksInv, CoverInv, NEW w \in Workers, RunTask(w)
    PROVE  CoverInv'
<1>1. PICK d \in DOMAIN world :
          /\ phase \in {"calculate", "swap"}
          /\ world' = [world EXCEPT ![d] =
                IF phase = "calculate" THEN CalculateNext(world[d]) ELSE SwapBuffers(world[d])]
          /\ Outstanding(d) /\ ~Outstanding(d)'
          /\ \A c \in DOMAIN world : c # d => (Outstanding(c)' <=> Outstanding(c))
  BY TaskOf
<1>2. phase' = phase /\ mirror' = mirror
  BY DEF RunTask, outVars
<1>3. \A c : \A l \in Inner : View(c, l)' = View(c, l)
  BY <1>2 DEF View
<1>4. DOMAIN world' = DOMAIN world /\ \A c \in DOMAIN world : c # d => world'[c] = world[c]
  BY <1>1
<1>5. \A c \in DOMAIN world : c # d =>
          /\ Covered(c, world[c])' <=> Covered(c, world[c])
          /\ Covered(c, SwapBuffers(world[c]))' <=> Covered(c, SwapBuffers(world[c]))
  BY <1>3, <1>4 DEF Covered
<1>6. world[d] \in ChunkType
  BY <1>1 DEF TypeInv, WorldOK
<1>7. CASE phase = "calculate"
  <2>1. world'[d] = CalculateNext(world[d])
    BY <1>1, <1>7
  <2>2. Covered(d, world[d])
    BY <1>1, <1>7 DEF CoverInv
  <2>3. Covered(d, CalculateNext(world[d])) /\ Covered(d, SwapBuffers(CalculateNext(world[d])))
    <3>1. SwapBuffers(CalculateNext(world[d])).dirty = CalculateNext(world[d]).dirty
      BY <1>6, CalculateNextFacts, SwapFacts
    <3> QED BY <1>6, <2>2, <3>1, CalculateNextFacts DEF Covered
  <2>4. Covered(d, world[d])' /\ Covered(d, SwapBuffers(world[d]))'
    BY <1>3, <2>1, <2>3 DEF Covered
  <2> QED BY <1>1, <1>2, <1>4, <1>5, <1>7, <2>4 DEF CoverInv
<1>8. CASE phase = "swap"
  <2>1. world'[d] = SwapBuffers(world[d])
    BY <1>1, <1>8
  <2>2. Covered(d, SwapBuffers(world[d]))
    BY <1>1, <1>8 DEF CoverInv
  <2>3. Covered(d, world[d])'
    BY <1>3, <2>1, <2>2 DEF Covered
  <2> QED BY <1>1, <1>2, <1>4, <1>5, <1>8, <2>3 DEF CoverInv
<1> QED BY <1>1, <1>7, <1>8

LEMMA CoverStep == ASSUME TypeInv, TasksInv, CoverInv, [Next]_vars PROVE CoverInv'
<1>1. ASSUME NEW w \in Workers, TakeTask(w) PROVE CoverInv'
  <2>1. UNCHANGED <<phase, world, mirror>>
    BY <1>1 DEF TakeTask, outVars
  <2>2. \A c : Outstanding(c)' <=> Outstanding(c)
    BY <1>1, TakingKeepsOutstanding
  <2> QED BY <2>1, <2>2 DEF CoverInv, Covered, View
<1>2. CASE CalculateDone
  <2>1. \A c \in DOMAIN world : ~Outstanding(c)
    BY <1>2, NothingOutstanding DEF CalculateDone
  <2>2. \A c \in DOMAIN world' : Outstanding(c)'
    BY <1>2 DEF CalculateDone, Outstanding
  <2> QED BY <1>2, <2>1, <2>2 DEF CalculateDone, outVars, CoverInv, Covered, View
<1>3. CASE SwapDone
  <2>1. \A c \in DOMAIN world : ~Outstanding(c)
    BY <1>3, NothingOutstanding DEF SwapDone
  <2> QED BY <1>3, <2>1 DEF SwapDone, outVars, CoverInv, Covered, View
<1>4. ASSUME UNCHANGED <<world, mirror>>, phase \notin {"calculate", "swap"}, phase' \notin {"calculate", "swap"}
      PROVE  CoverInv'
  BY <1>4 DEF CoverInv, Covered, View
<1>5. CASE UNCHANGED <<world, mirror, poolVars, phase>>
  BY <1>5 DEF CoverInv, Covered, View, Outstanding, poolVars
<1> QED
  BY <1>1, <1>2, <1>3, <1>4, <1>5, CoverPrepare, CoverApply, CoverBroadcast, CoverRun
  DEF Next, vars, outVars, Join, Receive, PushCommand, Tick, StartTick, TryPop, CountLiveCells, AwardIncome,
      RefreshFullSnapshotCache, BroadcastStats, Work, Finished

\* Whatever a generation or an edit changes is in the deltas sent or in the
\* dirty list of its chunk: what a reader of every delta does not know yet, it
\* will be told by the next.
THEOREM DeltasAreComplete == Spec => []DeltaCoversChanges
<1> DEFINE Inv == TypeInv /\ TasksInv /\ CoverInv
<1>1. Init => Inv
  BY TypeInit, TasksInit, CoverInit
<1>2. Inv /\ [Next]_vars => Inv'
  BY TypeStep, TasksStep, CoverStep
<1>3. Inv => DeltaCoversChanges
  BY DEF CoverInv, Covered, DeltaCoversChanges
<1> QED BY <1>1, <1>2, <1>3, PTL DEF Spec

---------------------------------------------------------------------------
\* The inductive invariants.

\* Position by position: what is pushed and not applied waits in the batch,
\* then in the queue.  Outside the part of the tick that handles commands the
\* batch is empty.
OrderInv ==
    /\ Len(pushed) = applied + Len(batch) + Len(queue)
    /\ \A i \in 1 .. Len(batch) : pushed[applied + i] = batch[i]
    /\ \A i \in 1 .. Len(queue) : pushed[applied + Len(batch) + i] = queue[i]
    /\ phase \notin {"drain", "calculate", "swap", "apply"} => batch = <<>>

\* A reader of every delta knows the world.
UpToDate == \A c : \A l \in Inner : View(c, l) = ReadOrDead(world, c, l)

\* From the count, the refresh and the broadcast on, each output is of the
\* world as it is until the next generation.
OutputInv ==
    /\ phase \in {"award", "refresh", "broadcast", "stats", "idle"} => counts = LiveCounts(world)
    /\ phase \in {"broadcast", "stats", "idle"} => cache = FullSnapshot(world)
    /\ phase \in {"stats", "idle"} => UpToDate
    /\ phase = "idle" => stats.live = counts /\ stats.generation = seq

\* What a full snapshot says of a position: cells it does not name are dead.
ShownBy(snapshot, c, l) ==
    IF c \in DOMAIN snapshot /\ l \in DOMAIN snapshot[c]
    THEN [alive |-> TRUE, owner |-> snapshot[c][l]] ELSE Dead

SnapshotInv ==
    phase \notin {"broadcast", "stats"} => \A c : \A l \in Inner : ShownBy(cache, c, l) = View(c, l)

---------------------------------------------------------------------------
\* The commands.

LEMMA OrderInit == Init => OrderInv
BY DEF Init, OrderInv

LEMMA OrderPush == ASSUME TypeInv, OrderInv, PushCommand PROVE OrderInv'
<1> DEFINE cmd == Head(arriving)
<1>1. /\ queue' = Append(queue, cmd) /\ pushed' = Append(pushed, cmd)
      /\ UNCHANGED <<batch, applied, phase>>
  BY DEF PushCommand
<1>2. queue \in Seq(Command) /\ pushed \in Seq(Command) /\ batch \in Seq(Command) /\ applied \in Nat
  BY DEF TypeInv, TypeOK
<1>3. cmd \in Command
  BY CommandSequences DEF PushCommand, TypeInv, TypeOK
<1> HIDE DEF cmd
<1>4. /\ Len(queue') = Len(queue) + 1 /\ queue'[Len(queue) + 1] = cmd
      /\ \A i \in 1 .. Len(queue) : queue'[i] = queue[i]
  BY <1>1, <1>2, <1>3, AppendProperties
<1>5. /\ Len(pushed') = Len(pushed) + 1 /\ pushed'[Len(pushed) + 1] = cmd
      /\ \A i \in 1 .. Len(pushed) : pushed'[i] = pushed[i]
  BY <1>1, <1>2, <1>3, AppendProperties
<1>6. Len(batch) \in Nat /\ Len(queue) \in Nat
  BY <1>2, LenProperties
<1>7. ASSUME NEW i \in 1 .. Len(batch) PROVE pushed'[applied + i] = batch[i]
  BY <1>2, <1>5, <1>6 DEF OrderInv
<1>8. ASSUME NEW i \in 1 .. Len(queue') PROVE pushed'[applied + Len(batch) + i] = queue'[i]
  <2>1. CASE i = Len(queue) + 1
    BY <1>2, <1>4, <1>5, <1>6, <2>1 DEF OrderInv
  <2>2. CASE i \in 1 .. Len(queue)
    BY <1>2, <1>4, <1>5, <1>6, <2>2 DEF OrderInv
  <2> QED BY <1>4, <1>6, <2>1, <2>2
<1>9. Len(pushed') = applied + Len(batch) + Len(queue')
  BY <1>2, <1>4, <1>5, <1>6 DEF OrderInv
<1> QED BY <1>1, <1>7, <1>8, <1>9 DEF OrderInv

LEMMA OrderPop == ASSUME TypeInv, OrderInv, TryPop PROVE OrderInv'
<1>1. /\ batch' = Append(batch, Head(queue)) /\ queue' = Tail(queue) /\ phase = "drain" /\ phase' = "drain"
      /\ pushed' = pushed /\ applied' = applied
  BY DEF TryPop, logVars
<1>2. queue \in Seq(Command) /\ queue # <<>> /\ batch \in Seq(Command) /\ applied \in Nat
  BY DEF TypeInv, TypeOK, TryPop
<1>3. Head(queue) \in Command /\ Head(queue) = queue[1]
  BY <1>2, CommandSequences
<1>4. /\ Len(batch') = Len(batch) + 1 /\ batch'[Len(batch) + 1] = Head(queue)
      /\ \A i \in 1 .. Len(batch) : batch'[i] = batch[i]
  BY <1>1, <1>2, <1>3, AppendProperties
<1>5. Len(queue') = Len(queue) - 1 /\ \A i \in 1 .. Len(queue') : queue'[i] = queue[i + 1]
  BY <1>1, <1>2, HeadTailProperties
<1>6. Len(batch) \in Nat /\ Len(queue) \in Nat \ {0}
  BY <1>2, LenProperties, EmptySeq
<1>7. ASSUME NEW i \in 1 .. Len(batch') PROVE pushed[applied + i] = batch'[i]
  <2>1. CASE i = Len(batch) + 1
    <3>1. pushed[applied + Len(batch) + 1] = queue[1]
      BY <1>6 DEF OrderInv
    <3>2. applied + i = applied + Len(batch) + 1
      BY <1>2, <1>6, <2>1
    <3> QED BY <1>3, <1>4, <2>1, <3>1, <3>2
  <2>2. CASE i \in 1 .. Len(batch)
    BY <1>4, <2>2 DEF OrderInv
  <2> QED BY <1>4, <1>6, <2>1, <2>2
<1>8. ASSUME NEW i \in 1 .. Len(queue') PROVE pushed[applied + Len(batch') + i] = queue'[i]
  <2>1. i + 1 \in 1 .. Len(queue) /\ applied + Len(batch') + i = applied + Len(batch) + (i + 1)
    BY <1>2, <1>4, <1>5, <1>6
  <2> QED BY <1>5, <2>1 DEF OrderInv
<1>9. Len(pushed) = applied + Len(batch') + Len(queue')
  BY <1>2, <1>4, <1>5, <1>6 DEF OrderInv
<1> QED BY <1>1, <1>7, <1>8, <1>9 DEF OrderInv

LEMMA OrderApply == ASSUME TypeInv, OrderInv, ApplyCommand PROVE OrderInv'
<1>1. /\ batch' = Tail(batch) /\ applied' = applied + 1 /\ phase = "apply" /\ phase' = "apply"
      /\ pushed' = pushed /\ queue' = queue
  BY DEF ApplyCommand
<1>2. batch \in Seq(Command) /\ batch # <<>> /\ queue \in Seq(Command) /\ applied \in Nat
  BY DEF TypeInv, TypeOK, ApplyCommand
<1>3. Len(batch') = Len(batch) - 1 /\ \A i \in 1 .. Len(batch') : batch'[i] = batch[i + 1]
  BY <1>1, <1>2, HeadTailProperties
<1>4. Len(queue) \in Nat /\ Len(batch) \in Nat \ {0}
  BY <1>2, LenProperties, EmptySeq
<1>5. ASSUME NEW i \in 1 .. Len(batch') PROVE pushed[applied' + i] = batch'[i]
  <2>1. i + 1 \in 1 .. Len(batch) /\ applied' + i = applied + (i + 1)
    BY <1>1, <1>2, <1>3, <1>4
  <2> QED BY <1>3, <2>1 DEF OrderInv
<1>6. applied' + Len(batch') = applied + Len(batch)
  BY <1>1, <1>2, <1>3, <1>4
<1>7. Len(pushed') = applied' + Len(batch') + Len(queue')
  BY <1>1, <1>6 DEF OrderInv
<1>8. \A i \in 1 .. Len(queue') : pushed'[applied' + Len(batch') + i] = queue'[i]
  BY <1>1, <1>6 DEF OrderInv
<1>9. \A i \in 1 .. Len(batch') : pushed'[applied' + i] = batch'[i]
  BY <1>1, <1>5
<1> QED BY <1>1, <1>7, <1>8, <1>9 DEF OrderInv

LEMMA OrderStep == ASSUME TypeInv, OrderInv, [Next]_vars PROVE OrderInv'
<1>1. CASE StartTick
  <2>1. batch = <<>> /\ batch' = <<>>
    BY <1>1 DEF StartTick, OrderInv
  <2> QED BY <1>1, <2>1 DEF StartTick, OrderInv, logVars
<1>2. CASE CountLiveCells
  BY <1>2 DEF CountLiveCells, OrderInv, logVars
<1>3. ASSUME UNCHANGED <<queue, batch, pushed, applied>>,
             \/ phase' \in {"drain", "calculate", "swap", "apply"}
             \/ phase \notin {"drain", "calculate", "swap", "apply"}
      PROVE  OrderInv'
  BY <1>3 DEF OrderInv
<1>4. CASE UNCHANGED <<queue, batch, pushed, applied, phase>>
  BY <1>4 DEF OrderInv
<1> QED
  BY <1>1, <1>2, <1>3, <1>4, OrderPush, OrderPop, OrderApply
  DEF Next, vars, logVars, Join, Receive, Tick, PrepareChunks, CalculateDone, SwapDone, AwardIncome,
      RefreshFullSnapshotCache, BroadcastDelta, BroadcastStats, Work, TakeTask, RunTask, Finished

\* No command is lost, repeated or overtaken between the network and the
\* world, also when a tick drains only part of what a client sent.
THEOREM OrderKept == Spec => []CommandsInOrder
<1>1. TypeInv /\ OrderInv /\ [Next]_vars => TypeInv' /\ OrderInv'
  BY TypeStep, OrderStep
<1>2. ASSUME TypeInv, OrderInv PROVE CommandsInOrder
  <2> DEFINE left == SubSeq(pushed, applied + 1, Len(pushed))
             waiting == batch \o queue
  <2>1. /\ batch \in Seq(Command) /\ queue \in Seq(Command) /\ pushed \in Seq(Command)
        /\ applied \in Nat /\ Len(batch) \in Nat /\ Len(queue) \in Nat
    BY <1>2, LenProperties DEF TypeInv, TypeOK
  <2>2. Len(pushed) = applied + Len(batch) + Len(queue)
    BY <1>2 DEF OrderInv
  <2>3. /\ waiting \in Seq(Command) /\ Len(waiting) = Len(batch) + Len(queue)
        /\ \A i \in 1 .. Len(batch) + Len(queue) :
              waiting[i] = IF i <= Len(batch) THEN batch[i] ELSE queue[i - Len(batch)]
    BY <2>1, ConcatProperties
  <2>4. \A i \in applied + 1 .. Len(pushed) : pushed[i] \in Command
    BY <2>1, <2>2, ElementOfSeq
  <2>5. applied + 1 \in Int /\ Len(pushed) \in Int
        /\ Len(pushed) - (applied + 1) + 1 = Len(batch) + Len(queue)
    BY <2>1, <2>2
  <2>6. /\ left \in Seq(Command)
        /\ Len(left) = IF applied + 1 <= Len(pushed) THEN Len(pushed) - (applied + 1) + 1 ELSE 0
        /\ \A i \in 1 .. Len(pushed) - (applied + 1) + 1 : left[i] = pushed[applied + 1 + i - 1]
    BY <2>4, <2>5, SubSeqProperties
  <2> HIDE DEF left, waiting
  <2>7. Len(left) = Len(waiting)
    BY <2>1, <2>2, <2>3, <2>6
  <2>8. ASSUME NEW i \in 1 .. Len(left) PROVE left[i] = waiting[i]
    <3>1. i \in 1 .. Len(batch) + Len(queue) /\ left[i] = pushed[applied + i]
      BY <2>1, <2>3, <2>5, <2>6, <2>7
    <3>2. waiting[i] = IF i <= Len(batch) THEN batch[i] ELSE queue[i - Len(batch)]
      BY <2>3, <3>1
    <3>3. CASE i <= Len(batch)
      <4>1. i \in 1 .. Len(batch)
        BY <2>1, <3>1, <3>3
      <4>2. pushed[applied + i] = batch[i]
        BY <1>2, <4>1 DEF OrderInv
      <4> QED BY <3>1, <3>2, <3>3, <4>2
    <3>4. CASE ~(i <= Len(batch))
      <4>1. i - Len(batch) \in 1 .. Len(queue) /\ applied + i = applied + Len(batch) + (i - Len(batch))
        BY <2>1, <3>1, <3>4
      <4>2. pushed[applied + Len(batch) + (i - Len(batch))] = queue[i - Len(batch)]
        BY <1>2, <4>1 DEF OrderInv
      <4> QED BY <3>1, <3>2, <3>4, <4>1, <4>2
    <3> QED BY <3>3, <3>4
  <2>9. left = waiting
    BY <2>3, <2>6, <2>7, <2>8, SeqEqual
  <2> QED BY <2>9 DEF left, waiting, CommandsInOrder
<1> QED BY TypeInit, OrderInit, <1>1, <1>2, PTL DEF Spec

---------------------------------------------------------------------------
\* The outputs.

\* Clearing the dirty lists changes nothing that is counted or shown.
LEMMA BroadcastKeepsCells ==
    ASSUME TypeInv, BroadcastDelta
    PROVE  /\ DOMAIN world' = DOMAIN world
           /\ \A c : \A l \in Inner : ReadOrDead(world', c, l) = ReadOrDead(world, c, l)
           /\ FullSnapshot(world') = FullSnapshot(world)
           /\ LiveCounts(world') = LiveCounts(world)
<1>1. world' = [c \in DOMAIN world |-> ClearDirty(world[c])]
  BY DEF BroadcastDelta
<1>2. DOMAIN world' = DOMAIN world
  BY <1>1
<1>3. ASSUME NEW c \in DOMAIN world
      PROVE  /\ \A l \in Inner : GetCell(world'[c], l) = GetCell(world[c], l)
             /\ world'[c].cur = world[c].cur /\ world'[c].buf = world[c].buf
  BY <1>1, <1>3, ClearDirtyFacts DEF ClearDirty, TypeInv, WorldOK, ChunkType
<1>4. \A c \in DOMAIN world : HasLiveCells(world'[c]) <=> HasLiveCells(world[c])
  BY <1>3 DEF HasLiveCells
<1>5. FullSnapshot(world') = FullSnapshot(world)
  BY <1>2, <1>3, <1>4 DEF FullSnapshot
<1>6. \A p : LiveCellsOf(world', p) = LiveCellsOf(world, p)
  BY <1>2, <1>3 DEF LiveCellsOf
<1>7. LiveCounts(world') = LiveCounts(world)
  BY <1>6 DEF LiveCounts
<1> QED BY <1>2, <1>3, <1>5, <1>7 DEF ReadOrDead

\* Who applies the delta on top of the earlier ones knows the world.
LEMMA BroadcastTellsAll ==
    ASSUME TypeInv, TasksInv, CoverInv, BroadcastDelta
    PROVE  UpToDate'
<1>1. CoverInv'
  BY CoverBroadcast
<1>2. phase' = "stats" /\ \A c \in DOMAIN world' : world'[c].dirty = {}
  BY DEF BroadcastDelta, ClearDirty, TypeInv, WorldOK, ChunkType
<1>3. ASSUME NEW c, NEW l \in Inner PROVE View(c, l)' = ReadOrDead(world, c, l)'
  <2>1. CASE c \in DOMAIN world'
    BY <1>1, <1>2, <2>1 DEF CoverInv, Covered, ReadOrDead
  <2>2. CASE c \notin DOMAIN world'
    BY <2>2, MirrorType DEF View, ReadOrDead
  <2> QED BY <2>1, <2>2
<1> QED BY <1>3 DEF UpToDate

LEMMA OutputInit == Init => OutputInv
<1> SUFFICES ASSUME Init PROVE OutputInv
  OBVIOUS
<1>1. world = EmptyWorld /\ DOMAIN world = {} /\ DOMAIN mirror = {}
  BY DEF Init, EmptyWorld
<1>2. \A p : LiveCellsOf(world, p) = {}
  BY <1>1 DEF LiveCellsOf
<1>3. LiveCounts(world) = [p \in {} |-> 0]
  BY <1>2 DEF LiveCounts
<1>4. UpToDate
  BY <1>1 DEF UpToDate, View, ReadOrDead
<1> QED BY <1>1, <1>3, <1>4 DEF Init, OutputInv

LEMMA OutputStep == ASSUME TypeInv, TasksInv, CoverInv, OutputInv, [Next]_vars PROVE OutputInv'
<1>1. CASE BroadcastDelta
  BY <1>1, BroadcastKeepsCells, BroadcastTellsAll DEF BroadcastDelta, OutputInv
<1>2. CASE CountLiveCells
  BY <1>2 DEF CountLiveCells, OutputInv
<1>3. CASE AwardIncome
  BY <1>3 DEF AwardIncome, OutputInv
<1>4. CASE RefreshFullSnapshotCache
  BY <1>4 DEF RefreshFullSnapshotCache, OutputInv
<1>5. CASE BroadcastStats
  BY <1>5 DEF BroadcastStats, OutputInv, UpToDate, View
<1>6. ASSUME NEW w \in Workers, RunTask(w) PROVE OutputInv'
  <2>1. phase \in {"calculate", "swap"} /\ phase' = phase
    BY <1>6 DEF RunTask, TasksInv, TypeInv, TypeOK, Idle
  <2> QED BY <2>1 DEF OutputInv
<1>7. CASE phase' \in {"drain", "calculate", "swap", "apply"}
  BY <1>7 DEF OutputInv
<1>8. CASE UNCHANGED <<world, counts, cache, stats, mirror, phase, seq>>
  BY <1>8 DEF OutputInv, UpToDate, View
<1> QED
  BY <1>1, <1>2, <1>3, <1>4, <1>5, <1>6, <1>7, <1>8
  DEF Next, vars, outVars, Join, Receive, PushCommand, Tick, StartTick, TryPop, PrepareChunks, CalculateDone,
      SwapDone, ApplyCommand, Work, TakeTask, Finished

\* Between ticks the snapshot a joining player would get, the deltas the others
\* have and the statistics are all of the world the last tick left.
THEOREM OutputsOfATick == Spec => []OutputsAgree
<1> DEFINE Inv == TypeInv /\ TasksInv /\ CoverInv /\ OutputInv
<1>1. Init => Inv
  BY TypeInit, TasksInit, CoverInit, OutputInit
<1>2. Inv /\ [Next]_vars => Inv'
  BY TypeStep, TasksStep, CoverStep, OutputStep
<1>3. Inv => OutputsAgree
  BY DEF OutputInv, UpToDate, ReadOrDead, OutputsAgree
<1> QED BY <1>1, <1>2, <1>3, PTL DEF Spec

---------------------------------------------------------------------------
\* The cached snapshot.

\* If cells are owned exactly if they are alive, a snapshot that names the
\* live cells and their owners says all there is to say.
LEMMA SnapshotShows ==
    ASSUME NEW w, WorldOK(w), OwnedWorld(w), NEW c, NEW l \in Inner
    PROVE  ShownBy(FullSnapshot(w), c, l) = ReadOrDead(w, c, l)
<1>1. CASE c \notin DOMAIN w
  BY <1>1 DEF ShownBy, FullSnapshot, ReadOrDead
<1>2. CASE c \in DOMAIN w
  <2> DEFINE cell == GetCell(w[c], l)
  <2>1. cell \in Cell /\ OwnedCell(cell) /\ ReadOrDead(w, c, l) = cell
    BY <1>2, GetCellType DEF WorldOK, OwnedWorld, ReadOrDead
  <2>2. CASE cell.alive
    <3>1. HasLiveCells(w[c])
      BY <1>2, <2>2, Slots DEF HasLiveCells, GetCell
    <3>2. c \in DOMAIN FullSnapshot(w) /\ l \in DOMAIN FullSnapshot(w)[c] /\ FullSnapshot(w)[c][l] = cell.owner
      BY <1>2, <2>2, <3>1 DEF FullSnapshot
    <3>3. cell = [alive |-> TRUE, owner |-> cell.owner]
      BY <2>1, <2>2 DEF Cell
    <3> QED BY <2>1, <3>2, <3>3 DEF ShownBy
  <2>3. CASE ~cell.alive
    <3>1. c \in DOMAIN FullSnapshot(w) => l \notin DOMAIN FullSnapshot(w)[c]
      BY <1>2, <2>3 DEF FullSnapshot
    <3>2. cell = Dead
      BY <2>1, <2>3 DEF Cell, OwnedCell, Dead
    <3> QED BY <2>1, <3>1, <3>2 DEF ShownBy
  <2> QED BY <2>2, <2>3
<1> QED BY <1>1, <1>2

LEMMA SnapshotStep ==
    ASSUME TypeInv, OwnedWorld(world), OutputInv, SnapshotInv, [Next]_vars
    PROVE  SnapshotInv'
<1>1. CASE BroadcastStats
  <2>1. /\ phase = "stats" /\ cache' = cache /\ mirror' = mirror
        /\ WorldOK(world) /\ cache = FullSnapshot(world) /\ UpToDate
    BY <1>1 DEF BroadcastStats, OutputInv, TypeInv
  <2>2. \A c : \A l \in Inner : ShownBy(cache, c, l) = View(c, l)
    BY <2>1, SnapshotShows DEF UpToDate
  <2> QED BY <2>1, <2>2 DEF SnapshotInv, View
<1>2. CASE phase' \in {"broadcast", "stats"}
  BY <1>2 DEF SnapshotInv
<1>3. ASSUME UNCHANGED <<cache, mirror>>, phase \notin {"broadcast", "stats"} PROVE SnapshotInv'
  BY <1>3 DEF SnapshotInv, View
<1>4. CASE UNCHANGED <<cache, mirror, phase>>
  BY <1>4 DEF SnapshotInv, View
<1> QED
  BY <1>1, <1>2, <1>3, <1>4
  DEF Next, vars, outVars, Join, Receive, PushCommand, Tick, StartTick, TryPop, PrepareChunks, CalculateDone,
      SwapDone, ApplyCommand, CountLiveCells, AwardIncome, RefreshFullSnapshotCache, BroadcastDelta, Work, TakeTask,
      RunTask, Finished

\* As long as nobody plays as 0, the snapshot served to a joining player shows
\* what the deltas broadcast so far add up to: the world after an entire tick,
\* whatever the tick under way has done to the chunks.
THEOREM SnapshotOfATick == ASSUME NoOwner \notin Players PROVE Spec => []SnapshotIsATick
<1> DEFINE Inv == TypeInv /\ TasksInv /\ CoverInv /\ OwnedWorld(world) /\ OutputInv /\ SnapshotInv
<1>1. Init => Inv
  <2>1. Init => OwnedWorld(world) /\ SnapshotInv
    BY DEF Init, EmptyWorld, OwnedWorld, SnapshotInv, ShownBy, FullSnapshot, View
  <2> QED BY <2>1, TypeInit, TasksInit, CoverInit, OutputInit
<1>2. Inv /\ [Next]_vars => Inv'
  BY TypeStep, TasksStep, CoverStep, OwnedStep, OutputStep, SnapshotStep
<1>3. Inv => SnapshotIsATick
  BY DEF SnapshotInv, ShownBy, SnapshotIsATick
<1> QED BY <1>1, <1>2, <1>3, PTL DEF Spec
=============================================================================
