-------------------------- MODULE RefinementProofs --------------------------
(***************************************************************************)
(* GameServer.tla implements LifeGame.tla under the mapping of             *)
(* GameServerRefinement.tla, for chunks of any size, any number of workers *)
(* and any commands.                                                       *)
(*                                                                         *)
(* Positions and pairs of chunk and local cell correspond one to one, so   *)
(* the plane is a function of the cells (PlaneShowsCells).  While chunks   *)
(* are computed each has its margin and its border (ComputeInv), hence a   *)
(* buffer shows the plane around its chunk, and what its neighbours and    *)
(* votes count are the game's.  When the last chunk is computed all of the *)
(* other buffers together are the evolved plane.                           *)
(***************************************************************************)
EXTENDS GameServerRefinement, GameServerProofs

\* The chunk and the local cell of a position.
Position == Int \X Int
ChunkAt(pos) == <<pos[1] \div Width, pos[2] \div Height>>
LocalAt(pos) == <<pos[1] % Width, pos[2] % Height>>

\* Division by the size of a chunk, on one axis.
LEMMA Axis ==
    ASSUME NEW size \in Nat \ {0}, NEW g \in Int
    PROVE  /\ g \div size \in Int /\ g % size \in 0 .. size - 1
           /\ (g \div size) * size + (g % size) = g
BY SMT

\* Only one pair of quotient and rest makes up a number.
LEMMA AxisUnique ==
    ASSUME NEW size \in Nat \ {0}, NEW c \in Int, NEW d \in Int,
           NEW l \in 0 .. size - 1, NEW m \in 0 .. size - 1,
           c * size + l = d * size + m
    PROVE  c = d /\ l = m
<1>1. CASE c = d
  BY <1>1
<1>2. CASE c < d
  <2>1. (d - c) * size >= size
    BY <1>2, SMT
  <2>2. (d - c) * size = l - m
    BY SMT
  <2> QED BY <2>1, <2>2, SMT
<1>3. CASE d < c
  <2>1. (c - d) * size >= size
    BY <1>3, SMT
  <2>2. (c - d) * size = m - l
    BY SMT
  <2> QED BY <2>1, <2>2, SMT
<1> QED BY <1>1, <1>2, <1>3

\* Neighbouring numbers lie in the same or in neighbouring chunks.
LEMMA AxisNear ==
    ASSUME NEW size \in Nat \ {0}, NEW g \in Int, NEW h \in Int, g - 1 <= h, h <= g + 1
    PROVE  g \div size - 1 <= h \div size /\ h \div size <= g \div size + 1
<1> DEFINE a == g \div size
           b == h \div size
           i == g % size
           j == h % size
<1>1. a \in Int /\ b \in Int /\ i \in 0 .. size - 1 /\ j \in 0 .. size - 1
      /\ a * size + i = g /\ b * size + j = h
  BY Axis
<1> HIDE DEF a, b, i, j
<1>2. CASE b < a - 1
  <2>1. (a - b) * size >= 2 * size
    BY <1>1, <1>2, SMT
  <2> QED BY <1>1, <2>1, SMT
<1>3. CASE b > a + 1
  <2>1. (b - a) * size >= 2 * size
    BY <1>1, <1>3, SMT
  <2> QED BY <1>1, <2>1, SMT
<1>4. a - 1 <= b /\ b <= a + 1
  BY <1>1, <1>2, <1>3
<1> QED BY <1>4 DEF a, b

\* Every position has one chunk and one cell of it.
LEMMA Grid ==
    /\ \A pos \in Position :
          ChunkAt(pos) \in Coord /\ LocalAt(pos) \in Inner /\ Global(ChunkAt(pos), LocalAt(pos)) = pos
    /\ \A c \in Coord : \A l \in Inner :
          Global(c, l) \in Position /\ ChunkAt(Global(c, l)) = c /\ LocalAt(Global(c, l)) = l
<1>1. ASSUME NEW pos \in Position
      PROVE  ChunkAt(pos) \in Coord /\ LocalAt(pos) \in Inner /\ Global(ChunkAt(pos), LocalAt(pos)) = pos
  <2>1. pos[1] \in Int /\ pos[2] \in Int /\ pos = <<pos[1], pos[2]>>
    BY DEF Position
  <2> QED BY <2>1, Axis, ChunkAssumption DEF ChunkAt, LocalAt, Global, Coord, Inner
<1>2. ASSUME NEW c \in Coord, NEW l \in Inner
      PROVE  Global(c, l) \in Position /\ ChunkAt(Global(c, l)) = c /\ LocalAt(Global(c, l)) = l
  <2>1. /\ c[1] \in Int /\ c[2] \in Int /\ c = <<c[1], c[2]>>
        /\ l[1] \in 0 .. Width - 1 /\ l[2] \in 0 .. Height - 1 /\ l = <<l[1], l[2]>>
    BY DEF Coord, Inner
  <2>2. ASSUME NEW size \in Nat \ {0}, NEW a \in Int, NEW i \in 0 .. size - 1
        PROVE  /\ a * size + i \in Int
               /\ (a * size + i) \div size = a /\ (a * size + i) % size = i
    <3> DEFINE g == a * size + i
    <3>1. g \in Int
      BY SMT
    <3> HIDE DEF g
    <3>2. /\ g \div size \in Int /\ g % size \in 0 .. size - 1
          /\ (g \div size) * size + (g % size) = g
      BY <3>1, Axis
    <3>3. (g \div size) * size + (g % size) = a * size + i
      BY <3>2 DEF g
    <3>4. g \div size = a /\ g % size = i
      BY <3>2, <3>3, AxisUnique
    <3> QED BY <3>1, <3>4 DEF g
  <2> QED BY <2>1, <2>2, ChunkAssumption DEF ChunkAt, LocalAt, Global, Position
<1> QED BY <1>1, <1>2

---------------------------------------------------------------------------
\* The plane of the game, position by position.

CellOn(pos) ==
    IF ChunkAt(pos) \in DOMAIN world THEN GetCell(Shown(ChunkAt(pos)), LocalAt(pos)) ELSE Dead

PlaneShowsCells ==
    /\ Plane = [pos \in DOMAIN Plane |-> Plane[pos]]
    /\ DOMAIN Plane = {pos \in Position : CellOn(pos).alive}
    /\ \A pos \in DOMAIN Plane : Plane[pos] = CellOn(pos).owner

LEMMA PlaneFacts == TypeInv => PlaneShowsCells
<1> SUFFICES ASSUME TypeInv PROVE PlaneShowsCells
  OBVIOUS
<1>1. ASSUME NEW pos \in LivingPositions
      PROVE  pos \in Position /\ CellOn(pos).alive /\ CellAt(pos) = CellOn(pos)
  <2>1. PICK x \in (DOMAIN world) \X Inner : GetCell(Shown(x[1]), x[2]).alive /\ pos = Global(x[1], x[2])
    BY DEF LivingPositions
  <2>2. x[1] \in DOMAIN world /\ x[1] \in Coord /\ x[2] \in Inner
    BY <2>1 DEF TypeInv, WorldOK
  <2>3. pos \in Position /\ ChunkAt(pos) = x[1] /\ LocalAt(pos) = x[2]
    BY <2>1, <2>2, Grid
  <2> QED BY <2>1, <2>2, <2>3 DEF CellOn, CellAt, ChunkAt, LocalAt
<1>2. ASSUME NEW pos \in Position, CellOn(pos).alive
      PROVE  pos \in LivingPositions
  <2> DEFINE x == <<ChunkAt(pos), LocalAt(pos)>>
  <2>1. ChunkAt(pos) \in DOMAIN world
    BY <1>2 DEF CellOn, Dead
  <2>2. LocalAt(pos) \in Inner /\ Global(ChunkAt(pos), LocalAt(pos)) = pos
    BY Grid
  <2>3. x \in {y \in (DOMAIN world) \X Inner : GetCell(Shown(y[1]), y[2]).alive}
    BY <1>2, <2>1, <2>2 DEF CellOn
  <2>4. pos = Global(x[1], x[2])
    BY <2>2
  <2> QED BY <2>3, <2>4 DEF LivingPositions
<1> QED BY <1>1, <1>2 DEF Plane, PlaneShowsCells

\* Cells that stay as they are leave the plane as it is.
LEMMA SamePlane ==
    ASSUME TypeInv, TypeInv', \A pos \in Position : CellOn(pos)' = CellOn(pos)
    PROVE  Plane' = Plane
<1>1. PlaneShowsCells /\ PlaneShowsCells'
  BY PlaneFacts, PTL
<1>2. DOMAIN Plane' = DOMAIN Plane
  BY <1>1 DEF PlaneShowsCells
<1>3. \A pos \in DOMAIN Plane : Plane'[pos] = Plane[pos]
  BY <1>1, <1>2 DEF PlaneShowsCells
<1> HIDE DEF Plane
<1> QED BY <1>1, <1>2, <1>3 DEF PlaneShowsCells

---------------------------------------------------------------------------
\* While the chunks are computed, all of them have what they are computed from.

ComputeInv ==
    phase = "calculate" =>
        \A c \in DOMAIN world :
            /\ HasMargin(world, c) /\ Bordered(world, c)
            /\ ~Outstanding(c) => Computed(world[c])

LEMMA ComputeInit == Init => ComputeInv
BY DEF Init, ComputeInv

LEMMA ComputeStep == ASSUME TypeInv, TasksInv, ComputeInv, [Next]_vars PROVE ComputeInv'
<1>1. CASE PrepareChunks
  <2>1. world' = ExchangeBorders(world) /\ \A c \in DOMAIN world' : Outstanding(c)'
    BY <1>1 DEF PrepareChunks, Outstanding
  <2>2. \A c \in DOMAIN ExchangeBorders(world) :
            HasMargin(ExchangeBorders(world), c) /\ Bordered(ExchangeBorders(world), c)
    BY ExchangeBordersPrepares DEF TypeInv
  <2> QED BY <2>1, <2>2 DEF ComputeInv
<1>2. ASSUME NEW w \in Workers, RunTask(w) PROVE ComputeInv'
  <2>1. PICK d \in DOMAIN world :
            /\ world' = [world EXCEPT ![d] =
                  IF phase = "calculate" THEN CalculateNext(world[d]) ELSE SwapBuffers(world[d])]
            /\ \A c \in DOMAIN world : c # d => (Outstanding(c)' <=> Outstanding(c))
    BY <1>2, TaskOf
  <2>2. CASE phase = "calculate"
    <3>1. DOMAIN world' = DOMAIN world /\ world'[d] = CalculateNext(world[d])
          /\ \A c \in DOMAIN world : c # d => world'[c] = world[c]
      BY <2>1, <2>2
    <3>2. world[d] \in ChunkType
      BY DEF TypeInv, WorldOK
    <3>3. Computed(world'[d])
      BY <3>1, <3>2, CalculateNextComputes
    <3>4. \A c \in DOMAIN world :
              world'[c].cur = world[c].cur /\ world'[c].buf[world'[c].cur] = world[c].buf[world[c].cur]
      BY <3>1, <3>2, CalculateNextComputes
    <3>5. \A c \in DOMAIN world : \A l : GetCell(world'[c], l) = GetCell(world[c], l)
      BY <3>4 DEF GetCell
    <3>6. \A c, l : ReadOrDead(world', c, l) = ReadOrDead(world, c, l)
      BY <3>1, <3>5 DEF ReadOrDead
    <3>7. \A c \in DOMAIN world : HasLiveCells(world'[c]) <=> HasLiveCells(world[c])
      BY <3>5 DEF HasLiveCells
    <3>8. \A c \in DOMAIN world : HasMargin(world', c) /\ Bordered(world', c)
      BY <2>2, <3>1, <3>4, <3>6, <3>7 DEF ComputeInv, HasMargin, Bordered
    <3>9. ASSUME NEW c \in DOMAIN world, c # d, ~Outstanding(c)' PROVE Computed(world'[c])
      BY <2>1, <2>2, <3>1, <3>9 DEF ComputeInv
    <3> QED BY <3>1, <3>3, <3>8, <3>9 DEF ComputeInv
  <2>3. CASE phase # "calculate"
    BY <1>2, <2>3 DEF RunTask, ComputeInv
  <2> QED BY <2>2, <2>3
<1>3. ASSUME NEW w \in Workers, TakeTask(w) PROVE ComputeInv'
  BY <1>3, TakingKeepsOutstanding DEF TakeTask, ComputeInv
<1>4. CASE phase' # "calculate"
  BY <1>4 DEF ComputeInv
<1>5. CASE UNCHANGED <<world, poolVars, phase>>
  BY <1>5 DEF ComputeInv, Outstanding, poolVars
<1> QED
  BY <1>1, <1>2, <1>3, <1>4, <1>5
  DEF Next, vars, Join, Receive, PushCommand, Tick, StartTick, TryPop, CalculateDone, SwapDone, ApplyCommand,
      CountLiveCells, AwardIncome, RefreshFullSnapshotCache, BroadcastDelta, BroadcastStats, Work, Finished

---------------------------------------------------------------------------
\* What leaves the game alone.

\* The chunks that count with their other buffer are those whose swap is
\* outstanding.
OutstandingSwaps == {c \in DOMAIN world : phase = "swap" /\ Outstanding(c)}

UnswappedIsOutstanding == Unswapped = OutstandingSwaps

LEMMA UnswappedFacts == TypeInv /\ TasksInv => UnswappedIsOutstanding
<1> SUFFICES ASSUME TypeInv, TasksInv PROVE Unswapped = OutstandingSwaps
  BY DEF UnswappedIsOutstanding
<1>1. CASE phase # "swap"
  BY <1>1 DEF Unswapped, OutstandingSwaps
<1>2. CASE phase = "swap"
  <2>1. ASSUME NEW c \in Unswapped PROVE c \in OutstandingSwaps
    <3>1. CASE \E t \in pool : c = t[2]
      <4>1. PICK t \in pool : c = t[2]
        BY <3>1
      <4>2. t = <<t[1], t[2]>> /\ t[1] = phase /\ t[2] \in DOMAIN world
        BY <4>1 DEF TypeInv, TypeOK, TasksInv
      <4> QED BY <1>2, <4>1, <4>2 DEF OutstandingSwaps, Outstanding
    <3>2. CASE \E w \in Workers : running[w] # Idle /\ c = running[w][2]
      <4>1. PICK w \in Workers : running[w] # Idle /\ c = running[w][2]
        BY <3>2
      <4>2. running[w] = <<running[w][1], running[w][2]>> /\ running[w][1] = phase
            /\ running[w][2] \in DOMAIN world
        BY <4>1 DEF TypeInv, TypeOK, TasksInv, Idle
      <4> QED BY <1>2, <4>1, <4>2 DEF OutstandingSwaps, Outstanding
    <3> QED BY <1>2, <2>1, <3>1, <3>2 DEF Unswapped
  <2>2. ASSUME NEW c \in OutstandingSwaps PROVE c \in Unswapped
    <3>1. <<phase, c>> # Idle
      BY DEF Idle
    <3>2. <<phase, c>>[2] = c
      OBVIOUS
    <3> QED BY <1>2, <2>2, <3>1, <3>2 DEF OutstandingSwaps, Outstanding, Unswapped
  <2> QED BY <2>1, <2>2
<1> QED BY <1>1, <1>2

\* Only the end of a computation and the edits change cells of the plane.
LEMMA CellsStay ==
    ASSUME TypeInv, TasksInv, [Next]_vars, ~CalculateDone, ~ApplyCommand, NEW pos \in Position
    PROVE  CellOn(pos)' = CellOn(pos)
<1> DEFINE c == ChunkAt(pos)
           l == LocalAt(pos)
<1>1. Unswapped = OutstandingSwaps /\ Unswapped' = OutstandingSwaps'
  <2>1. TypeInv' /\ TasksInv'
    BY TypeStep, TasksStep
  <2>2. UnswappedIsOutstanding /\ UnswappedIsOutstanding'
    BY <2>1, UnswappedFacts, PTL
  <2> QED BY <2>2 DEF UnswappedIsOutstanding
<1>2. l \in Inner
  BY Grid
<1> HIDE DEF l, c
<1>3. CellOn(pos) = IF c \in DOMAIN world
                    THEN IF phase = "swap" /\ Outstanding(c) THEN GetCell(SwapBuffers(world[c]), l)
                                                             ELSE GetCell(world[c], l)
                    ELSE Dead
  BY <1>1 DEF CellOn, Shown, OutstandingSwaps, c, l
<1>4. CellOn(pos)' = IF c \in DOMAIN world'
                     THEN IF phase' = "swap" /\ Outstanding(c)' THEN GetCell(SwapBuffers(world'[c]), l)
                                                                ELSE GetCell(world'[c], l)
                     ELSE Dead
  BY <1>1 DEF CellOn, Shown, OutstandingSwaps, c, l
<1>5. CASE PrepareChunks
  <2>1. phase # "swap" /\ phase' # "swap" /\ world' = ExchangeBorders(world)
    BY <1>5 DEF PrepareChunks
  <2>2. WorldOK(world)
    BY DEF TypeInv
  <2> QED BY <1>2, <1>3, <1>4, <2>1, <2>2, ExchangeBordersFacts
<1>6. ASSUME NEW w \in Workers, RunTask(w) PROVE CellOn(pos)' = CellOn(pos)
  <2>1. PICK d \in DOMAIN world :
            /\ phase \in {"calculate", "swap"}
            /\ world' = [world EXCEPT ![d] =
                  IF phase = "calculate" THEN CalculateNext(world[d]) ELSE SwapBuffers(world[d])]
            /\ Outstanding(d) /\ ~Outstanding(d)'
            /\ \A e \in DOMAIN world : e # d => (Outstanding(e)' <=> Outstanding(e))
    BY <1>6, TaskOf
  <2>2. phase' = phase
    BY <1>6 DEF RunTask
  <2>3. CASE phase = "calculate"
    <3>1. GetCell(CalculateNext(world[d]), l) = GetCell(world[d], l)
      BY <1>2, CalculateNextFacts DEF TypeInv, WorldOK
    <3> QED BY <1>3, <1>4, <2>1, <2>2, <2>3, <3>1
  <2>4. CASE phase = "swap"
    BY <1>3, <1>4, <2>1, <2>2, <2>4
  <2> QED BY <2>1, <2>3, <2>4
<1>7. ASSUME NEW w \in Workers, TakeTask(w) PROVE CellOn(pos)' = CellOn(pos)
  <2>1. UNCHANGED <<world, phase>> /\ (Outstanding(c)' <=> Outstanding(c))
    BY <1>7, TakingKeepsOutstanding DEF TakeTask
  <2> QED BY <1>3, <1>4, <2>1
<1>8. CASE SwapDone
  <2>1. UNCHANGED world /\ phase' # "swap" /\ (c \in DOMAIN world => ~Outstanding(c))
    BY <1>8, NothingOutstanding DEF SwapDone
  <2> QED BY <1>3, <1>4, <2>1
<1>9. CASE BroadcastDelta
  <2>1. phase # "swap" /\ phase' # "swap" /\ world' = [e \in DOMAIN world |-> ClearDirty(world[e])]
    BY <1>9 DEF BroadcastDelta
  <2>2. c \in DOMAIN world => GetCell(ClearDirty(world[c]), l) = GetCell(world[c], l)
    BY <1>2, ClearDirtyFacts DEF TypeInv, WorldOK
  <2> QED BY <1>3, <1>4, <2>1, <2>2
<1>10. ASSUME UNCHANGED world, phase # "swap", phase' # "swap" PROVE CellOn(pos)' = CellOn(pos)
  BY <1>3, <1>4, <1>10
<1>11. CASE UNCHANGED <<world, poolVars, phase>>
  <2>1. Outstanding(c)' <=> Outstanding(c)
    BY <1>11 DEF Outstanding, poolVars
  <2> QED BY <1>3, <1>4, <1>11, <2>1
<1> QED
  BY <1>5, <1>6, <1>7, <1>8, <1>9, <1>10, <1>11
  DEF Next, vars, Join, Receive, PushCommand, Tick, StartTick, TryPop, CountLiveCells, AwardIncome,
      RefreshFullSnapshotCache, BroadcastStats, Work, Finished

LEMMA QuietStep ==
    ASSUME TypeInv, TasksInv, [Next]_vars, ~CalculateDone, ~ApplyCommand, ~AwardIncome,
           \A p \in Players : ~Join(p)
    PROVE  UNCHANGED Game!vars
<1>1. Plane' = Plane
  BY TypeStep, CellsStay, SamePlane
<1>2. balance' = balance /\ (phase \in {"swap", "apply", "award"} <=> phase' \in {"swap", "apply", "award"})
  BY DEF Next, vars, Receive, PushCommand, Tick, StartTick, TryPop, PrepareChunks, SwapDone, CountLiveCells,
         RefreshFullSnapshotCache, BroadcastDelta, BroadcastStats, Work, TakeTask, RunTask, Finished
<1> HIDE DEF Plane
<1> QED BY <1>1, <1>2 DEF Game!vars

\* A handshake changes the balance only.
LEMMA JoinStep ==
    ASSUME TypeInv, TasksInv, NEW p \in Players, Join(p)
    PROVE  Game!Join(p)
<1>1. Plane' = Plane
  <2>1. [Next]_vars /\ ~CalculateDone /\ ~ApplyCommand
    BY DEF Next, Join, CalculateDone, ApplyCommand
  <2> QED BY <2>1, TypeStep, CellsStay, SamePlane
<1> HIDE DEF Plane
<1> QED BY <1>1 DEF Join, Game!Join, AddPlayer

---------------------------------------------------------------------------
\* An edit is one of the game's, or leaves the game alone.

\* Outside the swaps the plane shows the current buffers.
LEMMA CurrentCells ==
    ASSUME phase # "swap", NEW pos
    PROVE  CellOn(pos) = ReadOrDead(world, ChunkAt(pos), LocalAt(pos))
BY DEF CellOn, Shown, Unswapped, ReadOrDead

\* A position of the plane is alive exactly if it has an owner.
LEMMA OwnedCells ==
    ASSUME TypeInv, OwnedWorld(world), phase # "swap", NEW pos \in Position
    PROVE  CellOn(pos) \in Cell /\ OwnedCell(CellOn(pos))
<1>1. LocalAt(pos) \in Inner /\ WorldOK(world)
  BY Grid DEF TypeInv
<1> QED BY <1>1, CurrentCells, ReadOrDeadType

LEMMA EditedCells ==
    ASSUME TypeInv, ApplyCommand
    PROVE  LET cmd == Head(batch) IN
           /\ cmd \in Command
           /\ balance' = BalanceAfter(CellOn(cmd.pos), balance, cmd)
           /\ \A pos \in Position :
                 CellOn(pos)' = IF pos = cmd.pos THEN CellAfter(CellOn(pos), balance, cmd) ELSE CellOn(pos)
<1> DEFINE cmd == Head(batch)
<1>1. /\ world' = ApplyToWorld(world, balance, cmd) /\ balance' = ApplyToBalance(world, balance, cmd)
      /\ phase # "swap" /\ phase' # "swap"
  BY DEF ApplyCommand
<1>2. cmd \in Command
  BY CommandSequences DEF ApplyCommand, TypeInv, TypeOK
<1> HIDE DEF cmd
<1>3. cmd.pos \in Position /\ cmd.pos \in Int \X Int
  BY <1>2 DEF Command, Position
<1>4. ChunkOf(cmd.pos) = ChunkAt(cmd.pos) /\ LocalOf(cmd.pos) = LocalAt(cmd.pos)
  <2>1. ChunkOf(cmd.pos) \in Coord /\ LocalOf(cmd.pos) \in Inner
        /\ Global(ChunkOf(cmd.pos), LocalOf(cmd.pos)) = cmd.pos
    BY <1>3, Positions
  <2> QED BY <2>1, Grid
<1>5. \A pos : CellOn(pos) = ReadOrDead(world, ChunkAt(pos), LocalAt(pos))
  BY <1>1, CurrentCells
<1>6. \A pos : CellOn(pos)' = ReadOrDead(world', ChunkAt(pos), LocalAt(pos))
  BY <1>1 DEF CellOn, Shown, Unswapped, ReadOrDead
<1>7. Target(world, cmd) = CellOn(cmd.pos)
  BY <1>4, <1>5 DEF Target
<1>8. ASSUME NEW pos \in Position
      PROVE  CellOn(pos)' = IF pos = cmd.pos THEN CellAfter(CellOn(pos), balance, cmd) ELSE CellOn(pos)
  <2>1. LocalAt(pos) \in Inner
    BY Grid
  <2>2. CellOn(pos)' = IF ChunkAt(pos) = ChunkOf(cmd.pos) /\ LocalAt(pos) = LocalOf(cmd.pos)
                       THEN CellAfter(Target(world, cmd), balance, cmd) ELSE CellOn(pos)
    BY <1>1, <1>2, <1>5, <1>6, <2>1, ApplyToWorldWrites DEF TypeInv
  <2>3. ChunkAt(pos) = ChunkAt(cmd.pos) /\ LocalAt(pos) = LocalAt(cmd.pos) => pos = cmd.pos
    BY <1>3, Grid
  <2> QED BY <1>4, <1>7, <2>2, <2>3
<1>9. balance' = BalanceAfter(CellOn(cmd.pos), balance, cmd)
  BY <1>1, <1>7 DEF ApplyToBalance
<1> QED BY <1>2, <1>8, <1>9 DEF cmd

LEMMA ApplyStep ==
    ASSUME TypeInv, TypeInv', OwnedWorld(world), NoOwner \notin Players, ApplyCommand
    PROVE  [Game!Next]_(Game!vars)
<1> DEFINE cmd == Head(batch)
           p == cmd.player
           here == cmd.pos
           cell == CellOn(here)
<1>1. /\ cmd \in Command /\ balance' = BalanceAfter(cell, balance, cmd)
      /\ \A pos \in Position :
            CellOn(pos)' = IF pos = here THEN CellAfter(cell, balance, cmd) ELSE CellOn(pos)
  BY EditedCells
<1>2. phase = "apply" /\ phase' = "apply"
  BY DEF ApplyCommand
<1>3. PlaneShowsCells /\ PlaneShowsCells'
  BY PlaneFacts, PTL
<1> HIDE DEF cmd
<1>4. here \in Position /\ p \in Players /\ p # NoOwner
  BY <1>1 DEF Command, Position
<1>5. cell \in Cell /\ OwnedCell(cell)
  BY <1>2, <1>4, OwnedCells
<1> HIDE DEF here, p, cell, Plane
<1>6. CASE Places(cell, balance, cmd)
  <2>1. ~cell.alive /\ CellAfter(cell, balance, cmd) = [alive |-> TRUE, owner |-> p]
    BY <1>5, <1>6 DEF Places, CellAfter, OwnedCell, p
  <2>2. here \notin DOMAIN Plane /\ DOMAIN Plane' = DOMAIN Plane \cup {here}
    BY <1>1, <1>3, <1>4, <2>1 DEF PlaneShowsCells, cell
  <2>3. \A q \in DOMAIN Plane' : Plane'[q] = IF q = here THEN p ELSE Plane[q]
    BY <1>1, <1>3, <1>4, <2>1, <2>2 DEF PlaneShowsCells
  <2>4. Plane' = [q \in DOMAIN Plane \cup {here} |-> IF q = here THEN p ELSE Plane[q]]
    BY <1>3, <2>2, <2>3 DEF PlaneShowsCells
  <2>5. p \in DOMAIN balance /\ balance[p] >= PlaceCost /\ balance' = [balance EXCEPT ![p] = @ - PlaceCost]
    BY <1>1, <1>6 DEF Places, CanSpend, BalanceAfter, Spend, p
  <2>6. here \in DOMAIN Plane' \ DOMAIN Plane
    BY <2>2
  <2>7. Game!Place(p)
    BY <1>2, <2>4, <2>5, <2>6 DEF Game!Place
  <2> QED BY <1>4, <2>7 DEF Game!Next
<1>7. CASE ~Places(cell, balance, cmd) /\ Removes(cell, balance, cmd)
  <2>1. cell.alive /\ cell.owner = p /\ CellAfter(cell, balance, cmd) = Dead
    BY <1>4, <1>5, <1>7 DEF Removes, CellAfter, OwnedCell, p
  <2>2. here \in DOMAIN Plane /\ Plane[here] = p /\ DOMAIN Plane' = DOMAIN Plane \ {here}
    BY <1>1, <1>3, <1>4, <2>1 DEF PlaneShowsCells, cell, Dead
  <2>3. \A q \in DOMAIN Plane' : Plane'[q] = Plane[q]
    BY <1>1, <1>3, <2>2 DEF PlaneShowsCells
  <2>4. Plane' = [q \in DOMAIN Plane \ {here} |-> Plane[q]]
    BY <1>3, <2>2, <2>3 DEF PlaneShowsCells
  <2>5. p \in DOMAIN balance /\ balance' = [balance EXCEPT ![p] = @ + RemoveAward]
    BY <1>1, <1>7 DEF Removes, CanAward, BalanceAfter, Award, p
  <2>6. Game!Remove(p)
    BY <1>2, <2>2, <2>4, <2>5 DEF Game!Remove
  <2> QED BY <1>4, <2>6 DEF Game!Next
<1>8. CASE ~Places(cell, balance, cmd) /\ ~Removes(cell, balance, cmd)
  <2>1. balance' = balance /\ \A pos \in Position : CellOn(pos)' = CellOn(pos)
    BY <1>1, <1>8 DEF BalanceAfter, CellAfter, cell
  <2>2. Plane' = Plane
    BY <2>1, SamePlane
  <2> QED BY <1>2, <2>1, <2>2 DEF Game!vars
<1> QED BY <1>6, <1>7, <1>8

\* The command at the head of the batch is the next one pushed, and the cell it
\* names is the one at its position.
LEMMA EditIsMade ==
    ASSUME TypeInv, TypeInv', OwnedWorld(world), OrderInv, NoOwner \notin Players, ApplyCommand
    PROVE  LET cmd == pushed[applied'] IN Plane' = EditedPlane(cmd) /\ balance' = PaidBalance(cmd)
<1> DEFINE cmd == Head(batch)
           cell == CellOn(cmd.pos)
<1>1. /\ cmd \in Command /\ balance' = BalanceAfter(cell, balance, cmd)
      /\ \A pos \in Position :
            CellOn(pos)' = IF pos = cmd.pos THEN CellAfter(cell, balance, cmd) ELSE CellOn(pos)
  BY EditedCells
<1>2. pushed[applied'] = cmd
  <2>1. batch \in Seq(Command) /\ batch # <<>> /\ applied \in Nat /\ applied' = applied + 1
    BY DEF ApplyCommand, TypeInv, TypeOK
  <2>2. Head(batch) = batch[1] /\ 1 \in 1 .. Len(batch)
    BY <2>1, CommandSequences
  <2> QED BY <2>1, <2>2 DEF OrderInv
<1>3. PlaneShowsCells /\ PlaneShowsCells'
  BY PlaneFacts, PTL
<1>4. phase # "swap"
  BY DEF ApplyCommand
<1> HIDE DEF cmd
<1>5. cmd.pos \in Position /\ cmd.player \in Players /\ cmd.player # NoOwner
      /\ cmd.type \in {"place", "remove", "toggle"}
  BY <1>1 DEF Command, Position
<1>6. cell \in Cell /\ OwnedCell(cell)
  BY <1>4, <1>5, OwnedCells
<1>7. /\ cmd.pos \in DOMAIN Plane <=> cell.alive
      /\ cmd.pos \in DOMAIN Plane => Plane[cmd.pos] = cell.owner
      /\ ~cell.alive <=> cell.owner = NoOwner
  BY <1>3, <1>5, <1>6 DEF PlaneShowsCells, OwnedCell
<1> HIDE DEF cell, Plane
<1>8. Places(cell, balance, cmd) <=> PlacesOnPlane(cmd)
  BY <1>5, <1>7 DEF Places, PlacesOnPlane, CanSpend
<1>9. ~Places(cell, balance, cmd) => (Removes(cell, balance, cmd) <=> RemovesFromPlane(cmd))
  BY <1>5, <1>7 DEF Removes, RemovesFromPlane, CanAward
<1>10. balance' = PaidBalance(cmd)
  BY <1>1, <1>8, <1>9 DEF BalanceAfter, PaidBalance, Spend, Award
<1>11. ~PlacesOnPlane(cmd) \/ ~RemovesFromPlane(cmd)
  BY DEF PlacesOnPlane, RemovesFromPlane
<1>12. CASE PlacesOnPlane(cmd)
  <2>1. CellAfter(cell, balance, cmd) = [alive |-> TRUE, owner |-> cmd.player]
    BY <1>8, <1>12 DEF CellAfter
  <2>2. DOMAIN Plane' = DOMAIN Plane \cup {cmd.pos}
    BY <1>1, <1>3, <1>5, <2>1 DEF PlaneShowsCells
  <2>3. \A pos \in DOMAIN Plane' : Plane'[pos] = IF pos = cmd.pos THEN cmd.player ELSE Plane[pos]
    BY <1>1, <1>3, <1>5, <2>1, <2>2 DEF PlaneShowsCells
  <2>4. Plane' = [pos \in DOMAIN Plane \cup {cmd.pos} |-> IF pos = cmd.pos THEN cmd.player ELSE Plane[pos]]
    BY <1>3, <2>2, <2>3 DEF PlaneShowsCells
  <2> QED BY <1>2, <1>10, <1>12, <2>4 DEF EditedPlane
<1>13. CASE ~PlacesOnPlane(cmd)
  <2> DEFINE gone == {q \in {cmd.pos} : RemovesFromPlane(cmd)}
  <2>1. CellAfter(cell, balance, cmd) = IF RemovesFromPlane(cmd) THEN Dead ELSE cell
    BY <1>8, <1>9, <1>13 DEF CellAfter
  <2>2. \A pos \in Position : CellOn(pos)' = IF pos \in gone THEN Dead ELSE CellOn(pos)
    BY <1>1, <2>1 DEF cell
  <2>3. DOMAIN Plane' = DOMAIN Plane \ gone
    BY <1>3, <2>2 DEF PlaneShowsCells, Dead
  <2>4. \A pos \in DOMAIN Plane' : Plane'[pos] = Plane[pos]
    BY <1>3, <2>2, <2>3 DEF PlaneShowsCells
  <2>5. Plane' = [pos \in DOMAIN Plane \ gone |-> Plane[pos]]
    BY <1>3, <2>3, <2>4 DEF PlaneShowsCells
  <2> QED BY <1>2, <1>10, <1>13, <2>5 DEF EditedPlane
<1> QED BY <1>12, <1>13

---------------------------------------------------------------------------
\* The income is the game's: what the chunks count is what lives on the plane.

\* LifeGame counts with the operator of the same module.
LEMMA SameCount == ASSUME NEW S PROVE Game!Cardinality(S) = Cardinality(S)
BY DEF Game!Cardinality, Cardinality

LEMMA CountsAreBelongings ==
    ASSUME TypeInv, phase # "swap", NEW p
    PROVE  /\ Game!Belonging(p) = Cardinality(LiveCellsOf(world, p))
           /\ LiveCellsOf(world, p) = {} <=> p \notin Game!Living
           /\ Game!Belonging(p) \in Nat
           /\ p \notin Game!Living => Game!Belonging(p) = 0
<1> DEFINE cells == LiveCellsOf(world, p)
           places == {pos \in DOMAIN Plane : Plane[pos] = p}
           place == [x \in cells |-> Global(x[1], x[2])]
<1>1. \A pos : CellOn(pos) = ReadOrDead(world, ChunkAt(pos), LocalAt(pos))
  BY CurrentCells
<1>2. PlaneShowsCells
  BY PlaneFacts
<1>3. ASSUME NEW x \in cells
      PROVE  /\ x = <<x[1], x[2]>> /\ x[1] \in Coord /\ x[2] \in Inner /\ place[x] \in places
             /\ ChunkAt(place[x]) = x[1] /\ LocalAt(place[x]) = x[2]
  <2>1. /\ x = <<x[1], x[2]>> /\ x[1] \in DOMAIN world /\ x[1] \in Coord /\ x[2] \in Inner
        /\ GetCell(world[x[1]], x[2]).alive /\ GetCell(world[x[1]], x[2]).owner = p
    BY DEF LiveCellsOf, TypeInv, WorldOK
  <2>2. place[x] \in Position /\ ChunkAt(place[x]) = x[1] /\ LocalAt(place[x]) = x[2]
    BY <2>1, Grid
  <2>3. CellOn(place[x]) = GetCell(world[x[1]], x[2])
    BY <1>1, <2>1, <2>2 DEF ReadOrDead
  <2> HIDE DEF place, Plane, cells
  <2> QED BY <1>2, <2>1, <2>2, <2>3 DEF PlaneShowsCells
<1>4. ASSUME NEW pos \in places
      PROVE  \E x \in cells : place[x] = pos
  <2> DEFINE x == <<ChunkAt(pos), LocalAt(pos)>>
  <2>1. pos \in Position /\ CellOn(pos).alive /\ CellOn(pos).owner = p
    BY <1>2 DEF PlaneShowsCells
  <2>2. LocalAt(pos) \in Inner /\ Global(ChunkAt(pos), LocalAt(pos)) = pos
    BY <2>1, Grid
  <2>3. ChunkAt(pos) \in DOMAIN world /\ CellOn(pos) = GetCell(world[ChunkAt(pos)], LocalAt(pos))
    BY <1>1, <2>1 DEF ReadOrDead, Dead
  <2>4. x \in cells
    BY <2>1, <2>2, <2>3 DEF LiveCellsOf
  <2> QED BY <2>2, <2>4
<1>5. IsFiniteSet(cells)
  <2>1. IsFiniteSet(0 .. Width - 1) /\ IsFiniteSet(0 .. Height - 1)
    BY ChunkAssumption, FS_Interval
  <2>2. IsFiniteSet(Inner)
    BY <2>1, FS_Product DEF Inner
  <2>3. IsFiniteSet((DOMAIN world) \X Inner)
    BY <2>2, FS_Product DEF TypeInv, WorldOK
  <2> QED BY <2>3, FS_Subset DEF LiveCellsOf
<1>6. DOMAIN place = cells
  OBVIOUS
<1> HIDE DEF cells, places, place
<1>7. place \in Bijection(cells, places)
  <2>1. place \in [cells -> places]
    BY <1>3, <1>6 DEF place
  <2>2. \A x, y \in cells : place[x] = place[y] => x = y
    BY <1>3
  <2> QED BY <1>4, <2>1, <2>2 DEF Bijection, Injection, IsInjective, Surjection
<1>8. Cardinality(places) = Cardinality(cells) /\ Cardinality(cells) \in Nat
  BY <1>5, <1>7, FS_Bijection, FS_CardinalityType DEF ExistsBijection
<1>9. cells = {} <=> places = {}
  BY <1>3, <1>4
<1>10. places = {} <=> p \notin Game!Living
  BY DEF places, Game!Living
<1>11. Game!Belonging(p) = Cardinality(places)
  BY SameCount DEF places, Game!Belonging
<1>12. places = {} => Cardinality(places) = 0
  BY FS_EmptySet
<1> QED BY <1>8, <1>9, <1>10, <1>11, <1>12 DEF cells

LEMMA IncomeStep ==
    ASSUME TypeInv, TypeInv', TasksInv, OwnedWorld(world), OutputInv, AwardIncome
    PROVE  Game!Income
<1>1. /\ phase = "award" /\ phase' = "refresh" /\ balance' = AwardFromLiveCounts(balance, counts)
      /\ counts = LiveCounts(world)
  BY DEF AwardIncome, OutputInv
<1>2. Plane' = Plane
  <2>1. [Next]_vars /\ ~CalculateDone /\ ~ApplyCommand
    BY DEF Next, Tick, AwardIncome, CalculateDone, ApplyCommand
  <2> QED BY <2>1, CellsStay, SamePlane
<1>3. Game!Living \subseteq Players \ {NoOwner}
  <2>1. PlaneShowsCells
    BY PlaneFacts
  <2>2. \A pos \in DOMAIN Plane : Plane[pos] \in Players \ {NoOwner}
    <3>1. ASSUME NEW pos \in DOMAIN Plane PROVE Plane[pos] \in Players \ {NoOwner}
      <4>1. pos \in Position /\ CellOn(pos).alive /\ Plane[pos] = CellOn(pos).owner
        BY <2>1 DEF PlaneShowsCells
      <4>2. CellOn(pos) \in Cell /\ OwnedCell(CellOn(pos))
        BY <1>1, <4>1, OwnedCells
      <4> QED BY <4>1, <4>2 DEF Cell, Owner, OwnedCell
    <3> QED BY <3>1
  <2> QED BY <2>2 DEF Game!Living
<1>4. DOMAIN counts = Game!Living /\ \A p \in DOMAIN counts : counts[p] = Game!Belonging(p)
  <2>1. \A p : LiveCellsOf(world, p) = {} <=> p \notin Game!Living
    BY <1>1, CountsAreBelongings
  <2>2. \A p : Game!Belonging(p) = Cardinality(LiveCellsOf(world, p))
    BY <1>1, CountsAreBelongings
  <2> QED BY <1>1, <1>3, <2>1, <2>2 DEF LiveCounts
<1>5. balance' = [p \in DOMAIN balance \cup Game!Living |->
                    (IF p \in DOMAIN balance THEN balance[p] ELSE 0) + AliveAward * Game!Belonging(p)]
  <2>1. ASSUME NEW p \in DOMAIN balance \cup Game!Living
        PROVE  GetBalance(balance, p) + (IF p \in DOMAIN counts THEN AliveAward * counts[p] ELSE 0)
                = (IF p \in DOMAIN balance THEN balance[p] ELSE 0) + AliveAward * Game!Belonging(p)
    <3>1. Game!Belonging(p) \in Nat /\ (p \notin Game!Living => Game!Belonging(p) = 0)
      BY <1>1, CountsAreBelongings
    <3>2. (IF p \in DOMAIN counts THEN AliveAward * counts[p] ELSE 0) = AliveAward * Game!Belonging(p)
      BY <1>4, <3>1 DEF AliveAward
    <3> QED BY <3>2 DEF GetBalance
  <2> QED BY <1>1, <1>4, <2>1 DEF AwardFromLiveCounts
<1> HIDE DEF Plane
<1> QED BY <1>1, <1>2, <1>5 DEF Game!Income

---------------------------------------------------------------------------
\* The slots of a chunk's buffer lie on the plane like the cells they mirror.

OnPlane(c, s) == <<c[1] * Width + s[1] - 1, c[2] * Height + s[2] - 1>>

LEMMA AxisGhost ==
    ASSUME NEW size \in Nat \ {0}, NEW c \in Int, NEW i \in 0 .. size + 1
    PROVE  /\ c + Beyond(i, size) \in Int /\ Mirrored(i, size) \in 0 .. size - 1
           /\ (c + Beyond(i, size)) * size + Mirrored(i, size) = c * size + i - 1
           /\ i \in 1 .. size => Beyond(i, size) = 0 /\ Mirrored(i, size) = i - 1
<1>1. (c - 1) * size = c * size - size /\ (c + 1) * size = c * size + size
  BY SMT
<1> QED BY <1>1, SMT DEF Beyond, Mirrored

LEMMA SlotPlaces ==
    ASSUME NEW c \in Coord, NEW s \in Storage
    PROVE  /\ OnPlane(c, s) \in Position
           /\ ChunkAt(OnPlane(c, s)) = GhostChunk(c, s) /\ LocalAt(OnPlane(c, s)) = GhostLocal(s)
           /\ s \in InnerSlots => GhostChunk(c, s) = c /\ s = Slot(GhostLocal(s))
<1>1. /\ c[1] \in Int /\ c[2] \in Int /\ c = <<c[1], c[2]>>
      /\ s[1] \in 0 .. Width + 1 /\ s[2] \in 0 .. Height + 1 /\ s = <<s[1], s[2]>>
      /\ s \in InnerSlots => s[1] \in 1 .. Width /\ s[2] \in 1 .. Height
  BY DEF Coord, Storage, InnerSlots
<1>2. GhostChunk(c, s) \in Coord /\ GhostLocal(s) \in Inner
      /\ OnPlane(c, s) = Global(GhostChunk(c, s), GhostLocal(s))
  BY <1>1, AxisGhost, ChunkAssumption DEF GhostChunk, GhostLocal, Coord, Inner, OnPlane, Global
<1>3. s \in InnerSlots => GhostChunk(c, s) = c /\ s = Slot(GhostLocal(s))
  <2> SUFFICES ASSUME s \in InnerSlots PROVE GhostChunk(c, s) = c /\ s = Slot(GhostLocal(s))
    OBVIOUS
  <2>1. Beyond(s[1], Width) = 0 /\ Mirrored(s[1], Width) = s[1] - 1
        /\ Beyond(s[2], Height) = 0 /\ Mirrored(s[2], Height) = s[2] - 1
    BY <1>1, AxisGhost, ChunkAssumption
  <2>2. s[1] \in Int /\ s[2] \in Int
    BY <1>1, ChunkAssumption
  <2> QED BY <1>1, <2>1, <2>2 DEF GhostChunk, GhostLocal, Slot
<1> QED BY <1>2, <1>3, Grid

\* While a chunk is computed its buffer shows the plane, border included.
LEMMA BufferShows ==
    ASSUME TypeInv, ComputeInv, phase = "calculate", NEW c \in DOMAIN world, NEW s \in Storage
    PROVE  world[c].buf[world[c].cur][s] = CellOn(OnPlane(c, s))
<1>1. c \in Coord
  BY DEF TypeInv, WorldOK
<1>2. CellOn(OnPlane(c, s)) = ReadOrDead(world, GhostChunk(c, s), GhostLocal(s))
  BY <1>1, CurrentCells, SlotPlaces
<1>3. CASE s \in BorderSlots
  BY <1>2, <1>3 DEF ComputeInv, Bordered
<1>4. CASE s \in InnerSlots
  BY <1>1, <1>2, <1>4, SlotPlaces DEF ReadOrDead, GetCell
<1> QED BY <1>3, <1>4 DEF BorderSlots

LEMMA NeighboursAreAround ==
    ASSUME NEW pos \in Position
    PROVE  /\ Game!Neighbours(pos) \subseteq Position
           /\ Game!Neighbours(pos) \ {pos} = Around(pos)
           /\ \A q \in Game!Neighbours(pos) : pos \in Game!Neighbours(q)
<1>1. pos[1] \in Int /\ pos[2] \in Int /\ pos = <<pos[1], pos[2]>>
  BY DEF Position
<1>2. ASSUME NEW q \in Game!Neighbours(pos)
      PROVE  /\ q = <<q[1], q[2]>> /\ q[1] \in pos[1] - 1 .. pos[1] + 1 /\ q[2] \in pos[2] - 1 .. pos[2] + 1
             /\ pos \in Game!Neighbours(q)
  <2>1. PICK d \in (-1 .. 1) \X (-1 .. 1) : q = <<pos[1] + d[1], pos[2] + d[2]>>
    BY DEF Game!Neighbours
  <2>2. d[1] \in -1 .. 1 /\ d[2] \in -1 .. 1
    BY <2>1
  <2>3. q[1] = pos[1] + d[1] /\ q[2] = pos[2] + d[2] /\ q = <<q[1], q[2]>>
    BY <2>1
  <2> DEFINE e == <<0 - d[1], 0 - d[2]>>
  <2>4. e \in (-1 .. 1) \X (-1 .. 1) /\ pos = <<q[1] + e[1], q[2] + e[2]>>
    BY <1>1, <2>2, <2>3
  <2>5. pos \in Game!Neighbours(q)
    BY <2>4 DEF Game!Neighbours
  <2> QED BY <1>1, <2>2, <2>3, <2>5
<1>3. ASSUME NEW q \in (pos[1] - 1 .. pos[1] + 1) \X (pos[2] - 1 .. pos[2] + 1)
      PROVE  q \in Game!Neighbours(pos)
  <2> DEFINE d == <<q[1] - pos[1], q[2] - pos[2]>>
  <2>1. q[1] \in pos[1] - 1 .. pos[1] + 1 /\ q[2] \in pos[2] - 1 .. pos[2] + 1 /\ q = <<q[1], q[2]>>
    OBVIOUS
  <2>2. d \in (-1 .. 1) \X (-1 .. 1) /\ q = <<pos[1] + d[1], pos[2] + d[2]>>
    BY <1>1, <2>1
  <2> QED BY <2>2 DEF Game!Neighbours
<1>4. Game!Neighbours(pos) = (pos[1] - 1 .. pos[1] + 1) \X (pos[2] - 1 .. pos[2] + 1)
  BY <1>2, <1>3
<1>5. Game!Neighbours(pos) \subseteq Position
  BY <1>1, <1>4 DEF Position
<1> QED BY <1>2, <1>4, <1>5 DEF Around

---------------------------------------------------------------------------
\* The neighbours a chunk counts are the parents of the game.

LEMMA ShiftedNeighbours ==
    ASSUME NEW c \in Coord, NEW s \in InnerSlots
    PROVE  /\ \A t \in Around(s) : t \in Storage /\ OnPlane(c, t) \in Around(OnPlane(c, s))
           /\ \A q \in Around(OnPlane(c, s)) : \E t \in Around(s) : q = OnPlane(c, t)
           /\ \A t, u \in Around(s) : OnPlane(c, t) = OnPlane(c, u) => t = u
<1> DEFINE x == c[1] * Width
           y == c[2] * Height
<1>1. /\ x \in Int /\ y \in Int /\ s[1] \in Int /\ s[2] \in Int
      /\ s = <<s[1], s[2]>> /\ s \in Storage /\ Around(s) \subseteq Storage
  BY ChunkAssumption, Slots, SMT DEF Coord, InnerSlots
<1> HIDE DEF x, y
<1>2. \A t : OnPlane(c, t) = <<x + t[1] - 1, y + t[2] - 1>>
  BY DEF OnPlane, x, y
<1>3. ASSUME NEW t \in Around(s)
      PROVE  /\ t = <<t[1], t[2]>> /\ t[1] \in Int /\ t[2] \in Int
             /\ OnPlane(c, t) \in Around(OnPlane(c, s))
  <2>1. t = <<t[1], t[2]>> /\ t[1] \in s[1] - 1 .. s[1] + 1 /\ t[2] \in s[2] - 1 .. s[2] + 1 /\ t # s
    BY DEF Around
  <2>2. t[1] # s[1] \/ t[2] # s[2]
    BY <1>1, <2>1
  <2> QED BY <1>1, <1>2, <2>1, <2>2 DEF Around
<1>4. ASSUME NEW q \in Around(OnPlane(c, s))
      PROVE  \E t \in Around(s) : q = OnPlane(c, t)
  <2> DEFINE t == <<q[1] - x + 1, q[2] - y + 1>>
  <2>1. /\ q = <<q[1], q[2]>> /\ q # <<x + s[1] - 1, y + s[2] - 1>>
        /\ q[1] \in x + s[1] - 2 .. x + s[1] /\ q[2] \in y + s[2] - 2 .. y + s[2]
    BY <1>1, <1>2 DEF Around
  <2>2. t[1] \in s[1] - 1 .. s[1] + 1 /\ t[2] \in s[2] - 1 .. s[2] + 1
    BY <1>1, <2>1
  <2>3. t # s
    BY <1>1, <2>1
  <2>4. q = OnPlane(c, t)
    BY <1>1, <1>2, <2>1
  <2> QED BY <2>2, <2>3, <2>4 DEF Around
<1>5. ASSUME NEW t \in Around(s), NEW u \in Around(s), OnPlane(c, t) = OnPlane(c, u)
      PROVE  t = u
  <2>1. x + t[1] - 1 = x + u[1] - 1 /\ y + t[2] - 1 = y + u[2] - 1
    BY <1>2, <1>5
  <2> QED BY <1>1, <1>3, <2>1
<1> QED BY <1>1, <1>3, <1>4, <1>5

\* As many positions as slots.
LEMMA ShiftedCount ==
    ASSUME NEW c \in Coord, NEW s \in InnerSlots, NEW T \in SUBSET Around(s)
    PROVE  Cardinality({OnPlane(c, t) : t \in T}) = Cardinality(T) /\ Cardinality(T) \in Nat
<1> DEFINE shifted == {OnPlane(c, t) : t \in T}
           shift == [t \in T |-> OnPlane(c, t)]
<1>1. IsFiniteSet(T)
  <2>1. s \in Int \X Int
    BY ChunkAssumption, SMT DEF InnerSlots
  <2> QED BY <2>1, AroundFinite, FS_Subset
<1>2. shift \in Bijection(T, shifted)
  <2>1. shift \in [T -> shifted] /\ \A q \in shifted : \E t \in T : shift[t] = q
    OBVIOUS
  <2>2. \A t, u \in T : shift[t] = shift[u] => t = u
    BY ShiftedNeighbours
  <2> HIDE DEF shift, shifted
  <2> QED BY <2>1, <2>2 DEF Bijection, Injection, IsInjective, Surjection
<1> QED BY <1>1, <1>2, FS_Bijection, FS_CardinalityType DEF ExistsBijection

LEMMA ParentsAreLiveNeighbours ==
    ASSUME TypeInv, OwnedWorld(world), ComputeInv, phase = "calculate",
           NEW c \in DOMAIN world, NEW s \in InnerSlots
    PROVE  LET now == world[c].buf[world[c].cur]
               here == OnPlane(c, s)
           IN  /\ Game!Parents(here) = {OnPlane(c, t) : t \in LiveNeighbours(now, s)}
               /\ \A t \in LiveNeighbours(now, s) : Plane[OnPlane(c, t)] = now[t].owner
<1> DEFINE now == world[c].buf[world[c].cur]
           here == OnPlane(c, s)
<1>1. c \in Coord /\ s \in Storage
  BY Slots DEF TypeInv, WorldOK
<1>2. here \in Position /\ Game!Parents(here) = Around(here) \cap DOMAIN Plane
  BY <1>1, SlotPlaces, NeighboursAreAround DEF Game!Parents
<1>3. PlaneShowsCells
  BY PlaneFacts
<1>4. ASSUME NEW t \in Around(s)
      PROVE  /\ OnPlane(c, t) \in Around(here)
             /\ OnPlane(c, t) \in DOMAIN Plane <=> t \in LiveNeighbours(now, s)
             /\ OnPlane(c, t) \in DOMAIN Plane => Plane[OnPlane(c, t)] = now[t].owner
  <2>1. t \in Storage /\ OnPlane(c, t) \in Around(here)
    BY <1>1, ShiftedNeighbours
  <2>2. OnPlane(c, t) \in Position /\ now[t] = CellOn(OnPlane(c, t))
    BY <1>1, <2>1, SlotPlaces, BufferShows
  <2>3. OwnedCell(now[t])
    BY <2>2, OwnedCells
  <2> HIDE DEF now, here, Plane
  <2> QED BY <1>3, <2>1, <2>2, <2>3 DEF PlaneShowsCells, LiveNeighbours, OwnedCell
<1>5. \A q \in Around(here) : \E t \in Around(s) : q = OnPlane(c, t)
  BY <1>1, ShiftedNeighbours
<1>6. LiveNeighbours(now, s) \subseteq Around(s)
  BY DEF LiveNeighbours
<1> HIDE DEF now, here, Plane
<1>7. Game!Parents(here) = {OnPlane(c, t) : t \in LiveNeighbours(now, s)}
  BY <1>2, <1>4, <1>5, <1>6
<1>8. \A t \in LiveNeighbours(now, s) : Plane[OnPlane(c, t)] = now[t].owner
  BY <1>4, <1>6
<1> QED BY <1>7, <1>8 DEF now, here

\* The count of a chunk is the count of the game, and so are the votes.
LEMMA CountsAgree ==
    ASSUME TypeInv, OwnedWorld(world), ComputeInv, phase = "calculate",
           NEW c \in DOMAIN world, NEW s \in InnerSlots
    PROVE  LET now == world[c].buf[world[c].cur]
               here == OnPlane(c, s)
           IN  /\ Game!Cardinality(Game!Parents(here)) = Cardinality(LiveNeighbours(now, s))
               /\ Cardinality(LiveNeighbours(now, s)) \in Nat
               /\ \A o : Game!Votes(here, o) = Support(now, s, o)
               /\ {Plane[q] : q \in Game!Parents(here)} = OwnersAround(now, s)
<1> DEFINE now == world[c].buf[world[c].cur]
           here == OnPlane(c, s)
           L == LiveNeighbours(now, s)
<1>1. c \in Coord
  BY DEF TypeInv, WorldOK
<1>2. /\ Game!Parents(here) = {OnPlane(c, t) : t \in L}
      /\ \A t \in L : Plane[OnPlane(c, t)] = now[t].owner
  BY ParentsAreLiveNeighbours
<1>3. L \in SUBSET Around(s)
  BY DEF LiveNeighbours
<1> HIDE DEF now, here, L, Plane
<1>4. Game!Cardinality(Game!Parents(here)) = Cardinality(L) /\ Cardinality(L) \in Nat
  BY <1>1, <1>2, <1>3, SameCount, ShiftedCount
<1>5. ASSUME NEW o PROVE Game!Votes(here, o) = Support(now, s, o)
  <2> DEFINE T == {t \in L : now[t].owner = o}
  <2>1. {q \in Game!Parents(here) : Plane[q] = o} = {OnPlane(c, t) : t \in T}
    BY <1>2
  <2>2. T \in SUBSET Around(s)
    BY <1>3
  <2>3. Cardinality({OnPlane(c, t) : t \in T}) = Cardinality(T)
    <3> HIDE DEF T
    <3> QED BY <1>1, <2>2, ShiftedCount
  <2> QED BY <2>1, <2>3, SameCount DEF Game!Votes, Support, L
<1>6. {Plane[q] : q \in Game!Parents(here)} = OwnersAround(now, s)
  BY <1>2 DEF OwnersAround, L
<1> QED BY <1>4, <1>5, <1>6 DEF now, here, L

\* The owner a chunk elects is the game's heir.
LEMMA HeirIsNextOwner ==
    ASSUME TypeInv, OwnedWorld(world), ComputeInv, phase = "calculate",
           NEW c \in DOMAIN world, NEW s \in InnerSlots,
           Cardinality(LiveNeighbours(world[c].buf[world[c].cur], s)) = 3
    PROVE  Game!Heir(OnPlane(c, s)) = NextOwner(world[c].buf[world[c].cur], s)
<1> DEFINE now == world[c].buf[world[c].cur]
           here == OnPlane(c, s)
           O == OwnersAround(now, s)
           v(o) == Support(now, s, o)
           top == NextOwner(now, s)
           best == {p \in O : \A q \in O : v(q) <= v(p)}
<1>1. now \in [Storage -> Cell]
  BY DEF TypeInv, WorldOK, ChunkType
<1>2. /\ O \subseteq Players \ {NoOwner} /\ \A q : v(q) \in Int
      /\ top \in O /\ \A q \in O : v(q) < v(top) \/ (v(q) = v(top) /\ q <= top)
  BY <1>1, NextOwnerIsTop
<1>3. {Plane[q] : q \in Game!Parents(here)} = O /\ \A o : Game!Votes(here, o) = v(o)
  BY CountsAgree
<1> HIDE DEF O, v, top, now, here, Plane
<1>4. O \subseteq Nat
  BY <1>2, ChunkAssumption
<1>5. top \in best /\ best \subseteq Nat /\ \A p \in best : top >= p
  BY <1>2, <1>4
<1>6. Game!Heir(here) = Game!Max(best)
  BY <1>3 DEF Game!Heir
<1> HIDE DEF best
<1>7. Game!Max(best) = top
  <2>1. \A p \in best : (\A q \in best : p >= q) => p = top
    BY <1>5
  <2> QED BY <1>5, <2>1 DEF Game!Max
<1> QED BY <1>6, <1>7 DEF here, top, now

---------------------------------------------------------------------------
\* The end of the computation is the evolution of the whole plane at once.

\* What the game makes of the cell at a position.
Evolved(pos) ==
    IF pos \in Game!Surviving THEN [alive |-> TRUE, owner |-> Plane[pos]]
    ELSE IF pos \in Game!Newborn THEN [alive |-> TRUE, owner |-> Game!Heir(pos)] ELSE Dead

\* A position without a chunk has no parents: the margin reaches further.
LEMMA NoParentsOutside ==
    ASSUME TypeInv, ComputeInv, phase = "calculate", NEW pos \in Position, ChunkAt(pos) \notin DOMAIN world
    PROVE  Game!Parents(pos) = {}
<1> SUFFICES ASSUME NEW q \in Game!Parents(pos) PROVE FALSE
  OBVIOUS
<1> DEFINE c == ChunkAt(pos)
           d == ChunkAt(q)
<1>1. q \in Around(pos) /\ q \in DOMAIN Plane
  BY NeighboursAreAround DEF Game!Parents
<1>2. q \in Position /\ CellOn(q).alive
  BY <1>1, PlaneFacts DEF PlaneShowsCells
<1>3. d \in DOMAIN world /\ LocalAt(q) \in Inner /\ GetCell(world[d], LocalAt(q)).alive
  BY <1>2, CurrentCells, Grid DEF ReadOrDead, Dead
<1>4. Around(d) \subseteq DOMAIN world
  BY <1>3 DEF ComputeInv, HasMargin, HasLiveCells
<1>5. c \in Around(d)
  <2>1. /\ pos[1] \in Int /\ pos[2] \in Int /\ q[1] \in Int /\ q[2] \in Int
        /\ q[1] - 1 <= pos[1] /\ pos[1] <= q[1] + 1 /\ q[2] - 1 <= pos[2] /\ pos[2] <= q[2] + 1
    BY <1>1, <1>2 DEF Position, Around
  <2>2. /\ q[1] \div Width - 1 <= pos[1] \div Width /\ pos[1] \div Width <= q[1] \div Width + 1
        /\ q[2] \div Height - 1 <= pos[2] \div Height /\ pos[2] \div Height <= q[2] \div Height + 1
    BY <2>1, AxisNear, ChunkAssumption
  <2>3. /\ pos[1] \div Width \in Int /\ pos[2] \div Height \in Int
        /\ q[1] \div Width \in Int /\ q[2] \div Height \in Int
    BY <2>1, Axis, ChunkAssumption
  <2>4. c # d
    BY <1>3
  <2> QED BY <2>2, <2>3, <2>4 DEF ChunkAt, Around
<1> QED BY <1>4, <1>5

\* Who survives and who is born, told from the cell and the number of parents.
LEMMA EvolvedByCount ==
    ASSUME TypeInv, OwnedWorld(world), phase = "calculate", NEW pos \in Position,
           Game!Parents(pos) = {} => Game!Cardinality(Game!Parents(pos)) = 0
    PROVE  LET n == Game!Cardinality(Game!Parents(pos)) IN
           Evolved(pos) = IF CellOn(pos).alive
                          THEN IF n \in 2 .. 3 THEN CellOn(pos) ELSE Dead
                          ELSE IF n = 3 THEN [alive |-> TRUE, owner |-> Game!Heir(pos)] ELSE Dead
<1> DEFINE n == Game!Cardinality(Game!Parents(pos))
<1>1. pos \in DOMAIN Plane <=> CellOn(pos).alive
  BY PlaneFacts DEF PlaneShowsCells
<1>2. pos \in DOMAIN Plane => CellOn(pos) = [alive |-> TRUE, owner |-> Plane[pos]]
  <2>1. CellOn(pos) \in Cell
    BY OwnedCells
  <2>2. pos \in DOMAIN Plane => CellOn(pos).alive /\ Plane[pos] = CellOn(pos).owner
    BY PlaneFacts DEF PlaneShowsCells
  <2> HIDE DEF Plane
  <2> QED BY <2>1, <2>2 DEF Cell
<1>3. n = 3 => \E q \in DOMAIN Plane : pos \in Game!Neighbours(q)
  <2> SUFFICES ASSUME n = 3 PROVE \E q \in DOMAIN Plane : pos \in Game!Neighbours(q)
    OBVIOUS
  <2>1. Game!Parents(pos) # {}
    OBVIOUS
  <2>2. PICK q : q \in Game!Parents(pos)
    BY <2>1
  <2>3. q \in Game!Neighbours(pos) /\ q \in DOMAIN Plane
    BY <2>2 DEF Game!Parents
  <2> QED BY <2>3, NeighboursAreAround
<1> HIDE DEF Plane, n
<1>4. pos \in Game!Surviving <=> pos \in DOMAIN Plane /\ n \in 2 .. 3
  BY DEF Game!Surviving, n
<1>5. pos \in Game!Newborn <=> pos \notin DOMAIN Plane /\ n = 3
  BY <1>3 DEF Game!Newborn, n
<1> QED BY <1>1, <1>2, <1>4, <1>5 DEF Evolved, n

\* What the chunks computed is the next generation of the game.
LEMMA NextGeneration ==
    ASSUME TypeInv, TasksInv, OwnedWorld(world), ComputeInv, CalculateDone, NEW pos \in Position
    PROVE  CellOn(pos)' = Evolved(pos)
<1> DEFINE c == ChunkAt(pos)
           l == LocalAt(pos)
           n == Game!Cardinality(Game!Parents(pos))
<1>1. /\ phase = "calculate" /\ phase' = "swap" /\ world' = world
      /\ pool' = {<<"swap", d>> : d \in DOMAIN world} /\ FuturesReady
  BY DEF CalculateDone
<1>2. CellOn(pos)' = IF c \in DOMAIN world THEN GetCell(SwapBuffers(world[c]), l) ELSE Dead
  <2>1. \A d \in DOMAIN world : d \in {t[2] : t \in pool'}
    <3>1. \A d : <<"swap", d>>[2] = d
      OBVIOUS
    <3> QED BY <1>1, <3>1
  <2>2. \A d \in DOMAIN world : d \in Unswapped'
    BY <1>1, <2>1 DEF Unswapped
  <2> HIDE DEF Unswapped
  <2> QED BY <1>1, <2>2 DEF CellOn, Shown
<1>3. l \in Inner /\ c \in Coord /\ Global(c, l) = pos
  BY Grid
<1>4. CellOn(pos) \in Cell /\ OwnedCell(CellOn(pos))
  BY <1>1, OwnedCells
<1>5. CASE c \notin DOMAIN world
  <2>1. Game!Parents(pos) = {}
    BY <1>1, <1>5, NoParentsOutside
  <2>2. n = 0
    BY <2>1, SameCount, FS_EmptySet
  <2>3. CellOn(pos) = Dead /\ ~Dead.alive
    BY <1>1, <1>5, CurrentCells DEF ReadOrDead, Dead
  <2>4. Evolved(pos) = Dead
    BY <1>1, <2>2, <2>3, EvolvedByCount
  <2> QED BY <1>2, <1>5, <2>4
<1>6. CASE c \in DOMAIN world
  <2> DEFINE s == Slot(l)
             now == world[c].buf[world[c].cur]
             m == Cardinality(LiveNeighbours(now, s))
  <2>1. s \in InnerSlots /\ s \in Storage /\ OnPlane(c, s) = pos
    <3>1. s \in InnerSlots /\ s \in Storage
      BY <1>3, Slots
    <3>2. GhostLocal(s) \in Inner /\ s = Slot(GhostLocal(s)) /\ GhostChunk(c, s) = c
      <4>1. LocalAt(OnPlane(c, s)) = GhostLocal(s) /\ OnPlane(c, s) \in Position
            /\ s = Slot(GhostLocal(s)) /\ GhostChunk(c, s) = c
        BY <1>3, <3>1, SlotPlaces
      <4> QED BY <4>1, Grid
    <3>3. GhostLocal(s) = l
      BY <1>3, <3>2, Slots
    <3>4. OnPlane(c, s) \in Position /\ ChunkAt(OnPlane(c, s)) = c /\ LocalAt(OnPlane(c, s)) = l
      BY <1>3, <3>1, <3>2, <3>3, SlotPlaces
    <3> QED BY <1>3, <3>1, <3>4, Grid
  <2>2. now[s] = CellOn(pos)
    BY <1>1, <1>6, <2>1, BufferShows
  <2>3. /\ n = m /\ m \in Nat
    BY <1>1, <1>6, <2>1, CountsAgree
  <2>4. m = 3 => Game!Heir(pos) = NextOwner(now, s)
    BY <1>1, <1>6, <2>1, HeirIsNextOwner
  <2>5. Game!Parents(pos) = {} => n = 0
    BY SameCount, FS_EmptySet
  <2>6. GetCell(SwapBuffers(world[c]), l) = NextCell(now, s)
    <3>1. ~Outstanding(c)
      BY <1>1, <1>6, NothingOutstanding
    <3> QED BY <1>1, <1>3, <1>6, <3>1 DEF ComputeInv, Computed
  <2>7. ~CellOn(pos).alive => CellOn(pos) = Dead
    BY <1>4 DEF Cell, OwnedCell, Dead
  <2>8. Evolved(pos) = IF CellOn(pos).alive
                       THEN IF n \in 2 .. 3 THEN CellOn(pos) ELSE Dead
                       ELSE IF n = 3 THEN [alive |-> TRUE, owner |-> Game!Heir(pos)] ELSE Dead
    BY <1>1, <2>5, EvolvedByCount
  <2> HIDE DEF now, s, n
  <2>9. n \in 2 .. 3 <=> Survives(m)
    <3> HIDE DEF m
    <3> QED BY <2>3, SMT DEF Survives
  <2>10. NextCell(now, s) = IF now[s].alive
                            THEN IF Survives(m) THEN now[s] ELSE Dead
                            ELSE IF m = 3 THEN [alive |-> TRUE, owner |-> NextOwner(now, s)] ELSE now[s]
    BY DEF NextCell, Born
  <2> HIDE DEF m
  <2>11. NextCell(now, s) = Evolved(pos)
    <3>1. CASE CellOn(pos).alive
      BY <2>2, <2>8, <2>9, <2>10, <3>1
    <3>2. CASE ~CellOn(pos).alive /\ m = 3
      BY <2>2, <2>3, <2>4, <2>8, <2>10, <3>2
    <3>3. CASE ~CellOn(pos).alive /\ m # 3
      BY <2>2, <2>3, <2>7, <2>8, <2>10, <3>3
    <3> QED BY <3>1, <3>2, <3>3
  <2> QED BY <1>2, <1>6, <2>6, <2>11
<1> QED BY <1>5, <1>6

LEMMA EvolveStep ==
    ASSUME TypeInv, TasksInv, OwnedWorld(world), ComputeInv, CalculateDone
    PROVE  Game!Evolve
<1>1. phase = "calculate" /\ phase' = "swap" /\ balance' = balance
  BY DEF CalculateDone
<1>2. PlaneShowsCells /\ PlaneShowsCells'
  <2>1. [Next]_vars
    BY DEF Next, Tick
  <2>2. TypeInv'
    BY <2>1, TypeStep
  <2> QED BY <2>2, PlaneFacts, PTL
<1>3. \A pos \in Position : CellOn(pos)' = Evolved(pos)
  BY NextGeneration
<1>4. DOMAIN Plane \subseteq Position
  BY <1>2 DEF PlaneShowsCells
<1>5. Game!Surviving \subseteq DOMAIN Plane /\ Game!Surviving \subseteq Position
  BY <1>4 DEF Game!Surviving
<1>6. Game!Newborn \subseteq Position
  BY <1>4, NeighboursAreAround DEF Game!Newborn
<1> HIDE DEF Plane
<1>7. DOMAIN Plane' = Game!Surviving \cup Game!Newborn
  BY <1>2, <1>3, <1>5, <1>6 DEF PlaneShowsCells, Evolved, Dead
<1>8. ASSUME NEW pos \in DOMAIN Plane'
      PROVE  Plane'[pos] = IF pos \in Game!Surviving THEN Plane[pos] ELSE Game!Heir(pos)
  <2>1. pos \in Position /\ Plane'[pos] = CellOn(pos)'.owner
    BY <1>2 DEF PlaneShowsCells
  <2>2. pos \in Game!Surviving \/ pos \in Game!Newborn
    BY <1>7
  <2>3. Evolved(pos).owner = IF pos \in Game!Surviving THEN Plane[pos] ELSE Game!Heir(pos)
    BY <2>2 DEF Evolved
  <2> QED BY <1>3, <2>1, <2>3
<1>9. Plane' = [pos \in Game!Surviving \cup Game!Newborn |->
                  IF pos \in Game!Surviving THEN Plane[pos] ELSE Game!Heir(pos)]
  BY <1>2, <1>7, <1>8 DEF PlaneShowsCells
<1> QED BY <1>1, <1>9 DEF Game!Evolve

---------------------------------------------------------------------------
\* No game has begun: nobody plays and nothing lives.
LEMMA GameInit == Init => Game!Init
<1> SUFFICES ASSUME Init PROVE Game!Init
  OBVIOUS
<1>1. DOMAIN world = {} /\ phase = "idle" /\ balance = [p \in {} |-> 0]
  BY DEF Init, EmptyWorld
<1>2. LivingPositions = {}
  BY <1>1 DEF LivingPositions
<1>3. Plane = [pos \in {} |-> 0]
  BY <1>2 DEF Plane
<1> QED BY <1>1, <1>3 DEF Game!Init

\* GameServer.cpp:131: the chunked, double-buffered, multi-threaded server
\* plays the plain game.  Each step of its threads is an evolution of the whole
\* plane, an edit, an income or a handshake of LifeGame, or changes nothing a
\* player has: for chunks of any size, any number of workers and any commands.
THEOREM GameIsImplemented == ASSUME NoOwner \notin Players PROVE Spec => ImplementsLifeGame
<1> DEFINE Inv == TypeInv /\ TasksInv /\ CoverInv /\ OwnedWorld(world) /\ OutputInv /\ ComputeInv
<1>1. Init => Inv
  BY TypeInit, TasksInit, CoverInit, OutputInit, ComputeInit DEF Init, EmptyWorld, OwnedWorld
<1>2. Inv /\ [Next]_vars => Inv'
  BY TypeStep, TasksStep, CoverStep, OwnedStep, OutputStep, ComputeStep
<1>3. Inv /\ Inv' /\ [Next]_vars => [Game!Next]_(Game!vars)
  <2> SUFFICES ASSUME Inv, Inv', [Next]_vars PROVE [Game!Next]_(Game!vars)
    OBVIOUS
  <2>1. CASE CalculateDone
    BY <2>1, EvolveStep DEF Game!Next
  <2>2. CASE ApplyCommand
    BY <2>2, ApplyStep
  <2>3. CASE AwardIncome
    BY <2>3, IncomeStep DEF Game!Next
  <2>4. ASSUME NEW p \in Players, Join(p) PROVE [Game!Next]_(Game!vars)
    BY <2>4, JoinStep DEF Game!Next
  <2>5. CASE ~CalculateDone /\ ~ApplyCommand /\ ~AwardIncome /\ \A p \in Players : ~Join(p)
    BY <2>5, QuietStep
  <2> QED BY <2>1, <2>2, <2>3, <2>4, <2>5
<1>4. Init => Game!Init
  BY GameInit
<1> HIDE DEF Inv
<1> QED BY <1>1, <1>2, <1>3, <1>4, PTL DEF Spec, ImplementsLifeGame, Game!Spec

\* World.cpp:25-80: the next command in the order of the queue is carried out
\* at its position, for its player and at its price, whenever plane and balance
\* allow it, and nothing else changes the plane between the generation and the
\* income: for chunks of any size and commands at any coordinates.
THEOREM EditsCarriedOut == ASSUME NoOwner \notin Players PROVE Spec => EditsAreCarriedOut
<1> DEFINE Inv == TypeInv /\ TasksInv /\ OwnedWorld(world) /\ OrderInv
           Carries == /\ applied' # applied =>
                            LET cmd == pushed[applied']
                            IN  Plane' = EditedPlane(cmd) /\ balance' = PaidBalance(cmd)
                      /\ phase = "apply" /\ applied' = applied => Plane' = Plane
<1>1. Init => Inv
  BY TypeInit, TasksInit, OrderInit DEF Init, EmptyWorld, OwnedWorld
<1>2. Inv /\ [Next]_vars => Inv'
  BY TypeStep, TasksStep, OwnedStep, OrderStep
<1>3. Inv /\ Inv' /\ [Next]_vars => Carries
  <2> SUFFICES ASSUME Inv, Inv', [Next]_vars PROVE Carries
    OBVIOUS
  <2>1. CASE ApplyCommand
    <3>1. applied \in Nat /\ applied' = applied + 1
      BY <2>1 DEF ApplyCommand, TypeInv, TypeOK
    <3>2. LET cmd == pushed[applied'] IN Plane' = EditedPlane(cmd) /\ balance' = PaidBalance(cmd)
      BY <2>1, EditIsMade
    <3> HIDE DEF Plane, EditedPlane, PaidBalance
    <3> QED BY <3>1, <3>2
  <2>2. CASE ~ApplyCommand
    <3>1. applied' = applied
      BY <2>2 DEF Next, vars, logVars, Join, Receive, PushCommand, Tick, StartTick, TryPop, PrepareChunks,
          CalculateDone, SwapDone, CountLiveCells, AwardIncome, RefreshFullSnapshotCache,
          BroadcastDelta, BroadcastStats, Work, TakeTask, RunTask, Finished
    <3>2. phase = "apply" => ~CalculateDone
      BY DEF CalculateDone
    <3>3. phase = "apply" => Plane' = Plane
      BY <2>2, <3>2, CellsStay, SamePlane
    <3> HIDE DEF Plane, EditedPlane, PaidBalance
    <3> QED BY <3>1, <3>3
  <2> QED BY <2>1, <2>2
<1> HIDE DEF Inv
<1> QED BY <1>1, <1>2, <1>3, PTL DEF Spec, EditsAreCarriedOut
=============================================================================
