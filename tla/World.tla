------------------------------- MODULE World -------------------------------
(***************************************************************************)
(* The unbounded plane (server/src/World.cpp): a function from the chunk   *)
(* coordinates that exist to their chunks.  Chunks are created on demand   *)
(* and never removed.                                                      *)
(***************************************************************************)
EXTENDS Chunk, Resources

Coord == Int \X Int
EmptyWorld == [c \in {} |-> EmptyChunk]

---------------------------------------------------------------------------
\* C++ integer division and remainder truncate towards zero.
TruncDiv(a, b) == IF a >= 0 THEN a \div b ELSE -((-a) \div b)
TruncRem(a, b) == a - b * TruncDiv(a, b)

\* The arithmetic of applyCommands on one axis.  The narrowing of the chunk
\* coordinate to int is left out: positions are taken to be in its range.
\* Mistaken variant: negative coordinates are not floored.
ChunkIndexTruncated(g, size) == TruncDiv(g, size)

ChunkIndex(g, size) == IF g >= 0 THEN TruncDiv(g, size) ELSE TruncDiv(g - size + 1, size)
\* Mistaken variant: the sign of the remainder is forgotten.
LocalIndexTruncated(g, size) == TruncRem(g, size)

LocalIndex(g, size) == TruncRem(TruncRem(g, size) + size, size)

ChunkOf(pos) == <<ChunkIndex(pos[1], Width), ChunkIndex(pos[2], Height)>>
LocalOf(pos) == <<LocalIndex(pos[1], Width), LocalIndex(pos[2], Height)>>

\* Where local cell l of chunk c lies on the plane, as the client places it.
Global(c, l) == <<c[1] * Width + l[1], c[2] * Height + l[2]>>

---------------------------------------------------------------------------
WithChunks(world, coords) ==
    [c \in DOMAIN world \cup coords |-> IF c \in DOMAIN world THEN world[c] ELSE EmptyChunk]

\* Mistaken variant: no margin.
NoSimulationMargin(world) == world

\* Every chunk with a live cell gets its eight neighbours.
EnsureSimulationMargin(world) ==
    WithChunks(world, UNION {Around(c) : c \in {d \in DOMAIN world : HasLiveCells(world[d])}})

\* The chunk and local cell that ghost slot s of chunk c mirrors.
Beyond(i, size) == IF i = 0 THEN -1 ELSE IF i = size + 1 THEN 1 ELSE 0
Mirrored(i, size) == IF i = 0 THEN size - 1 ELSE IF i = size + 1 THEN 0 ELSE i - 1
GhostChunk(c, s) == <<c[1] + Beyond(s[1], Width), c[2] + Beyond(s[2], Height)>>
GhostLocal(s) == <<Mirrored(s[1], Width), Mirrored(s[2], Height)>>

ReadOrDead(world, c, l) == IF c \in DOMAIN world THEN GetCell(world[c], l) ELSE Dead

\* Ghosts are copied from inner cells only, so the order of chunks is free.
ExchangeBorders(world) ==
    LET w == EnsureSimulationMargin(world) IN
    [c \in DOMAIN w |->
        SetGhostCells(w[c], [s \in BorderSlots |-> ReadOrDead(w, GhostChunk(c, s), GhostLocal(s))])]

---------------------------------------------------------------------------
Command == [type : {"place", "remove", "toggle"}, player : Players, pos : Int \X Int]

\* The branches of applyCommands that go through: they pay, or are paid, and
\* change the cell.
Places(cell, balance, cmd) ==
    /\ CanSpend(balance, cmd.player, PlaceCost)
    /\ \/ cmd.type = "place" /\ cell.owner = NoOwner
       \/ cmd.type = "toggle" /\ ~cell.alive /\ cell.owner \in {NoOwner, cmd.player}

Removes(cell, balance, cmd) ==
    /\ CanAward(balance, cmd.player)
    /\ \/ cmd.type = "remove" /\ cell.owner = cmd.player
       \/ cmd.type = "toggle" /\ cell.alive /\ cell.owner \in {NoOwner, cmd.player}

CellAfter(cell, balance, cmd) ==
    IF Places(cell, balance, cmd) THEN [alive |-> TRUE, owner |-> cmd.player]
    ELSE IF Removes(cell, balance, cmd) THEN Dead ELSE cell

BalanceAfter(cell, balance, cmd) ==
    IF Places(cell, balance, cmd) THEN Spend(balance, cmd.player, PlaceCost)
    ELSE IF Removes(cell, balance, cmd) THEN Award(balance, cmd.player, RemoveAward)
    ELSE balance

\* The cell a command names; its chunk is created if need be and the cell is
\* written back, hence dirty, whatever the command did.
Target(world, cmd) == ReadOrDead(world, ChunkOf(cmd.pos), LocalOf(cmd.pos))

ApplyToWorld(world, balance, cmd) ==
    LET c == ChunkOf(cmd.pos)
        l == LocalOf(cmd.pos)
        w == WithChunks(world, {c})
    IN  [w EXCEPT ![c] = SetCell(w[c], l, CellAfter(GetCell(w[c], l), balance, cmd))]

ApplyToBalance(world, balance, cmd) == BalanceAfter(Target(world, cmd), balance, cmd)
=============================================================================
