------------------------------- MODULE Chunk -------------------------------
(***************************************************************************)
(* A chunk of the Life plane (server/include/Chunk.hpp, server/src/        *)
(* Chunk.cpp): Width x Height cells stored with a one-cell ghost border in *)
(* two buffers, of which `cur` is the one readers see, and the list of     *)
(* local cells that changed since the last delta was serialized.           *)
(*                                                                         *)
(* The operators are pure; the World holds the chunks and the GameServer   *)
(* says who calls them when.                                               *)
(***************************************************************************)
EXTENDS Integers, FiniteSets

CONSTANTS
    Width, Height,      \* inner size of a chunk, 64 x 64 in Types.hpp
    Players             \* the player ids that may join

ASSUME ChunkAssumption ==
    /\ Width \in Nat \ {0}
    /\ Height \in Nat \ {0}
    /\ Players \subseteq Nat

NoOwner == 0
Owner == Players \cup {NoOwner}
Cell == [alive : BOOLEAN, owner : Owner]
Dead == [alive |-> FALSE, owner |-> NoOwner]

\* Local coordinates of the cells a chunk owns, and the slots of its buffers.
Inner == (0 .. Width - 1) \X (0 .. Height - 1)
Storage == (0 .. Width + 1) \X (0 .. Height + 1)
Slot(l) == <<l[1] + 1, l[2] + 1>>
InnerSlots == (1 .. Width) \X (1 .. Height)

\* A slot holds a cell; `dirty` is a set because a cell pushed twice is sent
\* twice with the same value.
ChunkType == [cur : {0, 1}, buf : [{0, 1} -> [Storage -> Cell]], dirty : SUBSET Inner]

EmptyChunk ==
    [cur |-> 0, buf |-> [b \in {0, 1} |-> [s \in Storage |-> Dead]], dirty |-> {}]

GetCell(chunk, l) == chunk.buf[chunk.cur][Slot(l)]

\* Every call marks the cell dirty, also when it writes back what was there.
SetCell(chunk, l, cell) ==
    LET written == [chunk.buf[chunk.cur] EXCEPT ![Slot(l)] = cell]
    IN  [cur |-> chunk.cur,
         buf |-> [chunk.buf EXCEPT ![chunk.cur] = written],
         dirty |-> chunk.dirty \cup {l}]

\* The border of the current buffer becomes `ghost`, slot by slot.
BorderSlots == Storage \ InnerSlots
SetGhostCells(chunk, ghost) ==
    LET now == chunk.buf[chunk.cur]
        bordered == [s \in Storage |-> IF s \in InnerSlots THEN now[s] ELSE ghost[s]]
    IN  [chunk EXCEPT !.buf[chunk.cur] = bordered]

---------------------------------------------------------------------------
\* The eight positions around p (in a buffer, or on the grid of chunks).
Around(p) ==
    {q \in (p[1] - 1 .. p[1] + 1) \X (p[2] - 1 .. p[2] + 1) : q # p}

\* Only neighbours with an owner are counted.
LiveNeighbours(buffer, s) ==
    {t \in Around(s) : buffer[t].alive /\ buffer[t].owner # NoOwner}

OwnersAround(buffer, s) == {buffer[t].owner : t \in LiveNeighbours(buffer, s)}
Support(buffer, s, o) == Cardinality({t \in LiveNeighbours(buffer, s) : buffer[t].owner = o})

\* The scan goes through the owners by ascending id and keeps the last one
\* that is at least as well supported as the best so far.
NextOwner(buffer, s) ==
    CHOOSE o \in OwnersAround(buffer, s) : \A q \in OwnersAround(buffer, s) :
        \/ Support(buffer, s, q) < Support(buffer, s, o)
        \/ Support(buffer, s, q) = Support(buffer, s, o) /\ q <= o

Survives(n) == n \in {2, 3}
Born(n) == n = 3

\* Mistaken variant: a cell that dies keeps its owner.
NextCellKeepingOwner(buffer, s) ==
    LET n == Cardinality(LiveNeighbours(buffer, s)) IN
    IF buffer[s].alive
    THEN IF Survives(n) THEN buffer[s] ELSE [buffer[s] EXCEPT !.alive = FALSE]
    ELSE IF Born(n) THEN [alive |-> TRUE, owner |-> NextOwner(buffer, s)] ELSE buffer[s]

NextCell(buffer, s) ==
    LET n == Cardinality(LiveNeighbours(buffer, s)) IN
    IF buffer[s].alive
    THEN IF Survives(n) THEN buffer[s] ELSE Dead
    ELSE IF Born(n) THEN [alive |-> TRUE, owner |-> NextOwner(buffer, s)] ELSE buffer[s]

\* Mistaken variant: only births are dirty.
ChangedByBirth(buffer) ==
    {l \in Inner : NextCell(buffer, Slot(l)).alive /\ ~buffer[Slot(l)].alive}

\* Births and deaths are dirty; the other buffer's ghost border is left alone.
Changed(buffer) ==
    {l \in Inner : NextCell(buffer, Slot(l)).alive # buffer[Slot(l)].alive}

CalculateNext(chunk) ==
    LET now == chunk.buf[chunk.cur]
        other == chunk.buf[1 - chunk.cur]
        next == [s \in Storage |-> IF s \in InnerSlots THEN NextCell(now, s) ELSE other[s]]
    IN  [cur |-> chunk.cur,
         buf |-> [chunk.buf EXCEPT ![1 - chunk.cur] = next],
         dirty |-> chunk.dirty \cup Changed(now)]

SwapBuffers(chunk) == [chunk EXCEPT !.cur = 1 - @]

ClearDirty(chunk) == [chunk EXCEPT !.dirty = {}]

HasLiveCells(chunk) == \E l \in Inner : GetCell(chunk, l).alive
=============================================================================
