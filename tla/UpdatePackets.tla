--------------------------- MODULE UpdatePackets ---------------------------
(***************************************************************************)
(* The packets of the UDP stream: how WorldSerializer.hpp builds them and  *)
(* how the client's WorldModel applies them.  A chunk is a number, a cell  *)
(* is a number in its chunk, and a world is the set of live cells of each  *)
(* chunk; owners are left to GameServer.tla.                               *)
(***************************************************************************)
EXTENDS Integers, SequencesExt

CONSTANTS
    NumChunks,              \* chunks of the world
    NumCells,               \* cells of a chunk, 64 x 64 in the code
    MaxCellsPerPacket       \* 125 in the code (Protocol.hpp)

ASSUME UpdatePacketsAssumption ==
    {NumChunks, NumCells, MaxCellsPerPacket} \subseteq Nat \ {0}

ChunkId == 1 .. NumChunks
CellId == 1 .. NumCells
Worlds == [ChunkId -> SUBSET CellId]
NoLife == [c \in ChunkId |-> {}]

\* appendChunk: the entries in packets of at most MaxCellsPerPacket cells.
PacketsNeeded(cells) == (Cardinality(cells) + MaxCellsPerPacket - 1) \div MaxCellsPerPacket
Part(cells, i) ==
    {e \in cells :
        Cardinality({f \in cells : f <= e}) \in (i - 1) * MaxCellsPerPacket + 1 .. i * MaxCellsPerPacket}

\* One packet: `cells` are its entries, `live` those sent as alive.
AppendChunk(full, c, cells, live) ==
    [i \in 1 .. PacketsNeeded(cells) |->
        [full |-> full, chunk |-> c, cells |-> Part(cells, i), live |-> Part(cells, i) \cap live]]

\* Mistaken variant: dirty cells that died are left out.
SerializeDeltaOfLiving(world, dirty) ==
    FlattenSeq([c \in ChunkId |-> AppendChunk(FALSE, c, dirty[c] \cap world[c], world[c])])

SerializeDelta(world, dirty) ==
    FlattenSeq([c \in ChunkId |-> AppendChunk(FALSE, c, dirty[c], world[c])])

\* Live cells only: no packet stands for a chunk without any.
SerializeFull(world) ==
    FlattenSeq([c \in ChunkId |-> AppendChunk(TRUE, c, world[c], world[c])])

\* All packets of an update carry its number.
Stamp(packets, seq) ==
    [i \in DOMAIN packets |->
        [seq |-> seq, full |-> packets[i].full, chunk |-> packets[i].chunk,
         cells |-> packets[i].cells, live |-> packets[i].live]]

\* WorldModel::applyUpdate: a full packet first forgets the chunk it names.
ApplyUpdate(model, packet) ==
    [model EXCEPT ![packet.chunk] =
        (IF packet.full THEN {} ELSE @ \ packet.cells) \cup packet.live]
=============================================================================
