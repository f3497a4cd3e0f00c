---------------------------- MODULE WorldProofs ----------------------------
(***************************************************************************)
(* Facts about the operations of Chunk.tla and World.tla, for chunks of    *)
(* any size and any set of players: what each keeps of a chunk's type, of  *)
(* the ownership of its cells and of its cells' values.                    *)
(***************************************************************************)
EXTENDS World, FiniteSetTheorems, TLAPS

\* A cell is alive exactly if it has an owner, in both buffers of a chunk.
OwnedCell(cell) == cell.alive <=> cell.owner # NoOwner
OwnedChunk(chunk) == \A b \in {0, 1} : \A s \in Storage : OwnedCell(chunk.buf[b][s])

\* Cells and slots correspond, and the neighbours of an inner slot are slots.
LEMMA Slots ==
    /\ InnerSlots \subseteq Storage
    /\ \A l \in Inner : Slot(l) \in InnerSlots
    /\ \A l, m \in Inner : Slot(l) = Slot(m) => l = m
    /\ \A s \in InnerSlots : Around(s) \subseteq Storage
    /\ \A s \in InnerSlots : \E l \in Inner : s = Slot(l)
<1>1. InnerSlots \subseteq Storage
  BY ChunkAssumption, SMT DEF InnerSlots, Storage
<1>2. \A l \in Inner : Slot(l) \in InnerSlots
  BY ChunkAssumption, SMT DEF InnerSlots, Inner, Slot
<1>3. \A l, m \in Inner : Slot(l) = Slot(m) => l = m
  BY ChunkAssumption, SMT DEF Inner, Slot
<1>4. \A s \in InnerSlots : Around(s) \subseteq Storage
  BY ChunkAssumption, SMT DEF InnerSlots, Storage, Around
<1>5. ASSUME NEW s \in InnerSlots PROVE \E l \in Inner : s = Slot(l)
  <2>1. <<s[1] - 1, s[2] - 1>> \in Inner
    BY ChunkAssumption, SMT DEF InnerSlots, Inner
  <2>2. s = Slot(<<s[1] - 1, s[2] - 1>>)
    BY ChunkAssumption, SMT DEF InnerSlots, Slot
  <2> QED BY <2>1, <2>2
<1> QED BY <1>1, <1>2, <1>3, <1>4, <1>5

\* The neighbourhood of a position is finite.
LEMMA AroundFinite == ASSUME NEW p \in Int \X Int PROVE IsFiniteSet(Around(p))
<1> DEFINE X == p[1] - 1 .. p[1] + 1
           Y == p[2] - 1 .. p[2] + 1
<1>1. p[1] \in Int /\ p[2] \in Int
  OBVIOUS
<1>2. IsFiniteSet(X) /\ IsFiniteSet(Y)
  BY <1>1, FS_Interval
<1>3. IsFiniteSet(X \X Y)
  BY <1>2, FS_Product
<1>4. Around(p) \subseteq X \X Y
  BY DEF Around
<1> QED BY <1>3, <1>4, FS_Subset

\* Three numbers, each with a weight, have one that no other beats.
LEMMA ThreeHaveATop ==
    ASSUME NEW x \in Int, NEW y \in Int, NEW z \in Int,
           NEW i \in Int, NEW j \in Int, NEW k \in Int
    PROVE  \/ (j < i \/ (j = i /\ y <= x)) /\ (k < i \/ (k = i /\ z <= x))
           \/ (i < j \/ (i = j /\ x <= y)) /\ (k < j \/ (k = j /\ z <= y))
           \/ (i < k \/ (i = k /\ x <= z)) /\ (j < k \/ (j = k /\ y <= z))
BY SMT

\* The choice NextOwner makes among the owners of three neighbours exists: the
\* best supported, and among those the last.
LEMMA NextOwnerIsTop ==
    ASSUME NEW buffer \in [Storage -> Cell], NEW s \in InnerSlots,
           Cardinality(LiveNeighbours(buffer, s)) = 3
    PROVE  LET o == NextOwner(buffer, s) IN
           /\ OwnersAround(buffer, s) \subseteq Players \ {NoOwner}
           /\ \A q : Support(buffer, s, q) \in Int
           /\ o \in OwnersAround(buffer, s)
           /\ \A q \in OwnersAround(buffer, s) :
                 \/ Support(buffer, s, q) < Support(buffer, s, o)
                 \/ Support(buffer, s, q) = Support(buffer, s, o) /\ q <= o
<1> DEFINE L == LiveNeighbours(buffer, s)
           O == OwnersAround(buffer, s)
           v(o) == Support(buffer, s, o)
<1>1. s \in Int \X Int
  BY ChunkAssumption, SMT DEF InnerSlots
<1>2. IsFiniteSet(L)
  BY <1>1, AroundFinite, FS_Subset DEF LiveNeighbours
<1>3. PICK a, b, c : L = {a, b, c}
  <2>1. PICK a : a \in L
    BY <1>2, FS_EmptySet
  <2>2. IsFiniteSet(L \ {a}) /\ Cardinality(L \ {a}) = 2
    BY <1>2, <2>1, FS_RemoveElement, SMT
  <2>3. PICK b : b \in L \ {a}
    BY <2>2, FS_EmptySet
  <2>4. IsFiniteSet((L \ {a}) \ {b}) /\ Cardinality((L \ {a}) \ {b}) = 1
    BY <2>2, <2>3, FS_RemoveElement, SMT
  <2>5. PICK c : c \in (L \ {a}) \ {b}
    BY <2>4, FS_EmptySet
  <2>6. ASSUME NEW M, IsFiniteSet(M), Cardinality(M) = 1, c \in M PROVE M \ {c} = {}
    <3>1. IsFiniteSet(M \ {c}) /\ Cardinality(M \ {c}) = 0
      BY <2>6, FS_RemoveElement, SMT
    <3> QED BY <3>1, FS_EmptySet
  <2>7. ((L \ {a}) \ {b}) \ {c} = {}
    BY <2>4, <2>5, <2>6
  <2>8. L = {a, b, c}
    BY <2>1, <2>3, <2>5, <2>7
  <2> QED BY <2>8
<1>4. \A t \in L : buffer[t].owner \in Players \ {NoOwner}
  BY Slots DEF LiveNeighbours, Cell, Owner
<1>5. O = {buffer[a].owner, buffer[b].owner, buffer[c].owner}
  BY <1>3 DEF OwnersAround
<1>6. O \subseteq Players \ {NoOwner} /\ O \subseteq Int
  BY <1>4, ChunkAssumption DEF OwnersAround
<1>7. ASSUME NEW o PROVE v(o) \in Int
  <2>1. {t \in L : buffer[t].owner = o} \subseteq L
    OBVIOUS
  <2>2. IsFiniteSet({t \in L : buffer[t].owner = o})
    BY <1>2, <2>1, FS_Subset
  <2>3. Cardinality({t \in L : buffer[t].owner = o}) \in Nat
    BY <2>2, FS_CardinalityType
  <2> QED BY <2>3 DEF Support
<1>8. \E o \in O : \A q \in O : v(q) < v(o) \/ (v(q) = v(o) /\ q <= o)
  <2> DEFINE x == buffer[a].owner
             y == buffer[b].owner
             z == buffer[c].owner
  <2>1. x \in Int /\ y \in Int /\ z \in Int
    BY <1>5, <1>6
  <2>2. v(x) \in Int /\ v(y) \in Int /\ v(z) \in Int
    BY <1>7
  <2> HIDE DEF x, y, z, v
  <2>3. \/ (v(y) < v(x) \/ (v(y) = v(x) /\ y <= x)) /\ (v(z) < v(x) \/ (v(z) = v(x) /\ z <= x))
        \/ (v(x) < v(y) \/ (v(x) = v(y) /\ x <= y)) /\ (v(z) < v(y) \/ (v(z) = v(y) /\ z <= y))
        \/ (v(x) < v(z) \/ (v(x) = v(z) /\ x <= z)) /\ (v(y) < v(z) \/ (v(y) = v(z) /\ y <= z))
    BY <2>1, <2>2, ThreeHaveATop
  <2>4. v(x) = v(x) /\ x <= x /\ v(y) = v(y) /\ y <= y /\ v(z) = v(z) /\ z <= z
    BY <2>1
  <2>5. O = {x, y, z}
    BY <1>5 DEF x, y, z
  <2> QED BY <2>3, <2>4, <2>5
<1> DEFINE Top(o) == \A q \in O : v(q) < v(o) \/ (v(q) = v(o) /\ q <= o)
<1>9. NextOwner(buffer, s) = CHOOSE o \in O : Top(o)
  BY DEF NextOwner
<1> HIDE DEF Top
<1>10. NextOwner(buffer, s) \in O /\ Top(NextOwner(buffer, s))
  <2>1. \E o \in O : Top(o)
    BY <1>8 DEF Top
  <2> HIDE DEF O
  <2> QED BY <1>9, <2>1
<1> QED BY <1>6, <1>7, <1>10 DEF Top

\* The owner of a newborn cell is a player, and not 0.
LEMMA NextOwnerIsAPlayer ==
    ASSUME NEW buffer \in [Storage -> Cell], NEW s \in InnerSlots,
           Cardinality(LiveNeighbours(buffer, s)) = 3
    PROVE  NextOwner(buffer, s) \in Players \ {NoOwner}
BY NextOwnerIsTop

---------------------------------------------------------------------------
\* What each operation on a chunk keeps and changes.

LEMMA EmptyChunkFacts ==
    /\ EmptyChunk \in ChunkType
    /\ OwnedChunk(EmptyChunk)
    /\ \A l \in Inner : GetCell(EmptyChunk, l) = Dead
<1>1. Dead \in Cell /\ OwnedCell(Dead)
  BY DEF Dead, Cell, Owner, OwnedCell
<1>2. EmptyChunk \in ChunkType
  BY <1>1 DEF EmptyChunk, ChunkType
<1>3. OwnedChunk(EmptyChunk)
  BY <1>1 DEF OwnedChunk, EmptyChunk
<1>4. \A l \in Inner : GetCell(EmptyChunk, l) = Dead
  BY Slots DEF GetCell, EmptyChunk
<1> QED BY <1>2, <1>3, <1>4

LEMMA GetCellType ==
    ASSUME NEW chunk \in ChunkType, NEW l \in Inner
    PROVE  /\ GetCell(chunk, l) \in Cell
           /\ OwnedChunk(chunk) => OwnedCell(GetCell(chunk, l))
BY Slots DEF ChunkType, GetCell, OwnedChunk

LEMMA SetCellFacts ==
    ASSUME NEW chunk \in ChunkType, NEW l \in Inner, NEW cell \in Cell
    PROVE  LET after == SetCell(chunk, l, cell) IN
           /\ after \in ChunkType
           /\ OwnedChunk(chunk) /\ OwnedCell(cell) => OwnedChunk(after)
           /\ after.dirty = chunk.dirty \cup {l}
           /\ \A m \in Inner : m # l => GetCell(after, m) = GetCell(chunk, m)
<1> DEFINE after == SetCell(chunk, l, cell)
           written == [chunk.buf[chunk.cur] EXCEPT ![Slot(l)] = cell]
<1>1. Slot(l) \in Storage
  BY Slots
<1>2. /\ chunk.cur \in {0, 1}
      /\ chunk.buf \in [{0, 1} -> [Storage -> Cell]]
      /\ chunk.dirty \subseteq Inner
  BY DEF ChunkType
<1>3. written \in [Storage -> Cell]
  BY <1>1, <1>2
<1>4. after = [cur |-> chunk.cur, buf |-> [chunk.buf EXCEPT ![chunk.cur] = written],
               dirty |-> chunk.dirty \cup {l}]
  BY DEF SetCell, ChunkType
<1>5. after \in ChunkType
  BY <1>2, <1>3, <1>4 DEF ChunkType
<1>6. ASSUME OwnedChunk(chunk), OwnedCell(cell), NEW b \in {0, 1}, NEW s \in Storage
      PROVE  OwnedCell(after.buf[b][s])
  BY <1>1, <1>2, <1>4, <1>6 DEF OwnedChunk
<1>7. ASSUME NEW m \in Inner, m # l PROVE GetCell(after, m) = GetCell(chunk, m)
  BY <1>1, <1>2, <1>4, <1>7, Slots DEF GetCell
<1>8. OwnedChunk(chunk) /\ OwnedCell(cell) => OwnedChunk(after)
  BY <1>6 DEF OwnedChunk
<1> QED BY <1>4, <1>5, <1>7, <1>8

LEMMA SetGhostCellsFacts ==
    ASSUME NEW chunk \in ChunkType, NEW ghost \in [BorderSlots -> Cell]
    PROVE  LET after == SetGhostCells(chunk, ghost) IN
           /\ after \in ChunkType
           /\ OwnedChunk(chunk) /\ (\A s \in BorderSlots : OwnedCell(ghost[s])) => OwnedChunk(after)
           /\ after.dirty = chunk.dirty
           /\ \A l \in Inner : GetCell(after, l) = GetCell(chunk, l)
<1> DEFINE after == SetGhostCells(chunk, ghost)
           written == [s \in Storage |->
                        IF s \in InnerSlots THEN chunk.buf[chunk.cur][s] ELSE ghost[s]]
<1>2. /\ chunk.cur \in {0, 1}
      /\ chunk.buf \in [{0, 1} -> [Storage -> Cell]]
      /\ chunk.dirty \subseteq Inner
  BY DEF ChunkType
<1>3. written \in [Storage -> Cell]
  BY <1>2 DEF BorderSlots
<1>4. after = [cur |-> chunk.cur, buf |-> [chunk.buf EXCEPT ![chunk.cur] = written],
               dirty |-> chunk.dirty]
  BY DEF SetGhostCells, ChunkType
<1>5. after \in ChunkType
  BY <1>2, <1>3, <1>4 DEF ChunkType
<1>6. ASSUME OwnedChunk(chunk), \A s \in BorderSlots : OwnedCell(ghost[s]),
             NEW b \in {0, 1}, NEW s \in Storage
      PROVE  OwnedCell(after.buf[b][s])
  BY <1>2, <1>4, <1>6 DEF OwnedChunk, BorderSlots
<1>7. ASSUME NEW m \in Inner PROVE GetCell(after, m) = GetCell(chunk, m)
  BY <1>2, <1>4, Slots DEF GetCell
<1>8. OwnedChunk(chunk) /\ (\A s \in BorderSlots : OwnedCell(ghost[s])) => OwnedChunk(after)
  BY <1>6 DEF OwnedChunk
<1> QED BY <1>4, <1>5, <1>7, <1>8

\* A birth or a death makes the cell dirty; nothing else changes a cell.
LEMMA CalculateNextFacts ==
    ASSUME NEW chunk \in ChunkType
    PROVE  LET after == CalculateNext(chunk)
               now == chunk.buf[chunk.cur]
           IN
           /\ after \in ChunkType
           /\ OwnedChunk(chunk) => OwnedChunk(after)
           /\ after.cur = chunk.cur /\ chunk.dirty \subseteq after.dirty
           /\ \A l \in Inner : GetCell(after, l) = GetCell(chunk, l)
           /\ \A l \in Inner : GetCell(SwapBuffers(after), l) # GetCell(chunk, l) => l \in after.dirty
<1> DEFINE after == CalculateNext(chunk)
           now == chunk.buf[chunk.cur]
           other == chunk.buf[1 - chunk.cur]
           next == [s \in Storage |-> IF s \in InnerSlots THEN NextCell(now, s) ELSE other[s]]
<1>1. /\ chunk.cur \in {0, 1} /\ 1 - chunk.cur \in {0, 1} /\ 1 - chunk.cur # chunk.cur
      /\ chunk.buf \in [{0, 1} -> [Storage -> Cell]]
      /\ chunk.dirty \subseteq Inner
  BY SMT DEF ChunkType
<1>2. now \in [Storage -> Cell] /\ other \in [Storage -> Cell]
  BY <1>1
<1>3. ASSUME NEW s \in InnerSlots
      PROVE  /\ NextCell(now, s) \in Cell
             /\ OwnedCell(now[s]) => OwnedCell(NextCell(now, s))
             /\ NextCell(now, s) # now[s] => NextCell(now, s).alive # now[s].alive
  <2> DEFINE n == Cardinality(LiveNeighbours(now, s))
  <2>1. now[s] \in Cell
    BY <1>2, <1>3, Slots
  <2>2. CASE now[s].alive
    BY <2>1, <2>2 DEF NextCell, OwnedCell, Dead, Cell, Owner
  <2>3. CASE ~now[s].alive /\ n = 3
    <3>1. NextOwner(now, s) \in Players \ {NoOwner}
      BY <1>2, <2>3, NextOwnerIsAPlayer
    <3> QED BY <2>1, <2>3, <3>1 DEF NextCell, Born, OwnedCell, Cell, Owner
  <2>4. CASE ~now[s].alive /\ n # 3
    BY <2>1, <2>4 DEF NextCell, Born
  <2> QED BY <2>2, <2>3, <2>4
<1>4. next \in [Storage -> Cell]
  BY <1>2, <1>3
<1>5. after = [cur |-> chunk.cur, buf |-> [chunk.buf EXCEPT ![1 - chunk.cur] = next],
               dirty |-> chunk.dirty \cup Changed(now)]
  BY DEF CalculateNext, ChunkType
<1>6. after \in ChunkType
  <2>1. Changed(now) \subseteq Inner
    BY DEF Changed
  <2>2. [chunk.buf EXCEPT ![1 - chunk.cur] = next] \in [{0, 1} -> [Storage -> Cell]]
    BY <1>1, <1>4
  <2> HIDE DEF next, now
  <2> QED BY <1>1, <1>5, <2>1, <2>2 DEF ChunkType
<1>7. ASSUME OwnedChunk(chunk), NEW b \in {0, 1}, NEW s \in Storage
      PROVE  OwnedCell(after.buf[b][s])
  <2>1. OwnedCell(now[s]) /\ OwnedCell(other[s])
    BY <1>1, <1>7 DEF OwnedChunk
  <2>2. OwnedCell(next[s])
    BY <1>3, <2>1
  <2>3. OwnedCell(chunk.buf[b][s])
    BY <1>7 DEF OwnedChunk
  <2>4. after.buf[b] = IF b = 1 - chunk.cur THEN next ELSE chunk.buf[b]
    BY <1>1, <1>5
  <2> QED BY <2>2, <2>3, <2>4
<1>8. ASSUME NEW l \in Inner PROVE GetCell(after, l) = GetCell(chunk, l)
  BY <1>1, <1>5 DEF GetCell
<1>9. ASSUME NEW l \in Inner, GetCell(SwapBuffers(after), l) # GetCell(chunk, l)
      PROVE  l \in after.dirty
  <2>1. SwapBuffers(after).cur = 1 - chunk.cur /\ SwapBuffers(after).buf = after.buf
    BY <1>5 DEF SwapBuffers
  <2>2. GetCell(SwapBuffers(after), l) = next[Slot(l)]
    <3>1. after.buf[1 - chunk.cur] = next
      BY <1>1, <1>5
    <3> QED BY <2>1, <3>1 DEF GetCell
  <2>3. next[Slot(l)] = NextCell(now, Slot(l)) /\ GetCell(chunk, l) = now[Slot(l)]
    BY Slots DEF GetCell
  <2>4. l \in Changed(now)
    BY <1>3, <1>9, <2>2, <2>3, Slots DEF Changed
  <2> QED BY <1>5, <2>4
<1>10. OwnedChunk(chunk) => OwnedChunk(after)
  BY <1>7 DEF OwnedChunk
<1>11. after.cur = chunk.cur /\ chunk.dirty \subseteq after.dirty
  BY <1>5
<1> QED BY <1>6, <1>8, <1>9, <1>10, <1>11

\* The swap shows the other buffer; clearing the dirty list changes no cell.
LEMMA SwapFacts ==
    ASSUME NEW chunk \in ChunkType
    PROVE  LET after == SwapBuffers(chunk) IN
           /\ after \in ChunkType
           /\ OwnedChunk(chunk) => OwnedChunk(after)
           /\ after.dirty = chunk.dirty
<1>1. chunk.cur \in {0, 1} /\ 1 - chunk.cur \in {0, 1}
  BY SMT DEF ChunkType
<1>2. SwapBuffers(chunk) = [cur |-> 1 - chunk.cur, buf |-> chunk.buf, dirty |-> chunk.dirty]
  BY DEF SwapBuffers, ChunkType
<1> QED BY <1>1, <1>2 DEF ChunkType, OwnedChunk

LEMMA ClearDirtyFacts ==
    ASSUME NEW chunk \in ChunkType
    PROVE  LET after == ClearDirty(chunk) IN
           /\ after \in ChunkType
           /\ OwnedChunk(chunk) => OwnedChunk(after)
           /\ \A l \in Inner : GetCell(after, l) = GetCell(chunk, l)
<1>1. ClearDirty(chunk) = [cur |-> chunk.cur, buf |-> chunk.buf, dirty |-> {}]
  BY DEF ClearDirty, ChunkType
<1> QED BY <1>1 DEF ChunkType, OwnedChunk, GetCell

---------------------------------------------------------------------------
\* What the operations on the world keep and change.

WorldOK(w) ==
    /\ DOMAIN w \subseteq Coord /\ IsFiniteSet(DOMAIN w)
    /\ \A c \in DOMAIN w : w[c] \in ChunkType
OwnedWorld(w) == \A c \in DOMAIN w : OwnedChunk(w[c])

\* Every position has its chunk and its cell in the chunk, and it is the cell
\* the client draws at that position.
LEMMA Positions ==
    ASSUME NEW pos \in Int \X Int
    PROVE  /\ ChunkOf(pos) \in Coord
           /\ LocalOf(pos) \in Inner
           /\ Global(ChunkOf(pos), LocalOf(pos)) = pos
<1>1. ASSUME NEW g \in Int, NEW size \in Nat \ {0}
      PROVE  /\ ChunkIndex(g, size) \in Int
             /\ LocalIndex(g, size) \in 0 .. size - 1
             /\ ChunkIndex(g, size) * size + LocalIndex(g, size) = g
  <2> DEFINE h == size - 1 - g
  <2>1. CASE g >= 0
    <3>1. g \div size \in Nat /\ g = size * (g \div size) + (g % size) /\ g % size \in 0 .. size - 1
      BY <2>1, SMT
    <3>2. TruncRem(g, size) = g % size
      BY <2>1, <3>1, SMT DEF TruncRem, TruncDiv
    <3>3. LocalIndex(g, size) = g % size
      <4>1. ((g % size) + size) \div size = 1
        BY <3>1, SMT
      <4> QED BY <3>1, <3>2, <4>1, SMT DEF LocalIndex, TruncRem, TruncDiv
    <3>4. ChunkIndex(g, size) = g \div size
      BY <2>1 DEF ChunkIndex, TruncDiv
    <3> QED BY <3>1, <3>3, <3>4, SMT
  <2>2. CASE g < 0
    <3> DEFINE k == (-g) \div size
               m == (-g) % size
    <3>1. k \in Nat /\ m \in 0 .. size - 1 /\ -g = size * k + m
      BY <2>2, SMT
    <3>2. TruncRem(g, size) = -m
      BY <2>2, <3>1, SMT DEF TruncRem, TruncDiv
    <3>3. LocalIndex(g, size) = IF m = 0 THEN 0 ELSE size - m
      <4>1. size - m >= 0 /\ (size - m) \div size = IF m = 0 THEN 1 ELSE 0
        BY <3>1, SMT
      <4> HIDE DEF m
      <4> QED BY <3>1, <3>2, <4>1, SMT DEF LocalIndex, TruncRem, TruncDiv
    <3>4. g - size + 1 <= 0 /\ (g - size + 1 >= 0 => g - size + 1 = 0)
      BY <2>2, SMT
    <3>5. ChunkIndex(g, size) = -((size - 1 - g) \div size)
      BY <2>2, <3>4, SMT DEF ChunkIndex, TruncDiv
    <3>6. (size - 1 - g) \div size = IF m = 0 THEN k ELSE k + 1
      <4>1. size - 1 - g = size * k + (m + size - 1)
        BY <3>1, SMT
      <4> HIDE DEF k, m
      <4> QED BY <3>1, <4>1, SMT
    <3> HIDE DEF k, m
    <3>7. ChunkIndex(g, size) = IF m = 0 THEN -k ELSE -k - 1
      BY <3>1, <3>5, <3>6, SMT
    <3>8. (-k - 1) * size + (size - m) = g /\ (m = 0 => (-k) * size = g)
      BY <3>1, SMT
    <3> QED BY <3>1, <3>3, <3>7, <3>8, SMT
  <2> QED BY <2>1, <2>2, SMT
<1>2. pos[1] \in Int /\ pos[2] \in Int /\ pos = <<pos[1], pos[2]>>
  OBVIOUS
<1> QED BY <1>1, <1>2, ChunkAssumption DEF ChunkOf, LocalOf, Global, Coord, Inner

\* New chunks are empty: they change no cell of the plane.
LEMMA WithChunksFacts ==
    ASSUME NEW w, WorldOK(w), NEW coords \in SUBSET Coord, IsFiniteSet(coords)
    PROVE  LET after == WithChunks(w, coords) IN
           /\ WorldOK(after)
           /\ OwnedWorld(w) => OwnedWorld(after)
           /\ DOMAIN after = DOMAIN w \cup coords
           /\ \A c \in DOMAIN w : after[c] = w[c]
           /\ \A c \in DOMAIN after \ DOMAIN w : after[c] = EmptyChunk
<1> DEFINE after == WithChunks(w, coords)
<1>1. after = [c \in DOMAIN w \cup coords |-> IF c \in DOMAIN w THEN w[c] ELSE EmptyChunk]
  BY DEF WithChunks
<1>2. IsFiniteSet(DOMAIN w \cup coords)
  BY FS_Union DEF WorldOK
<1>3. WorldOK(after)
  BY <1>1, <1>2, EmptyChunkFacts DEF WorldOK
<1>4. OwnedWorld(w) => OwnedWorld(after)
  BY <1>1, EmptyChunkFacts DEF OwnedWorld
<1> QED BY <1>1, <1>3, <1>4

LEMMA ReadOrDeadType ==
    ASSUME NEW w, WorldOK(w), NEW c, NEW l \in Inner
    PROVE  /\ ReadOrDead(w, c, l) \in Cell
           /\ OwnedWorld(w) => OwnedCell(ReadOrDead(w, c, l))
<1>1. CASE c \in DOMAIN w
  BY <1>1, GetCellType DEF ReadOrDead, WorldOK, OwnedWorld
<1>2. CASE c \notin DOMAIN w
  BY <1>2 DEF ReadOrDead, Dead, Cell, Owner, OwnedCell
<1> QED BY <1>1, <1>2

\* The margin is a finite set of chunk coordinates.
LEMMA MarginFacts ==
    ASSUME NEW w, WorldOK(w), NEW live \in SUBSET DOMAIN w
    PROVE  LET margin == UNION {Around(c) : c \in live} IN
           margin \subseteq Coord /\ IsFiniteSet(margin)
<1>1. \A c \in live : c \in Int \X Int
  BY DEF WorldOK, Coord
<1>2. \A c \in live : Around(c) \subseteq Coord /\ IsFiniteSet(Around(c))
  <2>1. ASSUME NEW c \in live PROVE Around(c) \subseteq Coord
    BY <1>1, SMT DEF Around, Coord
  <2> QED BY <1>1, <2>1, AroundFinite
<1>3. IsFiniteSet(live)
  BY FS_Subset DEF WorldOK
<1>4. IsFiniteSet({Around(c) : c \in live})
  <2> DEFINE around == [c \in live |-> Around(c)]
             images == {Around(c) : c \in live}
  <2>1. around \in Surjection(live, images)
    BY Zenon DEF Surjection
  <2> HIDE DEF around, images
  <2>2. IsFiniteSet(images)
    BY <1>3, <2>1, FS_Surjection
  <2> QED BY <2>2 DEF images
<1>5. \A T \in {Around(c) : c \in live} : IsFiniteSet(T)
  BY <1>2
<1>6. IsFiniteSet(UNION {Around(c) : c \in live})
  BY <1>4, <1>5, FS_UNION
<1> QED BY <1>2, <1>6

\* The exchange of borders adds empty chunks and writes ghosts: no cell of
\* the plane changes and none becomes dirty.
LEMMA ExchangeBordersFacts ==
    ASSUME NEW w, WorldOK(w)
    PROVE  LET after == ExchangeBorders(w) IN
           /\ WorldOK(after)
           /\ OwnedWorld(w) => OwnedWorld(after)
           /\ DOMAIN w \subseteq DOMAIN after
           /\ \A c \in DOMAIN w : after[c].dirty = w[c].dirty
           /\ \A c \in DOMAIN w : \A l \in Inner : GetCell(after[c], l) = GetCell(w[c], l)
           /\ \A c \in DOMAIN after \ DOMAIN w : \A l \in Inner : GetCell(after[c], l) = Dead
<1> DEFINE live == {c \in DOMAIN w : HasLiveCells(w[c])}
           v == EnsureSimulationMargin(w)
           after == ExchangeBorders(w)
           ghost(c) == [s \in BorderSlots |-> ReadOrDead(v, GhostChunk(c, s), GhostLocal(s))]
<1>1. /\ WorldOK(v)
      /\ OwnedWorld(w) => OwnedWorld(v)
      /\ DOMAIN w \subseteq DOMAIN v
      /\ \A c \in DOMAIN w : v[c] = w[c]
      /\ \A c \in DOMAIN v \ DOMAIN w : v[c] = EmptyChunk
  <2>1. live \in SUBSET DOMAIN w
    OBVIOUS
  <2> DEFINE margin == UNION {Around(c) : c \in live}
  <2>2. margin \in SUBSET Coord /\ IsFiniteSet(margin)
    BY <2>1, MarginFacts
  <2>3. v = WithChunks(w, margin)
    BY DEF EnsureSimulationMargin
  <2> HIDE DEF live, v, margin
  <2>4. /\ WorldOK(WithChunks(w, margin))
        /\ OwnedWorld(w) => OwnedWorld(WithChunks(w, margin))
        /\ DOMAIN WithChunks(w, margin) = DOMAIN w \cup margin
        /\ \A c \in DOMAIN w : WithChunks(w, margin)[c] = w[c]
        /\ \A c \in DOMAIN WithChunks(w, margin) \ DOMAIN w : WithChunks(w, margin)[c] = EmptyChunk
    BY <2>2, WithChunksFacts
  <2> QED BY <2>3, <2>4
<1>2. \A s \in BorderSlots : GhostLocal(s) \in Inner
  <2>1. ASSUME NEW size \in Nat \ {0}, NEW i \in 0 .. size + 1
        PROVE  Mirrored(i, size) \in 0 .. size - 1
    BY <2>1, SMT DEF Mirrored
  <2>2. ASSUME NEW s \in BorderSlots
        PROVE  s[1] \in 0 .. Width + 1 /\ s[2] \in 0 .. Height + 1
    BY DEF BorderSlots, Storage
  <2> QED BY <2>1, <2>2, ChunkAssumption DEF GhostLocal, Inner
<1> HIDE DEF v
<1>3. \A c : ghost(c) \in [BorderSlots -> Cell]
  BY <1>1, <1>2, ReadOrDeadType
<1>4. \A c : OwnedWorld(w) => \A s \in BorderSlots : OwnedCell(ghost(c)[s])
  BY <1>1, <1>2, ReadOrDeadType
<1>5. DOMAIN after = DOMAIN v /\ \A c \in DOMAIN v : after[c] = SetGhostCells(v[c], ghost(c))
  BY DEF ExchangeBorders, v
<1> HIDE DEF after, ghost
<1>6. ASSUME NEW c \in DOMAIN v
      PROVE  /\ after[c] \in ChunkType
             /\ OwnedWorld(w) => OwnedChunk(after[c])
             /\ after[c].dirty = v[c].dirty
             /\ \A l \in Inner : GetCell(after[c], l) = GetCell(v[c], l)
  <2>1. v[c] \in ChunkType
    BY <1>1 DEF WorldOK
  <2>2. OwnedWorld(w) => OwnedChunk(v[c])
    BY <1>1 DEF OwnedWorld
  <2>3. ghost(c) \in [BorderSlots -> Cell]
    BY <1>3
  <2> QED BY <1>4, <1>5, <2>1, <2>2, <2>3, SetGhostCellsFacts
<1>7. WorldOK(after)
  BY <1>1, <1>5, <1>6 DEF WorldOK
<1>8. OwnedWorld(w) => OwnedWorld(after)
  BY <1>5, <1>6 DEF OwnedWorld
<1>9. \A c \in DOMAIN after \ DOMAIN w : \A l \in Inner : GetCell(after[c], l) = Dead
  BY <1>1, <1>5, <1>6, EmptyChunkFacts
<1> QED BY <1>1, <1>5, <1>6, <1>7, <1>8, <1>9 DEF after

\* A command writes the one cell it names, and the cell is dirty afterwards;
\* with an owner other than 0 the cell stays alive exactly if it has one.
LEMMA ApplyToWorldFacts ==
    ASSUME NEW w, WorldOK(w), NEW balance, NEW cmd \in Command
    PROVE  LET after == ApplyToWorld(w, balance, cmd) IN
           /\ WorldOK(after)
           /\ OwnedWorld(w) /\ cmd.player # NoOwner => OwnedWorld(after)
           /\ DOMAIN w \subseteq DOMAIN after
           /\ \A c \in DOMAIN after : \A l \in Inner :
                 GetCell(after[c], l) # ReadOrDead(w, c, l) => l \in after[c].dirty
           /\ \A c \in DOMAIN w : w[c].dirty \subseteq after[c].dirty
<1> DEFINE t == ChunkOf(cmd.pos)
           m == LocalOf(cmd.pos)
           v == WithChunks(w, {t})
           old == GetCell(v[t], m)
           new == CellAfter(old, balance, cmd)
           after == ApplyToWorld(w, balance, cmd)
<1>1. cmd.pos \in Int \X Int /\ cmd.player \in Players
  BY DEF Command
<1>2. t \in Coord /\ m \in Inner
  BY <1>1, Positions
<1>3. /\ WorldOK(v)
      /\ OwnedWorld(w) => OwnedWorld(v)
      /\ DOMAIN v = DOMAIN w \cup {t}
      /\ \A c \in DOMAIN w : v[c] = w[c]
      /\ \A c \in DOMAIN v \ DOMAIN w : v[c] = EmptyChunk
  <2>1. {t} \in SUBSET Coord /\ IsFiniteSet({t})
    BY <1>2, FS_Singleton
  <2> HIDE DEF t
  <2> QED BY <2>1, WithChunksFacts
<1>4. after = [v EXCEPT ![t] = SetCell(v[t], m, new)]
  BY DEF ApplyToWorld
<1>5. v[t] \in ChunkType /\ t \in DOMAIN v
  BY <1>3 DEF WorldOK
<1>6. old \in Cell /\ (OwnedWorld(v) => OwnedCell(old))
  BY <1>2, <1>5, GetCellType DEF OwnedWorld
<1>7. /\ new \in Cell
      /\ OwnedWorld(v) /\ cmd.player # NoOwner => OwnedCell(new)
  BY <1>1, <1>6 DEF CellAfter, Cell, Owner, Dead, OwnedCell
<1>8. LET a == SetCell(v[t], m, new) IN
      /\ a \in ChunkType
      /\ OwnedChunk(v[t]) /\ OwnedCell(new) => OwnedChunk(a)
      /\ a.dirty = v[t].dirty \cup {m}
      /\ \A l \in Inner : l # m => GetCell(a, l) = GetCell(v[t], l)
  BY <1>2, <1>5, <1>7, SetCellFacts
<1> HIDE DEF t, m, v, new
<1>9. /\ DOMAIN after = DOMAIN v
      /\ after[t] = SetCell(v[t], m, new)
      /\ \A c \in DOMAIN v : c # t => after[c] = v[c]
  BY <1>4, <1>5
<1> HIDE DEF after
<1>10. WorldOK(after)
  BY <1>3, <1>8, <1>9 DEF WorldOK
<1>11. OwnedWorld(w) /\ cmd.player # NoOwner => OwnedWorld(after)
  BY <1>3, <1>5, <1>7, <1>8, <1>9 DEF OwnedWorld
<1>12. ASSUME NEW c \in DOMAIN after, NEW l \in Inner, GetCell(after[c], l) # ReadOrDead(w, c, l)
       PROVE  l \in after[c].dirty
  <2>1. GetCell(v[c], l) = ReadOrDead(w, c, l)
    BY <1>3, <1>9, EmptyChunkFacts DEF ReadOrDead
  <2>2. c = t /\ l = m
    BY <1>8, <1>9, <1>12, <2>1
  <2> QED BY <1>8, <1>9, <2>2
<1>13. ASSUME NEW c \in DOMAIN w PROVE w[c].dirty \subseteq after[c].dirty
  BY <1>3, <1>8, <1>9
<1> QED BY <1>3, <1>9, <1>10, <1>11, <1>12, <1>13 DEF after

---------------------------------------------------------------------------
\* What a generation is computed from.

\* A chunk with a live cell has all its neighbours, the border of a chunk shows
\* the cells of its neighbours, and a computed chunk has the next generation
\* in its other buffer.
HasMargin(w, c) == HasLiveCells(w[c]) => Around(c) \subseteq DOMAIN w
Bordered(w, c) ==
    \A s \in BorderSlots : w[c].buf[w[c].cur][s] = ReadOrDead(w, GhostChunk(c, s), GhostLocal(s))
Computed(chunk) ==
    \A l \in Inner : GetCell(SwapBuffers(chunk), l) = NextCell(chunk.buf[chunk.cur], Slot(l))

LEMMA GhostsLieInside == \A s \in BorderSlots : GhostLocal(s) \in Inner
<1>1. ASSUME NEW size \in Nat \ {0}, NEW i \in 0 .. size + 1
      PROVE  Mirrored(i, size) \in 0 .. size - 1
  BY <1>1, SMT DEF Mirrored
<1>2. ASSUME NEW s \in BorderSlots
      PROVE  s[1] \in 0 .. Width + 1 /\ s[2] \in 0 .. Height + 1
  BY DEF BorderSlots, Storage
<1> QED BY <1>1, <1>2, ChunkAssumption DEF GhostLocal, Inner

LEMMA SetGhostCellsBorders ==
    ASSUME NEW chunk \in ChunkType, NEW ghost \in [BorderSlots -> Cell]
    PROVE  LET after == SetGhostCells(chunk, ghost) IN
           \A s \in BorderSlots : after.buf[after.cur][s] = ghost[s]
<1> DEFINE after == SetGhostCells(chunk, ghost)
           written == [s \in Storage |->
                        IF s \in InnerSlots THEN chunk.buf[chunk.cur][s] ELSE ghost[s]]
<1>1. after = [cur |-> chunk.cur, buf |-> [chunk.buf EXCEPT ![chunk.cur] = written],
               dirty |-> chunk.dirty]
  BY DEF SetGhostCells, ChunkType
<1>2. after.buf[after.cur] = written
  BY <1>1 DEF ChunkType
<1>3. \A s \in BorderSlots : written[s] = ghost[s]
  BY DEF BorderSlots
<1> QED BY <1>2, <1>3

LEMMA CalculateNextComputes ==
    ASSUME NEW chunk \in ChunkType
    PROVE  LET after == CalculateNext(chunk) IN
           /\ after.cur = chunk.cur /\ after.buf[after.cur] = chunk.buf[chunk.cur]
           /\ Computed(after)
<1> DEFINE after == CalculateNext(chunk)
           now == chunk.buf[chunk.cur]
           other == chunk.buf[1 - chunk.cur]
           next == [s \in Storage |-> IF s \in InnerSlots THEN NextCell(now, s) ELSE other[s]]
<1>1. /\ chunk.cur \in {0, 1} /\ 1 - chunk.cur \in {0, 1} /\ 1 - chunk.cur # chunk.cur
      /\ chunk.buf \in [{0, 1} -> [Storage -> Cell]]
  BY SMT DEF ChunkType
<1>2. after = [cur |-> chunk.cur, buf |-> [chunk.buf EXCEPT ![1 - chunk.cur] = next],
               dirty |-> chunk.dirty \cup Changed(now)]
  BY DEF CalculateNext, ChunkType
<1>3. after.cur = chunk.cur /\ after.buf[chunk.cur] = now /\ after.buf[1 - chunk.cur] = next
  BY <1>1, <1>2
<1>4. SwapBuffers(after).cur = 1 - chunk.cur /\ SwapBuffers(after).buf = after.buf
  BY <1>2 DEF SwapBuffers
<1>5. \A l \in Inner : next[Slot(l)] = NextCell(now, Slot(l))
  BY Slots
<1> HIDE DEF after, next, now, other
<1>6. \A l \in Inner : GetCell(SwapBuffers(after), l) = NextCell(now, Slot(l))
  BY <1>3, <1>4, <1>5 DEF GetCell
<1> QED BY <1>3, <1>6 DEF Computed, now, after

\* After the exchange every chunk is ready to be computed.
LEMMA ExchangeBordersPrepares ==
    ASSUME NEW w, WorldOK(w)
    PROVE  LET after == ExchangeBorders(w) IN
           \A c \in DOMAIN after : HasMargin(after, c) /\ Bordered(after, c)
<1> DEFINE margin == UNION {Around(c) : c \in {d \in DOMAIN w : HasLiveCells(w[d])}}
           v == EnsureSimulationMargin(w)
           after == ExchangeBorders(w)
           ghost(c) == [s \in BorderSlots |-> ReadOrDead(v, GhostChunk(c, s), GhostLocal(s))]
<1>1. margin \in SUBSET Coord /\ IsFiniteSet(margin)
  <2> DEFINE live == {d \in DOMAIN w : HasLiveCells(w[d])}
  <2>1. live \in SUBSET DOMAIN w
    OBVIOUS
  <2> QED BY <2>1, MarginFacts
<1>2. v = WithChunks(w, margin)
  BY DEF EnsureSimulationMargin
<1>3. /\ WorldOK(v) /\ DOMAIN v = DOMAIN w \cup margin
      /\ \A c \in DOMAIN w : v[c] = w[c]
      /\ \A c \in DOMAIN v \ DOMAIN w : v[c] = EmptyChunk
  <2> HIDE DEF margin, v
  <2>1. /\ WorldOK(WithChunks(w, margin)) /\ DOMAIN WithChunks(w, margin) = DOMAIN w \cup margin
        /\ \A c \in DOMAIN w : WithChunks(w, margin)[c] = w[c]
        /\ \A c \in DOMAIN WithChunks(w, margin) \ DOMAIN w : WithChunks(w, margin)[c] = EmptyChunk
    BY <1>1, WithChunksFacts
  <2> QED BY <1>2, <2>1
<1>4. \A c \in DOMAIN w : HasLiveCells(w[c]) => Around(c) \subseteq DOMAIN v
  BY <1>3
<1> HIDE DEF v, margin
<1>5. \A c : ghost(c) \in [BorderSlots -> Cell]
  BY <1>3, GhostsLieInside, ReadOrDeadType
<1>6. DOMAIN after = DOMAIN v /\ \A c \in DOMAIN v : after[c] = SetGhostCells(v[c], ghost(c))
  BY DEF ExchangeBorders, v
<1> HIDE DEF after
<1>7. ASSUME NEW c \in DOMAIN v
      PROVE  /\ \A l \in Inner : GetCell(after[c], l) = GetCell(v[c], l)
             /\ \A s \in BorderSlots : after[c].buf[after[c].cur][s] = ghost(c)[s]
  <2>1. v[c] \in ChunkType /\ ghost(c) \in [BorderSlots -> Cell] /\ after[c] = SetGhostCells(v[c], ghost(c))
    BY <1>3, <1>5, <1>6 DEF WorldOK
  <2> HIDE DEF ghost
  <2> QED BY <2>1, SetGhostCellsFacts, SetGhostCellsBorders
<1>8. ASSUME NEW c, NEW l \in Inner PROVE ReadOrDead(after, c, l) = ReadOrDead(v, c, l)
  BY <1>6, <1>7 DEF ReadOrDead
<1>9. ASSUME NEW c \in DOMAIN v PROVE Bordered(after, c)
  <2>1. \A s \in BorderSlots : ghost(c)[s] = ReadOrDead(v, GhostChunk(c, s), GhostLocal(s))
    OBVIOUS
  <2> HIDE DEF ghost
  <2> QED BY <1>7, <1>8, <2>1, GhostsLieInside DEF Bordered
<1>10. ASSUME NEW c \in DOMAIN v, HasLiveCells(after[c]) PROVE Around(c) \subseteq DOMAIN after
  <2>1. HasLiveCells(v[c])
    BY <1>7, <1>10 DEF HasLiveCells
  <2>2. c \in DOMAIN w
    BY <1>3, <2>1, EmptyChunkFacts DEF HasLiveCells, Dead
  <2> QED BY <1>3, <1>4, <1>6, <2>1, <2>2
<1> QED BY <1>6, <1>9, <1>10 DEF HasMargin, after

\* A command changes the cell it names and no other cell of the plane.
LEMMA ApplyToWorldWrites ==
    ASSUME NEW w, WorldOK(w), NEW balance, NEW cmd \in Command
    PROVE  LET t == ChunkOf(cmd.pos)
               m == LocalOf(cmd.pos)
               after == ApplyToWorld(w, balance, cmd)
           IN  \A c : \A l \in Inner :
                  ReadOrDead(after, c, l) = IF c = t /\ l = m THEN CellAfter(Target(w, cmd), balance, cmd)
                                                            ELSE ReadOrDead(w, c, l)
<1> DEFINE t == ChunkOf(cmd.pos)
           m == LocalOf(cmd.pos)
           v == WithChunks(w, {t})
           old == GetCell(v[t], m)
           new == CellAfter(old, balance, cmd)
           after == ApplyToWorld(w, balance, cmd)
<1>1. t \in Coord /\ m \in Inner /\ cmd.player \in Players
  BY Positions DEF Command
<1>2. /\ WorldOK(v)
      /\ DOMAIN v = DOMAIN w \cup {t}
      /\ \A c \in DOMAIN w : v[c] = w[c]
      /\ \A c \in DOMAIN v \ DOMAIN w : v[c] = EmptyChunk
  <2>1. {t} \in SUBSET Coord /\ IsFiniteSet({t})
    BY <1>1, FS_Singleton
  <2> HIDE DEF t
  <2> QED BY <2>1, WithChunksFacts
<1>3. after = [v EXCEPT ![t] = SetCell(v[t], m, new)]
  BY DEF ApplyToWorld
<1>4. v[t] \in ChunkType /\ t \in DOMAIN v
  BY <1>2 DEF WorldOK
<1>5. \A c : \A l \in Inner : ReadOrDead(v, c, l) = ReadOrDead(w, c, l)
  BY <1>2, EmptyChunkFacts DEF ReadOrDead
<1>6. old = Target(w, cmd)
  BY <1>1, <1>4, <1>5 DEF Target, ReadOrDead
<1>7. new \in Cell
  <2>1. old \in Cell
    BY <1>1, <1>4, GetCellType
  <2> QED BY <1>1, <2>1 DEF CellAfter, Cell, Owner, Dead
<1> HIDE DEF t, m, v, old, new
<1>8. \A l \in Inner : GetCell(SetCell(v[t], m, new), l) = IF l = m THEN new ELSE GetCell(v[t], l)
  <2>1. \A l \in Inner : l # m => GetCell(SetCell(v[t], m, new), l) = GetCell(v[t], l)
    BY <1>1, <1>4, <1>7, SetCellFacts
  <2>2. v[t].cur \in {0, 1} /\ v[t].buf \in [{0, 1} -> [Storage -> Cell]] /\ Slot(m) \in Storage
    BY <1>1, <1>4, Slots DEF ChunkType
  <2>3. GetCell(SetCell(v[t], m, new), m) = new
    BY <2>2 DEF SetCell, GetCell
  <2> QED BY <2>1, <2>3
<1>9. /\ DOMAIN after = DOMAIN v
      /\ after[t] = SetCell(v[t], m, new)
      /\ \A c \in DOMAIN v : c # t => after[c] = v[c]
  BY <1>3, <1>4
<1> HIDE DEF after
<1>10. ASSUME NEW c, NEW l \in Inner
       PROVE  ReadOrDead(after, c, l) = IF c = t /\ l = m THEN new ELSE ReadOrDead(w, c, l)
  BY <1>4, <1>5, <1>8, <1>9 DEF ReadOrDead
<1> QED BY <1>6, <1>10 DEF new, t, m, after
=============================================================================
