----------------------------- MODULE SyncProofs -----------------------------
(***************************************************************************)
(* Proofs about WorldSync.tla, for any number and size of chunks, any      *)
(* numbers and any queues: the types, whatever the network does; and that  *)
(* a client which has received everything shows what the server has, over  *)
(* a network that keeps datagrams in order, while the chunks of a snapshot *)
(* fit a packet.                                                           *)
(***************************************************************************)
EXTENDS WorldSync, SequenceTheorems, FiniteSetTheorems, WellFoundedInduction, TLAPS

---------------------------------------------------------------------------
\* Induction: a set with 0 and the successor of each of its members has every
\* natural number.
LEMMA LeastNat ==
    ASSUME NEW T \in SUBSET Nat, T # {}
    PROVE  \E x \in T : \A y \in T : x <= y
<1> DEFINE R == {p \in Nat \X Nat : p[1] < p[2]}
<1>1. IsWellFoundedOn(R, Nat)
  BY NatLessThanWellFounded DEF OpToRel
<1>2. PICK x \in T : \A y \in T : <<y, x>> \notin R
  <2> HIDE DEF R
  <2> QED BY <1>1, WFMin
<1>3. ASSUME NEW y \in T PROVE x <= y
  <2>1. x \in Nat /\ y \in Nat /\ <<y, x>> \in Nat \X Nat
    OBVIOUS
  <2>2. ~(y < x)
    BY <1>2, <2>1
  <2> QED BY <2>1, <2>2
<1> QED BY <1>3

LEMMA Induction ==
    ASSUME NEW T, 0 \in T, \A n \in Nat : n \in T => n + 1 \in T
    PROVE  Nat \subseteq T
<1> SUFFICES ASSUME Nat \ T # {} PROVE FALSE
  OBVIOUS
<1>1. PICK x \in Nat \ T : \A y \in Nat \ T : x <= y
  BY LeastNat
<1>2. x # 0 /\ x - 1 \in Nat /\ x - 1 \notin Nat \ T
  BY <1>1
<1> QED BY <1>2

---------------------------------------------------------------------------
\* Sequences one after the other have the members of each.
Members(q) == {q[i] : i \in DOMAIN q}

LEMMA MembersTyped ==
    ASSUME NEW S, NEW q \in Seq(S)
    PROVE  Members(q) \subseteq S /\ (q = <<>> <=> Members(q) = {})
<1>1. Len(q) \in Nat /\ DOMAIN q = 1 .. Len(q)
  BY LenProperties
<1>2. q # <<>> => 1 \in DOMAIN q
  BY <1>1, EmptySeq
<1>3. DOMAIN <<>> = {}
  OBVIOUS
<1>4. \A i \in DOMAIN q : q[i] \in S
  BY <1>1, ElementOfSeq
<1>5. q = <<>> => Members(q) = {}
  BY <1>3 DEF Members
<1>6. q # <<>> => Members(q) # {}
  BY <1>2 DEF Members
<1> QED BY <1>4, <1>5, <1>6 DEF Members

LEMMA ConcatMembers ==
    ASSUME NEW S, NEW q \in Seq(S), NEW r \in Seq(S)
    PROVE  Members(q \o r) = Members(q) \cup Members(r)
<1> DEFINE t == q \o r
<1>1. /\ Len(q) \in Nat /\ DOMAIN q = 1 .. Len(q) /\ Len(r) \in Nat /\ DOMAIN r = 1 .. Len(r)
  BY LenProperties
<1>2. /\ t \in Seq(S) /\ Len(t) = Len(q) + Len(r)
      /\ \A i \in 1 .. Len(q) + Len(r) : t[i] = IF i <= Len(q) THEN q[i] ELSE r[i - Len(q)]
  BY ConcatProperties
<1>3. DOMAIN t = 1 .. Len(q) + Len(r)
  BY <1>2, LenProperties
<1> HIDE DEF t
<1>4. ASSUME NEW i \in DOMAIN t PROVE t[i] \in Members(q) \cup Members(r)
  <2>1. i <= Len(q) => i \in DOMAIN q /\ t[i] = q[i]
    BY <1>1, <1>2, <1>3
  <2>2. ~(i <= Len(q)) => i - Len(q) \in DOMAIN r /\ t[i] = r[i - Len(q)]
    BY <1>1, <1>2, <1>3
  <2> QED BY <2>1, <2>2 DEF Members
<1>5. ASSUME NEW i \in DOMAIN q PROVE q[i] \in Members(t)
  <2>1. i \in DOMAIN t /\ t[i] = q[i]
    BY <1>1, <1>2, <1>3
  <2> QED BY <2>1 DEF Members
<1>6. ASSUME NEW i \in DOMAIN r PROVE r[i] \in Members(t)
  <2>1. Len(q) + i \in DOMAIN t /\ ~(Len(q) + i <= Len(q)) /\ (Len(q) + i) - Len(q) = i
    BY <1>1, <1>3
  <2>2. t[Len(q) + i] = r[i]
    BY <1>2, <1>3, <2>1
  <2> QED BY <2>1, <2>2 DEF Members
<1>7. Members(t) = Members(q) \cup Members(r)
  BY <1>4, <1>5, <1>6 DEF Members
<1> QED BY <1>7 DEF t

LEMMA FlattenMembers ==
    ASSUME NEW S, NEW n \in Nat \ {0}, NEW seqs \in Seq(Seq(S)), Len(seqs) = n
    PROVE  /\ FlattenSeq(seqs) \in Seq(S)
           /\ Members(FlattenSeq(seqs)) = UNION {Members(seqs[k]) : k \in 1 .. n}
<1> DEFINE More(q, i) == q \o seqs[i]
           Runs(f, m) == f = [i \in 1 .. m |-> IF i = 1 THEN seqs[i] ELSE More(f[i - 1], i)]
           Terminates == {m \in Nat : \E f : Runs(f, m)}
<1>1. Nat \subseteq Terminates
  <2> HIDE DEF More
  <2>1. 0 \in Terminates
    <3>1. Runs([i \in 1 .. 0 |-> <<>>], 0)
      OBVIOUS
    <3> QED BY <3>1
  <2>2. ASSUME NEW m \in Nat, m \in Terminates PROVE m + 1 \in Terminates
    <3>1. PICK f : Runs(f, m)
      BY <2>2
    <3> DEFINE g == [i \in 1 .. m + 1 |-> IF i = 1 THEN seqs[i] ELSE More(f[i - 1], i)]
    <3>2. ASSUME NEW i \in 1 .. m PROVE g[i] = f[i]
      <4>1. f[i] = IF i = 1 THEN seqs[i] ELSE More(f[i - 1], i)
        BY <3>1
      <4>2. i \in 1 .. m + 1
        OBVIOUS
      <4> QED BY <4>1, <4>2
    <3>3. \A i \in 1 .. m + 1 : i # 1 => i - 1 \in 1 .. m
      OBVIOUS
    <3>4. Runs(g, m + 1)
      BY <3>2, <3>3
    <3> HIDE DEF g, Runs
    <3>5. \E h : Runs(h, m + 1)
      BY <3>4
    <3> QED BY <3>5
  <2> HIDE DEF Terminates
  <2> QED BY <2>1, <2>2, Induction
<1> DEFINE flatten == CHOOSE f : Runs(f, n)
<1>2. Runs(flatten, n)
  <2>1. n \in Terminates
    <3> HIDE DEF Terminates
    <3> QED BY <1>1
  <2>2. \E f : Runs(f, n)
    BY <2>1
  <2> HIDE DEF Runs
  <2> QED BY <2>2
<1>3. FlattenSeq(seqs) = flatten[n]
  BY DEF FlattenSeq
<1>4. \A k \in 1 .. n : seqs[k] \in Seq(S)
  BY ElementOfSeq
<1> HIDE DEF flatten
<1>5. flatten[1] = seqs[1] /\ \A m \in Nat : m + 1 \in 1 .. n /\ m # 0 => flatten[m + 1] = More(flatten[m], m + 1)
  <2> HIDE DEF More
  <2> QED BY <1>2
<1> HIDE DEF Runs
<1> DEFINE Sofar(m) == UNION {Members(seqs[k]) : k \in 1 .. m}
           Kept == {m \in Nat : m \in 1 .. n => flatten[m] \in Seq(S) /\ Members(flatten[m]) = Sofar(m)}
<1>6. 0 \in Kept
  OBVIOUS
<1>7. ASSUME NEW m \in Nat, m \in Kept PROVE m + 1 \in Kept
  <2> SUFFICES ASSUME m + 1 \in 1 .. n
               PROVE  flatten[m + 1] \in Seq(S) /\ Members(flatten[m + 1]) = Sofar(m + 1)
    OBVIOUS
  <2>1. seqs[m + 1] \in Seq(S)
    BY <1>4
  <2>2. CASE m = 0
    <3>1. m + 1 = 1 /\ 1 .. 1 = {1} /\ flatten[1] = seqs[1]
      BY <1>5, <2>2
    <3>2. Sofar(1) = Members(seqs[1])
      BY <3>1
    <3> HIDE DEF Sofar
    <3> QED BY <2>1, <3>1, <3>2
  <2>3. CASE m # 0
    <3>1. m \in 1 .. n
      BY <2>3
    <3>2. flatten[m] \in Seq(S) /\ Members(flatten[m]) = Sofar(m)
      BY <1>7, <3>1
    <3>3. flatten[m + 1] = flatten[m] \o seqs[m + 1]
      BY <1>5, <2>3
    <3>4. Sofar(m + 1) = Sofar(m) \cup Members(seqs[m + 1])
      <4>1. 1 .. m + 1 = (1 .. m) \cup {m + 1}
        OBVIOUS
      <4> QED BY <4>1
    <3> HIDE DEF Sofar
    <3>5. flatten[m + 1] \in Seq(S)
      BY <2>1, <3>2, <3>3, ConcatProperties
    <3>6. Members(flatten[m + 1]) = Members(flatten[m]) \cup Members(seqs[m + 1])
      BY <2>1, <3>2, <3>3, ConcatMembers
    <3> QED BY <3>2, <3>4, <3>5, <3>6
  <2> QED BY <2>2, <2>3
<1>8. n \in Kept
  <2> HIDE DEF Kept
  <2> QED BY <1>6, <1>7, Induction
<1> QED BY <1>3, <1>8

---------------------------------------------------------------------------
\* The packets of an update.
LEMMA Split ==
    ASSUME NEW cells \in SUBSET CellId
    PROVE  /\ IsFiniteSet(cells) /\ Cardinality(cells) \in Nat
           /\ PacketsNeeded(cells) \in Nat
           /\ PacketsNeeded(cells) * MaxCellsPerPacket >= Cardinality(cells)
           /\ Cardinality(cells) <= MaxCellsPerPacket => PacketsNeeded(cells) <= 1
<1> DEFINE n == Cardinality(cells)
           m == MaxCellsPerPacket
<1>1. IsFiniteSet(cells) /\ n \in Nat
  <2>1. NumCells \in Int /\ 1 \in Int
    BY UpdatePacketsAssumption
  <2>2. IsFiniteSet(CellId)
    BY <2>1, FS_Interval DEF CellId
  <2> QED BY <2>2, FS_Subset, FS_CardinalityType
<1>2. m \in Nat \ {0}
  BY UpdatePacketsAssumption
<1>3. PacketsNeeded(cells) = (n + m - 1) \div m
  BY DEF PacketsNeeded
<1> HIDE DEF n, m
<1> DEFINE q == (n + m - 1) \div m
           r == (n + m - 1) % m
<1>4. q \in Nat /\ r \in 0 .. m - 1 /\ n + m - 1 = m * q + r
  BY <1>1, <1>2, SMT
<1> HIDE DEF q, r
<1>5. q * m >= n
  BY <1>1, <1>2, <1>4, SMT
<1>6. n <= m => q <= 1
  <2>1. q >= 2 => m * q >= m * 2
    BY <1>2, <1>4, SMT
  <2> QED BY <1>1, <1>2, <1>4, <2>1, SMT
<1> QED BY <1>1, <1>3, <1>4, <1>5, <1>6 DEF n, m, q

\* Every cell is in one of the parts; what fits one packet is sent in one.
LEMMA PartsCover ==
    ASSUME NEW cells \in SUBSET CellId, NEW e \in cells
    PROVE  \E i \in 1 .. PacketsNeeded(cells) : e \in Part(cells, i)
<1> DEFINE upto == {f \in cells : f <= e}
           r == Cardinality(upto)
           m == MaxCellsPerPacket
           q == PacketsNeeded(cells)
           n == Cardinality(cells)
<1>1. IsFiniteSet(cells) /\ n \in Nat /\ q \in Nat /\ q * m >= n
  BY Split
<1>2. m \in Nat \ {0} /\ e \in Nat
  BY UpdatePacketsAssumption DEF CellId
<1>3. r \in 1 .. n
  <2>1. e \in upto /\ upto \in SUBSET cells
    BY <1>2
  <2>2. IsFiniteSet(upto) /\ r <= n
    BY <1>1, <2>1, FS_Subset
  <2>3. r \in Nat /\ r # 0
    BY <2>1, <2>2, FS_CardinalityType, FS_EmptySet
  <2> QED BY <1>1, <2>2, <2>3
<1>4. \A i : e \in Part(cells, i) <=> r \in (i - 1) * m + 1 .. i * m
  BY DEF Part
<1> HIDE DEF r, m, q, n
<1> DEFINE k == (r - 1) \div m
           s == (r - 1) % m
<1>5. k \in Nat /\ s \in 0 .. m - 1 /\ r - 1 = m * k + s
  BY <1>1, <1>2, <1>3, SMT
<1> HIDE DEF k, s
<1>6. k + 1 \in 1 .. q
  <2>1. m * k < q * m
    BY <1>1, <1>2, <1>3, <1>5, SMT
  <2>2. k >= q => m * k >= q * m
    BY <1>1, <1>2, <1>5, SMT
  <2>3. m * k \in Int /\ q * m \in Int
    BY <1>1, <1>2, <1>5, SMT
  <2> QED BY <1>1, <1>5, <2>1, <2>2, <2>3
<1>7. r \in ((k + 1) - 1) * m + 1 .. (k + 1) * m
  <2>1. ((k + 1) - 1) * m = m * k /\ (k + 1) * m = m * k + m
    BY <1>2, <1>5, SMT
  <2>2. m * k \in Int
    BY <1>2, <1>5, SMT
  <2> QED BY <1>1, <1>2, <1>3, <1>5, <2>1, <2>2
<1> QED BY <1>4, <1>6, <1>7 DEF q

LEMMA OnePart ==
    ASSUME NEW cells \in SUBSET CellId, Cardinality(cells) <= MaxCellsPerPacket,
           NEW i \in 1 .. PacketsNeeded(cells)
    PROVE  Part(cells, i) = cells
<1>1. i = 1
  BY Split
<1>2. MaxCellsPerPacket \in Nat \ {0}
  BY UpdatePacketsAssumption
<1>3. ASSUME NEW e \in cells PROVE e \in Part(cells, 1)
  <2> DEFINE upto == {f \in cells : f <= e}
  <2>1. e \in upto /\ upto \in SUBSET cells
    BY DEF CellId
  <2>2. IsFiniteSet(upto) /\ Cardinality(upto) <= Cardinality(cells)
    BY <2>1, Split, FS_Subset
  <2>3. Cardinality(upto) \in Nat /\ Cardinality(upto) # 0
    BY <2>1, <2>2, FS_CardinalityType, FS_EmptySet
  <2>4. Cardinality(upto) <= MaxCellsPerPacket
    BY <1>2, <2>2, <2>3, Split
  <2>5. (1 - 1) * MaxCellsPerPacket + 1 = 1 /\ 1 * MaxCellsPerPacket = MaxCellsPerPacket
    BY <1>2, SMT
  <2> QED BY <1>2, <2>3, <2>4, <2>5 DEF Part
<1> QED BY <1>1, <1>3 DEF Part

\* What serializeDelta and serializeFull have in common.
Contents == [full : BOOLEAN, chunk : ChunkId, cells : SUBSET CellId, live : SUBSET CellId]
Content(full, c, cells, live, i) ==
    [full |-> full, chunk |-> c, cells |-> Part(cells, i), live |-> Part(cells, i) \cap live]

LEMMA PacketsOfUpdate ==
    ASSUME NEW full \in BOOLEAN, NEW entries \in Worlds, NEW live \in Worlds
    PROVE  LET packets == FlattenSeq([c \in ChunkId |-> AppendChunk(full, c, entries[c], live[c])])
           IN  /\ packets \in Seq(Contents)
               /\ \A p : p \in Members(packets) <=>
                      \E c \in ChunkId : \E i \in 1 .. PacketsNeeded(entries[c]) :
                          p = Content(full, c, entries[c], live[c], i)
<1> DEFINE chunk(c) == AppendChunk(full, c, entries[c], live[c])
           packet(c, i) == Content(full, c, entries[c], live[c], i)
           n(c) == PacketsNeeded(entries[c])
           seqs == [c \in 1 .. NumChunks |-> chunk(c)]
<1>1. NumChunks \in Nat \ {0} /\ ChunkId = 1 .. NumChunks
  BY UpdatePacketsAssumption DEF ChunkId
<1>2. \A c \in ChunkId : entries[c] \in SUBSET CellId /\ live[c] \in SUBSET CellId
  BY DEF Worlds
<1>3. ASSUME NEW c \in ChunkId
      PROVE  chunk(c) \in Seq(Contents) /\ Members(chunk(c)) = {packet(c, i) : i \in 1 .. n(c)}
  <2>1. n(c) \in Nat
    BY <1>2, Split
  <2>2. \A i \in 1 .. n(c) : packet(c, i) \in Contents
    BY <1>2 DEF Content, Contents, Part
  <2>3. chunk(c) = [i \in 1 .. n(c) |-> packet(c, i)]
    BY DEF AppendChunk, Content
  <2> HIDE DEF chunk, packet, n
  <2>4. [i \in 1 .. n(c) |-> packet(c, i)] \in Seq(Contents)
    BY <2>1, <2>2, IsASeq
  <2> QED BY <2>3, <2>4 DEF Members
<1>4. seqs \in Seq(Seq(Contents)) /\ Len(seqs) = NumChunks /\ \A c \in 1 .. NumChunks : seqs[c] = chunk(c)
  <2> HIDE DEF chunk
  <2>1. \A c \in 1 .. NumChunks : chunk(c) \in Seq(Contents)
    BY <1>1, <1>3
  <2>2. seqs \in Seq(Seq(Contents))
    BY <1>1, <2>1, IsASeq
  <2>3. DOMAIN seqs = 1 .. NumChunks
    OBVIOUS
  <2> QED BY <1>1, <2>2, <2>3, LenProperties
<1>5. seqs = [c \in ChunkId |-> AppendChunk(full, c, entries[c], live[c])]
  BY <1>1
<1> HIDE DEF seqs
<1>6. /\ FlattenSeq(seqs) \in Seq(Contents)
      /\ Members(FlattenSeq(seqs)) = UNION {Members(seqs[k]) : k \in 1 .. NumChunks}
  BY <1>1, <1>4, FlattenMembers
<1>7. \A p : p \in Members(FlattenSeq(seqs)) <=> \E c \in ChunkId : \E i \in 1 .. n(c) : p = packet(c, i)
  <2> HIDE DEF chunk, packet, n
  <2> QED BY <1>1, <1>3, <1>4, <1>6
<1> QED BY <1>5, <1>6, <1>7

\* The number of an update does not touch what it says.
LEMMA StampKeeps ==
    ASSUME NEW packets \in Seq(Contents), NEW seq \in Seqs
    PROVE  /\ Stamp(packets, seq) \in Seq(Packet)
           /\ DOMAIN Stamp(packets, seq) = DOMAIN packets
           /\ \A i \in DOMAIN packets :
                  /\ Stamp(packets, seq)[i].full = packets[i].full
                  /\ Stamp(packets, seq)[i].chunk = packets[i].chunk
                  /\ Stamp(packets, seq)[i].cells = packets[i].cells
                  /\ Stamp(packets, seq)[i].live = packets[i].live
<1> DEFINE stamped(i) == [seq |-> seq, full |-> packets[i].full, chunk |-> packets[i].chunk,
                          cells |-> packets[i].cells, live |-> packets[i].live]
<1>1. Len(packets) \in Nat /\ DOMAIN packets = 1 .. Len(packets)
  BY LenProperties
<1>2. \A i \in 1 .. Len(packets) : stamped(i) \in Packet
  <2> SUFFICES ASSUME NEW i \in 1 .. Len(packets) PROVE stamped(i) \in Packet
    OBVIOUS
  <2>1. packets[i] \in Contents
    BY ElementOfSeq
  <2> QED BY <2>1 DEF Contents, Packet
<1>3. Stamp(packets, seq) = [i \in 1 .. Len(packets) |-> stamped(i)]
  BY <1>1 DEF Stamp
<1>4. [i \in 1 .. Len(packets) |-> stamped(i)] \in Seq(Packet)
  <2> HIDE DEF stamped
  <2> QED BY <1>1, <1>2, IsASeq
<1>5. Stamp(packets, seq) \in Seq(Packet)
  BY <1>3, <1>4
<1>6. \A i \in DOMAIN packets : Stamp(packets, seq)[i] = stamped(i)
  BY <1>1, <1>3
<1>7. DOMAIN Stamp(packets, seq) = DOMAIN packets
  BY <1>1, <1>3
<1> QED BY <1>5, <1>6, <1>7

---------------------------------------------------------------------------
\* What a packet, or a sequence of packets, says of a cell: that it lives (v)
\* or that it does not.
Says(p, c, e, v) ==
    /\ p.chunk = c
    /\ IF v THEN e \in p.live ELSE e \notin p.live /\ (p.full \/ e \in p.cells)
SaysIn(q, c, e, v) == \E i \in DOMAIN q : Says(q[i], c, e, v)

LEMMA StampSays ==
    ASSUME NEW packets \in Seq(Contents), NEW seq \in Seqs, NEW c, NEW e, NEW v
    PROVE  SaysIn(Stamp(packets, seq), c, e, v) <=> \E p \in Members(packets) : Says(p, c, e, v)
<1> DEFINE q == Stamp(packets, seq)
<1>1. /\ DOMAIN q = DOMAIN packets
      /\ \A i \in DOMAIN packets :
             /\ q[i].full = packets[i].full /\ q[i].chunk = packets[i].chunk
             /\ q[i].cells = packets[i].cells /\ q[i].live = packets[i].live
  BY StampKeeps
<1> HIDE DEF q
<1>2. \A i \in DOMAIN packets : Says(q[i], c, e, v) <=> Says(packets[i], c, e, v)
  BY <1>1 DEF Says
<1>3. SaysIn(q, c, e, v) <=> \E i \in DOMAIN packets : Says(packets[i], c, e, v)
  BY <1>1, <1>2 DEF SaysIn
<1> QED BY <1>3 DEF q, Members

\* A delta says of the dirty cells what they are, and nothing of the others.
LEMMA DeltaSays ==
    ASSUME NEW w \in Worlds, NEW d \in Worlds, NEW seq \in Seqs
    PROVE  /\ Stamp(SerializeDelta(w, d), seq) \in Seq(Packet)
           /\ \A c \in ChunkId, e \in CellId, v \in BOOLEAN :
                  SaysIn(Stamp(SerializeDelta(w, d), seq), c, e, v) <=> e \in d[c] /\ (v <=> e \in w[c])
           /\ SerializeDelta(w, d) = <<>> => d = NoLife
<1> DEFINE packets == SerializeDelta(w, d)
<1>1. /\ packets \in Seq(Contents)
      /\ \A p : p \in Members(packets) <=>
             \E c \in ChunkId : \E i \in 1 .. PacketsNeeded(d[c]) : p = Content(FALSE, c, d[c], w[c], i)
  BY PacketsOfUpdate DEF SerializeDelta
<1> HIDE DEF packets
<1>2. \A c \in ChunkId : d[c] \in SUBSET CellId
  BY DEF Worlds
<1>3. ASSUME NEW c \in ChunkId, NEW e \in CellId, NEW v \in BOOLEAN
      PROVE  (\E p \in Members(packets) : Says(p, c, e, v)) <=> e \in d[c] /\ (v <=> e \in w[c])
  <2>1. ASSUME NEW p \in Members(packets), Says(p, c, e, v) PROVE e \in d[c] /\ (v <=> e \in w[c])
    <3>0. PICK b \in ChunkId : \E i \in 1 .. PacketsNeeded(d[b]) : p = Content(FALSE, b, d[b], w[b], i)
      BY <1>1
    <3>1. PICK i \in 1 .. PacketsNeeded(d[b]) : p = Content(FALSE, b, d[b], w[b], i)
      BY <3>0
    <3>2. p.chunk = b /\ p.full = FALSE /\ p.cells = Part(d[b], i) /\ p.live = Part(d[b], i) \cap w[b]
      BY <3>1 DEF Content
    <3>3. b = c
      BY <2>1, <3>2 DEF Says
    <3>4. Part(d[c], i) \subseteq d[c]
      BY DEF Part
    <3> QED BY <2>1, <3>2, <3>3, <3>4 DEF Says
  <2>2. ASSUME e \in d[c], v <=> e \in w[c] PROVE \E p \in Members(packets) : Says(p, c, e, v)
    <3>1. PICK i \in 1 .. PacketsNeeded(d[c]) : e \in Part(d[c], i)
      BY <1>2, <2>2, PartsCover
    <3> DEFINE p == Content(FALSE, c, d[c], w[c], i)
    <3>2. p \in Members(packets)
      BY <1>1
    <3>3. Says(p, c, e, v)
      BY <2>2, <3>1 DEF Says, Content
    <3> QED BY <3>2, <3>3
  <2> QED BY <2>1, <2>2
<1>4. ASSUME packets = <<>> PROVE d = NoLife
  <2>1. Members(packets) = {}
    BY <1>1, <1>4, MembersTyped
  <2>2. \A c \in ChunkId, e \in CellId : e \notin d[c]
    <3> SUFFICES ASSUME NEW c \in ChunkId, NEW e \in CellId, e \in d[c] PROVE FALSE
      OBVIOUS
    <3>1. (e \in w[c]) \in BOOLEAN
      OBVIOUS
    <3>2. \E p \in Members(packets) : Says(p, c, e, e \in w[c])
      BY <1>3, <3>1
    <3> QED BY <2>1, <3>2
  <2>3. \A c \in ChunkId : d[c] = {}
    BY <1>2, <2>2
  <2> QED BY <2>3 DEF Worlds, NoLife
<1>5. Stamp(packets, seq) \in Seq(Packet)
  BY <1>1, StampKeeps
<1>6. \A c \in ChunkId, e \in CellId, v \in BOOLEAN :
          SaysIn(Stamp(packets, seq), c, e, v) <=> e \in d[c] /\ (v <=> e \in w[c])
  BY <1>1, <1>3, StampSays
<1> QED BY <1>4, <1>5, <1>6 DEF packets

\* A snapshot says that the living cells live, and nothing of what is dead
\* but that it is; if a chunk fits a packet, only that.
LEMMA SnapshotSays ==
    ASSUME NEW w \in Worlds, NEW seq \in Seqs
    PROVE  /\ Stamp(SerializeFull(w), seq) \in Seq(Packet)
           /\ \A c \in ChunkId, e \in CellId :
                  SaysIn(Stamp(SerializeFull(w), seq), c, e, TRUE) <=> e \in w[c]
           /\ \A c \in ChunkId, e \in CellId :
                  Cardinality(w[c]) <= MaxCellsPerPacket /\ e \in w[c] =>
                      ~SaysIn(Stamp(SerializeFull(w), seq), c, e, FALSE)
<1> DEFINE packets == SerializeFull(w)
<1>1. /\ packets \in Seq(Contents)
      /\ \A p : p \in Members(packets) <=>
             \E c \in ChunkId : \E i \in 1 .. PacketsNeeded(w[c]) : p = Content(TRUE, c, w[c], w[c], i)
  BY PacketsOfUpdate DEF SerializeFull
<1> HIDE DEF packets
<1>2. \A c \in ChunkId : w[c] \in SUBSET CellId
  BY DEF Worlds
<1>3. ASSUME NEW c \in ChunkId, NEW e \in CellId
      PROVE  (\E p \in Members(packets) : Says(p, c, e, TRUE)) <=> e \in w[c]
  <2>1. ASSUME NEW p \in Members(packets), Says(p, c, e, TRUE) PROVE e \in w[c]
    <3>0. PICK b \in ChunkId : \E i \in 1 .. PacketsNeeded(w[b]) : p = Content(TRUE, b, w[b], w[b], i)
      BY <1>1
    <3>1. PICK i \in 1 .. PacketsNeeded(w[b]) : p = Content(TRUE, b, w[b], w[b], i)
      BY <3>0
    <3>2. p.chunk = b /\ p.live = Part(w[b], i) \cap w[b]
      BY <3>1 DEF Content
    <3> QED BY <2>1, <3>2 DEF Says
  <2>2. ASSUME e \in w[c] PROVE \E p \in Members(packets) : Says(p, c, e, TRUE)
    <3>1. PICK i \in 1 .. PacketsNeeded(w[c]) : e \in Part(w[c], i)
      BY <1>2, <2>2, PartsCover
    <3> DEFINE p == Content(TRUE, c, w[c], w[c], i)
    <3>2. p \in Members(packets)
      BY <1>1
    <3>3. Says(p, c, e, TRUE)
      BY <2>2, <3>1 DEF Says, Content
    <3> QED BY <3>2, <3>3
  <2> QED BY <2>1, <2>2
<1>4. ASSUME NEW c \in ChunkId, NEW e \in CellId, Cardinality(w[c]) <= MaxCellsPerPacket, e \in w[c]
      PROVE  ~\E p \in Members(packets) : Says(p, c, e, FALSE)
  <2> SUFFICES ASSUME NEW p \in Members(packets), Says(p, c, e, FALSE) PROVE FALSE
    OBVIOUS
  <2>0. PICK b \in ChunkId : \E i \in 1 .. PacketsNeeded(w[b]) : p = Content(TRUE, b, w[b], w[b], i)
    BY <1>1
  <2>1. PICK i \in 1 .. PacketsNeeded(w[b]) : p = Content(TRUE, b, w[b], w[b], i)
    BY <2>0
  <2>2. p.chunk = b /\ p.live = Part(w[b], i) \cap w[b]
    BY <2>1 DEF Content
  <2>3. b = c /\ e \notin p.live
    BY <2>2 DEF Says
  <2>4. Part(w[c], i) = w[c]
    BY <1>2, <1>4, <2>1, <2>3, OnePart
  <2> QED BY <1>4, <2>2, <2>3, <2>4
<1>5. Stamp(packets, seq) \in Seq(Packet)
  BY <1>1, StampKeeps
<1>6. \A c \in ChunkId, e \in CellId : SaysIn(Stamp(packets, seq), c, e, TRUE) <=> e \in w[c]
  BY <1>1, <1>3, StampSays
<1>7. \A c \in ChunkId, e \in CellId :
          Cardinality(w[c]) <= MaxCellsPerPacket /\ e \in w[c] => ~SaysIn(Stamp(packets, seq), c, e, FALSE)
  BY <1>1, <1>4, StampSays
<1> QED BY <1>5, <1>6, <1>7 DEF packets

---------------------------------------------------------------------------
\* The queues.
LEMMA Rest ==
    ASSUME NEW S, NEW q \in Seq(S), q # <<>>
    PROVE  /\ Tail(q) \in Seq(S) /\ Head(q) = q[1] /\ q[1] \in S /\ 1 \in DOMAIN q
           /\ \A k : k \in DOMAIN Tail(q) <=> k \in Nat \ {0} /\ k + 1 \in DOMAIN q
           /\ \A k \in DOMAIN Tail(q) : Tail(q)[k] = q[k + 1]
<1>1. Len(q) \in Nat /\ DOMAIN q = 1 .. Len(q) /\ Len(q) # 0
  BY LenProperties, EmptySeq
<1>2. Tail(q) \in Seq(S) /\ Len(Tail(q)) = Len(q) - 1 /\ \A k \in 1 .. Len(Tail(q)) : Tail(q)[k] = q[k + 1]
  BY HeadTailProperties
<1>3. DOMAIN Tail(q) = 1 .. Len(q) - 1
  BY <1>2, LenProperties
<1>4. Head(q) = q[1] /\ q[1] \in S
  BY <1>1, ElementOfSeq
<1> QED BY <1>1, <1>2, <1>3, <1>4

LEMMA OneMore ==
    ASSUME NEW S, NEW q \in Seq(S), NEW x \in S
    PROVE  /\ Append(q, x) \in Seq(S) /\ Len(q) \in Nat /\ DOMAIN q = 1 .. Len(q)
           /\ DOMAIN Append(q, x) = 1 .. Len(q) + 1
           /\ Append(q, x)[Len(q) + 1] = x
           /\ \A k \in DOMAIN q : Append(q, x)[k] = q[k]
<1>1. Len(q) \in Nat /\ DOMAIN q = 1 .. Len(q)
  BY LenProperties
<1>2. /\ Append(q, x) \in Seq(S) /\ Len(Append(q, x)) = Len(q) + 1
      /\ \A k \in 1 .. Len(q) : Append(q, x)[k] = q[k]
      /\ Append(q, x)[Len(q) + 1] = x
  BY AppendProperties
<1>3. DOMAIN Append(q, x) = 1 .. Len(Append(q, x))
  BY <1>2, LenProperties
<1> QED BY <1>1, <1>2, <1>3

LEMMA Joined ==
    ASSUME NEW S, NEW q \in Seq(S), NEW r \in Seq(S)
    PROVE  /\ q \o r \in Seq(S)
           /\ \A k \in DOMAIN q : k \in DOMAIN (q \o r) /\ (q \o r)[k] = q[k]
           /\ \A k \in DOMAIN r : \E l \in DOMAIN (q \o r) :
                  (q \o r)[l] = r[k] /\ \A j \in DOMAIN q : l > j
           /\ \A l \in DOMAIN (q \o r) :
                  l \in DOMAIN q \/ \E k \in DOMAIN r : (q \o r)[l] = r[k]
<1> DEFINE t == q \o r
<1>1. /\ Len(q) \in Nat /\ DOMAIN q = 1 .. Len(q) /\ Len(r) \in Nat /\ DOMAIN r = 1 .. Len(r)
  BY LenProperties
<1>2. /\ t \in Seq(S) /\ Len(t) = Len(q) + Len(r)
      /\ \A i \in 1 .. Len(q) + Len(r) : t[i] = IF i <= Len(q) THEN q[i] ELSE r[i - Len(q)]
  BY ConcatProperties
<1>3. DOMAIN t = 1 .. Len(q) + Len(r)
  BY <1>2, LenProperties
<1> HIDE DEF t
<1>4. \A k \in DOMAIN q : k \in DOMAIN t /\ t[k] = q[k]
  BY <1>1, <1>2, <1>3
<1>5. ASSUME NEW k \in DOMAIN r
      PROVE  \E l \in DOMAIN t : t[l] = r[k] /\ \A j \in DOMAIN q : l > j
  <2>1. Len(q) + k \in DOMAIN t /\ ~(Len(q) + k <= Len(q)) /\ (Len(q) + k) - Len(q) = k
    BY <1>1, <1>3
  <2>2. t[Len(q) + k] = r[k]
    BY <1>2, <1>3, <2>1
  <2>3. \A j \in DOMAIN q : Len(q) + k > j
    BY <1>1
  <2> QED BY <2>1, <2>2, <2>3
<1>6. ASSUME NEW l \in DOMAIN t, l \notin DOMAIN q
      PROVE  \E k \in DOMAIN r : t[l] = r[k]
  <2>1. l - Len(q) \in DOMAIN r /\ t[l] = r[l - Len(q)]
    BY <1>1, <1>2, <1>3, <1>6
  <2> QED BY <2>1
<1> QED BY <1>2, <1>4, <1>5, <1>6 DEF t

\* Taking a datagram out of the network leaves the others, in their order.
LEMMA Taken ==
    ASSUME network \in Seq(Packet), NEW i \in 1 .. Len(network)
    PROVE  /\ Without(i) \in Seq(Packet) /\ network[i] \in Packet /\ i \in DOMAIN network
           /\ i = 1 => /\ \A k : k \in DOMAIN Without(i) <=> k \in Nat \ {0} /\ k + 1 \in DOMAIN network
                       /\ \A k \in DOMAIN Without(i) : Without(i)[k] = network[k + 1]
<1> DEFINE q == SubSeq(network, 1, i - 1)
           r == SubSeq(network, i + 1, Len(network))
<1>1. Len(network) \in Nat /\ DOMAIN network = 1 .. Len(network)
  BY LenProperties
<1>2. \A k \in 1 .. Len(network) : network[k] \in Packet
  BY ElementOfSeq
<1>3. q \in Seq(Packet) /\ Len(q) = i - 1
  <2>1. \A k \in 1 .. i - 1 : network[k] \in Packet
    BY <1>1, <1>2
  <2>2. (IF 1 <= i - 1 THEN (i - 1) - 1 + 1 ELSE 0) = i - 1
    BY <1>1
  <2>3. 1 \in Int /\ i - 1 \in Int
    BY <1>1
  <2> QED BY <2>1, <2>2, <2>3, SubSeqProperties
<1>4. /\ r \in Seq(Packet) /\ Len(r) = Len(network) - i
      /\ \A k \in 1 .. Len(r) : r[k] = network[i + k]
  <2> DEFINE n == Len(network)
  <2>1. n \in Nat /\ i \in 1 .. n
    BY <1>1
  <2>2. r = SubSeq(network, i + 1, n) /\ \A k \in 1 .. n : network[k] \in Packet
    BY <1>2
  <2> HIDE DEF n, r
  <2>3. i + 1 \in Int /\ n \in Int /\ \A k \in i + 1 .. n : k \in 1 .. n
    BY <2>1
  <2>4. (IF i + 1 <= n THEN n - (i + 1) + 1 ELSE 0) = n - i /\ n - (i + 1) + 1 = n - i
    BY <2>1
  <2>5. \A k \in 1 .. n - i : (i + 1) + k - 1 = i + k
    BY <2>1
  <2>6. /\ r \in Seq(Packet) /\ Len(r) = n - i
        /\ \A k \in 1 .. n - (i + 1) + 1 : r[k] = network[(i + 1) + k - 1]
    BY <2>2, <2>3, <2>4, SubSeqProperties
  <2> QED BY <2>4, <2>5, <2>6 DEF n
<1>5. Without(i) = q \o r
  BY DEF Without
<1> HIDE DEF q, r
<1>6. q \o r \in Seq(Packet)
  BY <1>3, <1>4, ConcatProperties
<1>7. ASSUME i = 1 PROVE q \o r = r
  <2>1. q = <<>>
    BY <1>3, <1>7, EmptySeq
  <2> QED BY <1>4, <2>1, ConcatEmptySeq
<1>8. DOMAIN r = 1 .. Len(network) - i
  BY <1>4, LenProperties
<1>9. ASSUME i = 1
      PROVE  /\ \A k : k \in DOMAIN r <=> k \in Nat \ {0} /\ k + 1 \in DOMAIN network
             /\ \A k \in DOMAIN r : r[k] = network[k + 1]
  <2>1. \A k \in DOMAIN r : i + k = k + 1
    BY <1>1, <1>8, <1>9
  <2> QED BY <1>1, <1>4, <1>8, <1>9, <2>1
<1> QED BY <1>1, <1>2, <1>5, <1>6, <1>7, <1>9

---------------------------------------------------------------------------
\* The types, and what applying a packet does to a model.
Update == [delta : Seq(Packet), seq : Seqs]
Messages == {"handshake", "resync"}
StaleMessages == Messages \cup {"end"}
Entries == {"none", "current", "former"}

Types ==
    /\ world \in Worlds /\ dirty \in Worlds /\ cache \in Worlds /\ model \in Worlds
    /\ bseq \in Seqs /\ nseq \in Seqs
    /\ phase \in {"idle", "broadcast"}
    /\ posted \in Seq(Update)
    /\ session \in Entries /\ needsFull \in BOOLEAN /\ connected \in BOOLEAN
    /\ network \in Seq(Packet)
    /\ toServer \in Seq(Messages) /\ stale \in Seq(StaleMessages)
    /\ lastSeq \in Seqs \cup {None}
    /\ served \in 0 .. 2

LEMMA Numbers == 0 \in Seqs /\ \A n \in Seqs : Succ(n) \in Seqs
<1>1. SeqLimit \in Nat \ {0}
  BY WorldSyncAssumption
<1>2. ASSUME NEW n \in Nat PROVE (n + 1) % SeqLimit \in 0 .. SeqLimit - 1
  BY <1>1, SMT
<1> QED BY <1>1, <1>2 DEF Seqs, Succ

\* A packet decides the cells it says something of, and leaves the others.
LEMMA Applied ==
    ASSUME NEW m \in Worlds, NEW p \in Packet
    PROVE  /\ ApplyUpdate(m, p) \in Worlds
           /\ \A c \in ChunkId, e \in CellId :
                  e \in ApplyUpdate(m, p)[c] <=> Says(p, c, e, TRUE) \/ (e \in m[c] /\ ~Says(p, c, e, FALSE))
<1>1. p.chunk \in ChunkId /\ p.cells \subseteq CellId /\ p.live \subseteq CellId /\ p.full \in BOOLEAN
  BY DEF Packet
<1> DEFINE left == (IF p.full THEN {} ELSE m[p.chunk] \ p.cells) \cup p.live
<1>2. ApplyUpdate(m, p) = [m EXCEPT ![p.chunk] = left]
  BY DEF ApplyUpdate
<1>3. left \in SUBSET CellId
  BY <1>1 DEF Worlds
<1> HIDE DEF left
<1>4. ApplyUpdate(m, p) \in Worlds
  BY <1>2, <1>3 DEF Worlds
<1>5. ASSUME NEW c \in ChunkId, NEW e \in CellId
      PROVE  e \in ApplyUpdate(m, p)[c] <=> Says(p, c, e, TRUE) \/ (e \in m[c] /\ ~Says(p, c, e, FALSE))
  <2>1. CASE p.chunk = c
    <3>1. ApplyUpdate(m, p)[c] = left
      BY <1>2, <2>1 DEF Worlds
    <3>2. Says(p, c, e, TRUE) <=> e \in p.live
      BY <2>1 DEF Says
    <3>3. Says(p, c, e, FALSE) <=> e \notin p.live /\ (p.full \/ e \in p.cells)
      BY <2>1 DEF Says
    <3> QED BY <2>1, <3>1, <3>2, <3>3 DEF left
  <2>2. CASE p.chunk # c
    <3>1. ApplyUpdate(m, p)[c] = m[c]
      BY <1>2, <2>2 DEF Worlds
    <3> QED BY <2>2, <3>1 DEF Says
  <2> QED BY <2>1, <2>2
<1> QED BY <1>4, <1>5

LEMMA SentTyped ==
    ASSUME Types, posted # <<>>
    PROVE  Sent \in Seq(Packet)
<1>1. Head(posted) \in Update
  BY Rest DEF Types
<1>2. Head(posted).seq \in Seqs /\ Head(posted).delta \in Seq(Packet)
  BY <1>1 DEF Update
<1>3. Stamp(SerializeFull(cache), Head(posted).seq) \in Seq(Packet)
  BY <1>2, SnapshotSays DEF Types
<1>4. <<>> \in Seq(Packet)
  OBVIOUS
<1> QED BY <1>2, <1>3, <1>4 DEF Sent

LEMMA TouchedType == Touched \subseteq Worlds
<1>1. NoLife \in Worlds
  BY DEF NoLife, Worlds
<1> QED BY <1>1 DEF Touched

\* What the former connection's messages do to the player's entry: it is never
\* made the current connection's, and whoever keeps it keeps or gains its mark.
LEMMA ReadsEntry ==
    ASSUME ReadStale
    PROVE  \/ session' \in {"none", "former"} /\ needsFull' \in BOOLEAN
           \/ session' = session /\ needsFull' = (session # "none")
<1>1. CASE Head(stale) = "handshake"
  BY <1>1 DEF ReadStale, Register
<1>2. CASE Head(stale) = "resync"
  BY <1>2 DEF ReadStale, MarkEntry
<1>3. CASE Head(stale) # "handshake" /\ Head(stale) # "resync"
  BY <1>3 DEF ReadStale
<1> QED BY <1>1, <1>2, <1>3

LEMMA TypesKept ==
    ASSUME Types, [Next]_vars
    PROVE  Types'
<1>1. ASSUME NEW next \in Worlds, NEW touched \in Worlds, Tick(next, touched) PROVE Types'
  <2>1. dirty' \in Worlds
    BY <1>1 DEF Tick, Dirtied, Changed, Types, Worlds
  <2> QED BY <1>1, <2>1, Numbers DEF Tick, Types, clientVars, entryVars, tcpVars
<1>2. CASE Broadcast
  <2>1. dirty' \in Worlds
    BY <1>2 DEF Broadcast, Worlds, NoLife
  <2>2. nseq' \in Seqs /\ posted' \in Seq(Update)
    <3> DEFINE delta == SerializeDelta(world, dirty)
    <3>1. CASE delta = <<>>
      BY <1>2, <3>1 DEF Broadcast, Types
    <3>2. CASE delta # <<>>
      <4>1. nseq' = Succ(nseq) /\ posted' = Append(posted, [delta |-> Stamp(delta, bseq), seq |-> nseq'])
        BY <1>2, <3>2 DEF Broadcast
      <4>2. Stamp(delta, bseq) \in Seq(Packet)
        BY DeltaSays DEF Types
      <4>3. nseq' \in Seqs
        BY <4>1, Numbers DEF Types
      <4> HIDE DEF delta
      <4>4. [delta |-> Stamp(delta, bseq), seq |-> nseq'] \in Update
        BY <4>2, <4>3 DEF Update
      <4> QED BY <4>1, <4>3, <4>4, OneMore DEF Types
    <3> QED BY <3>1, <3>2
  <2> QED BY <1>2, <2>1, <2>2 DEF Broadcast, Types, clientVars, entryVars, tcpVars
<1>3. CASE DoUdpBroadcast
  <2>1. posted # <<>> /\ posted' = Tail(posted) /\ network' = network \o Sent
    BY <1>3 DEF DoUdpBroadcast
  <2>2. posted' \in Seq(Update)
    BY <2>1, Rest DEF Types
  <2>3. network' \in Seq(Packet)
    BY <2>1, SentTyped, Joined DEF Types
  <2>4. needsFull' \in BOOLEAN
    BY <1>3 DEF DoUdpBroadcast
  <2>5. served \in 0 .. 2 /\ (served' = served \/ (served < 2 /\ served' = served + 1))
    BY <1>3 DEF DoUdpBroadcast, Types
  <2>6. served' \in 0 .. 2
    BY <2>5
  <2> QED BY <1>3, <2>2, <2>3, <2>4, <2>6 DEF DoUdpBroadcast, Types, serverVars, clientVars, tcpVars
<1>4. CASE ReadMessage
  <2>1. toServer' \in Seq(Messages)
    BY <1>4, Rest DEF ReadMessage, Types
  <2>2. session' \in Entries /\ needsFull' \in BOOLEAN
    BY <1>4 DEF ReadMessage, Register, MarkEntry, Types, Entries
  <2> QED BY <1>4, <2>1, <2>2 DEF ReadMessage, Types, serverVars, clientVars
<1>11. CASE ReadStale
  <2>1. stale' \in Seq(StaleMessages)
    BY <1>11, Rest DEF ReadStale, Types
  <2>2. session' \in Entries /\ needsFull' \in BOOLEAN
    BY <1>11, ReadsEntry DEF Types, Entries
  <2> QED BY <1>11, <2>1, <2>2 DEF ReadStale, Types, serverVars, clientVars
<1>5. ASSUME NEW i \in 1 .. Len(network), Deliver(i) PROVE Types'
  <2>1. network' \in Seq(Packet) /\ network[i] \in Packet
    BY <1>5, Taken DEF Deliver, Types
  <2>2. lastSeq' \in Seqs \cup {None}
    BY <1>5, <2>1 DEF Deliver, Packet
  <2>3. model' \in Worlds
    BY <1>5, <2>1, Applied DEF Deliver, Types
  <2>4. toServer' \in Seq(Messages)
    <3>1. "resync" \in Messages
      BY DEF Messages
    <3>2. Append(toServer, "resync") \in Seq(Messages)
      BY <3>1, OneMore DEF Types
    <3>3. toServer' = Append(toServer, "resync") \/ toServer' = toServer
      BY <1>5 DEF Deliver
    <3> QED BY <3>2, <3>3 DEF Types
  <2> QED BY <1>5, <2>1, <2>2, <2>3, <2>4 DEF Deliver, Types, serverVars, entryVars
<1>6. ASSUME NEW i \in 1 .. Len(network), Lose(i) PROVE Types'
  <2>1. network' \in Seq(Packet)
    BY <1>6, Taken DEF Lose, Types
  <2> QED BY <1>6, <2>1 DEF Lose, Types, serverVars, clientVars, entryVars, tcpVars
<1>7. CASE Connect
  <2>1. <<"handshake">> \in Seq(Messages)
    BY DEF Messages
  <2> QED BY <1>7, <2>1 DEF Connect, Types, serverVars, clientVars, entryVars
<1>8. CASE Disconnect
  <2>1. <<>> \in Seq(Messages) /\ <<>> \in Seq(Packet)
    OBVIOUS
  <2>2. toServer \in Seq(StaleMessages) /\ "end" \in StaleMessages
    BY DEF Types, StaleMessages
  <2>3. Append(toServer, "end") \in Seq(StaleMessages)
    BY <2>2, OneMore
  <2>4. session' \in Entries
    BY <1>8 DEF Disconnect, Types, Entries
  <2> QED BY <1>8, <2>1, <2>3, <2>4 DEF Disconnect, Types, serverVars, clientVars
<1>9. CASE SendResync
  <2>1. "resync" \in Messages
    BY DEF Messages
  <2>2. toServer' \in Seq(Messages)
    BY <1>9, <2>1, OneMore DEF SendResync, Types
  <2> QED BY <1>9, <2>2 DEF SendResync, Types, serverVars, clientVars, entryVars
<1>10. CASE UNCHANGED vars
  BY <1>10 DEF vars, serverVars, clientVars, entryVars, tcpVars, Types
<1> QED BY <1>1, <1>2, <1>3, <1>4, <1>5, <1>6, <1>7, <1>8, <1>9, <1>10, <1>11, TouchedType
     DEF Next, TickThread, IoThread, ClientStep

LEMMA TypesInitially == Init => Types
<1> SUFFICES ASSUME Init PROVE Types
  OBVIOUS
<1>1. NoLife \in Worlds /\ <<>> \in Seq(Update) /\ <<>> \in Seq(Packet) /\ <<>> \in Seq(Messages) /\ <<>> \in Seq(StaleMessages)
  BY DEF NoLife, Worlds
<1>2. /\ world \in Worlds /\ dirty \in Worlds /\ cache \in Worlds /\ model \in Worlds
      /\ posted \in Seq(Update) /\ network \in Seq(Packet) /\ toServer \in Seq(Messages)
      /\ stale \in Seq(StaleMessages)
  BY <1>1 DEF Init
<1>3. bseq \in Seqs /\ nseq \in Seqs /\ lastSeq \in Seqs \cup {None} /\ served \in 0 .. 2
  BY Numbers DEF Init
<1>4. phase \in {"idle", "broadcast"} /\ session \in Entries /\ needsFull \in BOOLEAN /\ connected \in BOOLEAN
  BY DEF Init, Entries
<1> QED BY <1>2, <1>3, <1>4 DEF Types

\* TypeOK, whatever the network loses or reorders: the numbers stay in their
\* width, and every datagram and every delta is made of well-formed packets.
THEOREM TypeCorrect == Spec => []TypeOK
<1>1. Types => TypeOK
  <2> SUFFICES ASSUME Types PROVE TypeOK
    OBVIOUS
  <2>1. ASSUME NEW i \in DOMAIN posted
        PROVE  posted[i].seq \in Seqs /\ \A j \in DOMAIN posted[i].delta : posted[i].delta[j] \in Packet
    <3>1. posted[i] \in Update
      BY LenProperties, ElementOfSeq DEF Types
    <3>2. posted[i].seq \in Seqs /\ posted[i].delta \in Seq(Packet)
      BY <3>1 DEF Update
    <3>3. \A j \in DOMAIN posted[i].delta : posted[i].delta[j] \in Packet
      BY <3>2, LenProperties, ElementOfSeq
    <3> QED BY <3>2, <3>3
  <2>2. \A i \in DOMAIN network : network[i] \in Packet
    BY LenProperties, ElementOfSeq DEF Types
  <2>3. \A i \in DOMAIN toServer : toServer[i] \in Messages
    BY LenProperties, ElementOfSeq DEF Types
  <2>4. \A i \in DOMAIN stale : stale[i] \in StaleMessages
    BY LenProperties, ElementOfSeq DEF Types
  <2> QED BY <2>1, <2>2, <2>3, <2>4 DEF Types, TypeOK, Messages, StaleMessages, Entries
<1> QED BY <1>1, TypesInitially, TypesKept, PTL DEF Spec

---------------------------------------------------------------------------
\* What a client that is due nothing is going to show.  The last word about a
\* cell, in what is posted and in what is dirty, is the truth; so is the last
\* word of what is in flight to a client that has had a snapshot, or there is
\* none and the model is right already.  A dead cell is told of only to those
\* that have been shown it: after a second snapshot, a chunk that died out in
\* between may stay (docs/requirements.md promises more, see NoMissingCell).
Lives(c, e) == e \in world[c]

ToldAfter(k, c, e) ==
    \/ \E l \in DOMAIN posted : l > k /\ SaysIn(posted[l].delta, c, e, Lives(c, e))
    \/ e \in dirty[c]

LastWordIsTrue(c, e) ==
    \A k \in DOMAIN posted : SaysIn(posted[k].delta, c, e, ~Lives(c, e)) => ToldAfter(k, c, e)

ModelIsRight(c, e) ==
    (e \in model[c] <=> Lives(c, e)) \/ SaysIn(network, c, e, Lives(c, e)) \/ ToldAfter(0, c, e)
FlightIsRight(c, e) ==
    \A i \in DOMAIN network : Says(network[i], c, e, ~Lives(c, e)) =>
        (\E j \in DOMAIN network : j > i /\ Says(network[j], c, e, Lives(c, e))) \/ ToldAfter(0, c, e)
WillShow(c, e) == ModelIsRight(c, e) /\ FlightIsRight(c, e)

Owed(c, e) == session = "current" /\ ~needsFull /\ (Lives(c, e) \/ served = 1)

Fresh ==
    /\ cache = world
    /\ phase = "idle" => dirty = NoLife
    /\ served = 0 => model = NoLife /\ network = <<>> /\ (session = "current" => needsFull)
Told(c, e) == LastWordIsTrue(c, e) /\ (Owed(c, e) => WillShow(c, e))
SyncInv == Fresh /\ \A c \in ChunkId, e \in CellId : Told(c, e)

\* While every chunk has at most as many living cells as a packet takes.
SnapshotsFit == \A c \in ChunkId : Cardinality(world[c]) <= MaxCellsPerPacket

\* What the tick changes is dirty.
LEMMA TickTells ==
    ASSUME Types, SyncInv, NEW next \in Worlds, NEW touched \in Worlds, Tick(next, touched)
    PROVE  SyncInv'
<1>1. dirty = NoLife
  BY DEF Tick, SyncInv, Fresh
<1>2. Fresh'
  BY DEF Tick, SyncInv, Fresh, clientVars, entryVars
<1>3. ASSUME NEW c \in ChunkId, NEW e \in CellId PROVE Told(c, e)'
  <2>1. /\ posted' = posted /\ network' = network /\ model' = model
        /\ session' = session /\ needsFull' = needsFull /\ served' = served
    BY DEF Tick, clientVars, entryVars
  <2>2. e \notin dirty[c] /\ (Lives(c, e) # Lives(c, e)' => e \in dirty'[c])
    BY <1>1 DEF Tick, Dirtied, Changed, NoLife, Lives, Types, Worlds
  <2>3. CASE e \in dirty'[c]
    <3>1. \A k : ToldAfter(k, c, e)'
      BY <2>3 DEF ToldAfter
    <3> QED BY <3>1 DEF Told, LastWordIsTrue, WillShow, ModelIsRight, FlightIsRight
  <2>4. CASE e \notin dirty'[c]
    <3>1. Lives(c, e)' = Lives(c, e)
      BY <2>2, <2>4
    <3>2. \A k : ToldAfter(k, c, e)' <=> ToldAfter(k, c, e)
      BY <2>1, <2>2, <2>4, <3>1 DEF ToldAfter
    <3>3. Told(c, e)
      BY DEF SyncInv
    <3>4. LastWordIsTrue(c, e)'
      BY <2>1, <3>1, <3>2, <3>3 DEF Told, LastWordIsTrue
    <3>5. ASSUME Owed(c, e)' PROVE WillShow(c, e)'
      <4>1. WillShow(c, e)
        BY <2>1, <3>1, <3>3, <3>5 DEF Told, Owed
      <4>2. ModelIsRight(c, e)'
        BY <2>1, <3>1, <3>2, <4>1 DEF WillShow, ModelIsRight
      <4>3. FlightIsRight(c, e)'
        BY <2>1, <3>1, <3>2, <4>1 DEF WillShow, FlightIsRight
      <4> QED BY <4>2, <4>3 DEF WillShow
    <3> QED BY <3>4, <3>5 DEF Told
  <2> QED BY <2>3, <2>4
<1> QED BY <1>2, <1>3 DEF SyncInv

\* What was dirty is the last thing posted.
LEMMA BroadcastTells ==
    ASSUME Types, SyncInv, Broadcast
    PROVE  SyncInv'
<1> DEFINE delta == SerializeDelta(world, dirty)
           told == Stamp(delta, bseq)
<1>0. /\ world' = world /\ cache' = cache /\ network' = network /\ model' = model
      /\ session' = session /\ needsFull' = needsFull /\ served' = served /\ dirty' = NoLife
  BY DEF Broadcast, clientVars, entryVars
<1>1. Fresh'
  BY <1>0 DEF SyncInv, Fresh
<1>2. /\ told \in Seq(Packet)
      /\ \A c \in ChunkId, e \in CellId, v \in BOOLEAN :
             SaysIn(told, c, e, v) <=> e \in dirty[c] /\ (v <=> e \in world[c])
      /\ delta = <<>> => dirty = NoLife
  BY DeltaSays DEF Types
<1>3. \/ dirty = NoLife /\ posted' = posted
      \/ posted' = Append(posted, [delta |-> told, seq |-> nseq']) /\ nseq' \in Seqs
  <2>1. CASE delta = <<>>
    BY <1>2, <2>1 DEF Broadcast
  <2>2. CASE delta # <<>>
    BY <2>2, Numbers DEF Broadcast, Types
  <2> QED BY <2>1, <2>2
<1> HIDE DEF delta, told
<1>4. ASSUME NEW c \in ChunkId, NEW e \in CellId PROVE Told(c, e)'
  <2>1. Told(c, e) /\ Lives(c, e)' = Lives(c, e) /\ Lives(c, e) \in BOOLEAN
    BY <1>0 DEF SyncInv, Lives
  <2>2. /\ \A k : (k \in DOMAIN posted \/ k = 0) /\ ToldAfter(k, c, e) => ToldAfter(k, c, e)'
        /\ \A k \in DOMAIN posted' : SaysIn(posted'[k].delta, c, e, ~Lives(c, e)) =>
               k \in DOMAIN posted /\ posted'[k] = posted[k]
    <3>1. CASE dirty = NoLife /\ posted' = posted
      BY <1>0, <2>1, <3>1 DEF ToldAfter
    <3>2. CASE posted' = Append(posted, [delta |-> told, seq |-> nseq']) /\ nseq' \in Seqs
      <4> DEFINE n == Len(posted) + 1
                 u == [delta |-> told, seq |-> nseq']
      <4>0. u \in Update
        BY <1>2, <3>2 DEF Update
      <4>1. /\ DOMAIN posted = 1 .. Len(posted) /\ Len(posted) \in Nat
            /\ DOMAIN posted' = 1 .. Len(posted) + 1
            /\ posted'[n] = u /\ \A k \in DOMAIN posted : posted'[k] = posted[k]
        BY <3>2, <4>0, OneMore DEF Types
      <4>2. posted'[n].delta = told
        BY <4>1
      <4>3. n \in DOMAIN posted' /\ n > 0 /\ \A k \in DOMAIN posted : n > k /\ k \in DOMAIN posted'
        BY <4>1
      <4>4. \A k \in DOMAIN posted' : k = n \/ k \in DOMAIN posted
        BY <4>1
      <4> HIDE DEF n, u
      <4>5. SaysIn(told, c, e, Lives(c, e)) <=> e \in dirty[c]
        BY <1>2, <2>1 DEF Lives
      <4>6. ~SaysIn(told, c, e, ~Lives(c, e))
        BY <1>2, <2>1 DEF Lives
      <4>7. ASSUME NEW k, k \in DOMAIN posted \/ k = 0, ToldAfter(k, c, e) PROVE ToldAfter(k, c, e)'
        <5>1. CASE e \in dirty[c]
          BY <2>1, <4>2, <4>3, <4>5, <4>7, <5>1 DEF ToldAfter
        <5>2. CASE e \notin dirty[c]
          <6>1. PICK l \in DOMAIN posted : l > k /\ SaysIn(posted[l].delta, c, e, Lives(c, e))
            BY <4>7, <5>2 DEF ToldAfter
          <6> QED BY <2>1, <4>1, <4>3, <6>1 DEF ToldAfter
        <5> QED BY <5>1, <5>2
      <4>8. \A k \in DOMAIN posted' : SaysIn(posted'[k].delta, c, e, ~Lives(c, e)) =>
                k \in DOMAIN posted /\ posted'[k] = posted[k]
        BY <4>1, <4>2, <4>4, <4>6
      <4> QED BY <4>7, <4>8
    <3> QED BY <1>3, <3>1, <3>2
  <2>3. LastWordIsTrue(c, e)'
    BY <2>1, <2>2 DEF Told, LastWordIsTrue
  <2>4. ASSUME Owed(c, e)' PROVE WillShow(c, e)'
    <3>1. WillShow(c, e)
      BY <1>0, <2>1, <2>4 DEF Told, Owed
    <3>2. ModelIsRight(c, e)'
      BY <1>0, <2>1, <2>2, <3>1 DEF WillShow, ModelIsRight
    <3>3. FlightIsRight(c, e)'
      BY <1>0, <2>1, <2>2, <3>1 DEF WillShow, FlightIsRight
    <3> QED BY <3>2, <3>3 DEF WillShow
  <2> QED BY <2>3, <2>4 DEF Told
<1> QED BY <1>1, <1>4 DEF SyncInv

\* What stays posted after the first broadcast is sent.
LEMMA FirstPosted ==
    ASSUME Types, posted # <<>>, posted' = Tail(posted), world' = world, dirty' = dirty,
           NEW c \in ChunkId, NEW e \in CellId, LastWordIsTrue(c, e)
    PROVE  /\ Head(posted) \in Update
           /\ LastWordIsTrue(c, e)'
           /\ ToldAfter(0, c, e) => SaysIn(Head(posted).delta, c, e, Lives(c, e)) \/ ToldAfter(0, c, e)'
           /\ SaysIn(Head(posted).delta, c, e, ~Lives(c, e)) => ToldAfter(0, c, e)'
<1>1. /\ Head(posted) = posted[1] /\ posted[1] \in Update /\ 1 \in DOMAIN posted
      /\ \A k : k \in DOMAIN posted' <=> k \in Nat \ {0} /\ k + 1 \in DOMAIN posted
      /\ \A k \in DOMAIN posted' : posted'[k] = posted[k + 1]
  BY Rest DEF Types
<1>2. Lives(c, e)' = Lives(c, e)
  BY DEF Lives
<1>3. DOMAIN posted \subseteq Nat \ {0}
  BY LenProperties DEF Types
<1>4. ASSUME NEW k \in Nat, ToldAfter(k + 1, c, e) PROVE ToldAfter(k, c, e)'
  <2>1. CASE e \in dirty[c]
    BY <2>1 DEF ToldAfter
  <2>2. CASE e \notin dirty[c]
    <3>1. PICK l \in DOMAIN posted : l > k + 1 /\ SaysIn(posted[l].delta, c, e, Lives(c, e))
      BY <1>4, <2>2 DEF ToldAfter
    <3>2. l - 1 \in Nat \ {0} /\ (l - 1) + 1 = l /\ l - 1 > k
      BY <1>3, <3>1
    <3>3. l - 1 \in DOMAIN posted' /\ posted'[l - 1] = posted[l]
      BY <1>1, <3>2
    <3> QED BY <1>2, <3>1, <3>2, <3>3 DEF ToldAfter
  <2> QED BY <2>1, <2>2
<1>5. LastWordIsTrue(c, e)'
  <2> SUFFICES ASSUME NEW k \in DOMAIN posted', SaysIn(posted'[k].delta, c, e, ~Lives(c, e))
               PROVE  ToldAfter(k, c, e)'
    BY <1>2 DEF LastWordIsTrue
  <2>1. k \in Nat /\ k + 1 \in DOMAIN posted /\ posted'[k] = posted[k + 1]
    BY <1>1
  <2>2. ToldAfter(k + 1, c, e)
    BY <2>1 DEF LastWordIsTrue
  <2> QED BY <1>4, <2>1, <2>2
<1>6. ToldAfter(1, c, e) => ToldAfter(0, c, e)'
  BY <1>4
<1>7. ToldAfter(0, c, e) => SaysIn(posted[1].delta, c, e, Lives(c, e)) \/ ToldAfter(1, c, e)
  <2> SUFFICES ASSUME ToldAfter(0, c, e), e \notin dirty[c]
               PROVE  SaysIn(posted[1].delta, c, e, Lives(c, e)) \/ ToldAfter(1, c, e)
    BY DEF ToldAfter
  <2>1. PICK l \in DOMAIN posted : SaysIn(posted[l].delta, c, e, Lives(c, e))
    BY DEF ToldAfter
  <2>2. l = 1 \/ l > 1
    BY <1>3
  <2> QED BY <2>1, <2>2 DEF ToldAfter
<1>8. SaysIn(posted[1].delta, c, e, ~Lives(c, e)) => ToldAfter(1, c, e)
  BY <1>1 DEF LastWordIsTrue
<1> QED BY <1>1, <1>5, <1>6, <1>7, <1>8

\* A client without a snapshot to come is told by deltas; a snapshot says all
\* there is to say.
LEMMA UdpBroadcastTells ==
    ASSUME Types, SyncInv, SnapshotsFit, DoUdpBroadcast
    PROVE  SyncInv'
<1>1. /\ posted # <<>> /\ posted' = Tail(posted) /\ network' = network \o Sent
      /\ needsFull' = FALSE
      /\ served' = IF session = "current" /\ needsFull /\ served < 2 THEN served + 1 ELSE served
      /\ world' = world /\ dirty' = dirty /\ cache' = cache /\ phase' = phase
      /\ session' = session /\ model' = model
  BY DEF DoUdpBroadcast, ServedNow, serverVars, clientVars
<1>2. /\ network \in Seq(Packet) /\ Sent \in Seq(Packet) /\ network' \in Seq(Packet)
      /\ served \in 0 .. 2 /\ needsFull \in BOOLEAN
  BY <1>1, SentTyped, Joined DEF Types
<1>3. Head(posted) \in Update
  BY <1>1, Rest DEF Types
<1> DEFINE s == Sent
<1>4. /\ s \in Seq(Packet) /\ network' = network \o s
      /\ \A k \in DOMAIN network : k \in DOMAIN network' /\ network'[k] = network[k]
      /\ \A k \in DOMAIN s : \E l \in DOMAIN network' :
             network'[l] = s[k] /\ \A j \in DOMAIN network : l > j
      /\ \A l \in DOMAIN network' : l \in DOMAIN network \/ \E k \in DOMAIN s : network'[l] = s[k]
  BY <1>1, <1>2, Joined
<1> HIDE DEF s
\* What was in flight stays there, and what is sent comes after it.
<1>5. ASSUME NEW c \in ChunkId, NEW e \in CellId, NEW v
      PROVE  /\ SaysIn(network, c, e, v) => SaysIn(network', c, e, v)
             /\ SaysIn(s, c, e, v) =>
                    \E l \in DOMAIN network' : Says(network'[l], c, e, v) /\ \A j \in DOMAIN network : l > j
  BY <1>4 DEF SaysIn
<1>6. Fresh'
  <2>1. ASSUME served' = 0 PROVE model' = NoLife /\ network' = <<>> /\ (session' = "current" => needsFull')
    <3>1. served = 0 /\ ~(session = "current" /\ needsFull)
      BY <1>1, <1>2, <2>1
    <3>2. model = NoLife /\ network = <<>> /\ session # "current"
      BY <3>1 DEF SyncInv, Fresh
    <3>3. Sent = <<>>
      BY <3>2 DEF Sent
    <3>4. network' = <<>>
      BY <1>1, <1>2, <3>2, <3>3, ConcatEmptySeq
    <3> QED BY <1>1, <3>2, <3>4
  <2> QED BY <1>1, <2>1 DEF SyncInv, Fresh
<1>7. ASSUME NEW c \in ChunkId, NEW e \in CellId PROVE Told(c, e)'
  <2>1. Told(c, e) /\ Lives(c, e)' = Lives(c, e) /\ Lives(c, e) \in BOOLEAN
    BY <1>1 DEF SyncInv, Lives
  <2>2. /\ LastWordIsTrue(c, e)'
        /\ ToldAfter(0, c, e) => SaysIn(Head(posted).delta, c, e, Lives(c, e)) \/ ToldAfter(0, c, e)'
        /\ SaysIn(Head(posted).delta, c, e, ~Lives(c, e)) => ToldAfter(0, c, e)'
    BY <1>1, <2>1, FirstPosted DEF Told
  <2>3. ASSUME Owed(c, e)', needsFull PROVE WillShow(c, e)'
    <3>1. session = "current"
      BY <1>1, <2>3 DEF Owed
    <3>2. s = Stamp(SerializeFull(world), Head(posted).seq) /\ Head(posted).seq \in Seqs
      BY <1>3, <2>3, <3>1 DEF s, Sent, SyncInv, Fresh, Update
    <3>3. /\ SaysIn(s, c, e, TRUE) <=> e \in world[c]
          /\ e \in world[c] => ~SaysIn(s, c, e, FALSE)
      BY <3>2, SnapshotSays DEF SnapshotsFit, Types
    <3>4. CASE Lives(c, e)
      <4>1. e \in world[c]
        BY <3>4 DEF Lives
      <4>2. PICK l \in DOMAIN network' : Says(network'[l], c, e, TRUE) /\ \A j \in DOMAIN network : l > j
        BY <1>5, <3>3, <4>1
      <4>3. Lives(c, e)' = TRUE
        BY <2>1, <3>4
      <4>4. ModelIsRight(c, e)'
        BY <4>2, <4>3 DEF ModelIsRight, SaysIn
      <4>5. ASSUME NEW i \in DOMAIN network', Says(network'[i], c, e, FALSE)
            PROVE  l > i
        <5>1. CASE i \in DOMAIN network
          BY <4>2, <5>1
        <5>2. CASE i \notin DOMAIN network
          <6>1. PICK k \in DOMAIN s : network'[i] = s[k]
            BY <1>4, <5>2
          <6> QED BY <3>3, <4>1, <4>5, <6>1 DEF SaysIn
        <5> QED BY <5>1, <5>2
      <4>6. FlightIsRight(c, e)'
        BY <4>2, <4>3, <4>5 DEF FlightIsRight
      <4> QED BY <4>4, <4>6 DEF WillShow
    <3>5. CASE ~Lives(c, e)
      <4>1. e \notin world[c] /\ Lives(c, e)' = FALSE
        BY <2>1, <3>5 DEF Lives
      <4>2. served' = 1
        BY <2>1, <2>3, <3>5 DEF Owed
      <4>3. served = 0
        BY <1>1, <1>2, <2>3, <3>1, <4>2
      <4>4. model = NoLife /\ network = <<>>
        BY <4>3 DEF SyncInv, Fresh
      <4>5. e \notin model'[c]
        BY <1>1, <4>4 DEF NoLife
      <4>6. \A i \in DOMAIN network' : ~Says(network'[i], c, e, TRUE)
        <5> SUFFICES ASSUME NEW i \in DOMAIN network', Says(network'[i], c, e, TRUE) PROVE FALSE
          OBVIOUS
        <5>1. PICK k \in DOMAIN s : network'[i] = s[k]
          BY <1>4, <4>4
        <5> QED BY <3>3, <4>1, <5>1 DEF SaysIn
      <4> QED BY <4>1, <4>5, <4>6 DEF WillShow, ModelIsRight, FlightIsRight
    <3> QED BY <2>1, <3>4, <3>5
  <2>4. ASSUME Owed(c, e)', ~needsFull PROVE WillShow(c, e)'
    <3>1. session = "current" /\ s = Head(posted).delta /\ Owed(c, e)
      BY <1>1, <2>1, <2>4 DEF Owed, s, Sent
    <3>2. WillShow(c, e)
      BY <2>1, <3>1 DEF Told
    <3>3. /\ ToldAfter(0, c, e) => SaysIn(s, c, e, Lives(c, e)) \/ ToldAfter(0, c, e)'
          /\ SaysIn(s, c, e, ~Lives(c, e)) => ToldAfter(0, c, e)'
      BY <2>2, <3>1
    <3>4. ModelIsRight(c, e)'
      <4>1. CASE ToldAfter(0, c, e)' \/ (e \in model[c] <=> Lives(c, e))
        BY <1>1, <2>1, <4>1 DEF ModelIsRight
      <4>2. CASE SaysIn(network, c, e, Lives(c, e))
        BY <1>5, <2>1, <4>2 DEF ModelIsRight
      <4>3. CASE SaysIn(s, c, e, Lives(c, e))
        BY <1>5, <2>1, <4>3 DEF ModelIsRight, SaysIn
      <4> QED BY <3>2, <3>3, <4>1, <4>2, <4>3 DEF WillShow, ModelIsRight
    <3>5. FlightIsRight(c, e)'
      <4> SUFFICES ASSUME NEW i \in DOMAIN network', Says(network'[i], c, e, ~Lives(c, e)), ~ToldAfter(0, c, e)'
                   PROVE  \E j \in DOMAIN network' : j > i /\ Says(network'[j], c, e, Lives(c, e))
        BY <2>1 DEF FlightIsRight
      <4>1. CASE i \in DOMAIN network
        <5>1. Says(network[i], c, e, ~Lives(c, e))
          BY <1>4, <4>1
        <5>2. CASE ToldAfter(0, c, e)
          <6>1. SaysIn(s, c, e, Lives(c, e))
            BY <3>3, <5>2
          <6> QED BY <1>5, <4>1, <6>1
        <5>3. CASE ~ToldAfter(0, c, e)
          <6>1. PICK j \in DOMAIN network : j > i /\ Says(network[j], c, e, Lives(c, e))
            BY <3>2, <4>1, <5>1, <5>3 DEF WillShow, FlightIsRight
          <6> QED BY <1>4, <6>1
        <5> QED BY <5>2, <5>3
      <4>2. CASE i \notin DOMAIN network
        <5>1. PICK k \in DOMAIN s : network'[i] = s[k]
          BY <1>4, <4>2
        <5>2. SaysIn(s, c, e, ~Lives(c, e))
          BY <5>1 DEF SaysIn
        <5> QED BY <3>3, <5>2
      <4> QED BY <4>1, <4>2
    <3> QED BY <3>4, <3>5 DEF WillShow
  <2> QED BY <2>2, <2>3, <2>4 DEF Told
<1> QED BY <1>6, <1>7 DEF SyncInv

\* In order, the client applies the oldest datagram: a word that is not the
\* last is corrected by one behind it.
LEMMA DeliverTells ==
    ASSUME Types, SyncInv, ~MayReorder, NEW i \in 1 .. Len(network), Deliver(i)
    PROVE  SyncInv'
<1>1. /\ i = 1 /\ network' = Without(i) /\ model' = ApplyUpdate(model, network[i])
      /\ world' = world /\ dirty' = dirty /\ cache' = cache /\ phase' = phase /\ posted' = posted
      /\ session' = session /\ needsFull' = needsFull /\ served' = served
  BY DEF Deliver, serverVars, entryVars
<1>2. /\ network[1] \in Packet /\ 1 \in DOMAIN network
      /\ \A k : k \in DOMAIN network' <=> k \in Nat \ {0} /\ k + 1 \in DOMAIN network
      /\ \A k \in DOMAIN network' : network'[k] = network[k + 1]
  BY <1>1, Taken DEF Types
<1>3. DOMAIN network \subseteq Nat \ {0}
  BY LenProperties DEF Types
<1>4. ASSUME NEW j \in DOMAIN network, j # 1
      PROVE  j - 1 \in DOMAIN network' /\ network'[j - 1] = network[j]
  <2>1. j - 1 \in Nat \ {0} /\ (j - 1) + 1 = j
    BY <1>3, <1>4
  <2> QED BY <1>2, <2>1
<1>5. network # <<>>
  BY <1>2
<1>6. Fresh'
  BY <1>1, <1>5 DEF SyncInv, Fresh
<1>7. ASSUME NEW c \in ChunkId, NEW e \in CellId PROVE Told(c, e)'
  <2>1. Told(c, e) /\ Lives(c, e)' = Lives(c, e) /\ Lives(c, e) \in BOOLEAN
    BY <1>1 DEF SyncInv, Lives
  <2>2. \A k : ToldAfter(k, c, e)' <=> ToldAfter(k, c, e)
    BY <1>1, <2>1 DEF ToldAfter
  <2>3. LastWordIsTrue(c, e)'
    BY <1>1, <2>1, <2>2 DEF Told, LastWordIsTrue
  <2>4. ASSUME Owed(c, e)' PROVE WillShow(c, e)'
    <3>1. ModelIsRight(c, e) /\ FlightIsRight(c, e)
      BY <1>1, <2>1, <2>4 DEF Told, Owed, WillShow
    <3>2. e \in model'[c] <=> Says(network[1], c, e, TRUE) \/ (e \in model[c] /\ ~Says(network[1], c, e, FALSE))
      BY <1>1, <1>2, Applied DEF Types
    <3>3. ~(Says(network[1], c, e, TRUE) /\ Says(network[1], c, e, FALSE))
      BY DEF Says
    <3>4. ASSUME NEW j \in DOMAIN network, j # 1, Says(network[j], c, e, Lives(c, e))
          PROVE  SaysIn(network', c, e, Lives(c, e))
      BY <1>4, <3>4 DEF SaysIn
    <3>5. ModelIsRight(c, e)'
      <4>1. CASE Says(network[1], c, e, ~Lives(c, e))
        <5>1. \/ \E j \in DOMAIN network : j > 1 /\ Says(network[j], c, e, Lives(c, e))
              \/ ToldAfter(0, c, e)
          BY <1>2, <3>1, <4>1 DEF FlightIsRight
        <5>2. SaysIn(network', c, e, Lives(c, e)) \/ ToldAfter(0, c, e)
          BY <3>4, <5>1
        <5> QED BY <2>1, <2>2, <5>2 DEF ModelIsRight
      <4>2. CASE Says(network[1], c, e, Lives(c, e))
        <5>1. e \in model'[c] <=> Lives(c, e)
          <6>1. CASE Lives(c, e) = TRUE
            BY <3>2, <4>2, <6>1
          <6>2. CASE Lives(c, e) = FALSE
            BY <3>2, <3>3, <4>2, <6>2
          <6> QED BY <2>1, <6>1, <6>2
        <5> QED BY <2>1, <5>1 DEF ModelIsRight
      <4>3. CASE ~Says(network[1], c, e, Lives(c, e)) /\ ~Says(network[1], c, e, ~Lives(c, e))
        <5>1. ~Says(network[1], c, e, TRUE) /\ ~Says(network[1], c, e, FALSE)
          <6>1. CASE Lives(c, e) = TRUE
            BY <4>3, <6>1
          <6>2. CASE Lives(c, e) = FALSE
            BY <4>3, <6>2
          <6> QED BY <2>1, <6>1, <6>2
        <5>2. e \in model'[c] <=> e \in model[c]
          BY <3>2, <5>1
        <5>3. SaysIn(network, c, e, Lives(c, e)) => SaysIn(network', c, e, Lives(c, e))
          BY <3>4, <4>3 DEF SaysIn
        <5> QED BY <2>1, <2>2, <3>1, <5>2, <5>3 DEF ModelIsRight
      <4> QED BY <4>1, <4>2, <4>3
    <3>6. FlightIsRight(c, e)'
      <4> SUFFICES ASSUME NEW k \in DOMAIN network', Says(network'[k], c, e, ~Lives(c, e)), ~ToldAfter(0, c, e)
                   PROVE  \E j \in DOMAIN network' : j > k /\ Says(network'[j], c, e, Lives(c, e))
        BY <2>1, <2>2 DEF FlightIsRight
      <4>1. k \in Nat \ {0} /\ k + 1 \in DOMAIN network /\ network'[k] = network[k + 1]
        BY <1>2
      <4>2. PICK j \in DOMAIN network : j > k + 1 /\ Says(network[j], c, e, Lives(c, e))
        BY <3>1, <4>1 DEF FlightIsRight
      <4>3. j # 1 /\ j - 1 > k
        BY <1>3, <4>1, <4>2
      <4> QED BY <1>4, <4>2, <4>3
    <3> QED BY <3>5, <3>6 DEF WillShow
  <2> QED BY <2>3, <2>4 DEF Told
<1> QED BY <1>6, <1>7 DEF SyncInv

LEMMA SyncKept ==
    ASSUME Types, SyncInv, SnapshotsFit, ~MayLose, ~MayReorder, [Next]_vars
    PROVE  SyncInv'
\* What tells nothing and sends nothing does not matter, as long as no client
\* without a snapshot to come becomes one.
<1>1. ASSUME UNCHANGED <<serverVars, posted, network, model, served>>,
             UNCHANGED entryVars \/ needsFull' = TRUE \/ session' # "current"
      PROVE  SyncInv'
  <2>1. /\ world' = world /\ dirty' = dirty /\ cache' = cache /\ phase' = phase /\ posted' = posted
        /\ network' = network /\ model' = model /\ served' = served
    BY <1>1 DEF serverVars
  <2>2. Fresh'
    BY <1>1, <2>1 DEF SyncInv, Fresh, entryVars
  <2>3. ASSUME NEW c \in ChunkId, NEW e \in CellId PROVE Told(c, e)'
    <3>1. Lives(c, e)' = Lives(c, e)
      BY <2>1 DEF Lives
    <3>2. \A k : ToldAfter(k, c, e)' <=> ToldAfter(k, c, e)
      BY <2>1, <3>1 DEF ToldAfter
    <3>3. Told(c, e)
      BY DEF SyncInv
    <3>4. LastWordIsTrue(c, e)'
      BY <2>1, <3>1, <3>2, <3>3 DEF Told, LastWordIsTrue
    <3>5. ASSUME Owed(c, e)' PROVE WillShow(c, e)'
      <4>1. WillShow(c, e)
        BY <1>1, <2>1, <3>1, <3>3, <3>5 DEF Told, Owed, entryVars
      <4>2. ModelIsRight(c, e)'
        BY <2>1, <3>1, <3>2, <4>1 DEF WillShow, ModelIsRight
      <4>3. FlightIsRight(c, e)'
        BY <2>1, <3>1, <3>2, <4>1 DEF WillShow, FlightIsRight
      <4> QED BY <4>2, <4>3 DEF WillShow
    <3> QED BY <3>4, <3>5 DEF Told
  <2> QED BY <2>2, <2>3 DEF SyncInv
<1>2. ASSUME NEW next \in Worlds, NEW touched \in Worlds, Tick(next, touched) PROVE SyncInv'
  BY <1>2, TickTells
<1>3. CASE Broadcast
  BY <1>3, BroadcastTells
<1>4. CASE DoUdpBroadcast
  BY <1>4, UdpBroadcastTells
<1>5. CASE ReadMessage
  BY <1>1, <1>5 DEF ReadMessage, Register, MarkEntry, clientVars
<1>12. CASE ReadStale
  BY <1>1, <1>12, ReadsEntry DEF ReadStale, clientVars
<1>6. ASSUME NEW i \in 1 .. Len(network), Deliver(i) PROVE SyncInv'
  BY <1>6, DeliverTells
<1>7. ASSUME NEW i \in 1 .. Len(network), Lose(i) PROVE SyncInv'
  BY <1>7 DEF Lose
<1>8. CASE Connect
  BY <1>1, <1>8 DEF Connect, clientVars
<1>9. CASE Disconnect
  <2>1. /\ world' = world /\ dirty' = dirty /\ cache' = cache /\ phase' = phase /\ posted' = posted
        /\ network' = <<>> /\ session' # "current" /\ model' = model /\ served' = served
    BY <1>9 DEF Disconnect, serverVars, clientVars
  <2>2. Fresh'
    BY <2>1 DEF SyncInv, Fresh
  <2>3. ASSUME NEW c \in ChunkId, NEW e \in CellId PROVE Told(c, e)'
    <3>1. Lives(c, e)' = Lives(c, e) /\ LastWordIsTrue(c, e)
      BY <2>1 DEF Lives, SyncInv, Told
    <3>2. \A k : ToldAfter(k, c, e)' <=> ToldAfter(k, c, e)
      BY <2>1, <3>1 DEF ToldAfter
    <3>3. LastWordIsTrue(c, e)'
      BY <2>1, <3>1, <3>2 DEF LastWordIsTrue
    <3>4. ~Owed(c, e)'
      BY <2>1 DEF Owed
    <3> QED BY <3>3, <3>4 DEF Told
  <2> QED BY <2>2, <2>3 DEF SyncInv
<1>10. CASE SendResync
  BY <1>1, <1>10 DEF SendResync, clientVars
<1>11. CASE UNCHANGED vars
  BY <1>1, <1>11 DEF vars, clientVars
<1> QED BY <1>2, <1>3, <1>4, <1>5, <1>6, <1>7, <1>8, <1>9, <1>10, <1>11, <1>12, TouchedType
     DEF Next, TickThread, IoThread, ClientStep

LEMMA SyncInitially == Init => SyncInv
<1> SUFFICES ASSUME Init PROVE SyncInv
  OBVIOUS
<1>1. Fresh
  BY DEF Init, Fresh
<1>2. ASSUME NEW c \in ChunkId, NEW e \in CellId PROVE Told(c, e)
  <2>1. posted = <<>> /\ session = "none"
    BY DEF Init
  <2> QED BY <2>1 DEF Told, LastWordIsTrue, Owed
<1> QED BY <1>1, <1>2 DEF SyncInv

\* What a settled client shows of a cell it was due word of.
LEMMA SettledShows ==
    ASSUME Types, SyncInv, Settled, NEW c \in ChunkId, NEW e \in CellId, Lives(c, e) \/ served = 1
    PROVE  e \in model[c] <=> e \in world[c]
<1>1. posted = <<>> /\ network = <<>> /\ dirty = NoLife /\ session = "current" /\ ~needsFull
  BY DEF Settled, SyncInv, Fresh
<1>2. WillShow(c, e)
  BY <1>1 DEF SyncInv, Told, Owed
<1>3. ~SaysIn(network, c, e, Lives(c, e)) /\ ~ToldAfter(0, c, e)
  BY <1>1 DEF SaysIn, ToldAfter, NoLife
<1> QED BY <1>2, <1>3 DEF WillShow, ModelIsRight, Lives

LEMMA InvShows ==
    ASSUME Types, SyncInv
    PROVE  NoMissingCell /\ ExactAfterFirstSnapshot
<1>1. \A c \in ChunkId : world[c] \subseteq CellId /\ model[c] \subseteq CellId
  BY DEF Types, Worlds
<1>2. NoMissingCell
  BY <1>1, SettledShows DEF NoMissingCell, Lives
<1>3. ASSUME Settled, served <= 1 PROVE model = world
  <2>1. served # 0 /\ served \in 0 .. 2
    BY <1>3 DEF Settled, SyncInv, Fresh, Types
  <2>2. served = 1
    BY <1>3, <2>1
  <2>3. \A c \in ChunkId : model[c] = world[c]
    BY <1>1, <1>3, <2>2, SettledShows
  <2> QED BY <2>3 DEF Types, Worlds
<1> QED BY <1>2, <1>3 DEF ExactAfterFirstSnapshot

\* The guarantee behind a session's needsFullSnapshot and the io thread's
\* order, for any world, any queues and any interleaving of ticks, handlers
\* and reconnections: over a network that keeps every datagram in order, and
\* as long as a chunk of a snapshot fits one packet, a settled client shows
\* every living cell.  (Two full packets of one chunk undo each other:
\* WorldModel::applyUpdate forgets the chunk at each.)
THEOREM NothingIsMissing ==
    ASSUME ~MayLose, ~MayReorder
    PROVE  Spec /\ []SnapshotsFit => []NoMissingCell
<1>1. Types /\ SyncInv /\ SnapshotsFit /\ [Next]_vars => Types' /\ SyncInv'
  BY TypesKept, SyncKept
<1>2. Types /\ SyncInv => NoMissingCell
  BY InvShows
<1> QED BY <1>1, <1>2, TypesInitially, SyncInitially, PTL DEF Spec

\* Under the same hypotheses a client that has had one snapshot shows exactly
\* the server's world: what died is taken away by the deltas.
THEOREM FirstSnapshotIsExact ==
    ASSUME ~MayLose, ~MayReorder
    PROVE  Spec /\ []SnapshotsFit => []ExactAfterFirstSnapshot
<1>1. Types /\ SyncInv /\ SnapshotsFit /\ [Next]_vars => Types' /\ SyncInv'
  BY TypesKept, SyncKept
<1>2. Types /\ SyncInv => ExactAfterFirstSnapshot
  BY InvShows
<1> QED BY <1>1, <1>2, TypesInitially, SyncInitially, PTL DEF Spec

=============================================================================
