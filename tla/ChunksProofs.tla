---------------------------- MODULE ChunksProofs ----------------------------
(***************************************************************************)
(* The chunks of a list are a partition of it into jobs of at most the     *)
(* chunk size, for every length and every size.                            *)
(***************************************************************************)
EXTENDS Chunks, FiniteSets, FiniteSetTheorems, TLAPS

\* The quotient and what it leaves.
LEMMA Division ==
  ASSUME NEW a \in Nat, NEW d \in Nat \ {0}
  PROVE  a \div d \in Nat /\ d * (a \div d) <= a /\ a < d * (a \div d) + d
BY SMT

\* Chunks that start at different multiples of the size do not meet.
LEMMA Multiples ==
  ASSUME NEW d \in Nat \ {0}, NEW i \in Nat, NEW j \in Nat, i < j
  PROVE  d * i + d <= d * j
BY SMT

\* The loop runs exactly over the chunks that begin inside the list.
LEMMA CountIsExact ==
  ASSUME NEW n \in Nat, NEW size \in Nat \ {0}, NEW i \in Nat
  PROVE  /\ ChunksCount(n, size) \in Nat
         /\ i < ChunksCount(n, size) <=> ChunkStart(size, i) < n
<1> DEFINE q == ChunksCount(n, size)
<1>1. q \in Nat /\ size * q <= n + size - 1 /\ n + size - 1 < size * q + size
  BY Division, n + size - 1 \in Nat DEF ChunksCount
<1>2. CASE i < q
  <2>1. size * i + size <= size * q
    BY <1>1, <1>2, Multiples
  <2> QED
    BY <1>1, <1>2, <2>1, size * i \in Nat, size * q \in Nat DEF ChunkStart
<1>3. CASE ~(i < q)
  <2>1. size * q <= size * i
    <3>1. CASE i = q
      BY <1>1, <3>1
    <3>2. CASE q < i
      BY <1>1, <3>2, Multiples, size * q \in Nat, size * i \in Nat
    <3> QED
      BY <1>1, <1>3, <3>1, <3>2
  <2> QED
    BY <1>1, <1>3, <2>1, size * i \in Nat, size * q \in Nat DEF ChunkStart
<1> QED
  BY <1>2, <1>3

\* Every chunk lies in the list, has at least one element and at most size.
THEOREM ChunksAreBounded ==
  ASSUME NEW n \in Nat, NEW size \in Nat \ {0}, NEW i \in 0 .. ChunksCount(n, size) - 1
  PROVE  /\ ChunkPositions(n, size, i) \subseteq 1 .. n
         /\ Cardinality(ChunkPositions(n, size, i)) \in 1 .. size
<1> DEFINE s == ChunkStart(size, i)
           e == ChunkEnd(n, size, i)
<1>1. i \in Nat /\ s \in Nat /\ s < n
  BY CountIsExact DEF ChunkStart
<1>2. e \in Nat /\ s < e /\ e <= n /\ e <= s + size
  BY <1>1 DEF ChunkEnd
<1>3. Cardinality(ChunkPositions(n, size, i)) = e - s
  BY <1>1, <1>2, FS_Interval, s + 1 \in Int, e \in Int DEF ChunkPositions
<1> QED
  BY <1>1, <1>2, <1>3 DEF ChunkPositions

\* Two chunks have no position in common.
THEOREM ChunksAreDisjoint ==
  ASSUME NEW n \in Nat, NEW size \in Nat \ {0}, NEW i \in Nat, NEW j \in Nat, i # j
  PROVE  ChunkPositions(n, size, i) \cap ChunkPositions(n, size, j) = {}
<1>1. ASSUME NEW g \in Nat, NEW h \in Nat, g < h
      PROVE  ChunkPositions(n, size, g) \cap ChunkPositions(n, size, h) = {}
  <2>1. size * g + size <= size * h /\ size * g \in Nat /\ size * h \in Nat
    BY <1>1, Multiples
  <2> QED
    BY <2>1 DEF ChunkPositions, ChunkStart, ChunkEnd
<1> QED
  BY <1>1

\* Every position of the list is in a chunk the loop sends.
THEOREM ChunksCover ==
  ASSUME NEW n \in Nat, NEW size \in Nat \ {0}, NEW p \in 1 .. n
  PROVE  \E i \in 0 .. ChunksCount(n, size) - 1 : p \in ChunkPositions(n, size, i)
<1> DEFINE i == (p - 1) \div size
<1>1. i \in Nat /\ size * i <= p - 1 /\ p - 1 < size * i + size
  BY Division, p - 1 \in Nat
<1>2. i < ChunksCount(n, size)
  <2>1. ChunkStart(size, i) < n
    BY <1>1, size * i \in Nat DEF ChunkStart
  <2> HIDE DEF i
  <2> QED
    BY <1>1, <2>1, CountIsExact
<1>3. p \in ChunkPositions(n, size, i)
  BY <1>1, size * i \in Nat DEF ChunkPositions, ChunkStart, ChunkEnd
<1> QED
  BY <1>1, <1>2, <1>3, CountIsExact

\* The jobs made of a list carry exactly its elements.
THEOREM ChunksCarryTheList ==
  ASSUME NEW S, NEW list \in Seq(S), NEW size \in Nat \ {0}
  PROVE  Elements(list)
           = UNION {Chunk(list, size, i) : i \in 0 .. ChunksCount(Len(list), size) - 1}
<1>1. Len(list) \in Nat
  OBVIOUS
<1>2. ASSUME NEW p \in 1 .. Len(list)
      PROVE  \E i \in 0 .. ChunksCount(Len(list), size) - 1 : list[p] \in Chunk(list, size, i)
  BY <1>1, <1>2, ChunksCover DEF Chunk
<1>3. ASSUME NEW i \in 0 .. ChunksCount(Len(list), size) - 1
      PROVE  Chunk(list, size, i) \subseteq Elements(list)
  BY <1>1, <1>3, ChunksAreBounded DEF Chunk, Elements
<1> QED
  BY <1>2, <1>3 DEF Elements
=============================================================================
