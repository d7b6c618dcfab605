------------------------- MODULE PipelineOnceProofs -------------------------
(***************************************************************************)
(* What a block gives to the database is stored once, no insert of a       *)
(* worker fails, and the pipeline implements the abstract seeding: for     *)
(* every chain, every size of chunks, channels and pools and every number  *)
(* of faults.                                                              *)
(***************************************************************************)
EXTENDS PipelineProofs, ChunksProofs

-----------------------------------------------------------------------------
\* What a loop over the chunks of a list has still to send.

Rest(list, size, k) ==
  UNION {Chunk(list, size, l) : l \in k .. ChunksCount(Len(list), size)}

\* The positions of a chunk are positions of the list.
LEMMA PositionsInList ==
  ASSUME NEW n \in Nat, NEW size \in Nat \ {0}, NEW k \in Nat
  PROVE  ChunkPositions(n, size, k) \subseteq 1 .. n
<1>1. size * k \in Nat
  OBVIOUS
<1> QED
  BY <1>1 DEF ChunkPositions, ChunkStart, ChunkEnd

\* At first that is the list.
LEMMA RestStarts ==
  ASSUME NEW S, NEW list \in Seq(S), NEW size \in Nat \ {0}
  PROVE  Rest(list, size, 0) = Elements(list)
<1> DEFINE c == ChunksCount(Len(list), size)
<1>1. c \in Nat
  <2>1. Len(list) \in Nat
    OBVIOUS
  <2> QED
    BY <2>1, CountIsExact
<1>2. Elements(list) = UNION {Chunk(list, size, i) : i \in 0 .. c - 1}
  BY ChunksCarryTheList
<1>3. \A l \in Nat : Chunk(list, size, l) \subseteq Elements(list)
  BY ChunkInElements
<1> HIDE DEF c
<1>4. (0 .. c - 1) \subseteq (0 .. c) /\ (0 .. c) \subseteq Nat
  BY <1>1
<1>5. Rest(list, size, 0) = UNION {Chunk(list, size, i) : i \in 0 .. c}
  BY DEF Rest, c
<1> QED
  BY <1>2, <1>3, <1>4, <1>5

\* A step of the loop takes one chunk off.
LEMMA RestSteps ==
  ASSUME NEW S, NEW list \in Seq(S), NEW size \in Nat \ {0},
         NEW k \in Nat, k <= ChunksCount(Len(list), size)
  PROVE  Rest(list, size, k) = Chunk(list, size, k) \cup Rest(list, size, k + 1)
<1> DEFINE c == ChunksCount(Len(list), size)
<1>1. c \in Nat
  <2>1. Len(list) \in Nat
    OBVIOUS
  <2> QED
    BY <2>1, CountIsExact
<1> HIDE DEF c
<1>2. k .. c = {k} \cup ((k + 1) .. c)
  BY <1>1 DEF c
<1> QED
  BY <1>2 DEF Rest, c

\* That chunk has no element of the others.
LEMMA RestDisjoint ==
  ASSUME NEW S, NEW list \in Seq(S), NEW size \in Nat \ {0}, NEW k \in Nat, Distinct(list)
  PROVE  Chunk(list, size, k) \cap Rest(list, size, k + 1) = {}
<1> DEFINE n == Len(list)
           c == ChunksCount(Len(list), size)
<1>1. n \in Nat /\ c \in Nat
  <2>1. Len(list) \in Nat
    OBVIOUS
  <2> QED
    BY <2>1, CountIsExact
<1>2. ASSUME NEW l \in (k + 1) .. c PROVE Chunk(list, size, k) \cap Chunk(list, size, l) = {}
  <2>1. l \in Nat /\ l # k
    BY <1>1, <1>2
  <2>2. ChunkPositions(n, size, k) \cap ChunkPositions(n, size, l) = {}
    BY <1>1, <2>1, ChunksAreDisjoint
  <2>3. ChunkPositions(n, size, k) \subseteq 1 .. n /\ ChunkPositions(n, size, l) \subseteq 1 .. n
    BY <1>1, <2>1, PositionsInList
  <2> QED
    BY <2>2, <2>3 DEF Chunk, Distinct
<1> QED
  BY <1>2 DEF Rest

\* After the last chunk nothing is left.
LEMMA RestEnds ==
  ASSUME NEW S, NEW list \in Seq(S), NEW size \in Nat \ {0},
         NEW k \in Nat, ChunksCount(Len(list), size) <= k
  PROVE  Rest(list, size, k) = {}
<1> DEFINE n == Len(list)
           c == ChunksCount(Len(list), size)
<1>1. n \in Nat
  OBVIOUS
<1>2. c \in Nat
  BY <1>1, CountIsExact
<1>3. ~(c < c)
  BY <1>2
<1>4. ~(ChunkStart(size, c) < n)
  BY <1>1, <1>2, <1>3, CountIsExact
<1>5. ChunkPositions(n, size, c) = {}
  <2>1. ChunkStart(size, c) \in Nat
    BY <1>2 DEF ChunkStart
  <2> HIDE DEF c, n
  <2> QED
    BY <1>1, <1>4, <2>1 DEF ChunkPositions, ChunkEnd
<1>6. Chunk(list, size, c) = {}
  BY <1>5 DEF Chunk
<1>7. \A l \in k .. c : l = c
  BY <1>2
<1> QED
  BY <1>6, <1>7 DEF Rest

-----------------------------------------------------------------------------
\* The same for the lists of a block.

EventsFrom(h, k) ==
  Rest(RewardsOf[h], EventsChunkSize, k)
    \cup Rest(SlashesOf[h], EventsChunkSize, IF k < RewardChunks(h) THEN 0 ELSE k - RewardChunks(h))

LEMMA BlockLists ==
  ASSUME NEW h \in Height
  PROVE  /\ TxsOf[h] \in Seq(Tx) /\ RewardsOf[h] \in Seq(Reward) /\ SlashesOf[h] \in Seq(Slash)
         /\ Distinct(TxsOf[h]) /\ Distinct(RewardsOf[h]) /\ Distinct(SlashesOf[h])
         /\ TxChunkSize \in Nat \ {0} /\ EventsChunkSize \in Nat \ {0}
         /\ RewardChunks(h) \in Nat /\ TxChunks(h) \in Nat /\ EventChunks(h) \in Nat
         /\ ChunksCount(Len(SlashesOf[h]), EventsChunkSize) \in Nat
         /\ EventChunks(h) = RewardChunks(h) + ChunksCount(Len(SlashesOf[h]), EventsChunkSize)
<1>1. TxChunkSize \in Nat \ {0} /\ EventsChunkSize \in Nat \ {0}
  BY ParametersAssumption
<1>2. SlashesOf[h] \in Seq(Slash)
  BY ChainAssumption
<1>3. Len(SlashesOf[h]) \in Nat
  BY <1>2
<1>4. ChunksCount(Len(SlashesOf[h]), EventsChunkSize) \in Nat
  BY <1>1, <1>3, CountIsExact
<1> QED
  BY <1>1, <1>4, ChainAssumption, ChunkCounts DEF EventChunks

\* The events goroutine starts with all events, ends with none and takes one
\* chunk off at a time, which has nothing in common with the rest.
LEMMA EventsStart ==
  ASSUME NEW h \in Height
  PROVE  EventsFrom(h, 0) = Elements(RewardsOf[h]) \cup Elements(SlashesOf[h])
<1>1. RewardChunks(h) \in Nat
  BY BlockLists
<1>2. (IF 0 < RewardChunks(h) THEN 0 ELSE 0 - RewardChunks(h)) = 0
  BY <1>1
<1>3. Rest(RewardsOf[h], EventsChunkSize, 0) = Elements(RewardsOf[h])
  BY BlockLists, RestStarts
<1>4. Rest(SlashesOf[h], EventsChunkSize, 0) = Elements(SlashesOf[h])
  BY BlockLists, RestStarts
<1> QED
  BY <1>2, <1>3, <1>4 DEF EventsFrom

LEMMA EventsEnd ==
  ASSUME NEW h \in Height
  PROVE  EventsFrom(h, EventChunks(h)) = {}
<1> DEFINE r == RewardChunks(h)
           s == ChunksCount(Len(SlashesOf[h]), EventsChunkSize)
           e == EventChunks(h)
<1>1. r \in Nat /\ s \in Nat /\ e = r + s /\ EventsChunkSize \in Nat \ {0}
  BY BlockLists
<1>2. e \in Nat /\ r <= e /\ ~(e < r) /\ e - r = s
  <2> HIDE DEF r, s, e
  <2> QED
    BY <1>1
<1>3. RewardsOf[h] \in Seq(Reward) /\ SlashesOf[h] \in Seq(Slash)
  BY BlockLists
<1>4. Rest(RewardsOf[h], EventsChunkSize, e) = {}
  <2>1. ChunksCount(Len(RewardsOf[h]), EventsChunkSize) <= e
    BY <1>2 DEF RewardChunks
  <2> QED
    BY <1>1, <1>2, <1>3, <2>1, RestEnds
<1>5. Rest(SlashesOf[h], EventsChunkSize, s) = {}
  <2>1. s <= s
    BY <1>1
  <2> QED
    BY <1>1, <1>3, <2>1, RestEnds
<1> QED
  BY <1>2, <1>4, <1>5 DEF EventsFrom

EventChunk(h, k) ==
  IF k < RewardChunks(h) THEN Chunk(RewardsOf[h], EventsChunkSize, k)
                         ELSE Chunk(SlashesOf[h], EventsChunkSize, k - RewardChunks(h))

LEMMA EventsStep ==
  ASSUME NEW h \in Height, NEW k \in Nat, k < EventChunks(h)
  PROVE  /\ EventsFrom(h, k) = EventChunk(h, k) \cup EventsFrom(h, k + 1)
         /\ EventChunk(h, k) \cap EventsFrom(h, k + 1) = {}
         /\ EventChunk(h, k) \subseteq Elements(RewardsOf[h]) \cup Elements(SlashesOf[h])
<1> DEFINE r == RewardChunks(h)
           s == ChunksCount(Len(SlashesOf[h]), EventsChunkSize)
           R(n) == Rest(RewardsOf[h], EventsChunkSize, n)
           S(n) == Rest(SlashesOf[h], EventsChunkSize, n)
           CR(n) == Chunk(RewardsOf[h], EventsChunkSize, n)
           CS(n) == Chunk(SlashesOf[h], EventsChunkSize, n)
<1>1. r \in Nat /\ s \in Nat /\ EventChunks(h) = r + s
  BY BlockLists
<1>2. /\ \A n \in Nat : n <= r => R(n) = CR(n) \cup R(n + 1)
      /\ \A n \in Nat : CR(n) \cap R(n + 1) = {}
      /\ \A n \in Nat : r <= n => R(n) = {}
      /\ \A n \in Nat : CR(n) \subseteq Elements(RewardsOf[h])
  BY BlockLists, RestSteps, RestDisjoint, RestEnds, ChunkInElements DEF RewardChunks
<1>3. /\ \A n \in Nat : n <= s => S(n) = CS(n) \cup S(n + 1)
      /\ \A n \in Nat : CS(n) \cap S(n + 1) = {}
      /\ \A n \in Nat : CS(n) \subseteq Elements(SlashesOf[h])
  BY BlockLists, RestSteps, RestDisjoint, ChunkInElements
<1>4. S(0) \subseteq Elements(SlashesOf[h])
  <2>1. S(0) = Elements(SlashesOf[h])
    BY BlockLists, RestStarts
  <2> QED
    BY <2>1
<1>5. Elements(RewardsOf[h]) \cap Elements(SlashesOf[h]) = {}
  BY ItemsAreItems, ChainAssumption
<1>6. /\ \A n \in Nat : n < r => EventsFrom(h, n) = R(n) \cup S(0)
      /\ \A n \in Nat : ~(n < r) => EventsFrom(h, n) = R(n) \cup S(n - r)
  BY DEF EventsFrom
<1>7. EventChunk(h, k) = IF k < r THEN CR(k) ELSE CS(k - r)
  BY DEF EventChunk
<1> HIDE DEF r, s, R, S, CR, CS
<1>8. CASE k < r
  <2>1. k + 1 \in Nat /\ (k + 1 < r \/ k + 1 = r) /\ r \in Nat /\ r - r = 0 /\ ~(r < r)
    BY <1>1, <1>8
  <2>2. EventsFrom(h, k) = R(k) \cup S(0) /\ EventsFrom(h, k + 1) = R(k + 1) \cup S(0)
    <3>1. EventsFrom(h, r) = R(r) \cup S(0)
      BY <1>6, <2>1
    <3> QED
      BY <1>6, <1>8, <2>1, <3>1
  <2>3. R(k) = CR(k) \cup R(k + 1) /\ CR(k) \cap R(k + 1) = {} /\ k <= r
    BY <1>1, <1>2, <1>8
  <2>4. EventChunk(h, k) = CR(k) /\ CR(k) \subseteq Elements(RewardsOf[h])
    BY <1>2, <1>7, <1>8
  <2> QED
    BY <1>4, <1>5, <2>2, <2>3, <2>4
<1>9. CASE ~(k < r)
  <2>1. PICK m \in Nat : m = k + 1
    OBVIOUS
  <2>2. PICK d \in Nat : d = k - r /\ d + 1 = m - r /\ d <= s /\ ~(m < r) /\ r <= k /\ r <= m
    BY <1>1, <1>9, <2>1
  <2>3. R(k) = {} /\ R(m) = {}
    BY <1>2, <2>2
  <2>4. EventsFrom(h, k) = S(k - r) /\ EventsFrom(h, m) = S(m - r)
    BY <1>6, <1>9, <2>2, <2>3
  <2>5. S(d) = CS(d) \cup S(d + 1) /\ CS(d) \cap S(d + 1) = {}
    BY <1>3, <2>2
  <2>6. EventChunk(h, k) = CS(d) /\ CS(d) \subseteq Elements(SlashesOf[h])
    BY <1>3, <1>7, <1>9, <2>2
  <2>7. EventsFrom(h, k) = S(d) /\ EventsFrom(h, m) = S(d + 1)
    BY <2>2, <2>4
  <2> QED
    BY <2>1, <2>5, <2>6, <2>7
<1> QED
  BY <1>8, <1>9

\* What the loop has still to send of a block's transactions.
TxsFrom(h, k) == Rest(TxsOf[h], TxChunkSize, k)

LEMMA TxsStep ==
  ASSUME NEW h \in Height, NEW k \in Nat, k < TxChunks(h)
  PROVE  /\ TxsFrom(h, k) = TxChunk(h, k) \cup TxsFrom(h, k + 1)
         /\ TxChunk(h, k) \cap TxsFrom(h, k + 1) = {}
<1>1. k <= ChunksCount(Len(TxsOf[h]), TxChunkSize)
  BY BlockLists DEF TxChunks
<1> QED
  BY <1>1, BlockLists, RestSteps, RestDisjoint DEF TxsFrom, TxChunk

LEMMA TxsEnd ==
  ASSUME NEW h \in Height, NEW k \in Nat, TxChunks(h) <= k
  PROVE  TxsFrom(h, k) = {}
<1>1. ChunksCount(Len(TxsOf[h]), TxChunkSize) <= k
  BY DEF TxChunks
<1> QED
  BY <1>1, BlockLists, RestEnds DEF TxsFrom

LEMMA TxsStart ==
  ASSUME NEW h \in Height
  PROVE  TxsFrom(h, 0) = TxItems(h) /\ \A k \in Nat : TxsFrom(h, k) \subseteq TxItems(h)
<1>1. TxsFrom(h, 0) = TxItems(h)
  BY BlockLists, RestStarts DEF TxsFrom, TxItems
<1>2. ASSUME NEW k \in Nat PROVE TxsFrom(h, k) \subseteq TxItems(h)
  <2>1. TxChunks(h) \in Nat
    BY BlockLists
  <2>2. \A l \in k .. TxChunks(h) : l \in Nat
    BY <2>1
  <2>3. \A l \in Nat : TxChunk(h, l) \subseteq TxItems(h)
    BY ChunksAreItems
  <2> QED
    BY <2>2, <2>3 DEF TxsFrom, Rest, TxChunk, TxChunks
<1> QED
  BY <1>1, <1>2

LEMMA EventsInBlock ==
  ASSUME NEW h \in Height, NEW k \in Nat
  PROVE  EventsFrom(h, k) \subseteq Elements(RewardsOf[h]) \cup Elements(SlashesOf[h])
<1>1. /\ \A l \in Nat : Chunk(RewardsOf[h], EventsChunkSize, l) \subseteq Elements(RewardsOf[h])
      /\ \A l \in Nat : Chunk(SlashesOf[h], EventsChunkSize, l) \subseteq Elements(SlashesOf[h])
  BY ChunksAreItems
<1>2. RewardChunks(h) \in Nat /\ (IF k < RewardChunks(h) THEN 0 ELSE k - RewardChunks(h)) \in Nat
  BY BlockLists
<1>3. \A a \in Nat, b \in Int : \A l \in a .. b : l \in Nat
  OBVIOUS
<1>4. /\ ChunksCount(Len(RewardsOf[h]), EventsChunkSize) \in Int
      /\ ChunksCount(Len(SlashesOf[h]), EventsChunkSize) \in Int
  BY BlockLists DEF RewardChunks
<1> QED
  BY <1>1, <1>2, <1>3, <1>4 DEF EventsFrom, Rest

-----------------------------------------------------------------------------
\* What is unsent, and how the steps of the loop change it.

Unsent(i) == i \in UnsentTxs \cup UNION {UnsentEvents(h) : h \in Height}

EventsOf(h) == Elements(RewardsOf[h]) \cup Elements(SlashesOf[h])

\* The loop sends chunks of a block with validators, and only chunks there are.
LoopFit ==
  /\ pc \in {"valid", "invalid"} => height \notin NoValidators /\ chunk < TxChunks(height)
  /\ Up /\ pc # "save" => left[height] = 0

\* The events left when a block's goroutine has l chunks to send.
EventsLeft(h, l) ==
  LET sent == EventChunks(h) - l IN
  IF l = 0 THEN {} ELSE
  (UNION {Chunk(RewardsOf[h], EventsChunkSize, k) : k \in sent .. RewardChunks(h)})
  \cup UNION {Chunk(SlashesOf[h], EventsChunkSize, k - RewardChunks(h)) :
               k \in {n \in sent .. EventChunks(h) : n >= RewardChunks(h)}}

LEMMA EventsLeftAre ==
  ASSUME NEW h \in Height, NEW l \in Nat, l <= EventChunks(h)
  PROVE  /\ EventsLeft(h, l) = EventsFrom(h, EventChunks(h) - l)
         /\ EventChunks(h) - l \in Nat
         /\ EventsLeft(h, l) \subseteq EventsOf(h)
<1> DEFINE e == EventChunks(h)
           r == RewardChunks(h)
           n == e - l
<1>1. /\ e \in Nat /\ r \in Nat /\ n \in Nat
      /\ ChunksCount(Len(SlashesOf[h]), EventsChunkSize) = e - r
      /\ ChunksCount(Len(RewardsOf[h]), EventsChunkSize) = r
  BY BlockLists DEF RewardChunks
<1>2. EventsLeft(h, l) = EventsFrom(h, n)
  <2>1. CASE l = 0
    <3>1. n = e
      BY <1>1, <2>1
    <3>2. EventsLeft(h, l) = {}
      BY <2>1 DEF EventsLeft
    <3> QED
      BY <3>1, <3>2, EventsEnd
  <2>2. CASE l # 0
    <3> DEFINE CR(k) == Chunk(RewardsOf[h], EventsChunkSize, k)
               CS(k) == Chunk(SlashesOf[h], EventsChunkSize, k)
               from == IF n < r THEN 0 ELSE n - r
               A == {m \in n .. e : m >= r}
    <3>1. EventsLeft(h, l) = (UNION {CR(k) : k \in n .. r}) \cup UNION {CS(k - r) : k \in A}
      BY <2>2 DEF EventsLeft
    <3>2. EventsFrom(h, n) = (UNION {CR(k) : k \in n .. r}) \cup UNION {CS(k) : k \in from .. (e - r)}
      BY <1>1 DEF EventsFrom, Rest
    <3>3. UNION {CS(k - r) : k \in A} = UNION {CS(k) : k \in from .. (e - r)}
      <4> HIDE DEF CS, CR, n, e, r
      <4>1. \A k \in A : k - r \in from .. (e - r)
        BY <1>1
      <4>2. \A k \in from .. (e - r) : k + r \in A /\ (k + r) - r = k
        BY <1>1
      <4>3. ASSUME NEW x \in UNION {CS(k) : k \in from .. (e - r)}
            PROVE  x \in UNION {CS(k - r) : k \in A}
        <5>1. PICK k \in from .. (e - r) : x \in CS(k)
          OBVIOUS
        <5>2. PICK m \in A : m - r = k
          BY <4>2
        <5> QED
          BY <5>1, <5>2
      <4> QED
        BY <4>1, <4>3
    <3> QED
      BY <3>1, <3>2, <3>3
  <2> QED
    BY <2>1, <2>2
<1>3. EventsFrom(h, n) \subseteq EventsOf(h)
  BY <1>1, EventsInBlock DEF EventsOf
<1> QED
  BY <1>1, <1>2, <1>3

LEMMA UnsentEventsAre ==
  ASSUME TypeOK, NEW h \in Height
  PROVE  /\ UnsentEvents(h) = IF h = height /\ Up /\ pc # "save" THEN EventsOf(h)
                              ELSE EventsLeft(h, left[h])
         /\ left[h] \in Nat /\ left[h] <= EventChunks(h)
         /\ UnsentEvents(h) \subseteq EventsOf(h)
<1>1. left[h] \in Nat /\ left[h] <= EventChunks(h)
  BY DEF TypeOK
<1>2. UnsentEvents(h) = IF h = height /\ Up /\ pc # "save" THEN EventsOf(h)
                        ELSE EventsLeft(h, left[h])
  BY DEF UnsentEvents, EventsOf, EventsLeft
<1> QED
  BY <1>1, <1>2, EventsLeftAre

\* The transactions the loop has still to send.
LEMMA UnsentTxsAre ==
  ASSUME TypedChain, LoopFit
  PROVE  /\ pc = "link" => UnsentTxs = TxItems(height)
         /\ pc = "valid" => UnsentTxs = TxsFrom(height, chunk)
         /\ pc = "invalid" =>
              UnsentTxs = (TxChunk(height, chunk) \cap Invalid) \cup TxsFrom(height, chunk + 1)
         /\ pc \notin {"link", "valid", "invalid"} => UnsentTxs = {}
         /\ Up /\ pc # "save" => UnsentTxs \subseteq TxItems(height)
         /\ UnsentTxs \subseteq Tx
<1>1. /\ pc = "link" => UnsentTxs = TxItems(height)
      /\ pc = "valid" => UnsentTxs = TxsFrom(height, chunk)
      /\ pc = "invalid" =>
           UnsentTxs = (TxChunk(height, chunk) \cap Invalid) \cup TxsFrom(height, chunk + 1)
      /\ pc \notin {"link", "valid", "invalid"} => UnsentTxs = {}
  BY DEF UnsentTxs, TxsFrom, Rest, TxChunk, TxChunks
<1>2. chunk \in Nat /\ chunk + 1 \in Nat
  BY DEF TypedChain, TypeOK
<1>3. ASSUME Up, pc # "save" PROVE UnsentTxs \subseteq TxItems(height) /\ height \in Height
  <2>1. height \in Height
    BY <1>3, LoopAtLastBlock
  <2> QED
    BY <1>1, <1>2, <2>1, TxsStart, ChunksAreItems
<1>4. UnsentTxs \subseteq Tx
  <2>1. CASE Up /\ pc # "save"
    BY <1>3, <2>1, ItemsAreItems
  <2>2. CASE ~(Up /\ pc # "save")
    BY <1>1, <2>2 DEF Up
  <2> QED
    BY <2>1, <2>2
<1> QED
  BY <1>1, <1>3, <1>4

\* An item is unsent where its kind is.
LEMMA UnsentByKind ==
  ASSUME TypedChain, LoopFit
  PROVE  /\ \A i \in Tx : Unsent(i) <=> i \in UnsentTxs
         /\ \A h \in Height : \A i \in EventsOf(h) : Unsent(i) <=> i \in UnsentEvents(h)
         /\ \A i : Unsent(i) => i \in Item
<1>1. UnsentTxs \subseteq Tx
  BY UnsentTxsAre
<1>2. \A h \in Height : UnsentEvents(h) \subseteq EventsOf(h) /\ EventsOf(h) \subseteq Reward \cup Slash
  BY UnsentEventsAre, ItemsAreItems DEF EventsOf, TypedChain
<1>3. \A g, h \in Height : g # h => EventsOf(g) \cap EventsOf(h) = {}
  BY ChainAssumption DEF EventsOf, Items
<1>4. Tx \cap (Reward \cup Slash) = {}
  BY ChainAssumption
<1> QED
  BY <1>1, <1>2, <1>3, <1>4 DEF Unsent, Item

\* Steps that leave the loop and the goroutines alone.
LEMMA UnsentUnchanged ==
  ASSUME UNCHANGED <<main, left>>
  PROVE  \A i : Unsent(i)' <=> Unsent(i)
<1>1. UNCHANGED <<pc, height, chunk, left>>
  BY DEF main
<1>2. UNCHANGED UnsentTxs
  BY <1>1 DEF UnsentTxs
<1>3. \A h \in Height : UnsentEvents(h)' = UnsentEvents(h)
  BY <1>1 DEF UnsentEvents, Up
<1> QED
  BY <1>2, <1>3 DEF Unsent

\* Steps of the loop inside a block leave the events unsent.
LEMMA EventsStayUnsent ==
  ASSUME pc \in {"link", "valid", "invalid", "coins", "spawn"},
         pc' \in {"link", "valid", "invalid", "coins", "spawn"},
         UNCHANGED <<height, left>>
  PROVE  \A h \in Height : UnsentEvents(h)' = UnsentEvents(h)
BY DEF UnsentEvents, Up

\* SaveBlock makes the items of its block unsent, and they were not before.
LEMMA SaveBlockUnsent ==
  ASSUME TypedChain, Provenance, LoopFit, SaveBlock
  PROVE  /\ \A i \in Item : Unsent(i)' <=> Unsent(i) \/ i \in Items(height)
         /\ \A i \in Items(height) : ~Unsent(i)
<1>1. /\ height \in Height /\ pc = "save" /\ pc' = "link"
      /\ height \notin blocks /\ UNCHANGED <<height, chunk, left>>
  BY DEF SaveBlock, TypedChain, ChainInv, Up, Height, TypeOK, mem
<1>2. left[height] = 0
  BY <1>1 DEF Provenance, LoopPastLink, PastLink, TypedChain, TypeOK
<1>3. UnsentTxs = {} /\ UnsentTxs' = TxItems(height)
  BY <1>1 DEF UnsentTxs
<1>4. UnsentEvents(height) = {} /\ UnsentEvents(height)' = EventsOf(height)
  BY <1>1, <1>2 DEF UnsentEvents, EventsOf, Up
<1>5. \A h \in Height : h # height => UnsentEvents(h)' = UnsentEvents(h)
  BY <1>1 DEF UnsentEvents, Up
<1>6. \A h \in Height : h # height => UnsentEvents(h) \cap Items(height) = {}
  <2>1. \A h \in Height : UnsentEvents(h) \subseteq Items(h)
    BY UnsentEventsAre DEF EventsOf, Items, TypedChain
  <2> QED
    BY <1>1, <2>1, ChainAssumption
<1>7. Items(height) = TxItems(height) \cup EventsOf(height)
  BY DEF Items, EventsOf
<1> QED
  BY <1>1, <1>3, <1>4, <1>5, <1>6, <1>7 DEF Unsent

\* LinkBlockValidator drops the transactions of a block without validators.
LEMMA LinkUnsent ==
  ASSUME TypedChain, LoopFit, LinkBlockValidator
  PROVE  /\ \A i \in Item : Unsent(i)' => Unsent(i)
         /\ \A i \in Item : Unsent(i) /\ ~Unsent(i)' =>
              i \in TxItems(height) /\ height \in NoValidators
<1>1. /\ height \in Height /\ pc = "link" /\ pc' \in {"valid", "coins"}
      /\ UNCHANGED <<height, left>> /\ chunk' = 0
      /\ pc' = "coins" => TxItems(height) = {} \/ height \in NoValidators
  BY LoopAtLastBlock DEF LinkBlockValidator, Up, mem
<1>2. \A h \in Height : UnsentEvents(h)' = UnsentEvents(h)
  BY <1>1, EventsStayUnsent
<1>3. UnsentTxs = TxItems(height)
  BY <1>1 DEF UnsentTxs
<1>4. pc' = "valid" => UnsentTxs' = TxItems(height)
  <2>1. ASSUME pc' = "valid" PROVE UnsentTxs' = TxsFrom(height, 0)
    BY <1>1, <2>1 DEF UnsentTxs, TxsFrom, Rest, TxChunk, TxChunks
  <2> QED
    BY <1>1, <2>1, TxsStart
<1>5. pc' = "coins" => UnsentTxs' = {}
  BY DEF UnsentTxs
<1> QED
  BY <1>1, <1>2, <1>3, <1>4, <1>5 DEF Unsent

\* What the loop sends is no longer unsent, and it was before.
LEMMA SendTransactionsUnsent ==
  ASSUME TypedChain, LoopFit, SendTransactions
  PROVE  /\ \A i \in Item : Unsent(i)' <=> Unsent(i) /\ i \notin TxChunk(height, chunk) \ Invalid
         /\ \A i \in TxChunk(height, chunk) \ Invalid : Unsent(i) /\ i \in Tx
<1> DEFINE C == TxChunk(height, chunk)
           F == TxsFrom(height, chunk + 1)
<1>1. /\ height \in Height /\ pc = "valid" /\ pc' = "invalid" /\ chunk < TxChunks(height)
      /\ UNCHANGED <<height, chunk, left>> /\ chunk \in Nat
  BY LoopAtLastBlock DEF SendTransactions, Up, LoopFit, TypedChain, TypeOK
<1>2. UnsentTxs = TxsFrom(height, chunk)
  BY <1>1, UnsentTxsAre
<1>3. UnsentTxs' = (C \cap Invalid) \cup F
  <2>1. UnsentTxs' = (TxChunk(height, chunk) \cap Invalid) \cup TxsFrom(height, chunk + 1)
    BY <1>1 DEF UnsentTxs, TxsFrom, Rest, TxChunk, TxChunks
  <2> QED
    BY <2>1
<1>4. TxsFrom(height, chunk) = C \cup F /\ C \cap F = {}
  BY <1>1, TxsStep
<1>5. \A h \in Height : UnsentEvents(h)' = UnsentEvents(h)
  BY <1>1, EventsStayUnsent
<1>6. \A h \in Height : UnsentEvents(h) \cap Tx = {}
  BY UnsentEventsAre, ItemsAreItems, ChainAssumption DEF EventsOf, TypedChain
<1>7. C \subseteq Tx
  BY <1>1, ChunksAreItems, ItemsAreItems
<1> QED
  BY <1>2, <1>3, <1>4, <1>5, <1>6, <1>7 DEF Unsent

LEMMA SendInvalidTransactionsUnsent ==
  ASSUME TypedChain, LoopFit, SendInvalidTransactions
  PROVE  /\ \A i \in Item : Unsent(i)' <=> Unsent(i) /\ i \notin TxChunk(height, chunk) \cap Invalid
         /\ \A i \in TxChunk(height, chunk) \cap Invalid : Unsent(i) /\ i \in Tx
<1> DEFINE C == TxChunk(height, chunk)
           F == TxsFrom(height, chunk + 1)
<1>1. /\ height \in Height /\ pc = "invalid" /\ chunk < TxChunks(height)
      /\ UNCHANGED <<height, left>> /\ chunk \in Nat
      /\ pc' \in {"valid", "coins"}
      /\ pc' = "valid" => chunk' = chunk + 1
      /\ pc' = "coins" => ~(chunk + 1 < TxChunks(height))
  BY LoopAtLastBlock DEF SendInvalidTransactions, Up, LoopFit, TypedChain, TypeOK
<1>2. UnsentTxs = (C \cap Invalid) \cup F
  BY <1>1, UnsentTxsAre
<1>3. UnsentTxs' = F
  <2>1. CASE pc' = "valid"
    BY <1>1, <2>1 DEF UnsentTxs, TxsFrom, Rest, TxChunk, TxChunks
  <2>2. CASE pc' = "coins"
    <3>1. TxChunks(height) \in Nat
      BY <1>1, BlockLists
    <3>2. chunk + 1 \in Nat /\ TxChunks(height) <= chunk + 1
      BY <1>1, <2>2, <3>1
    <3>3. F = {}
      BY <1>1, <3>2, TxsEnd
    <3> QED
      BY <2>2, <3>3 DEF UnsentTxs
  <2> QED
    BY <1>1, <2>1, <2>2
<1>4. C \cap F = {}
  BY <1>1, TxsStep
<1>5. \A h \in Height : UnsentEvents(h)' = UnsentEvents(h)
  BY <1>1, EventsStayUnsent
<1>6. \A h \in Height : UnsentEvents(h) \cap Tx = {}
  BY UnsentEventsAre, ItemsAreItems, ChainAssumption DEF EventsOf, TypedChain
<1>7. C \subseteq Tx
  BY <1>1, ChunksAreItems, ItemsAreItems
<1> QED
  BY <1>2, <1>3, <1>4, <1>5, <1>6, <1>7 DEF Unsent

\* The rest of the loop sends nothing.
LEMMA CoinsUnsent ==
  ASSUME TypedChain, LoopFit, CreateNewCoins \/ StartGoroutines
  PROVE  \A i \in Item : Unsent(i)' <=> Unsent(i)
<1>1. pc \in {"coins", "spawn"} /\ pc' \in {"spawn", "save"}
  BY DEF CreateNewCoins, StartGoroutines
<1>2. UnsentTxs = {} /\ UnsentTxs' = {}
  BY <1>1 DEF UnsentTxs
<1>3. CASE CreateNewCoins
  <2>1. \A h \in Height : UnsentEvents(h)' = UnsentEvents(h)
    BY <1>3, EventsStayUnsent DEF CreateNewCoins, mem
  <2> QED
    BY <1>2, <2>1 DEF Unsent
<1>4. CASE StartGoroutines
  <2>1. /\ height \in Height /\ pc = "spawn" /\ pc' = "save" /\ height' = height + 1
        /\ left' = [left EXCEPT ![height] = EventChunks(height)] /\ left \in [Height -> Nat]
    BY <1>4, LoopAtLastBlock DEF StartGoroutines, Up, TypedChain, TypeOK
  <2>2. ASSUME NEW h \in Height, h # height PROVE UnsentEvents(h)' = UnsentEvents(h)
    BY <2>1, <2>2 DEF UnsentEvents, Up
  <2>3. UnsentEvents(height) = EventsOf(height)
    BY <2>1 DEF UnsentEvents, EventsOf, Up
  <2>4. ASSUME NEW h \in Height, h = height PROVE UnsentEvents(h)' = EventsOf(h)
    <3>1. left'[h] = EventChunks(h)
      BY <2>1, <2>4
    <3>2. UnsentEvents(h)' = EventsLeft(h, left'[h])
      BY <2>1 DEF UnsentEvents, EventsLeft, Up
    <3>3. EventChunks(h) \in Nat /\ EventChunks(h) <= EventChunks(h) /\ EventChunks(h) - EventChunks(h) = 0
      BY BlockLists
    <3>4. EventsLeft(h, EventChunks(h)) = EventsFrom(h, EventChunks(h) - EventChunks(h))
      BY <3>3, EventsLeftAre
    <3>5. EventsLeft(h, EventChunks(h)) = EventsFrom(h, 0)
      BY <3>3, <3>4
    <3> QED
      BY <3>1, <3>2, <3>5, EventsStart DEF EventsOf
  <2>5. \A h \in Height : UnsentEvents(h)' = UnsentEvents(h)
    BY <2>1, <2>2, <2>3, <2>4
  <2> QED
    BY <1>2, <2>5 DEF Unsent
<1> QED
  BY <1>3, <1>4

\* The goroutine of a block's events sends what is its next chunk.
LEMMA HandleEventResponseUnsent ==
  ASSUME TypedChain, LoopFit, NEW h \in Height, HandleEventResponse(h)
  PROVE  LET C == EventChunk(h, EventChunks(h) - left[h]) IN
         /\ \A i \in Item : Unsent(i)' <=> Unsent(i) /\ i \notin C
         /\ \A i \in C : Unsent(i) /\ i \in EventsOf(h)
         /\ EventChunks(h) - left[h] \in Nat
<1> DEFINE l == left[h]
           e == EventChunks(h)
           k == e - l
           C == EventChunk(h, k)
<1>1. /\ l \in Nat \ {0} /\ l <= e /\ e \in Nat
      /\ left' = [left EXCEPT ![h] = @ - 1] /\ left \in [Height -> Nat]
      /\ UNCHANGED <<pc, height, chunk>>
  BY BlockLists DEF HandleEventResponse, TypedChain, TypeOK, main
<1>2. k \in Nat /\ k < e /\ l - 1 \in Nat /\ l - 1 <= e /\ e - (l - 1) = k + 1
  <2> HIDE DEF l, e
  <2> QED
    BY <1>1
<1>3. ~(h = height /\ Up /\ pc # "save")
  BY <1>1 DEF LoopFit
<1>4. UnsentEvents(h) = EventsLeft(h, l)
  BY <1>3, UnsentEventsAre DEF TypedChain
<1>5. UnsentEvents(h)' = EventsLeft(h, l - 1)
  <2>1. left'[h] = l - 1
    BY <1>1
  <2>2. UnsentEvents(h)' = EventsLeft(h, left'[h])
    BY <1>1, <1>3 DEF UnsentEvents, EventsLeft, Up
  <2> QED
    BY <2>1, <2>2
<1>6. EventsLeft(h, l) = EventsFrom(h, k)
  BY <1>1, EventsLeftAre
<1>7. EventsLeft(h, l - 1) = EventsFrom(h, k + 1)
  <2>1. EventsLeft(h, l - 1) = EventsFrom(h, e - (l - 1))
    BY <1>1, <1>2, EventsLeftAre
  <2> QED
    BY <1>2, <2>1
<1>8. /\ EventsFrom(h, k) = C \cup EventsFrom(h, k + 1)
      /\ C \cap EventsFrom(h, k + 1) = {}
      /\ C \subseteq EventsOf(h)
  BY <1>2, EventsStep DEF EventsOf
<1>9. \A g \in Height : g # h => UnsentEvents(g)' = UnsentEvents(g)
  BY <1>1 DEF UnsentEvents, Up
<1>10. UNCHANGED UnsentTxs
  BY <1>1 DEF UnsentTxs
<1>11. UnsentTxs \cap C = {}
  BY <1>8, UnsentTxsAre, ItemsAreItems, ChainAssumption DEF EventsOf
<1>12. \A g \in Height : g # h => UnsentEvents(g) \cap C = {}
  <2>1. \A g \in Height : UnsentEvents(g) \subseteq Items(g)
    BY UnsentEventsAre DEF EventsOf, Items, TypedChain
  <2>2. C \subseteq Items(h)
    BY <1>8 DEF EventsOf, Items
  <2> QED
    BY <2>1, <2>2, ChainAssumption
<1> HIDE DEF C
<1>13. \A i : Unsent(i)' <=> Unsent(i) /\ i \notin C
  BY <1>4, <1>5, <1>6, <1>7, <1>8, <1>9, <1>10, <1>11, <1>12 DEF Unsent
<1>14. \A i \in C : Unsent(i) /\ i \in EventsOf(h)
  BY <1>4, <1>6, <1>8 DEF Unsent
<1> QED
  BY <1>2, <1>13, <1>14 DEF C

-----------------------------------------------------------------------------
\* Where an item is: in which channels and in the hands of which workers.

\* The phases of a stage's jobs, those in which a row is still to come, and the
\* stage whose items its jobs carry.
PhasesOf(s) == CASE s = "transactions"        -> {"insert", "links", "outputs"}
                 [] s = "transaction_outputs" -> {"insert", "index"}
                 [] OTHER                     -> {"insert"}
Live(s) == PhasesOf(s) \ {"index"}
Load(s) == IF s = "transaction_outputs" THEN "transactions" ELSE s

InChan(s, i)    == \E n \in 1 .. Len(chan[s]) : i \in chan[s][n]
InBusy(s, i, P) == \E j \in busy[s] : i \in j.job /\ j.phase \in P

\* No two jobs of a stage have an item in common, unless it is stored.
ChanApart(s, i) ==
  \A m, n \in 1 .. Len(chan[s]) : i \in chan[s][m] /\ i \in chan[s][n] => m = n
BusyApart(s, i) ==
  \A j, k \in busy[s] :
    i \in j.job /\ i \in k.job /\ j.phase \in Live(s) /\ k.phase \in Live(s) => j = k
Apart(s, i) ==
  ChanApart(s, i) /\ BusyApart(s, i) /\ ~(InChan(s, i) /\ InBusy(s, i, Live(s)))

\* A send puts the items of its job into the channel and moves no other.
LEMMA SendMoves ==
  ASSUME chan \in [Stage -> Seq(SUBSET Item)],
         NEW s \in Stage, NEW S \in SUBSET Item, Send(s, S)
  PROVE  /\ \A i : InChan(s, i)' <=> InChan(s, i) \/ i \in S
         /\ \A i : ChanApart(s, i) /\ ~(i \in S /\ InChan(s, i)) => ChanApart(s, i)'
         /\ \A t \in Stage : t # s => chan'[t] = chan[t]
<1>1. CASE S = {} /\ UNCHANGED chan
  BY <1>1 DEF InChan, ChanApart
<1>2. CASE chan' = [chan EXCEPT ![s] = Append(@, S)]
  <2> DEFINE q == chan[s]
  <2>1. q \in Seq(SUBSET Item) /\ chan'[s] = Append(q, S)
    BY <1>2
  <2>2. \A t \in Stage : t # s => chan'[t] = chan[t]
    BY <1>2
  <2> HIDE DEF q
  <2>3. /\ Len(Append(q, S)) = Len(q) + 1 /\ Len(q) \in Nat
        /\ \A n \in 1 .. Len(q) : Append(q, S)[n] = q[n]
        /\ Append(q, S)[Len(q) + 1] = S
    BY <2>1
  <2>4. /\ \A n \in 1 .. (Len(q) + 1) : n \in 1 .. Len(q) \/ n = Len(q) + 1
        /\ \A n \in 1 .. Len(q) : n \in 1 .. (Len(q) + 1)
        /\ Len(q) + 1 \in 1 .. (Len(q) + 1)
    BY <2>3
  <2>5. \A i : InChan(s, i)' <=> InChan(s, i) \/ i \in S
    BY <2>1, <2>3, <2>4 DEF InChan, q
  <2>6. ASSUME NEW i, ChanApart(s, i), ~(i \in S /\ InChan(s, i)) PROVE ChanApart(s, i)'
    <3>1. \A m, n \in 1 .. Len(q) : i \in q[m] /\ i \in q[n] => m = n
      BY <2>6 DEF ChanApart, q
    <3>2. i \in S => \A n \in 1 .. Len(q) : i \notin q[n]
      BY <2>6 DEF InChan, q
    <3>3. \A m, n \in 1 .. (Len(q) + 1) :
            i \in Append(q, S)[m] /\ i \in Append(q, S)[n] => m = n
      BY <2>3, <2>4, <3>1, <3>2
    <3> QED
      BY <2>1, <2>3, <3>3 DEF ChanApart
  <2> QED
    BY <2>2, <2>5, <2>6
<1> QED
  BY <1>1, <1>2 DEF Send

\* A receive hands the first job over.
LEMMA ReceiveMoves ==
  ASSUME TypeOK, NEW s \in Stage, Receive(s), NEW i, Apart(s, i)
  PROVE  /\ InChan(s, i)' <=> InChan(s, i) /\ i \notin Head(chan[s])
         /\ i \in Head(chan[s]) => InChan(s, i)
         /\ \A P : InBusy(s, i, P)' <=> InBusy(s, i, P) \/ (i \in Head(chan[s]) /\ "insert" \in P)
         /\ Apart(s, i)'
         /\ \A t \in Stage : t # s => chan'[t] = chan[t] /\ busy'[t] = busy[t]
<1> DEFINE q == chan[s]
           H == Head(chan[s])
<1>1. /\ q \in Seq(SUBSET Item) /\ q # <<>>
      /\ chan' = [chan EXCEPT ![s] = Tail(@)] /\ chan \in [Stage -> Seq(SUBSET Item)]
      /\ busy' = [busy EXCEPT ![s] = @ \cup {At("insert", Head(chan[s]))}]
      /\ busy \in [Stage -> SUBSET Job]
  BY DEF TypeOK, Receive
<1>2. chan'[s] = Tail(q) /\ busy'[s] = busy[s] \cup {At("insert", H)}
  BY <1>1
<1>3. \A t \in Stage : t # s => chan'[t] = chan[t] /\ busy'[t] = busy[t]
  BY <1>1
<1>4. At("insert", H).phase = "insert" /\ At("insert", H).job = H
  BY DEF At
<1> HIDE DEF q
<1>5. /\ Len(q) \in Nat /\ Len(q) > 0 /\ Len(Tail(q)) = Len(q) - 1
      /\ Head(q) = q[1] /\ \A n \in 1 .. (Len(q) - 1) : Tail(q)[n] = q[n + 1]
  BY <1>1
<1>6. /\ 1 \in 1 .. Len(q)
      /\ \A n \in 1 .. Len(q) : n = 1 \/ (n - 1 \in 1 .. (Len(q) - 1) /\ (n - 1) + 1 = n)
      /\ \A n \in 1 .. (Len(q) - 1) : n + 1 \in 1 .. Len(q) /\ n + 1 # 1
  BY <1>5
<1>7. \A m, n \in 1 .. Len(q) : i \in q[m] /\ i \in q[n] => m = n
  BY DEF Apart, ChanApart, q
<1>8. H = q[1]
  BY <1>5 DEF q
<1>9. InChan(s, i)' <=> \E n \in 1 .. (Len(q) - 1) : i \in q[n + 1]
  BY <1>2, <1>5 DEF InChan
<1>10. InChan(s, i) <=> \E n \in 1 .. Len(q) : i \in q[n]
  BY DEF InChan, q
<1>11. InChan(s, i)' <=> InChan(s, i) /\ i \notin H
  <2>1. ASSUME NEW n \in 1 .. (Len(q) - 1), i \in q[n + 1]
        PROVE  (\E m \in 1 .. Len(q) : i \in q[m]) /\ i \notin q[1]
    BY <1>6, <1>7, <2>1
  <2>2. ASSUME NEW n \in 1 .. Len(q), i \in q[n], i \notin q[1]
        PROVE  \E m \in 1 .. (Len(q) - 1) : i \in q[m + 1]
    <3>1. n - 1 \in 1 .. (Len(q) - 1) /\ (n - 1) + 1 = n
      BY <1>6, <2>2
    <3> QED
      BY <2>2, <3>1
  <2> QED
    BY <1>8, <1>9, <1>10, <2>1, <2>2
<1>12. i \in H => InChan(s, i)
  BY <1>6, <1>8, <1>10
<1>13. \A P : InBusy(s, i, P)' <=> InBusy(s, i, P) \/ (i \in H /\ "insert" \in P)
  BY <1>2, <1>4 DEF InBusy
<1>14. ChanApart(s, i)'
  <2>1. \A m, n \in 1 .. (Len(q) - 1) : i \in Tail(q)[m] /\ i \in Tail(q)[n] => m = n
    <3> SUFFICES ASSUME NEW m \in 1 .. (Len(q) - 1), NEW n \in 1 .. (Len(q) - 1),
                        i \in Tail(q)[m], i \in Tail(q)[n]
                 PROVE  m = n
      OBVIOUS
    <3>1. m + 1 = n + 1
      BY <1>5, <1>6, <1>7
    <3> QED
      BY <3>1
  <2> QED
    BY <1>2, <1>5, <2>1 DEF ChanApart
<1>15. BusyApart(s, i)'
  <2>1. "insert" \in Live(s)
    BY DEF Live, PhasesOf
  <2>2. i \in H => \A k \in busy[s] : ~(i \in k.job /\ k.phase \in Live(s))
    BY <1>12 DEF Apart, InBusy
  <2>3. \A j, k \in busy[s] :
          i \in j.job /\ i \in k.job /\ j.phase \in Live(s) /\ k.phase \in Live(s) => j = k
    BY DEF Apart, BusyApart
  <2> QED
    BY <1>2, <1>4, <2>2, <2>3 DEF BusyApart
<1>16. ~(InChan(s, i)' /\ InBusy(s, i, Live(s))')
  BY <1>11, <1>13 DEF Apart
<1> QED
  BY <1>3, <1>11, <1>12, <1>13, <1>14, <1>15, <1>16 DEF Apart

\* A step of a worker moves the items of its job from phase to phase.
LEMMA StepMoves ==
  ASSUME busy \in [Stage -> SUBSET Job], NEW s \in Stage, NEW j \in busy[s],
         NEW phase, Step(s, j, phase), NEW i, BusyApart(s, i),
         phase \in Live(s) => j.phase \in Live(s)
  PROVE  /\ BusyApart(s, i)'
         /\ \A P : i \notin j.job => (InBusy(s, i, P)' <=> InBusy(s, i, P))
         /\ i \in j.job /\ j.phase \in Live(s) =>
              \A P \in SUBSET Live(s) : /\ InBusy(s, i, P) <=> j.phase \in P
                                        /\ InBusy(s, i, P)' <=> phase \in P
         /\ \A t \in Stage : t # s => busy'[t] = busy[t]
<1>1. /\ busy'[s] = (busy[s] \ {j}) \cup {At(phase, j.job)}
      /\ \A t \in Stage : t # s => busy'[t] = busy[t]
  BY DEF Step
<1>2. At(phase, j.job).phase = phase /\ At(phase, j.job).job = j.job
  BY DEF At
<1>3. \A k, l \in busy[s] :
        i \in k.job /\ i \in l.job /\ k.phase \in Live(s) /\ l.phase \in Live(s) => k = l
  BY DEF BusyApart
<1>4. BusyApart(s, i)'
  BY <1>1, <1>2, <1>3 DEF BusyApart
<1>5. \A P : i \notin j.job => (InBusy(s, i, P)' <=> InBusy(s, i, P))
  BY <1>1, <1>2 DEF InBusy
<1>6. ASSUME i \in j.job, j.phase \in Live(s), NEW P \in SUBSET Live(s)
      PROVE  /\ InBusy(s, i, P) <=> j.phase \in P
             /\ InBusy(s, i, P)' <=> phase \in P
  BY <1>1, <1>2, <1>3, <1>6 DEF InBusy
<1> QED
  BY <1>1, <1>4, <1>5, <1>6

LEMMA FinishMoves ==
  ASSUME busy \in [Stage -> SUBSET Job], NEW s \in Stage, NEW j \in busy[s],
         Finish(s, j), NEW i, BusyApart(s, i)
  PROVE  /\ BusyApart(s, i)'
         /\ \A P : i \notin j.job => (InBusy(s, i, P)' <=> InBusy(s, i, P))
         /\ i \in j.job /\ j.phase \in Live(s) =>
              \A P \in SUBSET Live(s) : /\ InBusy(s, i, P) <=> j.phase \in P
                                        /\ ~InBusy(s, i, P)'
         /\ \A P : j.phase \notin P => (InBusy(s, i, P)' <=> InBusy(s, i, P))
         /\ \A t \in Stage : t # s => busy'[t] = busy[t]
<1>1. /\ busy'[s] = busy[s] \ {j}
      /\ \A t \in Stage : t # s => busy'[t] = busy[t]
  BY DEF Finish
<1>3. \A k, l \in busy[s] :
        i \in k.job /\ i \in l.job /\ k.phase \in Live(s) /\ l.phase \in Live(s) => k = l
  BY DEF BusyApart
<1>4. BusyApart(s, i)'
  BY <1>1, <1>3 DEF BusyApart
<1>5. \A P : i \notin j.job \/ j.phase \notin P => (InBusy(s, i, P)' <=> InBusy(s, i, P))
  BY <1>1 DEF InBusy
<1>6. ASSUME i \in j.job, j.phase \in Live(s), NEW P \in SUBSET Live(s)
      PROVE  /\ InBusy(s, i, P) <=> j.phase \in P
             /\ ~InBusy(s, i, P)'
  BY <1>1, <1>3, <1>6 DEF InBusy
<1> QED
  BY <1>1, <1>4, <1>5, <1>6

\* Channels and workers a step leaves alone.
LEMMA StageUnmoved ==
  ASSUME NEW t, chan'[t] = chan[t], busy'[t] = busy[t]
  PROVE  /\ \A i : InChan(t, i)' <=> InChan(t, i)
         /\ \A i, P : InBusy(t, i, P)' <=> InBusy(t, i, P)
         /\ \A i : Apart(t, i)' <=> Apart(t, i)
BY DEF InChan, InBusy, Apart, ChanApart, BusyApart

-----------------------------------------------------------------------------
\* Each item of a block is in one place on its way to a table: unsent, in a job
\* before the stage, in a job of the stage or stored.

\* The stages the workers of transactions send jobs to, and the phases a job of
\* transactions has before that send.
Derived == {"transaction_outputs", "transaction_validator"}
Before(s) == IF s = "transaction_validator" THEN {"insert", "links"}
                                            ELSE {"insert", "links", "outputs"}

Waiting(s, i)  == InChan(s, i) \/ InBusy(s, i, {"insert"})
Upstream(s, i) ==
  s \in Derived /\ (InChan("transactions", i) \/ InBusy("transactions", i, Before(s)))

One(b) == IF b THEN 1 ELSE 0

\* Rows of item i in the table of stage s, present and to come.
Flow(s, i) == rows[s][i] + One(Waiting(s, i)) + One(Upstream(s, i)) + One(Unsent(i))

\* Jobs carry items for their table, what is stored is due, and a job that needs
\* stored transactions has them.
Placed(s, i) ==
  /\ Apart(s, i)
  /\ InChan(s, i) \/ InBusy(s, i, Live(s)) => i \in Due(Load(s), BlockOf(i))
  /\ rows[s][i] > 0 => i \in Due(s, BlockOf(i))
  /\ s \in Derived /\ Waiting(s, i) => rows["transactions"][i] > 0
  /\ InBusy("transactions", i, {"links", "outputs"}) => rows["transactions"][i] > 0
  /\ Flow(s, i) <= 1

PhasesFit == \A s \in Stage : \A j \in busy[s] : j.phase \in PhasesOf(s)

\* Nothing that a block of this process gives is lost.
NothingLost ==
  Up => \A s \in Stage : \A i \in Item :
          BlockOf(i) \in blocks /\ BlockOf(i) >= resumed /\ i \in Due(s, BlockOf(i)) =>
            Flow(s, i) = 1

Once ==
  /\ PhasesFit /\ LoopFit
  /\ \A s \in Stage : \A i \in Item : Placed(s, i)
  /\ NothingLost

\* The step loses nothing of item i for the table of s.
Carry(s, i) ==
  /\ Placed(s, i)'
  /\ i \in Due(s, BlockOf(i)) => Flow(s, i)' = Flow(s, i)

\* What is due where.
LEMMA DueOf ==
  ASSUME NEW h \in Height
  PROVE  LET kept == IF h \in NoValidators THEN {} ELSE TxItems(h) IN
         /\ Due("transactions", h) = kept \ Invalid
         /\ Due("invalid_transactions", h) = kept \cap Invalid
         /\ Due("transaction_outputs", h) = WithOutputs(Due("transactions", h))
         /\ Due("transaction_validator", h) = Due("transactions", h) \cap Links
         /\ Due("rewards", h) = Elements(RewardsOf[h])
         /\ Due("slashes", h) = Elements(SlashesOf[h])
         /\ \A s \in Stage : Due(s, h) \subseteq Items(h)
<1>1. /\ Due("transactions", h) = (IF h \in NoValidators THEN {} ELSE TxItems(h)) \ Invalid
      /\ Due("invalid_transactions", h) = (IF h \in NoValidators THEN {} ELSE TxItems(h)) \cap Invalid
      /\ Due("rewards", h) = Elements(RewardsOf[h])
      /\ Due("slashes", h) = Elements(SlashesOf[h])
  BY DEF Due
<1>2. Due("transaction_outputs", h) = WithOutputs(Due("transactions", h))
  BY DEF Due
<1>3. Due("transaction_validator", h) = Due("transactions", h) \cap Links
  BY DEF Due
<1> QED
  BY <1>1, <1>2, <1>3 DEF Stage, Items, WithOutputs

\* An item that is due in a table the loop or a goroutine feeds is due in no
\* other, except that a transaction may have outputs and a link.
LEMMA DueKinds ==
  ASSUME NEW h \in Height, NEW s \in Stage \ Derived, NEW t \in Stage, t # s,
         NEW i \in Due(s, h) \cap Due(t, h)
  PROVE  s = "transactions" /\ t \in Derived
<1>1. /\ Due("transactions", h) \subseteq Tx \ Invalid
      /\ Due("invalid_transactions", h) \subseteq Tx \cap Invalid
      /\ Due("transaction_outputs", h) \subseteq Tx \ Invalid
      /\ Due("transaction_validator", h) \subseteq Tx \ Invalid
      /\ Due("rewards", h) \subseteq Reward
      /\ Due("slashes", h) \subseteq Slash
  BY DueOf, ItemsAreItems DEF WithOutputs
<1> QED
  BY <1>1, ChainAssumption DEF Stage, Derived

LEMMA LiveOf ==
  /\ Live("transactions") = {"insert", "links", "outputs"}
  /\ \A s \in Stage : s # "transactions" => Live(s) = {"insert"}
  /\ \A s \in LeafStage : PhasesOf(s) = {"insert"}
  /\ PhasesOf("transactions") = {"insert", "links", "outputs"}
  /\ PhasesOf("transaction_outputs") = {"insert", "index"}
BY DEF Live, PhasesOf, Stage, LeafStage

\* What is unsent has no job and no row.
LEMMA UnsentNowhere ==
  ASSUME TypedChain, Once, NEW s \in Stage, NEW i \in Item, Unsent(i)
  PROVE  /\ rows[s][i] = 0 /\ ~InChan(s, i) /\ ~InBusy(s, i, Live(s))
         /\ ~InChan("transactions", i) /\ ~InBusy("transactions", i, Live("transactions"))
<1> DEFINE T == "transactions"
<1>1. T \in Stage
  BY DEF Stage
<1>2. Placed(s, i) /\ Placed(T, i)
  BY <1>1 DEF Once
<1>3. rows[s][i] \in Nat /\ rows[T][i] \in Nat
  BY <1>1 DEF TypedChain, TypeOK
<1>4. rows[s][i] = 0 /\ ~Waiting(s, i) /\ rows[T][i] = 0 /\ ~Waiting(T, i)
  BY <1>2, <1>3 DEF Placed, Flow, One
<1>5. ~InBusy(T, i, {"links", "outputs"})
  BY <1>2, <1>4 DEF Placed
<1>6. ~InBusy(T, i, Live(T))
  BY <1>4, <1>5, LiveOf DEF Waiting, InBusy
<1>7. ~InBusy(s, i, Live(s))
  BY <1>4, <1>6, LiveOf DEF Waiting
<1> QED
  BY <1>4, <1>6, <1>7 DEF Waiting

\* Sends of what was unsent.
LEMMA SendCarries ==
  ASSUME TypedChain, Once, NEW s \in Stage \ Derived, NEW S \in SUBSET Item, Send(s, S),
         UNCHANGED <<rows, busy>>,
         \A i \in Item : Unsent(i)' <=> Unsent(i) /\ i \notin S,
         \A i \in S : Unsent(i) /\ i \in Due(s, BlockOf(i))
  PROVE  \A t \in Stage : \A i \in Item : Carry(t, i)
<1> SUFFICES ASSUME NEW t \in Stage, NEW i \in Item PROVE Carry(t, i)
  OBVIOUS
<1> DEFINE T == "transactions"
<1>1. T \in Stage /\ chan \in [Stage -> Seq(SUBSET Item)] /\ rows[t][i] \in Nat
  BY DEF Stage, TypedChain, TypeOK
<1>2. /\ \A x : InChan(s, x)' <=> InChan(s, x) \/ x \in S
      /\ \A x : ChanApart(s, x) /\ ~(x \in S /\ InChan(s, x)) => ChanApart(s, x)'
      /\ \A u \in Stage : u # s => chan'[u] = chan[u]
  BY <1>1, SendMoves
<1>3. \A u, P : InBusy(u, i, P)' <=> InBusy(u, i, P)
  BY DEF InBusy
<1>4. \A u \in Stage : u # s => (InChan(u, i)' <=> InChan(u, i)) /\ (Apart(u, i)' <=> Apart(u, i))
  BY <1>2, StageUnmoved
<1>5. Placed(t, i) /\ Placed(s, i)
  BY DEF Once
<1>6. CASE i \notin S
  <2>1. \A u \in Stage : InChan(u, i)' <=> InChan(u, i)
    BY <1>2, <1>4, <1>6
  <2>2. Apart(t, i)'
    <3>1. CASE t = s
      BY <1>2, <1>3, <1>5, <1>6, <3>1 DEF Placed, Apart, BusyApart
    <3>2. CASE t # s
      BY <1>4, <1>5, <3>2 DEF Placed
    <3> QED
      BY <3>1, <3>2
  <2>3. /\ Waiting(t, i)' <=> Waiting(t, i)
        /\ Upstream(t, i)' <=> Upstream(t, i)
        /\ Unsent(i)' <=> Unsent(i)
    BY <1>1, <1>3, <1>6, <2>1 DEF Waiting, Upstream
  <2>4. Flow(t, i)' = Flow(t, i)
    BY <2>3 DEF Flow, One
  <2> QED
    BY <1>1, <1>3, <1>5, <2>1, <2>2, <2>3, <2>4 DEF Placed, Carry
<1>7. CASE i \in S
  <2>1. /\ rows[t][i] = 0 /\ ~InChan(t, i) /\ ~InBusy(t, i, Live(t)) /\ Unsent(i)
        /\ ~InChan(s, i) /\ ~InBusy(s, i, Live(s))
        /\ ~InChan(T, i) /\ ~InBusy(T, i, Live(T))
    BY <1>7, UnsentNowhere
  <2>2. ~InBusy(t, i, {"insert"}) /\ ~InBusy(T, i, Before(t)) /\ ~InBusy(T, i, {"links", "outputs"})
    BY <2>1, LiveOf DEF InBusy, Before
  <2>3. ~Waiting(t, i) /\ ~Upstream(t, i) /\ ~Unsent(i)'
    BY <1>7, <2>1, <2>2 DEF Waiting, Upstream
  <2>4. Waiting(t, i)' <=> t = s
    BY <1>2, <1>3, <1>4, <1>7, <2>1, <2>2 DEF Waiting
  <2>5. Upstream(t, i)' <=> t \in Derived /\ s = T
    BY <1>1, <1>2, <1>3, <1>4, <1>7, <2>1, <2>2 DEF Upstream
  <2>6. s \notin Derived
    OBVIOUS
  <2>7. Apart(t, i)'
    <3>1. CASE t = s
      BY <1>2, <1>3, <1>5, <2>1, <3>1 DEF Placed, Apart, BusyApart
    <3>2. CASE t # s
      BY <1>4, <1>5, <3>2 DEF Placed
    <3> QED
      BY <3>1, <3>2
  <2>8. Flow(t, i)' <= 1
    BY <2>1, <2>3, <2>4, <2>5, <2>6 DEF Flow, One
  <2>9. i \in Due(t, BlockOf(i)) => Flow(t, i)' = Flow(t, i)
    <3>1. BlockOf(i) \in Height
      BY BlockOfItem
    <3>2. i \in Due(t, BlockOf(i)) => t = s \/ (s = T /\ t \in Derived)
      BY <1>7, <3>1, DueKinds
    <3> QED
      BY <2>1, <2>3, <2>4, <2>5, <2>6, <3>2 DEF Flow, One
  <2>10. InChan(t, i)' \/ InBusy(t, i, Live(t))' => i \in Due(Load(t), BlockOf(i))
    <3>1. t # s => ~InChan(t, i)' /\ ~InBusy(t, i, Live(t))'
      BY <1>3, <1>4, <2>1
    <3>2. Load(s) = s
      BY DEF Load, Derived
    <3> QED
      BY <1>7, <3>1, <3>2
  <2>11. ~(t \in Derived /\ Waiting(t, i)')
    BY <2>4, <2>6
  <2>12. ~InBusy(T, i, {"links", "outputs"})'
    BY <1>3, <2>2
  <2> QED
    BY <2>1, <2>7, <2>8, <2>9, <2>10, <2>11, <2>12 DEF Placed, Carry
<1> QED
  BY <1>6, <1>7

\* A received job is in the same place.
LEMMA ReceiveCarries ==
  ASSUME TypedChain, Once, NEW s \in Stage, Receive(s)
  PROVE  \A t \in Stage : \A i \in Item : Carry(t, i)
<1> SUFFICES ASSUME NEW t \in Stage, NEW i \in Item PROVE Carry(t, i)
  OBVIOUS
<1> DEFINE T == "transactions"
           H == Head(chan[s])
<1>1. T \in Stage /\ UNCHANGED rows /\ Placed(t, i) /\ Placed(s, i)
  BY DEF Stage, Receive, db, Once
<1>2. \A x : Unsent(x)' <=> Unsent(x)
  BY UnsentUnchanged DEF Receive
<1>3. /\ InChan(s, i)' <=> InChan(s, i) /\ i \notin H
      /\ i \in H => InChan(s, i)
      /\ \A P : InBusy(s, i, P)' <=> InBusy(s, i, P) \/ (i \in H /\ "insert" \in P)
      /\ Apart(s, i)'
      /\ \A u \in Stage : u # s => chan'[u] = chan[u] /\ busy'[u] = busy[u]
  BY <1>1, ReceiveMoves DEF Placed, TypedChain
<1>4. \A u \in Stage : u # s => /\ InChan(u, i)' <=> InChan(u, i)
                                /\ \A P : InBusy(u, i, P)' <=> InBusy(u, i, P)
                                /\ Apart(u, i)' <=> Apart(u, i)
  BY <1>3, StageUnmoved
<1>5. \A u \in Stage : \A P : "insert" \in P =>
        ((InChan(u, i) \/ InBusy(u, i, P))' <=> InChan(u, i) \/ InBusy(u, i, P))
  BY <1>3, <1>4
<1>6. \A u \in Stage : \A P : "insert" \notin P => (InBusy(u, i, P)' <=> InBusy(u, i, P))
  BY <1>3, <1>4
<1>7. "insert" \in Before(t) /\ "insert" \in Live(t)
  BY LiveOf DEF Before
<1>8. /\ Waiting(t, i)' <=> Waiting(t, i)
      /\ Upstream(t, i)' <=> Upstream(t, i)
  BY <1>1, <1>5, <1>7 DEF Waiting, Upstream
<1>9. Flow(t, i)' = Flow(t, i)
  BY <1>1, <1>2, <1>8 DEF Flow, One
<1>10. Apart(t, i)'
  BY <1>1, <1>3, <1>4 DEF Placed
<1>11. InBusy(T, i, {"links", "outputs"})' <=> InBusy(T, i, {"links", "outputs"})
  BY <1>1, <1>6
<1> QED
  BY <1>1, <1>5, <1>7, <1>8, <1>9, <1>10, <1>11 DEF Placed, Carry

\* SaveTransactions: from the job to the table.
LEMMA SaveTransactionsCarries ==
  ASSUME TypedChain, Once, NEW j \in busy["transactions"], SaveTransactions(j)
  PROVE  \A t \in Stage : \A i \in Item : Carry(t, i)
<1> SUFFICES ASSUME NEW t \in Stage, NEW i \in Item PROVE Carry(t, i)
  OBVIOUS
<1> DEFINE T == "transactions"
<1>1. /\ T \in Stage /\ UNCHANGED chan /\ Placed(t, i) /\ Placed(T, i)
      /\ busy \in [Stage -> SUBSET Job] /\ rows \in [Stage -> [Item -> Nat]]
      /\ Step(T, j, "links") /\ j.phase = "insert"
  BY DEF Stage, SaveTransactions, Once, TypedChain, TypeOK
<1>2. \A x : Unsent(x)' <=> Unsent(x)
  BY UnsentUnchanged DEF SaveTransactions
<1>3. /\ BusyApart(T, i)'
      /\ \A P : i \notin j.job => (InBusy(T, i, P)' <=> InBusy(T, i, P))
      /\ i \in j.job /\ j.phase \in Live(T) =>
              \A P \in SUBSET Live(T) : /\ InBusy(T, i, P) <=> j.phase \in P
                                        /\ InBusy(T, i, P)' <=> "links" \in P
      /\ \A u \in Stage : u # T => busy'[u] = busy[u]
  BY <1>1, StepMoves, LiveOf DEF Placed, Apart
<1>4. \A u : (InChan(u, i)' <=> InChan(u, i)) /\ (ChanApart(u, i)' <=> ChanApart(u, i))
  BY <1>1 DEF InChan, ChanApart
<1>5. \A u \in Stage : u # T => /\ \A P : InBusy(u, i, P)' <=> InBusy(u, i, P)
                                /\ Apart(u, i)' <=> Apart(u, i)
  BY <1>1, <1>3, StageUnmoved
<1>6. \A u \in Stage : rows'[u][i] = IF u = T /\ i \in j.job THEN rows[u][i] + 1 ELSE rows[u][i]
  BY <1>1 DEF SaveTransactions, Insert
<1>7. CASE i \notin j.job
  <2>1. \A u \in Stage : \A P : InBusy(u, i, P)' <=> InBusy(u, i, P)
    BY <1>3, <1>5, <1>7
  <2>2. /\ Waiting(t, i)' <=> Waiting(t, i)
        /\ Upstream(t, i)' <=> Upstream(t, i)
    BY <1>1, <1>4, <2>1 DEF Waiting, Upstream
  <2>3. Apart(t, i)'
    BY <1>1, <1>3, <1>4, <1>5, <2>1 DEF Placed, Apart
  <2>4. rows'[t][i] = rows[t][i] /\ rows'[T][i] = rows[T][i]
    BY <1>1, <1>6, <1>7
  <2>5. Flow(t, i)' = Flow(t, i)
    BY <1>2, <2>2, <2>4 DEF Flow, One
  <2> QED
    BY <1>1, <1>4, <2>1, <2>2, <2>3, <2>4, <2>5 DEF Placed, Carry
<1>8. CASE i \in j.job
  <2>1. /\ InBusy(T, i, {"insert"}) /\ ~InBusy(T, i, {"insert"})'
        /\ InBusy(T, i, Live(T)) /\ InBusy(T, i, Live(T))'
        /\ \A u \in Derived : InBusy(T, i, Before(u)) /\ InBusy(T, i, Before(u))'
    BY <1>1, <1>3, <1>8, LiveOf DEF Before
  <2>2. ~InChan(T, i)
    BY <1>1, <2>1 DEF Placed, Apart
  <2>3. t = T => Waiting(t, i) /\ ~Waiting(t, i)'
    BY <1>4, <2>1, <2>2 DEF Waiting
  <2>4. t # T => (Waiting(t, i)' <=> Waiting(t, i))
    BY <1>4, <1>5 DEF Waiting
  <2>5. Upstream(t, i)' <=> Upstream(t, i)
    BY <2>1 DEF Upstream
  <2>6. T \notin Derived
    BY DEF Derived
  <2>7. /\ rows[t][i] \in Nat /\ rows[T][i] \in Nat /\ rows'[T][i] = rows[T][i] + 1
        /\ rows'[t][i] = IF t = T THEN rows[t][i] + 1 ELSE rows[t][i]
    BY <1>1, <1>6, <1>8
  <2>8. Flow(t, i)' = Flow(t, i)
    <3>1. CASE t = T
      BY <1>2, <2>3, <2>5, <2>7, <3>1 DEF Flow, One
    <3>2. CASE t # T
      BY <1>2, <2>4, <2>5, <2>7, <3>2 DEF Flow, One
    <3> QED
      BY <3>1, <3>2
  <2>9. Apart(t, i)'
    <3>1. CASE t = T
      BY <1>1, <1>3, <1>4, <2>2, <3>1 DEF Placed, Apart
    <3>2. CASE t # T
      BY <1>1, <1>5, <3>2 DEF Placed
    <3> QED
      BY <3>1, <3>2
  <2>10. i \in Due(T, BlockOf(i)) /\ Load(T) = T
    BY <1>1, <2>1 DEF Placed, Load
  <2>11. InChan(t, i)' \/ InBusy(t, i, Live(t))' => i \in Due(Load(t), BlockOf(i))
    BY <1>1, <1>4, <1>5, <2>10 DEF Placed
  <2>12. rows'[t][i] > 0 => i \in Due(t, BlockOf(i))
    BY <1>1, <2>7, <2>10 DEF Placed
  <2>13. rows'[T][i] > 0
    BY <2>7
  <2> QED
    BY <1>1, <2>8, <2>9, <2>11, <2>12, <2>13 DEF Placed, Carry
<1> QED
  BY <1>7, <1>8

\* A job of stored transactions sends its items on to stage u and goes from the
\* phase before that send to the next one, or ends.
LEMMA PassOn ==
  ASSUME TypedChain, Once, NEW j \in busy["transactions"],
         NEW u \in Derived, NEW S \in SUBSET Item, S \subseteq j.job, Send(u, S),
         NEW next \in {"outputs", "done"}, j.phase \in {"links", "outputs"},
         \/ next = "outputs" /\ Step("transactions", j, next)
         \/ next = "done" /\ Finish("transactions", j),
         j.phase \in Before(u), next \notin Before(u),
         \A v \in Derived : v # u => (j.phase \in Before(v) <=> next \in Before(v)),
         \A i \in j.job : i \in Due(u, BlockOf(i)) => i \in S,
         u = "transaction_validator" =>
           \A i \in S : i \in Due("transactions", BlockOf(i)) => i \in Due(u, BlockOf(i)),
         UNCHANGED <<rows, main, left>>
  PROVE  \A t \in Stage : \A i \in Item : Carry(t, i)
<1> SUFFICES ASSUME NEW t \in Stage, NEW i \in Item PROVE Carry(t, i)
  OBVIOUS
<1> DEFINE T == "transactions"
<1>1. /\ T \in Stage /\ u \in Stage /\ u # T /\ T \notin Derived
      /\ Placed(t, i) /\ Placed(T, i) /\ Placed(u, i)
      /\ busy \in [Stage -> SUBSET Job] /\ chan \in [Stage -> Seq(SUBSET Item)]
      /\ rows[t][i] \in Nat /\ rows[T][i] \in Nat /\ rows[u][i] \in Nat
  BY DEF Stage, Derived, Once, TypedChain, TypeOK
<1>2. \A x : Unsent(x)' <=> Unsent(x)
  BY UnsentUnchanged
<1>3. /\ BusyApart(T, i)'
      /\ \A P : i \notin j.job => (InBusy(T, i, P)' <=> InBusy(T, i, P))
      /\ i \in j.job =>
              \A P \in SUBSET Live(T) : /\ InBusy(T, i, P) <=> j.phase \in P
                                        /\ InBusy(T, i, P)' <=> next \in P
      /\ \A v \in Stage : v # T => busy'[v] = busy[v]
  <2>1. j.phase \in Live(T) /\ BusyApart(T, i)
    BY <1>1, LiveOf DEF Placed, Apart
  <2>2. CASE next = "outputs" /\ Step(T, j, next)
    <3>1. next \in Live(T)
      BY <2>2, LiveOf
    <3> QED
      BY <1>1, <2>1, <2>2, <3>1, StepMoves
  <2>3. CASE next = "done" /\ Finish(T, j)
    <3>1. \A P \in SUBSET Live(T) : next \notin P
      BY <2>3, LiveOf
    <3> QED
      BY <1>1, <2>1, <2>3, <3>1, FinishMoves
  <2> QED
    BY <2>2, <2>3
<1>4. /\ \A x : InChan(u, x)' <=> InChan(u, x) \/ x \in S
      /\ \A x : ChanApart(u, x) /\ ~(x \in S /\ InChan(u, x)) => ChanApart(u, x)'
      /\ \A v \in Stage : v # u => chan'[v] = chan[v]
  BY <1>1, SendMoves
<1>5. /\ InChan(T, i)' <=> InChan(T, i)
      /\ ChanApart(T, i)' <=> ChanApart(T, i)
      /\ \A P : InBusy(u, i, P)' <=> InBusy(u, i, P)
      /\ BusyApart(u, i)' <=> BusyApart(u, i)
  BY <1>1, <1>3, <1>4 DEF InChan, ChanApart, InBusy, BusyApart
<1>6. \A v \in Stage : v # u /\ v # T =>
        /\ InChan(v, i)' <=> InChan(v, i)
        /\ \A P : InBusy(v, i, P)' <=> InBusy(v, i, P)
        /\ Apart(v, i)' <=> Apart(v, i)
  BY <1>3, <1>4, StageUnmoved
<1>7. CASE i \notin j.job
  <2>1. \A v \in Stage : \A P : InBusy(v, i, P)' <=> InBusy(v, i, P)
    BY <1>3, <1>5, <1>6, <1>7
  <2>2. \A v \in Stage : InChan(v, i)' <=> InChan(v, i)
    BY <1>4, <1>5, <1>6, <1>7
  <2>3. /\ Waiting(t, i)' <=> Waiting(t, i)
        /\ Upstream(t, i)' <=> Upstream(t, i)
    BY <1>1, <2>1, <2>2 DEF Waiting, Upstream
  <2>4. Apart(t, i)'
    <3>1. CASE t = T
      BY <1>1, <1>3, <1>5, <2>1, <2>2, <3>1 DEF Placed, Apart
    <3>2. CASE t = u
      BY <1>1, <1>4, <1>5, <1>7, <2>1, <2>2, <3>2 DEF Placed, Apart
    <3>3. CASE t # T /\ t # u
      BY <1>1, <1>6, <3>3 DEF Placed
    <3> QED
      BY <3>1, <3>2, <3>3
  <2>5. Flow(t, i)' = Flow(t, i)
    BY <1>2, <2>3 DEF Flow, One
  <2> QED
    BY <1>1, <2>1, <2>2, <2>3, <2>4, <2>5 DEF Placed, Carry
<1>8. CASE i \in j.job
  <2>1. /\ Before(u) \subseteq Live(T) /\ {"insert"} \subseteq Live(T)
        /\ {"links", "outputs"} \subseteq Live(T)
        /\ \A v \in Derived : Before(v) \subseteq Live(T)
    BY LiveOf DEF Before
  <2>2. /\ InBusy(T, i, Live(T)) /\ InBusy(T, i, {"links", "outputs"})
        /\ InBusy(T, i, Before(u)) /\ ~InBusy(T, i, Before(u))'
        /\ ~InBusy(T, i, {"insert"}) /\ ~InBusy(T, i, {"insert"})'
        /\ \A v \in Derived : v # u => (InBusy(T, i, Before(v))' <=> InBusy(T, i, Before(v)))
    BY <1>3, <1>8, <2>1, LiveOf
  <2>3. ~InChan(T, i) /\ ~InChan(T, i)' /\ rows[T][i] > 0
    BY <1>1, <1>5, <2>2 DEF Placed, Apart
  <2>4. Upstream(u, i) /\ ~Upstream(u, i)'
    BY <2>2, <2>3 DEF Upstream
  <2>5. rows[u][i] = 0 /\ ~Waiting(u, i) /\ ~Unsent(i)
    BY <1>1, <2>4 DEF Placed, Flow, One
  <2>6. Waiting(u, i)' <=> i \in S
    BY <1>4, <1>5, <2>5 DEF Waiting
  <2>7. ~Waiting(T, i) /\ ~Waiting(T, i)'
    BY <2>2, <2>3 DEF Waiting
  <2>8. \A v \in Stage : v # u => (Waiting(v, i)' <=> Waiting(v, i)) /\ (Upstream(v, i)' <=> Upstream(v, i))
    BY <1>5, <1>6, <2>2, <2>7 DEF Waiting, Upstream
  <2>9. /\ t # u => Flow(t, i)' = Flow(t, i)
        /\ t = u => Flow(t, i) = 1 /\ Flow(t, i)' = One(i \in S)
    BY <1>1, <1>2, <2>4, <2>5, <2>6, <2>8 DEF Flow, One
  <2>10. Flow(t, i)' <= 1
    BY <1>1, <2>9 DEF Placed, One
  <2>11. i \in Due(t, BlockOf(i)) => Flow(t, i)' = Flow(t, i)
    BY <1>8, <2>9 DEF One
  <2>12. ~InChan(u, i) /\ ~InBusy(u, i, Live(u))
    BY <1>1, <2>5, LiveOf DEF Waiting
  <2>13. Apart(t, i)'
    <3>1. CASE t = T
      BY <1>1, <1>3, <1>5, <2>3, <3>1 DEF Placed, Apart
    <3>2. CASE t = u
      BY <1>1, <1>4, <1>5, <2>12, <3>2 DEF Placed, Apart
    <3>3. CASE t # T /\ t # u
      BY <1>1, <1>6, <3>3 DEF Placed
    <3> QED
      BY <3>1, <3>2, <3>3
  <2>14. i \in Due(T, BlockOf(i))
    BY <1>1, <2>2 DEF Placed, Load
  <2>15. InChan(t, i)' \/ InBusy(t, i, Live(t))' => i \in Due(Load(t), BlockOf(i))
    <3>1. CASE t = T
      BY <2>14, <3>1 DEF Load
    <3>2. CASE t = u
      <4>1. InChan(u, i)' \/ InBusy(u, i, Live(u))' => i \in S
        BY <1>4, <1>5, <2>12
      <4>2. i \in S => i \in Due(Load(u), BlockOf(i))
        BY <2>14 DEF Load, Derived
      <4> QED
        BY <3>2, <4>1, <4>2
    <3>3. CASE t # T /\ t # u
      BY <1>1, <1>6, <3>3 DEF Placed
    <3> QED
      BY <3>1, <3>2, <3>3
  <2>16. t \in Derived /\ Waiting(t, i)' => rows'[T][i] > 0
    BY <2>3
  <2>17. rows'[T][i] > 0
    BY <2>3
  <2> QED
    BY <1>1, <2>10, <2>11, <2>13, <2>15, <2>16, <2>17 DEF Placed, Carry
<1> QED
  BY <1>7, <1>8

LEMMA SendLinksCarries ==
  ASSUME TypedChain, Once, NEW j \in busy["transactions"], SendLinks(j)
  PROVE  \A t \in Stage : \A i \in Item : Carry(t, i)
<1> DEFINE V == "transaction_validator"
           S == j.job \cap Links
<1>1. /\ V \in Derived /\ "transactions" \in Stage /\ j.phase = "links"
      /\ Send(V, S) /\ Step("transactions", j, "outputs")
      /\ UNCHANGED <<rows, main, left>>
  BY DEF Derived, Stage, SendLinks, db
<1>2. j.job \in SUBSET Item
  BY <1>1 DEF TypedChain, TypeOK, Job
<1>3. /\ "links" \in Before(V) /\ "outputs" \notin Before(V)
      /\ \A v \in Derived : v # V => "links" \in Before(v) /\ "outputs" \in Before(v)
  BY DEF Before, Derived
<1>4. \A i \in Item : /\ i \in Due(V, BlockOf(i)) => i \in Links
                      /\ i \in Links /\ i \in Due("transactions", BlockOf(i)) => i \in Due(V, BlockOf(i))
  BY BlockOfItem, DueOf
<1>5. /\ \A i \in j.job : i \in Due(V, BlockOf(i)) => i \in S
      /\ \A i \in S : i \in Due("transactions", BlockOf(i)) => i \in Due(V, BlockOf(i))
  BY <1>2, <1>4
<1>6. S \in SUBSET Item /\ S \subseteq j.job
  BY <1>2
<1> QED
  BY <1>1, <1>3, <1>5, <1>6, PassOn

LEMMA SendOutputsCarries ==
  ASSUME TypedChain, Once, NEW j \in busy["transactions"], SendOutputs(j)
  PROVE  \A t \in Stage : \A i \in Item : Carry(t, i)
<1> DEFINE O == "transaction_outputs"
<1>1. /\ O \in Derived /\ "transactions" \in Stage /\ j.phase = "outputs"
      /\ O # "transaction_validator"
      /\ Send(O, j.job) /\ Finish("transactions", j)
      /\ UNCHANGED <<rows, main, left>>
  BY DEF Derived, Stage, SendOutputs, db
<1>2. j.job \in SUBSET Item
  BY <1>1 DEF TypedChain, TypeOK, Job
<1>3. /\ "outputs" \in Before(O) /\ "done" \notin Before(O)
      /\ \A v \in Derived : v # O => "outputs" \notin Before(v) /\ "done" \notin Before(v)
  BY DEF Before, Derived
<1> QED
  BY <1>1, <1>2, <1>3, PassOn

\* A job of a stage that the workers of transactions or the loop feed stores its
\* rows and, in stage s, ends or goes on to index them.
LEMMA StoreCarries ==
  ASSUME TypedChain, Once, NEW s \in Stage \ {"transactions"}, NEW j \in busy[s],
         NEW S \in SUBSET Item, S \subseteq j.job, Insert(s, S), j.phase = "insert",
         Finish(s, j) \/ (s = "transaction_outputs" /\ Step(s, j, "index")),
         \A i \in j.job : i \in Due(Load(s), BlockOf(i)) =>
                            (i \in S <=> i \in Due(s, BlockOf(i))),
         UNCHANGED <<chan, main, left>>
  PROVE  \A t \in Stage : \A i \in Item : Carry(t, i)
<1> SUFFICES ASSUME NEW t \in Stage, NEW i \in Item PROVE Carry(t, i)
  OBVIOUS
<1> DEFINE T == "transactions"
<1>1. /\ T \in Stage /\ s # T /\ Placed(t, i) /\ Placed(T, i) /\ Placed(s, i)
      /\ busy \in [Stage -> SUBSET Job] /\ rows \in [Stage -> [Item -> Nat]]
      /\ rows[t][i] \in Nat /\ rows[T][i] \in Nat /\ rows[s][i] \in Nat
  BY DEF Stage, Once, TypedChain, TypeOK
<1>2. \A x : Unsent(x)' <=> Unsent(x)
  BY UnsentUnchanged
<1>3. Live(s) = {"insert"}
  BY LiveOf
<1>4. /\ BusyApart(s, i)'
      /\ \A P : i \notin j.job => (InBusy(s, i, P)' <=> InBusy(s, i, P))
      /\ i \in j.job => InBusy(s, i, {"insert"}) /\ ~InBusy(s, i, {"insert"})'
      /\ \A u \in Stage : u # s => busy'[u] = busy[u]
  <2>1. j.phase \in Live(s) /\ BusyApart(s, i) /\ {"insert"} \in SUBSET Live(s)
    BY <1>1, <1>3 DEF Placed, Apart
  <2>2. CASE Finish(s, j)
    BY <1>1, <2>1, <2>2, FinishMoves
  <2>3. CASE Step(s, j, "index")
    BY <1>1, <2>1, <2>3, StepMoves
  <2> QED
    BY <2>2, <2>3
<1>5. \A u : (InChan(u, i)' <=> InChan(u, i)) /\ (ChanApart(u, i)' <=> ChanApart(u, i))
  BY DEF InChan, ChanApart
<1>6. \A u \in Stage : u # s => /\ \A P : InBusy(u, i, P)' <=> InBusy(u, i, P)
                                /\ Apart(u, i)' <=> Apart(u, i)
  BY <1>4, StageUnmoved
<1>7. \A u \in Stage : rows'[u][i] = IF u = s /\ i \in S THEN rows[u][i] + 1 ELSE rows[u][i]
  BY <1>1 DEF Insert
<1>8. Upstream(t, i)' <=> Upstream(t, i)
  BY <1>1, <1>5, <1>6 DEF Upstream
<1>9. /\ rows'[T][i] = rows[T][i]
      /\ InBusy(T, i, {"links", "outputs"})' <=> InBusy(T, i, {"links", "outputs"})
  BY <1>1, <1>6, <1>7
<1>10. CASE i \notin j.job \/ t # s
  <2>1. /\ \A P : InBusy(t, i, P)' <=> InBusy(t, i, P)
        /\ rows'[t][i] = rows[t][i]
    BY <1>4, <1>6, <1>7, <1>10
  <2>2. Waiting(t, i)' <=> Waiting(t, i)
    BY <1>5, <2>1 DEF Waiting
  <2>3. Apart(t, i)'
    <3>1. CASE t = s
      BY <1>1, <1>4, <1>5, <2>1, <3>1 DEF Placed, Apart
    <3>2. CASE t # s
      BY <1>1, <1>6, <3>2 DEF Placed
    <3> QED
      BY <3>1, <3>2
  <2>4. Flow(t, i)' = Flow(t, i)
    BY <1>2, <1>8, <2>1, <2>2 DEF Flow, One
  <2> QED
    BY <1>1, <1>5, <1>9, <2>1, <2>2, <2>3, <2>4 DEF Placed, Carry
<1>11. CASE i \in j.job /\ t = s
  <2>1. InBusy(s, i, {"insert"}) /\ ~InBusy(s, i, {"insert"})' /\ ~InBusy(s, i, Live(s))'
    BY <1>3, <1>4, <1>11
  <2>2. ~InChan(s, i) /\ ~InChan(s, i)'
    BY <1>1, <1>3, <1>5, <2>1 DEF Placed, Apart
  <2>3. Waiting(s, i) /\ ~Waiting(s, i)'
    BY <2>1, <2>2 DEF Waiting
  <2>4. rows[s][i] = 0 /\ ~Upstream(s, i) /\ ~Unsent(i)
    BY <1>1, <2>3 DEF Placed, Flow, One
  <2>5. i \in Due(Load(s), BlockOf(i))
    BY <1>1, <1>3, <2>1 DEF Placed
  <2>6. rows'[s][i] = One(i \in S)
    BY <1>7, <2>4 DEF One
  <2>7. Flow(s, i)' = One(i \in S) /\ Flow(s, i) = 1
    BY <1>2, <1>8, <1>11, <2>3, <2>4, <2>6 DEF Flow, One
  <2>8. i \in Due(s, BlockOf(i)) <=> i \in S
    BY <1>11, <2>5
  <2>9. Apart(s, i)'
    BY <1>1, <1>4, <1>5, <2>2 DEF Placed, Apart
  <2> QED
    BY <1>1, <1>9, <1>11, <2>1, <2>2, <2>3, <2>6, <2>7, <2>8, <2>9 DEF Placed, Carry, One
<1> QED
  BY <1>10, <1>11

LEMMA SaveOutputsCarries ==
  ASSUME TypedChain, Once, NEW j \in busy["transaction_outputs"], SaveOutputs(j)
  PROVE  \A t \in Stage : \A i \in Item : Carry(t, i)
<1> DEFINE O == "transaction_outputs"
           S == WithOutputs(j.job)
<1>1. /\ O \in Stage \ {"transactions"} /\ j.phase = "insert" /\ Insert(O, S)
      /\ Step(O, j, "index") /\ UNCHANGED <<chan, main, left>>
  BY DEF Stage, SaveOutputs
<1>2. j.job \in SUBSET Item
  BY <1>1 DEF TypedChain, TypeOK, Job
<1>3. S \in SUBSET Item /\ S \subseteq j.job
  BY <1>2 DEF WithOutputs
<1>4. \A i \in j.job : i \in Due(Load(O), BlockOf(i)) => (i \in S <=> i \in Due(O, BlockOf(i)))
  <2>1. \A h \in Height : Due(O, h) = WithOutputs(Due("transactions", h))
    BY DueOf
  <2>2. Load(O) = "transactions"
    BY DEF Load
  <2>3. \A i \in j.job : BlockOf(i) \in Height
    BY <1>2, BlockOfItem
  <2> QED
    BY <2>1, <2>2, <2>3 DEF WithOutputs
<1> QED
  BY <1>1, <1>3, <1>4, StoreCarries

LEMMA SaveRowsCarries ==
  ASSUME TypedChain, Once, NEW s \in LeafStage, NEW j \in busy[s], SaveRows(s, j)
  PROVE  \A t \in Stage : \A i \in Item : Carry(t, i)
<1>1. /\ s \in Stage \ {"transactions"} /\ Insert(s, j.job)
      /\ Finish(s, j) /\ UNCHANGED <<chan, main, left>>
  BY DEF LeafStage, SaveRows
<1>2. j.job \in SUBSET Item /\ j.phase = "insert"
  BY <1>1, LiveOf DEF TypedChain, TypeOK, Job, Once, PhasesFit
<1>3. Load(s) = s
  BY DEF Load, LeafStage
<1> QED
  BY <1>1, <1>2, <1>3, StoreCarries

\* IndexTxAddress ends a job whose rows are stored.
LEMMA IndexTxAddressCarries ==
  ASSUME TypedChain, Once, NEW j \in busy["transaction_outputs"], IndexTxAddress(j)
  PROVE  \A t \in Stage : \A i \in Item : Carry(t, i)
<1> SUFFICES ASSUME NEW t \in Stage, NEW i \in Item PROVE Carry(t, i)
  OBVIOUS
<1> DEFINE T == "transactions"
           O == "transaction_outputs"
<1>1. /\ T \in Stage /\ O \in Stage /\ O # T /\ j.phase = "index" /\ Finish(O, j)
      /\ UNCHANGED <<rows, chan, main, left>> /\ Placed(t, i) /\ Placed(O, i)
      /\ busy \in [Stage -> SUBSET Job]
  BY DEF Stage, IndexTxAddress, Once, TypedChain, TypeOK
<1>2. \A x : Unsent(x)' <=> Unsent(x)
  BY <1>1, UnsentUnchanged
<1>3. /\ BusyApart(O, i)'
      /\ \A P : j.phase \notin P => (InBusy(O, i, P)' <=> InBusy(O, i, P))
      /\ \A u \in Stage : u # O => busy'[u] = busy[u]
  BY <1>1, FinishMoves DEF Placed, Apart
<1>4. \A u \in Stage : "index" \notin Live(u) /\ "index" \notin Before(u)
  BY DEF Live, Before
<1>5. \A u \in Stage : \A P : "index" \notin P => (InBusy(u, i, P)' <=> InBusy(u, i, P))
  BY <1>1, <1>3 DEF InBusy
<1>6. \A u : InChan(u, i)' <=> InChan(u, i)
  BY <1>1 DEF InChan
<1>7. Apart(t, i)'
  <2>1. CASE t = O
    BY <1>1, <1>3, <1>4, <1>5, <1>6, <2>1 DEF Placed, Apart, ChanApart
  <2>2. CASE t # O
    BY <1>1, <1>3, <2>2, StageUnmoved DEF Placed
  <2> QED
    BY <2>1, <2>2
<1>8. /\ Waiting(t, i)' <=> Waiting(t, i)
      /\ Upstream(t, i)' <=> Upstream(t, i)
  BY <1>1, <1>4, <1>5, <1>6 DEF Waiting, Upstream
<1>9. Flow(t, i)' = Flow(t, i)
  BY <1>1, <1>2, <1>8 DEF Flow, One
<1> QED
  BY <1>1, <1>4, <1>5, <1>6, <1>7, <1>8, <1>9 DEF Placed, Carry

\* Steps that move no job and store nothing, and drop at most what is not due.
LEMMA QuietCarries ==
  ASSUME Once, UNCHANGED <<rows, chan, busy>>, NEW t \in Stage, NEW i \in Item,
         Unsent(i)' => Unsent(i),
         Unsent(i) /\ ~Unsent(i)' => i \notin Due(t, BlockOf(i)),
         rows[t][i] \in Nat
  PROVE  Carry(t, i)
<1> DEFINE T == "transactions"
<1>1. Placed(t, i)
  BY DEF Once
<1>2. \A u : /\ InChan(u, i)' <=> InChan(u, i)
             /\ \A P : InBusy(u, i, P)' <=> InBusy(u, i, P)
             /\ Apart(u, i)' <=> Apart(u, i)
  BY StageUnmoved
<1>3. Waiting(t, i)' <=> Waiting(t, i)
  BY <1>2 DEF Waiting
<1>4. Upstream(t, i)' <=> Upstream(t, i)
  BY <1>2 DEF Upstream
<1>5. Flow(t, i)' <= Flow(t, i) /\ Flow(t, i) \in Int /\ Flow(t, i)' \in Int
  BY <1>3, <1>4 DEF Flow, One
<1>6. i \in Due(t, BlockOf(i)) => Flow(t, i)' = Flow(t, i)
  BY <1>3, <1>4 DEF Flow, One
<1>7. Flow(t, i)' <= 1
  BY <1>1, <1>5 DEF Placed
<1> QED
  BY <1>1, <1>2, <1>3, <1>6, <1>7 DEF Placed, Carry

\* Items of a block that is not past its link are nowhere.
LEMMA NotPastLinkNowhere ==
  ASSUME TypedChain, Provenance, NEW s \in Stage, NEW i \in Item, BlockOf(i) \notin PastLink
  PROVE  rows[s][i] = 0 /\ ~InChan(s, i) /\ \A P : ~InBusy(s, i, P)
<1>1. rows[s][i] \in Nat
  BY DEF TypedChain, TypeOK
<1> QED
  BY <1>1 DEF Provenance, RowsPastLink, ChanPastLink, BusyPastLink, Stored, InChan, InBusy

\* A new block's items are unsent; all others are where they were.
LEMMA SaveBlockPlaces ==
  ASSUME TypedChain, Provenance, Once, SaveBlock
  PROVE  \A t \in Stage : \A i \in Item :
           /\ Placed(t, i)'
           /\ i \in Items(height) => Flow(t, i)' = 1
           /\ i \notin Items(height) => Carry(t, i)
<1> SUFFICES ASSUME NEW t \in Stage, NEW i \in Item
             PROVE  /\ Placed(t, i)'
                    /\ i \in Items(height) => Flow(t, i)' = 1
                    /\ i \notin Items(height) => Carry(t, i)
  OBVIOUS
<1> DEFINE T == "transactions"
<1>1. UNCHANGED <<rows, chan, busy>> /\ T \in Stage /\ rows[t][i] \in Nat
  BY DEF SaveBlock, mem, TypedChain, TypeOK, Stage
<1>2. /\ Unsent(i)' <=> Unsent(i) \/ i \in Items(height)
      /\ i \in Items(height) => ~Unsent(i)
  BY SaveBlockUnsent DEF Once
<1>3. CASE i \notin Items(height)
  BY <1>1, <1>2, <1>3, QuietCarries DEF Carry
<1>4. CASE i \in Items(height)
  <2>1. height \in Height /\ height \notin blocks
    BY DEF SaveBlock, TypedChain, ChainInv, Up, Height, TypeOK
  <2>2. BlockOf(i) = height /\ BlockOf(i) \notin PastLink
    BY <1>4, <2>1, BlockOfItem DEF PastLink
  <2>3. /\ rows[t][i] = 0 /\ ~InChan(t, i) /\ \A P : ~InBusy(t, i, P)
        /\ ~InChan(T, i) /\ \A P : ~InBusy(T, i, P)
    BY <1>1, <2>2, NotPastLinkNowhere
  <2>4. \A u : /\ InChan(u, i)' <=> InChan(u, i)
               /\ \A P : InBusy(u, i, P)' <=> InBusy(u, i, P)
               /\ Apart(u, i)' <=> Apart(u, i)
    BY <1>1, StageUnmoved
  <2>5. ~Waiting(t, i)' /\ ~Upstream(t, i)' /\ Unsent(i)'
    BY <1>2, <1>4, <2>3, <2>4 DEF Waiting, Upstream
  <2>6. Flow(t, i)' = 1
    BY <1>1, <2>3, <2>5 DEF Flow, One
  <2>7. Placed(t, i)
    BY DEF Once
  <2> QED
    BY <1>1, <1>4, <2>3, <2>4, <2>5, <2>6, <2>7 DEF Placed
<1> QED
  BY <1>3, <1>4

LEMMA LinkCarries ==
  ASSUME TypedChain, Once, LinkBlockValidator
  PROVE  \A t \in Stage : \A i \in Item : Carry(t, i)
<1> SUFFICES ASSUME NEW t \in Stage, NEW i \in Item PROVE Carry(t, i)
  OBVIOUS
<1>1. UNCHANGED <<rows, chan, busy>> /\ rows[t][i] \in Nat /\ height \in Height
  BY LoopAtLastBlock DEF LinkBlockValidator, mem, TypedChain, TypeOK, Up
<1>2. /\ Unsent(i)' => Unsent(i)
      /\ Unsent(i) /\ ~Unsent(i)' => i \in TxItems(height) /\ height \in NoValidators
  BY LinkUnsent DEF Once
<1>3. i \in TxItems(height) /\ height \in NoValidators => i \notin Due(t, BlockOf(i))
  <2> SUFFICES ASSUME i \in TxItems(height), height \in NoValidators
               PROVE  i \notin Due(t, height) /\ BlockOf(i) = height
    OBVIOUS
  <2>1. BlockOf(i) = height
    BY <1>1, BlockOfItem DEF Items
  <2>2. i \in Tx /\ i \notin Elements(RewardsOf[height]) /\ i \notin Elements(SlashesOf[height])
    BY <1>1, ItemsAreItems, ChainAssumption
  <2>3. /\ Due("transactions", height) = {} /\ Due("invalid_transactions", height) = {}
        /\ Due("transaction_outputs", height) = {} /\ Due("transaction_validator", height) = {}
        /\ Due("rewards", height) = Elements(RewardsOf[height])
        /\ Due("slashes", height) = Elements(SlashesOf[height])
    BY <1>1, DueOf DEF WithOutputs
  <2> QED
    BY <2>1, <2>2, <2>3 DEF Stage
<1> QED
  BY <1>1, <1>2, <1>3, QuietCarries

LEMMA SendTransactionsCarries ==
  ASSUME TypedChain, Once, SendTransactions
  PROVE  \A t \in Stage : \A i \in Item : Carry(t, i)
<1> DEFINE S == TxChunk(height, chunk) \ Invalid
<1>1. /\ height \in Height /\ chunk \in Nat /\ height \notin NoValidators
      /\ "transactions" \in Stage \ Derived
      /\ Send("transactions", S) /\ UNCHANGED <<rows, busy>>
  BY LoopAtLastBlock DEF SendTransactions, Up, db, Once, LoopFit, TypedChain, TypeOK, Stage, Derived
<1>2. S \in SUBSET Item /\ S \subseteq TxItems(height) \ Invalid
  BY <1>1, ChunksAreItems
<1>3. /\ \A i \in Item : Unsent(i)' <=> Unsent(i) /\ i \notin S
      /\ \A i \in S : Unsent(i)
  BY SendTransactionsUnsent DEF Once
<1>4. \A i \in S : i \in Due("transactions", BlockOf(i))
  <2>1. \A i \in S : BlockOf(i) = height
    BY <1>1, <1>2, BlockOfItem DEF Items
  <2>2. Due("transactions", height) = TxItems(height) \ Invalid
    BY <1>1, DueOf
  <2> QED
    BY <1>2, <2>1, <2>2
<1> QED
  BY <1>1, <1>2, <1>3, <1>4, SendCarries

LEMMA SendInvalidTransactionsCarries ==
  ASSUME TypedChain, Once, SendInvalidTransactions
  PROVE  \A t \in Stage : \A i \in Item : Carry(t, i)
<1> DEFINE S == TxChunk(height, chunk) \cap Invalid
<1>1. /\ height \in Height /\ chunk \in Nat /\ height \notin NoValidators
      /\ "invalid_transactions" \in Stage \ Derived
      /\ Send("invalid_transactions", S) /\ UNCHANGED <<rows, busy>>
  BY LoopAtLastBlock DEF SendInvalidTransactions, Up, db, Once, LoopFit, TypedChain, TypeOK, Stage, Derived
<1>2. S \in SUBSET Item /\ S \subseteq TxItems(height) \cap Invalid
  BY <1>1, ChunksAreItems
<1>3. /\ \A i \in Item : Unsent(i)' <=> Unsent(i) /\ i \notin S
      /\ \A i \in S : Unsent(i)
  BY SendInvalidTransactionsUnsent DEF Once
<1>4. \A i \in S : i \in Due("invalid_transactions", BlockOf(i))
  <2>1. \A i \in S : BlockOf(i) = height
    BY <1>1, <1>2, BlockOfItem DEF Items
  <2>2. Due("invalid_transactions", height) = TxItems(height) \cap Invalid
    BY <1>1, DueOf
  <2> QED
    BY <1>2, <2>1, <2>2
<1> QED
  BY <1>1, <1>2, <1>3, <1>4, SendCarries

LEMMA HandleEventResponseCarries ==
  ASSUME TypedChain, Once, NEW h \in Height, HandleEventResponse(h)
  PROVE  \A t \in Stage : \A i \in Item : Carry(t, i)
<1> DEFINE k == EventChunks(h) - left[h]
           S == EventChunk(h, k)
<1>1. /\ \A i \in Item : Unsent(i)' <=> Unsent(i) /\ i \notin S
      /\ \A i \in S : Unsent(i) /\ i \in EventsOf(h)
      /\ k \in Nat
  BY HandleEventResponseUnsent DEF Once
<1>2. UNCHANGED <<rows, busy>>
  BY DEF HandleEventResponse, db
<1>3. \A i \in S : BlockOf(i) = h
  BY <1>1, BlockOfItem DEF EventsOf, Items
<1>4. S \in SUBSET Item
  BY <1>1, ItemsAreItems DEF EventsOf, Item
<1>5. /\ Due("rewards", h) = Elements(RewardsOf[h]) /\ Due("slashes", h) = Elements(SlashesOf[h])
      /\ "rewards" \in Stage \ Derived /\ "slashes" \in Stage \ Derived
  BY DueOf DEF Stage, Derived
<1>6. CASE k < RewardChunks(h)
  <2>1. S = Chunk(RewardsOf[h], EventsChunkSize, k)
    BY <1>6 DEF EventChunk
  <2>2. S \subseteq Due("rewards", h)
    BY <1>1, <1>5, <2>1, ChunksAreItems
  <2>3. Send("rewards", S)
    BY <1>6, <2>1 DEF HandleEventResponse
  <2> HIDE DEF S, k
  <2> QED
    BY <1>1, <1>2, <1>3, <1>4, <1>5, <2>2, <2>3, SendCarries
<1>7. CASE ~(k < RewardChunks(h))
  <2>1. S = Chunk(SlashesOf[h], EventsChunkSize, k - RewardChunks(h))
    BY <1>7 DEF EventChunk
  <2>2. k - RewardChunks(h) \in Nat
    BY <1>1, <1>7, BlockLists
  <2>3. S \subseteq Due("slashes", h)
    BY <1>5, <2>1, <2>2, ChunksAreItems
  <2>4. Send("slashes", S)
    BY <1>7, <2>1 DEF HandleEventResponse
  <2> HIDE DEF S, k
  <2> QED
    BY <1>1, <1>2, <1>3, <1>4, <1>5, <2>3, <2>4, SendCarries
<1> QED
  BY <1>6, <1>7

\* The steps within a process that save no block.
Work ==
  \/ LinkBlockValidator \/ SendTransactions \/ SendInvalidTransactions
  \/ CreateNewCoins \/ StartGoroutines
  \/ \E s \in Stage : Receive(s)
  \/ TxWorker \/ OutputWorker
  \/ \E s \in LeafStage : LeafWorker(s)
  \/ \E h \in Height : ReadEvents(h) \/ HandleEventResponse(h) \/ AggregateRewards(h)
  \/ UpdateTxsIndex
  \/ \E c \in Coin : UpdateCoinMetaInfo(c) \/ UpdateCoinsInfo(c)

LEMMA WorkCarries ==
  ASSUME TypedChain, Once, Work
  PROVE  \A t \in Stage : \A i \in Item : Carry(t, i)
<1>1. CASE CreateNewCoins \/ StartGoroutines
  <2>1. UNCHANGED <<rows, chan, busy>>
    BY <1>1 DEF CreateNewCoins, StartGoroutines, db, mem
  <2>2. \A i \in Item : Unsent(i)' <=> Unsent(i)
    BY <1>1, CoinsUnsent DEF Once
  <2>3. \A t \in Stage : \A i \in Item : rows[t][i] \in Nat
    BY DEF TypedChain, TypeOK
  <2> QED
    BY <2>1, <2>2, <2>3, QuietCarries
<1>2. CASE \/ \E h \in Height : ReadEvents(h) \/ AggregateRewards(h)
           \/ UpdateTxsIndex
           \/ \E c \in Coin : UpdateCoinMetaInfo(c) \/ UpdateCoinsInfo(c)
  <2>1. UNCHANGED <<rows, chan, busy, main, left>>
    BY <1>2 DEF ReadEvents, AggregateRewards, UpdateTxsIndex, UpdateCoinMetaInfo,
       UpdateCoinsInfo, mem
  <2>2. \A i : Unsent(i)' <=> Unsent(i)
    BY <2>1, UnsentUnchanged
  <2>3. \A t \in Stage : \A i \in Item : rows[t][i] \in Nat
    BY DEF TypedChain, TypeOK
  <2> QED
    BY <2>1, <2>2, <2>3, QuietCarries
<1>3. CASE TxWorker
  BY <1>3, SaveTransactionsCarries, SendLinksCarries, SendOutputsCarries DEF TxWorker
<1>4. CASE OutputWorker
  BY <1>4, SaveOutputsCarries, IndexTxAddressCarries DEF OutputWorker
<1>5. CASE \E s \in LeafStage : LeafWorker(s)
  BY <1>5, SaveRowsCarries DEF LeafWorker
<1> QED
  BY <1>1, <1>2, <1>3, <1>4, <1>5, LinkCarries, SendTransactionsCarries,
     SendInvalidTransactionsCarries, ReceiveCarries, HandleEventResponseCarries DEF Work

\* Work keeps the phases of the jobs.
LEMMA WorkPhases ==
  ASSUME TypedChain, Once, Work
  PROVE  PhasesFit'
<1>1. busy \in [Stage -> SUBSET Job] /\ PhasesFit
  BY DEF TypedChain, TypeOK, Once
<1>2. /\ "insert" \in PhasesOf("transactions") /\ "links" \in PhasesOf("transactions")
      /\ "outputs" \in PhasesOf("transactions") /\ "index" \in PhasesOf("transaction_outputs")
      /\ \A s \in Stage : "insert" \in PhasesOf(s)
      /\ "transactions" \in Stage /\ "transaction_outputs" \in Stage
  BY DEF PhasesOf, Stage
<1>3. ASSUME NEW s \in Stage, Receive(s) PROVE PhasesFit'
  BY <1>1, <1>2, <1>3 DEF Receive, PhasesFit, At
<1>4. ASSUME NEW s \in Stage, NEW j \in busy[s], NEW phase \in PhasesOf(s),
             Step(s, j, phase) \/ Finish(s, j)
      PROVE  PhasesFit'
  BY <1>1, <1>4 DEF Step, Finish, At, PhasesFit
<1>5. CASE TxWorker
  BY <1>2, <1>4, <1>5 DEF TxWorker, SaveTransactions, SendLinks, SendOutputs
<1>6. CASE OutputWorker
  BY <1>2, <1>4, <1>6 DEF OutputWorker, SaveOutputs, IndexTxAddress
<1>7. CASE \E s \in LeafStage : LeafWorker(s)
  BY <1>2, <1>4, <1>7 DEF LeafWorker, SaveRows, LeafStage
<1>8. CASE UNCHANGED busy
  BY <1>1, <1>8 DEF PhasesFit
<1>9. CASE \/ LinkBlockValidator \/ SendTransactions \/ SendInvalidTransactions
           \/ CreateNewCoins \/ StartGoroutines
           \/ \E h \in Height : ReadEvents(h) \/ HandleEventResponse(h) \/ AggregateRewards(h)
           \/ UpdateTxsIndex
           \/ \E c \in Coin : UpdateCoinMetaInfo(c) \/ UpdateCoinsInfo(c)
  BY <1>8, <1>9 DEF LinkBlockValidator, SendTransactions, SendInvalidTransactions, CreateNewCoins,
     StartGoroutines, ReadEvents, HandleEventResponse, AggregateRewards, UpdateTxsIndex, UpdateCoinMetaInfo,
     UpdateCoinsInfo, mem
<1> QED
  BY <1>3, <1>5, <1>6, <1>7, <1>9 DEF Work

\* The loop stays within the chunks of its block.
LEMMA WorkLoopFit ==
  ASSUME TypedChain, Once, Work
  PROVE  LoopFit'
<1>1. LoopFit /\ chunk \in Nat
  BY DEF Once, TypedChain, TypeOK
<1>2. CASE LinkBlockValidator
  <2>1. /\ height \in Height /\ pc = "link" /\ pc' \in {"valid", "coins"} /\ left[height] = 0
        /\ UNCHANGED <<height, left>> /\ chunk' = 0
        /\ pc' = "valid" => TxItems(height) # {} /\ height \notin NoValidators
    BY <1>1, <1>2, LoopAtLastBlock DEF LinkBlockValidator, Up, mem, LoopFit
  <2>2. TxItems(height) # {} => 0 < TxChunks(height)
    <3>1. TxChunks(height) \in Nat
      BY <2>1, BlockLists
    <3>2. TxChunks(height) <= 0 => TxItems(height) = {}
      BY <2>1, TxsEnd, TxsStart
    <3> QED
      BY <3>1, <3>2
  <2> QED
    BY <2>1, <2>2 DEF LoopFit
<1>3. CASE SendTransactions \/ SendInvalidTransactions \/ CreateNewCoins
  BY <1>1, <1>3 DEF SendTransactions, SendInvalidTransactions, CreateNewCoins, LoopFit, Up, mem
<1>4. CASE StartGoroutines
  BY <1>4 DEF StartGoroutines, LoopFit
<1>5. ASSUME NEW h \in Height, HandleEventResponse(h) PROVE LoopFit'
  <2>1. /\ UNCHANGED <<pc, height, chunk>> /\ left[h] > 0
        /\ left' = [left EXCEPT ![h] = @ - 1] /\ left \in [Height -> Nat]
    BY <1>5 DEF HandleEventResponse, main, TypedChain, TypeOK
  <2>2. Up /\ pc # "save" => height \in Height /\ height # h /\ left'[height] = 0
    BY <1>1, <2>1, LoopAtLastBlock DEF LoopFit
  <2> QED
    BY <1>1, <2>1, <2>2 DEF LoopFit, Up
<1>6. CASE UNCHANGED <<main, left>>
  BY <1>1, <1>6 DEF main, LoopFit, Up
<1>7. CASE \/ \E s \in Stage : Receive(s)
           \/ TxWorker \/ OutputWorker
           \/ \E s \in LeafStage : LeafWorker(s)
  BY <1>6, <1>7 DEF Receive, TxWorker, OutputWorker, LeafWorker, SaveTransactions, SendLinks,
     SendOutputs, SaveOutputs, IndexTxAddress, SaveRows
<1>8. CASE \/ \E h \in Height : ReadEvents(h) \/ AggregateRewards(h)
           \/ UpdateTxsIndex
           \/ \E c \in Coin : UpdateCoinMetaInfo(c) \/ UpdateCoinsInfo(c)
  BY <1>6, <1>8 DEF ReadEvents, AggregateRewards, UpdateTxsIndex, UpdateCoinMetaInfo,
     UpdateCoinsInfo, mem
<1> QED
  BY <1>2, <1>3, <1>4, <1>5, <1>7, <1>8 DEF Work

\* Work saves and deletes no block and neither ends nor starts a process.
LEMMA WorkFrame ==
  ASSUME Work
  PROVE  UNCHANGED <<blocks, resumed, Up>>
<1>1. CASE \/ LinkBlockValidator \/ SendTransactions \/ SendInvalidTransactions
           \/ CreateNewCoins \/ StartGoroutines
  BY <1>1 DEF LinkBlockValidator, SendTransactions, SendInvalidTransactions, CreateNewCoins,
     StartGoroutines, Up, db, mem
<1>2. CASE \E s \in Stage : Receive(s)
  BY <1>2 DEF Receive, Up, db, main
<1>3. CASE TxWorker
  BY <1>3 DEF TxWorker, SaveTransactions, SendLinks, SendOutputs, Up, db, main
<1>4. CASE OutputWorker
  BY <1>4 DEF OutputWorker, SaveOutputs, IndexTxAddress, Up, main
<1>5. CASE \E s \in LeafStage : LeafWorker(s)
  BY <1>5 DEF LeafWorker, SaveRows, Up, main
<1>6. CASE \E h \in Height : ReadEvents(h) \/ HandleEventResponse(h) \/ AggregateRewards(h)
  BY <1>6 DEF ReadEvents, HandleEventResponse, AggregateRewards, Up, db, main
<1>7. CASE UpdateTxsIndex \/ \E c \in Coin : UpdateCoinMetaInfo(c) \/ UpdateCoinsInfo(c)
  BY <1>7 DEF UpdateTxsIndex, UpdateCoinMetaInfo, UpdateCoinsInfo, Up, main
<1> QED
  BY <1>1, <1>2, <1>3, <1>4, <1>5, <1>6, <1>7 DEF Work

LEMMA WorkOnce ==
  ASSUME TypedChain, Once, Work
  PROVE  Once'
<1>1. \A t \in Stage : \A i \in Item : Carry(t, i)
  BY WorkCarries
<1>2. PhasesFit' /\ LoopFit'
  BY WorkPhases, WorkLoopFit
<1>3. \A t \in Stage : \A i \in Item : Placed(t, i)'
  BY <1>1 DEF Carry
<1>4. NothingLost'
  <2>1. UNCHANGED <<blocks, resumed, Up>> /\ NothingLost
    BY WorkFrame DEF Once
  <2> QED
    BY <1>1, <2>1 DEF NothingLost, Carry
<1> QED
  BY <1>2, <1>3, <1>4 DEF Once

LEMMA SaveBlockOnce ==
  ASSUME TypedChain, Provenance, Once, SaveBlock
  PROVE  Once'
<1>1. /\ height \in Height /\ pc = "save" /\ pc' = "link" /\ blocks' = blocks \cup {height}
      /\ height \notin blocks /\ UNCHANGED <<height, chunk, left, busy, resumed>>
  BY DEF SaveBlock, TypedChain, ChainInv, Up, Height, TypeOK, mem
<1>2. \A t \in Stage : \A i \in Item :
        /\ Placed(t, i)'
        /\ i \in Items(height) => Flow(t, i)' = 1
        /\ i \notin Items(height) => Carry(t, i)
  BY SaveBlockPlaces
<1>3. PhasesFit'
  BY <1>1 DEF Once, PhasesFit
<1>4. LoopFit'
  <2>1. left[height] = 0
    BY <1>1 DEF Provenance, LoopPastLink, PastLink, TypedChain, TypeOK
  <2> QED
    BY <1>1, <2>1 DEF LoopFit
<1>5. NothingLost'
  <2>1. \A i \in Item : BlockOf(i) = height => i \in Items(height)
    BY BlockOfItem
  <2> QED
    BY <1>1, <1>2, <2>1 DEF Once, NothingLost, Carry, Up
<1> QED
  BY <1>2, <1>3, <1>4, <1>5 DEF Once

\* In a process without jobs, before it saves its first block, only rows count.
LEMMA EmptyPlaces ==
  ASSUME TypedChain', chan' = NoChan, busy' = NoBusy, left' = NoLeft,
         pc' \in {"down", "save"},
         NEW s \in Stage, NEW i \in Item,
         rows'[s][i] <= 1, rows'[s][i] > 0 => i \in Due(s, BlockOf(i))
  PROVE  Placed(s, i)' /\ Flow(s, i)' = rows'[s][i]
<1>1. \A t \in Stage : /\ ~InChan(t, i)' /\ \A P : ~InBusy(t, i, P)'
                       /\ Apart(t, i)'
  BY DEF InChan, InBusy, Apart, ChanApart, BusyApart, NoChan, NoBusy
<1>2. ~Unsent(i)'
  <2>1. UnsentTxs' = {}
    BY DEF UnsentTxs
  <2>2. \A h \in Height : UnsentEvents(h)' = {}
    BY DEF UnsentEvents, Up, NoLeft
  <2> QED
    BY <2>1, <2>2 DEF Unsent
<1>3. "transactions" \in Stage /\ rows'[s][i] \in Nat
  BY DEF Stage, TypedChain, TypeOK
<1>4. ~Waiting(s, i)' /\ ~Upstream(s, i)'
  BY <1>1, <1>3 DEF Waiting, Upstream
<1>5. Flow(s, i)' = rows'[s][i]
  BY <1>2, <1>3, <1>4 DEF Flow, One
<1> QED
  BY <1>1, <1>3, <1>4, <1>5 DEF Placed

\* The rows that outlive a process are those it had stored.
LEMMA DeathOnce ==
  ASSUME TypedChain, TypedChain', Once,
         chan' = NoChan, busy' = NoBusy, left' = NoLeft, pc' \in {"down", "save"},
         \A s \in Stage : \A i \in Item : rows'[s][i] = rows[s][i] \/ rows'[s][i] = 0,
         pc' = "down" \/ \A h \in blocks' : h < resumed'
  PROVE  Once'
<1>1. \A s \in Stage : \A i \in Item : Placed(s, i)'
  <2> SUFFICES ASSUME NEW s \in Stage, NEW i \in Item PROVE Placed(s, i)'
    OBVIOUS
  <2>1. rows[s][i] \in Nat /\ Placed(s, i) /\ rows'[s][i] \in Nat
    BY DEF Once, TypedChain, TypeOK
  <2>2. rows[s][i] <= 1 /\ (rows[s][i] > 0 => i \in Due(s, BlockOf(i)))
    BY <2>1 DEF Placed, Flow, One
  <2>3. rows'[s][i] <= 1 /\ (rows'[s][i] > 0 => i \in Due(s, BlockOf(i)))
    BY <2>1, <2>2
  <2> QED
    BY <2>3, EmptyPlaces
<1>2. PhasesFit' /\ LoopFit'
  BY DEF PhasesFit, LoopFit, NoBusy, Up
<1>3. NothingLost'
  <2>1. blocks' \subseteq Int /\ resumed' \in Int
    BY DEF TypedChain, TypeOK, Height
  <2> QED
    BY <2>1 DEF NothingLost, Up
<1> QED
  BY <1>1, <1>2, <1>3 DEF Once

LEMMA FaultsOnce ==
  ASSUME TypedChain, Provenance, Once, Crash \/ LookupFails \/ Panic \/ Restart \/ RestartBlind
  PROVE  Once'
<1>1. TypedChain'
  BY FaultsTypedChain
<1>2. CASE Crash \/ LookupFails \/ Panic
  BY <1>1, <1>2, DeathOnce DEF Crash, LookupFails, Panic, Die, db
<1>3. CASE Restart \/ RestartBlind
  <2>1. /\ pc = "down" /\ DeleteLastBlockData /\ pc' = "save"
        /\ UNCHANGED mem /\ resumed' = LastBlock' + 1
    BY <1>3 DEF Restart, RestartBlind, ResumeAt, Up
  <2>2. chan' = NoChan /\ busy' = NoBusy /\ left' = NoLeft
    BY <2>1 DEF Provenance, DownIsEmpty, mem
  <2>3. \A h \in blocks' : h < resumed'
    BY <2>1, DeleteTypedChain
  <2>4. \A s \in Stage : \A i \in Item : rows'[s][i] = rows[s][i] \/ rows'[s][i] = 0
    BY <2>1 DEF DeleteLastBlockData
  <2> QED
    BY <1>1, <2>1, <2>2, <2>3, <2>4, DeathOnce
<1> QED
  BY <1>2, <1>3

LEMMA InitOnce == Init => Once
<1> SUFFICES ASSUME Init PROVE Once
  OBVIOUS
<1>1. \A s \in Stage : \A i \in Item :
        /\ rows[s][i] = 0 /\ ~InChan(s, i) /\ \A P : ~InBusy(s, i, P)
        /\ Apart(s, i)
  BY DEF Init, NoChan, NoBusy, InChan, InBusy, Apart, ChanApart, BusyApart
<1>2. \A i : ~Unsent(i)
  <2>1. UnsentTxs = {}
    BY DEF UnsentTxs, Init
  <2>2. \A h \in Height : UnsentEvents(h) = {}
    BY DEF UnsentEvents, Up, NoLeft, Init
  <2> QED
    BY <2>1, <2>2 DEF Unsent
<1>3. "transactions" \in Stage
  BY DEF Stage
<1>4. \A s \in Stage : \A i \in Item : ~Waiting(s, i) /\ ~Upstream(s, i)
  BY <1>1, <1>3 DEF Waiting, Upstream
<1>5. \A s \in Stage : \A i \in Item : Flow(s, i) = 0
  BY <1>1, <1>2, <1>4 DEF Flow, One
<1>6. \A s \in Stage : \A i \in Item : Placed(s, i)
  BY <1>1, <1>3, <1>4, <1>5 DEF Placed
<1>7. PhasesFit /\ LoopFit /\ NothingLost
  BY DEF Init, PhasesFit, LoopFit, NothingLost, NoBusy
<1> QED
  BY <1>6, <1>7 DEF Once

\* Every step, whoever takes it.
LEMMA NextOnce == TypedChain /\ Provenance /\ Once /\ [Next]_vars => Once'
<1> SUFFICES ASSUME TypedChain, Provenance, Once, [Next]_vars PROVE Once'
  OBVIOUS
<1>1. CASE UNCHANGED vars
  <2>1. UNCHANGED <<blocks, rows, chan, busy, main, left, resumed>>
    BY <1>1 DEF vars, db, mem
  <2>2. \A i : Unsent(i)' <=> Unsent(i)
    BY <2>1, UnsentUnchanged
  <2>3. \A t \in Stage : \A i \in Item : rows[t][i] \in Nat
    BY DEF TypedChain, TypeOK
  <2>4. \A t \in Stage : \A i \in Item : Carry(t, i)
    BY <2>1, <2>2, <2>3, QuietCarries
  <2>5. PhasesFit' /\ LoopFit'
    BY <2>1 DEF Once, PhasesFit, LoopFit, Up, main
  <2>6. NothingLost'
    BY <2>1, <2>4 DEF Once, NothingLost, Carry, Up, main
  <2> QED
    BY <2>4, <2>5, <2>6 DEF Once, Carry
<1>2. CASE Next
  BY <1>2, WorkOnce, SaveBlockOnce, FaultsOnce DEF Next, Run, Work
<1> QED
  BY <1>1, <1>2

Whole == TypedChain /\ Provenance /\ Once

LEMMA AlwaysWhole == Spec => []Whole
<1>1. Init => Whole
  BY InitTypedChain, InitProvenance, InitOnce DEF Whole
<1>2. Whole /\ [Next]_vars => Whole'
  BY NextTypedChain, NextProvenance, NextOnce DEF Whole
<1> QED
  BY <1>1, <1>2, PTL DEF Spec

LEMMA WholeAtMostOnce == Whole => AtMostOnce
<1> SUFFICES ASSUME Whole, NEW s \in Stage, NEW i \in Item
             PROVE  rows[s][i] <= IF BlockOf(i) \in blocks /\ i \in Due(s, BlockOf(i)) THEN 1 ELSE 0
  BY DEF AtMostOnce
<1>1. rows[s][i] \in Nat /\ Placed(s, i)
  BY DEF Whole, TypedChain, TypeOK, Once
<1>2. rows[s][i] <= 1 /\ (rows[s][i] > 0 => i \in Due(s, BlockOf(i)))
  BY <1>1 DEF Placed, Flow, One
<1>3. rows[s][i] > 0 => BlockOf(i) \in blocks
  BY DEF Whole, Provenance, RowsPastLink, PastLink, Stored
<1> QED
  BY <1>1, <1>2, <1>3

\* No table has an item twice, or one that its block, which is there, does not
\* give it: whatever chunks the lists are cut into, however the jobs overtake
\* each other and wherever the process dies between two of its inserts.
THEOREM StoredAtMostOnce == Spec => []AtMostOnce
BY AlwaysWhole, WholeAtMostOnce, PTL

\* The jobs that carry an item, counted: at most one.
LEMMA AtMostOneCounts ==
  ASSUME NEW S, \A x, y \in S : x = y
  PROVE  Cardinality(S) = One(S # {})
<1>1. CASE S = {}
  BY <1>1, FS_EmptySet DEF One
<1>2. CASE S # {}
  <2>1. PICK x \in S : TRUE
    BY <1>2
  <2>2. S = {x}
    BY <2>1
  <2>3. Cardinality(S) = 1
    BY <2>2, FS_Singleton
  <2> QED
    BY <1>2, <2>3 DEF One
<1> QED
  BY <1>1, <1>2

LEMMA CarriersAre ==
  ASSUME TypedChain, NEW s \in Stage, NEW t \in Stage, NEW i \in Item, Apart(t, i),
         NEW P \in SUBSET Live(t),
         P = IF s = t THEN {"insert"}
             ELSE {"insert", "links"}
                    \cup (IF s = "transaction_outputs" THEN {"outputs"} ELSE {})
  PROVE  Carriers(s, t, i) = One(InChan(t, i) \/ InBusy(t, i, P))
<1> DEFINE N == {n \in DOMAIN chan[t] : i \in chan[t][n]}
           J == {j \in busy[t] : i \in j.job /\ j.phase \in P}
<1>1. Carriers(s, t, i) = Cardinality(N) + Cardinality(J)
  BY DEF Carriers
<1>2. DOMAIN chan[t] = 1 .. Len(chan[t])
  BY DEF TypedChain, TypeOK
<1>3. Cardinality(N) = One(N # {})
  BY <1>2, AtMostOneCounts DEF Apart, ChanApart
<1>4. Cardinality(J) = One(J # {})
  BY AtMostOneCounts DEF Apart, BusyApart
<1>5. N # {} <=> InChan(t, i)
  BY <1>2 DEF InChan
<1>6. J # {} <=> InBusy(t, i, P)
  BY DEF InBusy
<1>7. ~(InChan(t, i) /\ InBusy(t, i, P))
  BY DEF Apart, InBusy
<1> HIDE DEF N, J
<1> QED
  BY <1>1, <1>3, <1>4, <1>5, <1>6, <1>7 DEF One

LEMMA CopiesAre ==
  ASSUME Whole, NEW s \in Stage, NEW i \in Item
  PROVE  Copies(s, i) = Flow(s, i)
<1> DEFINE T == "transactions"
<1>1. TypedChain /\ T \in Stage /\ Apart(s, i) /\ Apart(T, i)
  BY DEF Whole, Once, Placed, Stage
<1>2. "insert" \in Live(s) /\ Live(T) = {"insert", "links", "outputs"}
  BY LiveOf
<1>3. Carriers(s, s, i) = One(Waiting(s, i))
  <2>1. {"insert"} \in SUBSET Live(s)
    BY <1>2, LiveOf
  <2>2. Carriers(s, s, i) = One(InChan(s, i) \/ InBusy(s, i, {"insert"}))
    BY <1>1, <2>1, CarriersAre
  <2> QED
    BY <2>2 DEF Waiting
<1>4. s \in Derived => Carriers(s, T, i) = One(Upstream(s, i))
  <2>1. SUFFICES ASSUME s \in Derived PROVE Carriers(s, T, i) = One(Upstream(s, i))
    OBVIOUS
  <2>2. s # T /\ Before(s) = {"insert", "links"}
                 \cup (IF s = "transaction_outputs" THEN {"outputs"} ELSE {})
    BY <2>1 DEF Before, Derived
  <2>3. Before(s) \in SUBSET Live(T)
    BY <1>2 DEF Before
  <2>4. Carriers(s, T, i) = One(InChan(T, i) \/ InBusy(T, i, Before(s)))
    BY <1>1, <2>2, <2>3, CarriersAre
  <2> QED
    BY <2>1, <2>4 DEF Upstream
<1>5. s \notin Derived => One(Upstream(s, i)) = 0
  BY DEF Upstream, One
<1>6. rows[s][i] \in Nat
  BY <1>1 DEF TypedChain, TypeOK
<1>7. \A b : One(b) \in Nat
  BY DEF One
<1>8. (IF i \in UnsentTxs \cup UNION {UnsentEvents(h) : h \in Height} THEN 1 ELSE 0) = One(Unsent(i))
  BY DEF One, Unsent
<1> QED
  BY <1>3, <1>4, <1>5, <1>6, <1>7, <1>8 DEF Copies, Flow, Derived

LEMMA WholeExactlyOnce == Whole => ExactlyOnce
<1> SUFFICES ASSUME Whole, Up, NEW s \in Stage, NEW h \in blocks, h >= resumed, NEW i \in Due(s, h)
             PROVE  Copies(s, i) = 1
  BY DEF ExactlyOnce
<1>1. h \in Height
  BY DEF Whole, TypedChain, TypeOK
<1>2. i \in Item /\ BlockOf(i) = h
  BY <1>1, DueOf, BlockOfItem, ItemsAreItems
<1>3. Flow(s, i) = 1
  BY <1>2 DEF Whole, Once, NothingLost
<1> QED
  BY <1>2, <1>3, CopiesAre

\* While the process runs, every row that a block of this process gives is
\* stored or on its way, and once: between the loop, the goroutines, the
\* channels and the workers no job is lost, repeated or handed on twice.
THEOREM DeliveredExactlyOnce == Spec => []ExactlyOnce
BY AlwaysWhole, WholeExactlyOnce, PTL

-----------------------------------------------------------------------------
\* The pipeline implements the abstract seeding: a saved block is appended, an
\* insert stores rows, a restart that deletes drops the last block, and every
\* other step stutters.

\* A step of work adds to each count at most one row.
LEMMA WorkRows ==
  ASSUME TypedChain, Work
  PROVE  \A s \in Stage : \A i \in Item : rows'[s][i] \in {rows[s][i], rows[s][i] + 1}
<1>1. ASSUME NEW s \in Stage, NEW S, Insert(s, S)
      PROVE  \A t \in Stage : \A i \in Item : rows'[t][i] \in {rows[t][i], rows[t][i] + 1}
  BY <1>1 DEF Insert, TypedChain, TypeOK
<1>2. "transactions" \in Stage /\ "transaction_outputs" \in Stage /\ LeafStage \subseteq Stage
  BY DEF Stage, LeafStage
<1>3. CASE UNCHANGED rows
  BY <1>3
<1>4. CASE TxWorker
  BY <1>1, <1>2, <1>3, <1>4 DEF TxWorker, SaveTransactions, SendLinks, SendOutputs, db
<1>5. CASE OutputWorker
  BY <1>1, <1>2, <1>3, <1>5 DEF OutputWorker, SaveOutputs, IndexTxAddress
<1>6. CASE \E s \in LeafStage : LeafWorker(s)
  BY <1>1, <1>2, <1>6 DEF LeafWorker, SaveRows
<1>7. CASE \/ LinkBlockValidator \/ SendTransactions \/ SendInvalidTransactions
           \/ CreateNewCoins \/ StartGoroutines
           \/ \E s \in Stage : Receive(s)
           \/ \E h \in Height : ReadEvents(h) \/ HandleEventResponse(h) \/ AggregateRewards(h)
           \/ UpdateTxsIndex
           \/ \E c \in Coin : UpdateCoinMetaInfo(c) \/ UpdateCoinsInfo(c)
  BY <1>3, <1>7 DEF LinkBlockValidator, SendTransactions, SendInvalidTransactions, CreateNewCoins,
     StartGoroutines, Receive, ReadEvents, HandleEventResponse, AggregateRewards, UpdateTxsIndex,
     UpdateCoinMetaInfo, UpdateCoinsInfo, db
<1> QED
  BY <1>4, <1>5, <1>6, <1>7 DEF Work

\* The same numbers are the last of the same intervals.
LEMMA IntervalsAgree ==
  ASSUME NEW a \in Nat, NEW b \in Nat, 1 .. a = 1 .. b
  PROVE  a = b
<1>1. CASE a = 0
  <2>1. 1 \notin 1 .. b
    BY <1>1
  <2> QED
    BY <1>1, <2>1
<1>2. CASE b = 0
  <2>1. 1 \notin 1 .. a
    BY <1>2
  <2> QED
    BY <1>2, <2>1
<1>3. CASE a > 0 /\ b > 0
  <2>1. a \in 1 .. b /\ b \in 1 .. a
    BY <1>3
  <2> QED
    BY <2>1
<1> QED
  BY <1>1, <1>2, <1>3

LEMMA SaveBlockAppends ==
  ASSUME Whole, Whole', SaveBlock
  PROVE  Abstract!AppendBlock
<1>1. /\ LastBlock \in Nat /\ LastBlock' \in Nat /\ LastBlock' <= MaxHeight
      /\ blocks = 1 .. LastBlock /\ blocks' = 1 .. LastBlock'
  BY ParametersAssumption DEF Whole, TypedChain, ChainInv, BlocksHaveNoGaps
<1>2. /\ blocks' = blocks \cup {height} /\ height \notin blocks /\ height \in Nat
      /\ height \in {1, LastBlock + 1} /\ UNCHANGED rows
  BY DEF SaveBlock, Whole, TypedChain, TypeOK, ChainInv, BlocksHaveNoGaps
<1>3. height = LastBlock + 1
  BY <1>1, <1>2
<1>4. LastBlock' = LastBlock + 1
  <2>1. PICK n \in Nat : n = LastBlock + 1
    BY <1>1
  <2>2. 1 .. LastBlock' = 1 .. n
    BY <1>1, <1>2, <1>3, <2>1
  <2> QED
    BY <1>1, <2>1, <2>2, IntervalsAgree
<1> QED
  BY <1>1, <1>2, <1>4, ParametersAssumption DEF Abstract!AppendBlock

LEMMA WorkStores ==
  ASSUME Whole, Whole', AtMostOnce', Work
  PROVE  Abstract!StoreRows
<1>1. /\ rows' \in [Stage -> [Item -> Nat]] /\ rows \in [Stage -> [Item -> Nat]]
      /\ blocks = 1 .. LastBlock
  BY DEF Whole, TypedChain, TypeOK, ChainInv, BlocksHaveNoGaps
<1>2. UNCHANGED <<blocks, LastBlock>>
  <2>1. UNCHANGED blocks
    BY WorkFrame
  <2> QED
    BY <2>1 DEF LastBlock
<1>3. ASSUME NEW s \in Stage, NEW i \in Item
      PROVE  /\ rows'[s][i] \in {0, 1}
             /\ rows'[s][i] > 0 => BlockOf(i) \in blocks /\ i \in Due(s, BlockOf(i))
             /\ rows'[s][i] \in {rows[s][i], rows[s][i] + 1}
  <2>1. rows'[s][i] \in {rows[s][i], rows[s][i] + 1}
    BY WorkRows DEF Whole
  <2>2. rows'[s][i] <= IF BlockOf(i) \in blocks /\ i \in Due(s, BlockOf(i)) THEN 1 ELSE 0
    BY <1>2 DEF AtMostOnce
  <2>3. rows'[s][i] \in Nat
    BY <1>1
  <2> QED
    BY <2>1, <2>2, <2>3
<1>4. rows' \in [Stage -> [Item -> {0, 1}]]
  BY <1>1, <1>3
<1>5. ASSUME NEW s \in Stage, NEW i \in Item
      PROVE  \/ rows'[s][i] = rows[s][i]
             \/ rows[s][i] = 0 /\ rows'[s][i] = 1 /\ Abstract!Given(s, i, LastBlock)
  BY <1>1, <1>3 DEF Abstract!Given
<1> QED
  BY <1>2, <1>4, <1>5 DEF Abstract!StoreRows

LEMMA RestartDrops ==
  ASSUME Whole, Whole', AtMostOnce, DeleteLastBlockData
  PROVE  Abstract!DropLastBlock \/ UNCHANGED <<LastBlock, rows>>
<1>1. /\ LastBlock \in Nat /\ LastBlock' \in Nat
      /\ blocks = 1 .. LastBlock /\ blocks' = 1 .. LastBlock'
      /\ rows \in [Stage -> [Item -> Nat]]
  BY DEF Whole, TypedChain, TypeOK, ChainInv, BlocksHaveNoGaps
<1>2. CASE UNCHANGED <<blocks, rows>>
  BY <1>2 DEF LastBlock
<1>3. CASE /\ blocks # {} /\ blocks' = blocks \ {LastBlock}
           /\ rows' = [s \in Stage |->
                         [i \in Item |-> IF i \in Items(LastBlock) THEN 0 ELSE rows[s][i]]]
  <2>1. LastBlock > 0 /\ LastBlock \in Height
    BY <1>1, <1>3 DEF Whole, TypedChain, ChainInv, Height
  <2>2. LastBlock' = LastBlock - 1
    <3>1. PICK n \in Nat : n = LastBlock - 1
      BY <1>1, <2>1
    <3>2. 1 .. LastBlock' = 1 .. n
      BY <1>1, <1>3, <2>1, <3>1
    <3> QED
      BY <1>1, <3>1, <3>2, IntervalsAgree
  <2>3. ASSUME NEW s \in Stage, NEW i \in Item
        PROVE  (IF i \in Items(LastBlock) THEN 0 ELSE rows[s][i])
                 = IF i \in Due(s, LastBlock) THEN 0 ELSE rows[s][i]
    <3>1. rows[s][i] <= IF BlockOf(i) \in blocks /\ i \in Due(s, BlockOf(i)) THEN 1 ELSE 0
      BY DEF AtMostOnce
    <3>2. rows[s][i] \in Nat
      BY <1>1
    <3>3. i \in Items(LastBlock) => BlockOf(i) = LastBlock
      BY <2>1, BlockOfItem
    <3>4. Due(s, LastBlock) \subseteq Items(LastBlock)
      BY <2>1, DueOf
    <3> QED
      BY <3>1, <3>2, <3>3, <3>4
  <2>4. rows' = [s \in Stage |->
                   [i \in Item |-> IF i \in Due(s, LastBlock) THEN 0 ELSE rows[s][i]]]
    BY <1>3, <2>3
  <2> QED
    BY <2>1, <2>2, <2>4 DEF Abstract!DropLastBlock
<1> QED
  BY <1>2, <1>3 DEF DeleteLastBlockData

LEMMA NextSeeds ==
  ASSUME Whole, Whole', AtMostOnce, AtMostOnce', [Next]_vars
  PROVE  [Abstract!Next]_<<LastBlock, rows>>
<1>1. CASE SaveBlock
  BY <1>1, SaveBlockAppends DEF Abstract!Next
<1>2. CASE Work
  BY <1>2, WorkStores DEF Abstract!Next
<1>3. CASE Crash \/ LookupFails \/ Panic \/ UNCHANGED vars
  <2>1. UNCHANGED <<blocks, rows>>
    BY <1>3 DEF Crash, LookupFails, Panic, Die, vars, db
  <2> QED
    BY <2>1 DEF LastBlock
<1>4. CASE Restart \/ RestartBlind
  BY <1>4, RestartDrops DEF Restart, RestartBlind, Abstract!Next
<1> QED
  BY <1>1, <1>2, <1>3, <1>4 DEF Next, Run, Work

LEMMA InitSeeds == Init => Abstract!Init
<1> SUFFICES ASSUME Init PROVE Abstract!Init
  OBVIOUS
<1>1. LastBlock = 0
  BY DEF Init, LastBlock
<1> QED
  BY <1>1 DEF Init, Abstract!Init

\* The pipeline implements the abstract seeding: whatever the order of the
\* workers and wherever the process dies, readers see blocks appended in order,
\* rows of blocks that are there arriving once, and nothing taken back but the
\* last block with everything it gave.
THEOREM Implements == Spec => Seeds
<1>1. Spec => [](Whole /\ AtMostOnce)
  BY AlwaysWhole, WholeAtMostOnce, PTL
<1>2. Init => Abstract!Init
  BY InitSeeds
<1>3. (Whole /\ AtMostOnce) /\ (Whole /\ AtMostOnce)' /\ [Next]_vars
        => [Abstract!Next]_<<LastBlock, rows>>
  BY NextSeeds
<1> QED
  BY <1>1, <1>2, <1>3, PTL DEF Spec, Seeds, Abstract!Spec
=============================================================================
