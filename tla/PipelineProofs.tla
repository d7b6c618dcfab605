--------------------------- MODULE PipelineProofs ---------------------------
(***************************************************************************)
(* Proofs about the block pipeline, for every chain, every size of chunks, *)
(* channels and pools and every number of faults.                          *)
(***************************************************************************)
EXTENDS Pipeline, TLAPS

-----------------------------------------------------------------------------
\* Facts about chunks and lists.

\* A chunk holds elements of its list.
LEMMA ChunkInElements ==
  ASSUME NEW S, NEW list \in Seq(S), NEW size \in Nat \ {0}, NEW k \in Nat
  PROVE  Chunk(list, size, k) \subseteq Elements(list)
<1>1. Len(list) \in Nat
  OBVIOUS
<1>2. size * k \in Nat
  OBVIOUS
<1>3. ASSUME NEW p \in ChunkPositions(Len(list), size, k)
      PROVE  p \in 1 .. Len(list)
  BY <1>1, <1>2 DEF ChunkPositions, ChunkStart, ChunkEnd
<1> QED
  BY <1>3 DEF Chunk, Elements

\* The elements of a list over S are in S.
LEMMA ElementsInSet ==
  ASSUME NEW S, NEW list \in Seq(S)
  PROVE  Elements(list) \subseteq S
BY DEF Elements

\* Every block's items are items.
LEMMA ItemsAreItems ==
  ASSUME NEW h \in Height
  PROVE  /\ TxItems(h) \subseteq Tx
         /\ Elements(RewardsOf[h]) \subseteq Reward
         /\ Elements(SlashesOf[h]) \subseteq Slash
         /\ Items(h) \subseteq Item
<1>1. TxsOf[h] \in Seq(Tx) /\ RewardsOf[h] \in Seq(Reward) /\ SlashesOf[h] \in Seq(Slash)
  BY ChainAssumption
<1> QED
  BY <1>1, ElementsInSet DEF TxItems, Items, Item

\* The last of the blocks 1 .. n is n.
LEMMA LastOfInterval ==
  ASSUME NEW n \in Nat, blocks = 1 .. n
  PROVE  LastBlock = n
<1>1. CASE n = 0
  BY <1>1 DEF LastBlock
<1>2. CASE n # 0
  <2>1. n \in blocks /\ \A g \in blocks : g <= n
    BY <1>2
  <2>2. ASSUME NEW h \in blocks, \A g \in blocks : g <= h PROVE h = n
    BY <2>1, <2>2
  <2> QED
    BY <2>1, <2>2 DEF LastBlock
<1> QED
  BY <1>1, <1>2

-----------------------------------------------------------------------------
\* Types and the chain.  LinkBlockValidator and StartGoroutines write at the
\* loop's height, so types alone are not inductive: the loop's height must be
\* that of a saved block, and the saved blocks an initial part of the chain.

ChainInv ==
  /\ LastBlock \in 0 .. MaxHeight
  /\ Up => height > 0
  /\ BlocksHaveNoGaps

TypedChain == TypeOK /\ ChainInv

\* A send keeps the channels typed.
LEMMA SendTyped ==
  ASSUME chan \in [Stage -> Seq(SUBSET Item)],
         NEW s \in Stage, NEW S \in SUBSET Item, Send(s, S)
  PROVE  chan' \in [Stage -> Seq(SUBSET Item)]
<1>1. CASE UNCHANGED chan
  BY <1>1
<1>2. CASE chan' = [chan EXCEPT ![s] = Append(@, S)]
  <2>1. Append(chan[s], S) \in Seq(SUBSET Item)
    OBVIOUS
  <2> QED
    BY <1>2, <2>1
<1> QED
  BY <1>1, <1>2 DEF Send

\* An insert keeps the tables typed.
LEMMA InsertTyped ==
  ASSUME rows \in [Stage -> [Item -> Nat]],
         NEW s \in Stage, NEW S, Insert(s, S)
  PROVE  rows' \in [Stage -> [Item -> Nat]]
BY DEF Insert

\* A worker's step keeps the workers typed.
LEMMA StepTyped ==
  ASSUME busy \in [Stage -> SUBSET Job],
         NEW s \in Stage, NEW j \in busy[s], NEW phase \in Phase,
         Step(s, j, phase) \/ Finish(s, j)
  PROVE  /\ busy' \in [Stage -> SUBSET Job]
         /\ j \in Job
BY DEF Step, Finish, At, Job

\* Chunks of a block's lists are sets of items.
LEMMA ChunksAreItems ==
  ASSUME NEW h \in Height, NEW k \in Nat
  PROVE  /\ TxChunk(h, k) \subseteq TxItems(h)
         /\ TxChunk(h, k) \in SUBSET Item
         /\ Chunk(RewardsOf[h], EventsChunkSize, k) \subseteq Elements(RewardsOf[h])
         /\ Chunk(SlashesOf[h], EventsChunkSize, k) \subseteq Elements(SlashesOf[h])
<1>1. /\ TxsOf[h] \in Seq(Tx) /\ RewardsOf[h] \in Seq(Reward) /\ SlashesOf[h] \in Seq(Slash)
      /\ TxChunkSize \in Nat \ {0} /\ EventsChunkSize \in Nat \ {0}
  BY ChainAssumption, ParametersAssumption
<1>2. TxChunk(h, k) \subseteq TxItems(h)
  BY <1>1, ChunkInElements DEF TxChunk, TxItems
<1> QED
  BY <1>1, <1>2, ChunkInElements, ItemsAreItems DEF Item

\* The chunks of a list are a natural number.
LEMMA ChunkCounts ==
  ASSUME NEW h \in Height
  PROVE  TxChunks(h) \in Nat /\ RewardChunks(h) \in Nat /\ EventChunks(h) \in Nat
<1>1. ASSUME NEW n \in Nat, NEW size \in Nat \ {0} PROVE ChunksCount(n, size) \in Nat
  BY <1>1 DEF ChunksCount
<1>2. /\ Len(TxsOf[h]) \in Nat /\ Len(RewardsOf[h]) \in Nat /\ Len(SlashesOf[h]) \in Nat
      /\ TxChunkSize \in Nat \ {0} /\ EventsChunkSize \in Nat \ {0}
  BY ChainAssumption, ParametersAssumption
<1>3. TxChunks(h) \in Nat
  BY <1>1, <1>2 DEF TxChunks
<1>4. RewardChunks(h) \in Nat
  BY <1>1, <1>2 DEF RewardChunks
<1>5. ChunksCount(Len(SlashesOf[h]), EventsChunkSize) \in Nat
  BY <1>1, <1>2
<1> QED
  BY <1>3, <1>4, <1>5 DEF EventChunks

LEMMA InitTypedChain == Init => TypedChain
<1> SUFFICES ASSUME Init PROVE TypedChain
  OBVIOUS
<1>1. TypeOK
  <2>1. /\ rows \in [Stage -> [Item -> Nat]] /\ meta \in [Coin -> Tx \cup {NoTx}]
        /\ aggregated \in [Key -> SUBSET Reward] /\ left \in [Height -> Nat]
        /\ chan \in [Stage -> Seq(SUBSET Item)] /\ busy \in [Stage -> SUBSET Job]
        /\ \A h \in Height : left[h] <= EventChunks(h)
    BY ChunkCounts DEF Init, NoChan, NoBusy, NoLeft
  <2> QED
    BY <2>1, ParametersAssumption, ChainAssumption DEF Init, TypeOK
<1>2. LastBlock = 0
  BY DEF Init, LastBlock
<1>3. ChainInv
  BY <1>2, ParametersAssumption DEF Init, ChainInv, BlocksHaveNoGaps, Up
<1> QED
  BY <1>1, <1>3 DEF TypedChain

\* Between SaveBlock and StartGoroutines the loop works on the last block.
LEMMA LoopAtLastBlock ==
  ASSUME TypedChain, Up, pc # "save"
  PROVE  /\ height = LastBlock /\ height \in blocks /\ height \in Height
         /\ height > 0 /\ LastBlock \in Nat
BY DEF TypedChain, TypeOK, ChainInv, BlocksHaveNoGaps, Height

\* Steps that leave the blocks and the loop alone keep the chain.
LEMMA ChainUnchanged ==
  ASSUME ChainInv, UNCHANGED <<blocks, pc, height, faults>>
  PROVE  ChainInv'
BY DEF ChainInv, BlocksHaveNoGaps, LastBlock, Up

\* The steps of the loop keep types and chain.
LEMMA RunTypedChain ==
  ASSUME TypedChain, Run
  PROVE  TypedChain'
<1> USE DEF TypedChain
<1>1. CASE SaveBlock
  <2>1. /\ blocks = 1 .. LastBlock /\ LastBlock \in 0 .. MaxHeight
        /\ height = LastBlock + 1 /\ height \in Height /\ MaxHeight \in Nat
    <3>1. /\ blocks = 1 .. LastBlock /\ LastBlock \in 0 .. MaxHeight /\ MaxHeight \in Nat
          /\ height \in Nat /\ height > 0 /\ height <= MaxHeight /\ height \notin blocks
          /\ height = LastBlock + 1 \/ height = 1
      BY <1>1, ParametersAssumption DEF TypeOK, ChainInv, BlocksHaveNoGaps, SaveBlock, Up
    <3>2. height = LastBlock + 1
      BY <3>1
    <3> QED
      BY <3>1, <3>2 DEF Height
  <2>2. blocks' = 1 .. height
    BY <1>1, <2>1 DEF SaveBlock, Height
  <2>3. LastBlock' = height
    <3>1. height \in blocks' /\ \A g \in blocks' : g <= height
      BY <2>1, <2>2 DEF Height
    <3>2. ASSUME NEW h \in blocks', \A g \in blocks' : g <= h PROVE h = height
      BY <3>1, <3>2, <2>1, <2>2 DEF Height
    <3> QED
      BY <3>1, <3>2 DEF LastBlock
  <2>4. TypeOK'
    BY <1>1, <2>1 DEF TypeOK, SaveBlock, mem, lookups
  <2>5. ChainInv'
    BY <1>1, <2>1, <2>2, <2>3 DEF ChainInv, BlocksHaveNoGaps, SaveBlock, Up, Height
  <2> QED
    BY <2>4, <2>5
<1>2. CASE LinkBlockValidator
  <2>1. height \in Height /\ height = LastBlock /\ height > 0 /\ UNCHANGED <<blocks, height>>
    BY <1>2, LoopAtLastBlock DEF LinkBlockValidator, Up
  <2>2. TypeOK'
    BY <1>2, <2>1 DEF TypeOK, LinkBlockValidator, mem, lookups
  <2>3. ChainInv'
    BY <1>2, <2>1 DEF ChainInv, BlocksHaveNoGaps, LastBlock, Up, LinkBlockValidator
  <2> QED
    BY <2>2, <2>3
<1>3. CASE SendTransactions
  <2>1. height \in Height /\ height = LastBlock /\ height > 0 /\ UNCHANGED <<blocks, height>>
    BY <1>3, LoopAtLastBlock DEF SendTransactions, Up, db
  <2>2. chan' \in [Stage -> Seq(SUBSET Item)]
    <3>1. TxChunk(height, chunk) \ Invalid \in SUBSET Item /\ "transactions" \in Stage
      BY <2>1, ChunksAreItems DEF TypeOK, Stage
    <3> QED
      BY <1>3, <3>1, SendTyped DEF SendTransactions, TypeOK
  <2>3. TypeOK'
    BY <1>3, <2>2 DEF TypeOK, SendTransactions, db, lookups
  <2>4. ChainInv'
    BY <1>3, <2>1 DEF ChainInv, BlocksHaveNoGaps, LastBlock, Up, SendTransactions
  <2> QED
    BY <2>3, <2>4
<1>4. CASE SendInvalidTransactions
  <2>1. height \in Height /\ height = LastBlock /\ height > 0 /\ UNCHANGED <<blocks, height>>
    BY <1>4, LoopAtLastBlock DEF SendInvalidTransactions, Up, db
  <2>2. chan' \in [Stage -> Seq(SUBSET Item)]
    <3>1. TxChunk(height, chunk) \cap Invalid \in SUBSET Item /\ "invalid_transactions" \in Stage
      BY <2>1, ChunksAreItems DEF TypeOK, Stage
    <3> QED
      BY <1>4, <3>1, SendTyped DEF SendInvalidTransactions, TypeOK
  <2>3. TypeOK'
    BY <1>4, <2>2 DEF TypeOK, SendInvalidTransactions, db, lookups
  <2>4. ChainInv'
    BY <1>4, <2>1 DEF ChainInv, BlocksHaveNoGaps, LastBlock, Up, SendInvalidTransactions
  <2> QED
    BY <2>3, <2>4
<1>5. CASE CreateNewCoins
  <2>1. height \in Height /\ height = LastBlock /\ height > 0 /\ UNCHANGED <<blocks, height>>
    BY <1>5, LoopAtLastBlock DEF CreateNewCoins, Up
  <2>2. CoinsCreatedIn(height) \subseteq Coin
    BY <2>1, ItemsAreItems, ChainAssumption DEF CoinsCreatedIn, Valid
  <2>3. TypeOK'
    BY <1>5, <2>2 DEF TypeOK, CreateNewCoins, mem, lookups
  <2>4. ChainInv'
    BY <1>5, <2>1 DEF ChainInv, BlocksHaveNoGaps, LastBlock, Up, CreateNewCoins
  <2> QED
    BY <2>3, <2>4
<1>6. CASE StartGoroutines
  <2>1. /\ height \in Height /\ height = LastBlock /\ height > 0
        /\ height \in Nat /\ UNCHANGED <<blocks>>
    BY <1>6, LoopAtLastBlock DEF StartGoroutines, Up, db
  <2>2. EventChunks(height) \in Nat
    BY <2>1, ChunkCounts
  <2>3. left' \in [Height -> Nat] /\ \A g \in Height : left'[g] <= EventChunks(g)
    <3>1. left' = [left EXCEPT ![height] = EventChunks(height)]
      BY <1>6 DEF StartGoroutines
    <3>2. left \in [Height -> Nat] /\ \A g \in Height : left[g] <= EventChunks(g)
      BY DEF TypeOK
    <3>3. EventChunks(height) <= EventChunks(height)
      BY <2>2
    <3> QED
      BY <2>1, <2>2, <3>1, <3>2, <3>3
  <2>4. aggregating' \subseteq Height /\ reading' \subseteq Height
    BY <1>6, <2>1 DEF TypeOK, StartGoroutines
  <2>5. TypeOK'
    BY <1>6, <2>1, <2>3, <2>4 DEF TypeOK, StartGoroutines, db
  <2>6. ChainInv'
    <3>1. LastBlock' = LastBlock
      BY <2>1 DEF LastBlock
    <3>2. pc' = "save" /\ height' = LastBlock' + 1 /\ height' > 0
      BY <1>6, <2>1, <3>1 DEF StartGoroutines
    <3> QED
      BY <2>1, <3>1, <3>2 DEF ChainInv, BlocksHaveNoGaps, Up
  <2> QED
    BY <2>5, <2>6
<1> QED
  BY <1>1, <1>2, <1>3, <1>4, <1>5, <1>6 DEF Run

\* The workers' steps keep types and chain.
LEMMA WorkersTypedChain ==
  ASSUME TypedChain,
         \/ \E s \in Stage : Receive(s)
         \/ TxWorker
         \/ OutputWorker
         \/ \E s \in LeafStage : LeafWorker(s)
  PROVE  TypedChain'
<1> USE DEF TypedChain
<1> SUFFICES TypeOK' /\ UNCHANGED <<blocks, main, faults>>
  BY ChainUnchanged DEF main
<1>1. ASSUME NEW s \in Stage, Receive(s)
      PROVE  TypeOK' /\ UNCHANGED <<blocks, main, faults>>
  <2>1. Head(chan[s]) \in SUBSET Item /\ Tail(chan[s]) \in Seq(SUBSET Item)
    BY <1>1 DEF Receive, TypeOK
  <2>2. chan' \in [Stage -> Seq(SUBSET Item)]
    BY <1>1, <2>1 DEF Receive, TypeOK
  <2>3. busy' \in [Stage -> SUBSET Job]
    BY <1>1, <2>1 DEF Receive, TypeOK, At, Job, Phase
  <2> QED
    BY <1>1, <2>2, <2>3 DEF Receive, TypeOK, db, main, lookups
<1>2. ASSUME NEW j \in busy["transactions"],
             SaveTransactions(j) \/ SendLinks(j) \/ SendOutputs(j)
      PROVE  TypeOK' /\ UNCHANGED <<blocks, main, faults>>
  <2>1. /\ "transactions" \in Stage /\ "transaction_validator" \in Stage
        /\ "transaction_outputs" \in Stage /\ "links" \in Phase /\ "outputs" \in Phase
    BY DEF Stage, Phase
  <2>2. j.job \in SUBSET Item
    BY <2>1 DEF TypeOK, Job
  <2>3. CASE SaveTransactions(j)
    <3>1. rows' \in [Stage -> [Item -> Nat]]
      BY <2>1, <2>3, InsertTyped DEF SaveTransactions, TypeOK
    <3>2. busy' \in [Stage -> SUBSET Job]
      BY <2>1, <2>3, StepTyped DEF SaveTransactions, TypeOK
    <3> QED
      BY <2>3, <3>1, <3>2 DEF SaveTransactions, TypeOK, main, lookups
  <2>4. CASE SendLinks(j)
    <3>1. chan' \in [Stage -> Seq(SUBSET Item)]
      BY <2>1, <2>2, <2>4, SendTyped DEF SendLinks, TypeOK
    <3>2. busy' \in [Stage -> SUBSET Job]
      BY <2>1, <2>4, StepTyped DEF SendLinks, TypeOK
    <3> QED
      BY <2>4, <3>1, <3>2 DEF SendLinks, TypeOK, db, main, lookups
  <2>5. CASE SendOutputs(j)
    <3>1. chan' \in [Stage -> Seq(SUBSET Item)]
      BY <2>1, <2>2, <2>5, SendTyped DEF SendOutputs, TypeOK
    <3>2. busy' \in [Stage -> SUBSET Job]
      BY <2>1, <2>5, StepTyped DEF SendOutputs, TypeOK
    <3> QED
      BY <2>5, <3>1, <3>2 DEF SendOutputs, TypeOK, db, main, lookups
  <2> QED
    BY <1>2, <2>3, <2>4, <2>5
<1>3. ASSUME NEW j \in busy["transaction_outputs"], SaveOutputs(j) \/ IndexTxAddress(j)
      PROVE  TypeOK' /\ UNCHANGED <<blocks, main, faults>>
  <2>1. "transaction_outputs" \in Stage /\ "index" \in Phase
    BY DEF Stage, Phase
  <2>2. j.job \in SUBSET Item
    BY <2>1 DEF TypeOK, Job
  <2>3. CASE SaveOutputs(j)
    <3>1. rows' \in [Stage -> [Item -> Nat]]
      BY <2>1, <2>3, InsertTyped DEF SaveOutputs, TypeOK
    <3>2. busy' \in [Stage -> SUBSET Job]
      BY <2>1, <2>3, StepTyped DEF SaveOutputs, TypeOK
    <3> QED
      BY <2>3, <3>1, <3>2 DEF SaveOutputs, TypeOK, main, lookups
  <2>4. CASE IndexTxAddress(j)
    <3>1. indexed' \subseteq {"from", "to"} \X Item
      BY <2>4 DEF IndexTxAddress, IndexRows, Stored, TypeOK
    <3>2. busy' \in [Stage -> SUBSET Job]
      BY <2>1, <2>4, StepTyped DEF IndexTxAddress, TypeOK
    <3> QED
      BY <2>4, <3>1, <3>2 DEF IndexTxAddress, TypeOK, main, lookups
  <2> QED
    BY <1>3, <2>3, <2>4
<1>4. ASSUME NEW s \in LeafStage, NEW j \in busy[s], SaveRows(s, j)
      PROVE  TypeOK' /\ UNCHANGED <<blocks, main, faults>>
  <2>1. s \in Stage
    BY DEF LeafStage
  <2>2. rows' \in [Stage -> [Item -> Nat]]
    BY <1>4, <2>1, InsertTyped DEF SaveRows, TypeOK
  <2>3. busy' \in [Stage -> SUBSET Job]
    BY <1>4, <2>1, InsertTyped DEF SaveRows, TypeOK, Finish
  <2> QED
    BY <1>4, <2>2, <2>3 DEF SaveRows, TypeOK, main, lookups
<1> QED
  BY <1>1, <1>2, <1>3, <1>4 DEF TxWorker, OutputWorker, LeafWorker

\* The chunks an event goroutine sends are sets of items.
LEMMA EventChunksTyped ==
  ASSUME chan \in [Stage -> Seq(SUBSET Item)],
         NEW h \in Height, NEW k \in Nat,
         \/ Send("rewards", Chunk(RewardsOf[h], EventsChunkSize, k))
         \/ Send("slashes", Chunk(SlashesOf[h], EventsChunkSize, k))
  PROVE  chan' \in [Stage -> Seq(SUBSET Item)]
<1>1. /\ Chunk(RewardsOf[h], EventsChunkSize, k) \in SUBSET Item
      /\ Chunk(SlashesOf[h], EventsChunkSize, k) \in SUBSET Item
  BY ChunksAreItems, ItemsAreItems DEF Item
<1>2. "rewards" \in Stage /\ "slashes" \in Stage
  BY DEF Stage
<1> QED
  BY <1>1, <1>2, SendTyped

\* The steps of event goroutines and periodic workers keep types and chain.
LEMMA OthersTypedChain ==
  ASSUME TypedChain,
         \/ \E h \in Height : ReadEvents(h) \/ HandleEventResponse(h) \/ AggregateRewards(h)
         \/ UpdateTxsIndex
         \/ \E c \in Coin : UpdateCoinMetaInfo(c) \/ UpdateCoinsInfo(c)
  PROVE  TypedChain'
<1> USE DEF TypedChain
<1> SUFFICES TypeOK' /\ UNCHANGED <<blocks, main, faults>>
  BY ChainUnchanged DEF main
<1>1. ASSUME NEW h \in Height, HandleEventResponse(h)
      PROVE  TypeOK' /\ UNCHANGED <<blocks, main, faults>>
  <2>1. chan' \in [Stage -> Seq(SUBSET Item)]
    <3> DEFINE k == EventChunks(h) - left[h]
    <3>1. k \in Nat /\ RewardChunks(h) \in Nat
      BY ChunkCounts DEF TypeOK
    <3>2. CASE k < RewardChunks(h)
      BY <1>1, <3>1, <3>2, EventChunksTyped DEF HandleEventResponse, TypeOK
    <3>3. CASE ~(k < RewardChunks(h))
      <4>1. k - RewardChunks(h) \in Nat
        BY <3>1, <3>3
      <4> QED
        BY <1>1, <3>3, <4>1, EventChunksTyped DEF HandleEventResponse, TypeOK
    <3> QED
      BY <3>2, <3>3
  <2>2. left' \in [Height -> Nat] /\ \A g \in Height : left'[g] <= EventChunks(g)
    BY <1>1, ChunkCounts DEF HandleEventResponse, TypeOK
  <2> QED
    BY <1>1, <2>1, <2>2 DEF HandleEventResponse, TypeOK, db, main, lookups
<1>2. ASSUME NEW h \in Height, AggregateRewards(h)
      PROVE  TypeOK' /\ UNCHANGED <<blocks, main, faults>>
  <2>1. aggregated' \in [Key -> SUBSET Reward]
    BY <1>2 DEF AggregateRewards, RewardsBefore, TypeOK
  <2> QED
    BY <1>2, <2>1 DEF AggregateRewards, TypeOK, main, lookups
<1>3. CASE UpdateTxsIndex
  <2>1. indexed' \subseteq {"from", "to"} \X Item
    BY <1>3 DEF UpdateTxsIndex, IndexRows, Stored, TypeOK
  <2> QED
    BY <1>3, <2>1 DEF UpdateTxsIndex, TypeOK, main, mem, lookups
<1>4. ASSUME NEW c \in Coin, UpdateCoinMetaInfo(c) \/ UpdateCoinsInfo(c)
      PROVE  TypeOK' /\ UNCHANGED <<blocks, main, faults>>
  <2>1. meta' \in [Coin -> Tx \cup {NoTx}]
    BY <1>4 DEF UpdateCoinMetaInfo, UpdateCoinsInfo, TypeOK
  <2> QED
    BY <1>4, <2>1 DEF UpdateCoinMetaInfo, UpdateCoinsInfo, TypeOK, main, mem, lookups
<1>5. ASSUME NEW h \in Height, ReadEvents(h)
      PROVE  TypeOK' /\ UNCHANGED <<blocks, main, faults>>
  <2>1. deleted' \subseteq coins /\ cache' \subseteq coins /\ reading' \subseteq Height
    BY <1>5 DEF ReadEvents, TypeOK, Undeleted
  <2> QED
    BY <1>5, <2>1 DEF ReadEvents, TypeOK, main
<1> QED
  BY <1>1, <1>2, <1>3, <1>4, <1>5

\* The delete of the last block either does nothing or removes exactly it.
LEMMA DeleteTypedChain ==
  ASSUME TypedChain, DeleteLastBlockData
  PROVE  /\ blocks' \subseteq Height /\ linked' \subseteq Height
         /\ rows' \in [Stage -> [Item -> Nat]]
         /\ indexed' \subseteq {"from", "to"} \X Item
         /\ LastBlock' \in 0 .. MaxHeight
         /\ blocks' = 1 .. LastBlock'
<1>1. /\ blocks \subseteq Height /\ linked \subseteq Height
      /\ rows \in [Stage -> [Item -> Nat]]
      /\ indexed \subseteq {"from", "to"} \X Item
      /\ LastBlock \in 0 .. MaxHeight /\ blocks = 1 .. LastBlock
      /\ MaxHeight \in Nat
  BY ParametersAssumption DEF TypedChain, TypeOK, ChainInv, BlocksHaveNoGaps
<1>2. CASE UNCHANGED <<blocks, linked, rows, indexed>>
  BY <1>1, <1>2 DEF LastBlock
<1>3. CASE ~UNCHANGED <<blocks, linked, rows, indexed>>
  <2>1. /\ blocks # {} /\ blocks' = blocks \ {LastBlock}
        /\ linked' = linked \ {LastBlock}
        /\ rows' = [s \in Stage |->
                      [i \in Item |-> IF i \in Items(LastBlock) THEN 0 ELSE rows[s][i]]]
        /\ indexed' = {x \in indexed : x[2] \notin Items(LastBlock)}
    BY <1>3 DEF DeleteLastBlockData
  <2>2. LastBlock - 1 \in 0 .. MaxHeight /\ blocks' = 1 .. (LastBlock - 1)
    BY <1>1, <2>1
  <2>3. LastBlock' = LastBlock - 1
    <3>1. PICK n \in Nat : n = LastBlock - 1
      BY <2>2
    <3>2. blocks' = 1 .. n
      BY <2>2, <3>1
    <3>3. LastBlock' = n
      <4>1. CASE n = 0
        BY <3>2, <4>1 DEF LastBlock
      <4>2. CASE n # 0
        <5>1. n \in blocks' /\ \A g \in blocks' : g <= n
          BY <3>2, <4>2
        <5>2. ASSUME NEW h \in blocks', \A g \in blocks' : g <= h PROVE h = n
          BY <5>1, <5>2, <3>2
        <5> QED
          BY <5>1, <5>2 DEF LastBlock
      <4> QED
        BY <4>1, <4>2
    <3> QED
      BY <3>1, <3>3
  <2>4. rows' \in [Stage -> [Item -> Nat]]
    BY <1>1, <2>1
  <2> QED
    BY <1>1, <2>1, <2>2, <2>3, <2>4
<1> QED
  BY <1>2, <1>3

\* Death and restart keep types and chain.
LEMMA FaultsTypedChain ==
  ASSUME TypedChain, Crash \/ LookupFails \/ Panic \/ Restart \/ RestartBlind
  PROVE  TypedChain'
<1> USE DEF TypedChain
<1>1. faults' \in 0 .. MaxFaults
  BY ParametersAssumption DEF TypeOK, Crash, LookupFails, Panic, Restart, RestartBlind
<1>2. CASE Crash \/ LookupFails \/ Panic
  <2>1. Die
    BY <1>2 DEF Crash, LookupFails, Panic
  <2>2. /\ chan' \in [Stage -> Seq(SUBSET Item)] /\ busy' \in [Stage -> SUBSET Job]
        /\ left' \in [Height -> Nat] /\ aggregating' \subseteq Height
        /\ \A g \in Height : left'[g] <= EventChunks(g)
    BY <2>1, ChunkCounts DEF Die, NoChan, NoBusy, NoLeft
  <2>3. TypeOK'
    BY <1>1, <2>1, <2>2 DEF Die, TypeOK, db
  <2>4. ChainInv'
    BY <2>1 DEF Die, db, ChainInv, BlocksHaveNoGaps, LastBlock, Up
  <2> QED
    BY <2>3, <2>4
<1>3. CASE Restart \/ RestartBlind
  <2>1. DeleteLastBlockData /\ (ResumeAt(LastBlock' + 1) \/ ResumeAt(1))
    BY <1>3 DEF Restart, RestartBlind
  <2>2. LastBlock' \in Nat /\ MaxHeight \in Nat
    BY <2>1, DeleteTypedChain, ParametersAssumption
  <2>3. TypeOK'
    BY <1>1, <2>1, <2>2, DeleteTypedChain DEF ResumeAt, TypeOK, mem, lookups
  <2>4. /\ pc' = "save" /\ height' > 0
        /\ height' = LastBlock' + 1 \/ (height' = 1 /\ faults' > 0)
    BY <1>3, <2>2 DEF Restart, RestartBlind, ResumeAt, TypeOK
  <2>5. ChainInv'
    BY <2>1, <2>4, DeleteTypedChain DEF ChainInv, BlocksHaveNoGaps, Up
  <2> QED
    BY <2>3, <2>5
<1> QED
  BY <1>2, <1>3

\* The initial step and every later one, combined.
LEMMA NextTypedChain == TypedChain /\ [Next]_vars => TypedChain'
<1> SUFFICES ASSUME TypedChain, [Next]_vars PROVE TypedChain'
  OBVIOUS
<1>1. CASE UNCHANGED vars
  BY <1>1, ChainUnchanged DEF TypedChain, TypeOK, vars, db, main, mem, lookups
<1>2. CASE Next
  BY <1>2, RunTypedChain, WorkersTypedChain, OthersTypedChain, FaultsTypedChain DEF Next
<1> QED
  BY <1>1, <1>2

\* Every variable keeps its type: the loop never writes at a height that is not
\* a block's, event goroutines never count past their chunks, jobs hold items.
THEOREM TypeCorrect == Spec => []TypeOK
<1>1. Spec => []TypedChain
  BY InitTypedChain, NextTypedChain, PTL DEF Spec
<1>2. TypedChain => TypeOK
  BY DEF TypedChain
<1> QED
  BY <1>1, <1>2, PTL

\* Whatever crashes, restarts and failed reads happen, the database holds an
\* initial part of the chain and Run works at its end.
THEOREM ChainComplete == Spec => []BlocksHaveNoGaps
<1>1. Spec => []TypedChain
  BY InitTypedChain, NextTypedChain, PTL DEF Spec
<1>2. TypedChain => BlocksHaveNoGaps
  BY DEF TypedChain, ChainInv
<1> QED
  BY <1>1, <1>2, PTL

-----------------------------------------------------------------------------
\* Where rows come from.  The foreign keys alone do not make a restart safe: it
\* keeps the last block when something refers to it, and that block must then
\* have been linked.  So every row, job and pending send must be of a block
\* that is saved and past linkBlockValidator.

PastLink == {h \in blocks : h = 1 \/ h \in linked}

RowsPastLink == \A s \in Stage : \A i \in Stored(s) : BlockOf(i) \in PastLink

ChanPastLink ==
  \A s \in Stage : \A n \in 1 .. Len(chan[s]) : \A i \in chan[s][n] : BlockOf(i) \in PastLink

BusyPastLink ==
  \A s \in Stage : \A j \in busy[s] : \A i \in j.job : BlockOf(i) \in PastLink

LoopPastLink ==
  /\ pc \in {"valid", "invalid", "coins", "spawn"} => height \in PastLink
  /\ \A h \in Height : left[h] > 0 => h \in PastLink

DownIsEmpty == pc = "down" => chan = NoChan /\ busy = NoBusy /\ left = NoLeft

OutputsHaveTxs == Stored("transaction_outputs") \subseteq Stored("transactions")

Provenance ==
  /\ RowsPastLink /\ ChanPastLink /\ BusyPastLink /\ LoopPastLink /\ DownIsEmpty
  /\ OutputsHaveTxs /\ ReferencesResolve /\ BlockValidatorsComplete

\* BlockOf finds the one block of an item.
LEMMA BlockOfItem ==
  /\ \A h \in Height : \A i \in Items(h) : BlockOf(i) = h
  /\ \A i \in Item : BlockOf(i) \in Height /\ i \in Items(BlockOf(i))
<1>1. ASSUME NEW h \in Height, NEW i \in Items(h) PROVE BlockOf(i) = h
  <2>1. \A g \in Height : i \in Items(g) => g = h
    BY <1>1, ChainAssumption
  <2> QED
    BY <1>1, <2>1 DEF BlockOf
<1>2. ASSUME NEW i \in Item PROVE BlockOf(i) \in Height /\ i \in Items(BlockOf(i))
  <2>1. \E h \in Height : i \in Items(h)
    BY ChainAssumption
  <2> QED
    BY <2>1 DEF BlockOf
<1> QED
  BY <1>1, <1>2

\* A job that is sent is the only new one.
LEMMA SendAdds ==
  ASSUME chan \in [Stage -> Seq(SUBSET Item)],
         NEW s \in Stage, NEW S \in SUBSET Item, Send(s, S)
  PROVE  \A t \in Stage : \A n \in 1 .. Len(chan'[t]) :
           chan'[t][n] = S \/ \E m \in 1 .. Len(chan[t]) : chan'[t][n] = chan[t][m]
<1>1. CASE UNCHANGED chan
  BY <1>1
<1>2. CASE chan' = [chan EXCEPT ![s] = Append(@, S)]
  <2>1. \A n \in 1 .. Len(Append(chan[s], S)) :
          Append(chan[s], S)[n] = S \/ \E m \in 1 .. Len(chan[s]) : Append(chan[s], S)[n] = chan[s][m]
    <3>1. chan[s] \in Seq(SUBSET Item)
      OBVIOUS
    <3> QED
      BY <3>1
  <2> QED
    BY <1>2, <2>1
<1> QED
  BY <1>1, <1>2 DEF Send

\* An insert stores the items it is given and nothing else.
LEMMA InsertStores ==
  ASSUME rows \in [Stage -> [Item -> Nat]],
         NEW s \in Stage, NEW S \in SUBSET Item, Insert(s, S)
  PROVE  /\ Stored(s)' = Stored(s) \cup S
         /\ \A t \in Stage \ {s} : Stored(t)' = Stored(t)
BY DEF Insert, Stored

LEMMA InitProvenance == Init => Provenance
<1> SUFFICES ASSUME Init PROVE Provenance
  OBVIOUS
<1>1. \A s \in Stage : Stored(s) = {}
  BY DEF Init, Stored
<1>2. "transactions" \in Stage /\ "transaction_outputs" \in Stage /\ "rewards" \in Stage
  BY DEF Stage
<1> QED
  BY <1>1, <1>2 DEF Init, Provenance, RowsPastLink, ChanPastLink, BusyPastLink, LoopPastLink, DownIsEmpty,
     OutputsHaveTxs, ReferencesResolve, BlockValidatorsComplete, NoChan, NoBusy, NoLeft

\* A send of items past their link keeps the channels.
LEMMA SendPastLink ==
  ASSUME TypeOK, ChanPastLink, UNCHANGED PastLink,
         NEW s \in Stage, NEW S \in SUBSET Item, Send(s, S),
         \A i \in S : BlockOf(i) \in PastLink
  PROVE  ChanPastLink'
<1>1. chan \in [Stage -> Seq(SUBSET Item)]
  BY DEF TypeOK
<1>2. \A t \in Stage : \A n \in 1 .. Len(chan'[t]) :
        chan'[t][n] = S \/ \E m \in 1 .. Len(chan[t]) : chan'[t][n] = chan[t][m]
  BY <1>1, SendAdds
<1> QED
  BY <1>2 DEF ChanPastLink

\* A worker's step keeps what the workers hold.
LEMMA StepPastLink ==
  ASSUME TypeOK, BusyPastLink, UNCHANGED PastLink,
         NEW s \in Stage, NEW j \in busy[s], NEW phase,
         Step(s, j, phase) \/ Finish(s, j)
  PROVE  BusyPastLink'
<1>1. busy \in [Stage -> SUBSET Job]
  BY DEF TypeOK
<1>2. \A t \in Stage : \A k \in busy'[t] : k \in busy[t] \/ (t = s /\ k.job = j.job)
  BY <1>1 DEF Step, Finish, At
<1> QED
  BY <1>2 DEF BusyPastLink

\* Nothing shrinks: steps that leave the tables alone.
LEMMA TablesUnchanged ==
  ASSUME TypeOK, Provenance, UNCHANGED <<rows, indexed, aggregated>>,
         \A c \in Coin : meta'[c] \in {meta[c], NoTx},
         PastLink \subseteq PastLink',
         ChanPastLink', BusyPastLink', LoopPastLink', BlockValidatorsComplete',
         pc' # "down"
  PROVE  Provenance'
<1>1. \A s \in Stage : UNCHANGED Stored(s)
  BY DEF Stored
<1>2. "transactions" \in Stage /\ "transaction_outputs" \in Stage /\ "rewards" \in Stage
  BY DEF Stage
<1>3. RowsPastLink' /\ OutputsHaveTxs' /\ DownIsEmpty'
  BY <1>1, <1>2 DEF Provenance, RowsPastLink, OutputsHaveTxs, DownIsEmpty
<1>4. ReferencesResolve'
  BY <1>1, <1>2 DEF Provenance, ReferencesResolve
<1> QED
  BY <1>3, <1>4 DEF Provenance

\* Steps that write none of the tables, channels and jobs.
LEMMA NothingStored ==
  ASSUME Provenance,
         UNCHANGED <<blocks, linked, rows, indexed, meta, aggregated, pc, height, chan,
                     busy, left>>
  PROVE  Provenance'
<1>1. \A s \in Stage : UNCHANGED Stored(s)
  BY DEF Stored
<1>2. UNCHANGED <<PastLink, LastBlock>>
  BY DEF PastLink, LastBlock
<1>3. "transactions" \in Stage /\ "transaction_outputs" \in Stage /\ "rewards" \in Stage
  BY DEF Stage
<1>4. ChanPastLink' /\ BusyPastLink' /\ LoopPastLink' /\ DownIsEmpty'
  BY <1>2 DEF Provenance, ChanPastLink, BusyPastLink, LoopPastLink, DownIsEmpty
<1>5. RowsPastLink' /\ OutputsHaveTxs' /\ ReferencesResolve' /\ BlockValidatorsComplete'
  BY <1>1, <1>2, <1>3 DEF Provenance, RowsPastLink, OutputsHaveTxs, ReferencesResolve,
     BlockValidatorsComplete
<1> QED
  BY <1>4, <1>5 DEF Provenance

\* The steps of the loop.
LEMMA RunProvenance ==
  ASSUME TypedChain, Provenance, Run
  PROVE  Provenance'
<1> USE DEF TypedChain
<1>1. TypedChain'
  BY RunTypedChain
<1>2. pc # "down" /\ pc' # "down" /\ UNCHANGED <<rows, indexed, aggregated>>
  BY DEF Run, SaveBlock, LinkBlockValidator, SendTransactions, SendInvalidTransactions,
     CreateNewCoins, StartGoroutines, db
<1>3. CASE SaveBlock
  <2>1. PastLink \subseteq PastLink'
    BY <1>3 DEF SaveBlock, PastLink
  <2>2. height' = LastBlock'
    BY <1>1, <1>3 DEF ChainInv, BlocksHaveNoGaps, SaveBlock, Up
  <2>3. BlockValidatorsComplete'
    BY <1>3, <2>2 DEF Provenance, BlockValidatorsComplete, SaveBlock
  <2>4. ChanPastLink' /\ BusyPastLink' /\ LoopPastLink'
    BY <1>3, <2>1 DEF Provenance, ChanPastLink, BusyPastLink, LoopPastLink, SaveBlock, mem
  <2> QED
    BY <1>2, <1>3, <2>1, <2>3, <2>4, TablesUnchanged DEF SaveBlock
<1>4. CASE LinkBlockValidator
  <2>1. height \in blocks /\ height = LastBlock
    BY <1>4, LoopAtLastBlock DEF LinkBlockValidator, Up
  <2>2. PastLink \subseteq PastLink' /\ height' \in PastLink'
    BY <1>4, <2>1 DEF LinkBlockValidator, PastLink
  <2>3. BlockValidatorsComplete'
    BY <1>4, <2>1 DEF Provenance, BlockValidatorsComplete, LinkBlockValidator
  <2>4. ChanPastLink' /\ BusyPastLink' /\ LoopPastLink'
    BY <1>4, <2>2 DEF Provenance, ChanPastLink, BusyPastLink, LoopPastLink, LinkBlockValidator, mem
  <2> QED
    BY <1>2, <1>4, <2>2, <2>3, <2>4, TablesUnchanged DEF LinkBlockValidator
<1>5. ASSUME NEW s \in Stage, NEW S \in SUBSET Item, Send(s, S),
             pc \in {"valid", "invalid"}, pc' \in {"valid", "invalid", "coins"},
             S \subseteq TxItems(height),
             UNCHANGED <<db, height, busy, left>>
      PROVE  Provenance'
  <2>1. UNCHANGED <<PastLink, LastBlock>>
    BY <1>5 DEF PastLink, LastBlock, db
  <2>2. height \in PastLink /\ height \in Height
    BY <1>5, LoopAtLastBlock DEF Provenance, LoopPastLink, Up
  <2>3. \A i \in S : BlockOf(i) \in PastLink
    BY <1>5, <2>2, BlockOfItem DEF Items
  <2>4. ChanPastLink'
    BY <1>5, <2>1, <2>3, SendPastLink DEF Provenance
  <2>5. BusyPastLink' /\ LoopPastLink'
    BY <1>5, <2>1, <2>2 DEF Provenance, BusyPastLink, LoopPastLink
  <2>6. BlockValidatorsComplete'
    BY <1>5, <2>1 DEF Provenance, BlockValidatorsComplete, db
  <2> QED
    BY <1>2, <1>5, <2>1, <2>4, <2>5, <2>6, TablesUnchanged DEF db
<1>6. CASE SendTransactions
  <2>1. TxChunk(height, chunk) \ Invalid \in SUBSET Item /\ "transactions" \in Stage
    BY <1>6, LoopAtLastBlock, ChunksAreItems DEF TypeOK, Stage, SendTransactions, Up
  <2>2. TxChunk(height, chunk) \ Invalid \subseteq TxItems(height)
    BY <1>6, LoopAtLastBlock, ChunksAreItems DEF TypeOK, SendTransactions, Up
  <2> QED
    BY <1>5, <1>6, <2>1, <2>2 DEF SendTransactions
<1>7. CASE SendInvalidTransactions
  <2>1. TxChunk(height, chunk) \cap Invalid \in SUBSET Item /\ "invalid_transactions" \in Stage
    BY <1>7, LoopAtLastBlock, ChunksAreItems DEF TypeOK, Stage, SendInvalidTransactions, Up
  <2>2. TxChunk(height, chunk) \cap Invalid \subseteq TxItems(height)
    BY <1>7, LoopAtLastBlock, ChunksAreItems DEF TypeOK, SendInvalidTransactions, Up
  <2>3. pc' \in {"valid", "coins"}
    BY <1>7 DEF SendInvalidTransactions
  <2> QED
    BY <1>5, <1>7, <2>1, <2>2, <2>3 DEF SendInvalidTransactions
<1>8. CASE CreateNewCoins
  <2>1. UNCHANGED <<PastLink, LastBlock>>
    BY <1>8 DEF PastLink, LastBlock, CreateNewCoins
  <2>2. \A c \in Coin : meta'[c] \in {meta[c], NoTx}
    BY <1>8 DEF CreateNewCoins
  <2>3. ChanPastLink' /\ BusyPastLink' /\ LoopPastLink'
    BY <1>8, <2>1 DEF Provenance, ChanPastLink, BusyPastLink, LoopPastLink, CreateNewCoins, mem
  <2>4. BlockValidatorsComplete'
    BY <1>8, <2>1 DEF Provenance, BlockValidatorsComplete, CreateNewCoins
  <2> QED
    BY <1>2, <2>1, <2>2, <2>3, <2>4, TablesUnchanged
<1>9. CASE StartGoroutines
  <2>1. UNCHANGED <<PastLink, LastBlock>>
    BY <1>9 DEF PastLink, LastBlock, StartGoroutines, db
  <2>2. height \in PastLink
    BY <1>9 DEF Provenance, LoopPastLink, StartGoroutines
  <2>3. LoopPastLink'
    <3>1. \A h \in Height : left'[h] = left[h] \/ h = height
      BY <1>9 DEF StartGoroutines, TypeOK
    <3> QED
      BY <1>9, <2>1, <2>2, <3>1 DEF Provenance, LoopPastLink, StartGoroutines
  <2>4. ChanPastLink' /\ BusyPastLink'
    BY <1>9, <2>1 DEF Provenance, ChanPastLink, BusyPastLink, StartGoroutines
  <2>5. BlockValidatorsComplete'
    BY <1>9, <2>1 DEF Provenance, BlockValidatorsComplete, StartGoroutines, db
  <2> QED
    BY <1>2, <1>9, <2>1, <2>3, <2>4, <2>5, TablesUnchanged DEF StartGoroutines, db
<1> QED
  BY <1>3, <1>4, <1>6, <1>7, <1>8, <1>9 DEF Run

\* An insert of items past their link.
LEMMA InsertProvenance ==
  ASSUME TypeOK, Provenance, pc # "down",
         NEW s \in Stage, NEW S \in SUBSET Item, Insert(s, S),
         \A i \in S : BlockOf(i) \in PastLink,
         s = "transaction_outputs" => S \subseteq Stored("transactions"),
         UNCHANGED <<blocks, linked, indexed, meta, aggregated, main, chan, left>>,
         BusyPastLink'
  PROVE  Provenance'
<1>1. /\ Stored(s)' = Stored(s) \cup S
      /\ \A t \in Stage \ {s} : Stored(t)' = Stored(t)
  BY InsertStores DEF TypeOK
<1>2. "transactions" \in Stage /\ "transaction_outputs" \in Stage /\ "rewards" \in Stage
  BY DEF Stage
<1>3. UNCHANGED <<PastLink, LastBlock>> /\ UNCHANGED <<pc, height>>
  BY DEF PastLink, LastBlock, main
<1>4. RowsPastLink'
  BY <1>1, <1>3 DEF Provenance, RowsPastLink
<1>5. ChanPastLink' /\ LoopPastLink' /\ DownIsEmpty'
  BY <1>3 DEF Provenance, ChanPastLink, LoopPastLink, DownIsEmpty
<1>6. OutputsHaveTxs'
  BY <1>1, <1>2 DEF Provenance, OutputsHaveTxs
<1>7. ReferencesResolve'
  BY <1>1, <1>2 DEF Provenance, ReferencesResolve
<1>8. BlockValidatorsComplete'
  BY <1>3 DEF Provenance, BlockValidatorsComplete
<1> QED
  BY <1>4, <1>5, <1>6, <1>7, <1>8 DEF Provenance

\* The address index takes stored transactions only.
LEMMA IndexProvenance ==
  ASSUME TypeOK, Provenance, NEW S, indexed' = indexed \cup IndexRows(S),
         UNCHANGED <<blocks, linked, rows, coins, meta, aggregated, main, chan, left>>,
         BusyPastLink', pc # "down"
  PROVE  Provenance'
<1>1. \A s \in Stage : UNCHANGED Stored(s)
  BY DEF Stored
<1>2. "transactions" \in Stage /\ "transaction_outputs" \in Stage /\ "rewards" \in Stage
  BY DEF Stage
<1>3. UNCHANGED <<PastLink, LastBlock>> /\ UNCHANGED <<pc, height>>
  BY DEF PastLink, LastBlock, main
<1>4. \A x \in IndexRows(S) : x[2] \in Stored("transactions")
  BY DEF IndexRows, Provenance, OutputsHaveTxs
<1>5. ReferencesResolve'
  BY <1>1, <1>2, <1>4 DEF Provenance, ReferencesResolve
<1>6. RowsPastLink' /\ ChanPastLink' /\ LoopPastLink' /\ DownIsEmpty'
  BY <1>1, <1>3 DEF Provenance, RowsPastLink, ChanPastLink, LoopPastLink, DownIsEmpty
<1>7. OutputsHaveTxs'
  BY <1>1, <1>2 DEF Provenance, OutputsHaveTxs
<1>8. BlockValidatorsComplete'
  BY <1>3 DEF Provenance, BlockValidatorsComplete
<1> QED
  BY <1>5, <1>6, <1>7, <1>8 DEF Provenance

\* The steps of the workers.
LEMMA WorkersProvenance ==
  ASSUME TypedChain, Provenance,
         \/ \E s \in Stage : Receive(s)
         \/ TxWorker
         \/ OutputWorker
         \/ \E s \in LeafStage : LeafWorker(s)
  PROVE  Provenance'
<1> USE DEF TypedChain
<1>1. ASSUME NEW s \in Stage, NEW j \in busy[s]
      PROVE  /\ pc # "down" /\ j.job \in SUBSET Item
             /\ \A i \in j.job : BlockOf(i) \in PastLink
  BY DEF Provenance, DownIsEmpty, NoBusy, BusyPastLink, TypeOK, Job
<1>2. ASSUME NEW s \in Stage, Receive(s) PROVE Provenance'
  <2>1. chan[s] \in Seq(SUBSET Item) /\ chan[s] # <<>> /\ pc # "down"
    BY <1>2 DEF Receive, TypeOK, Provenance, DownIsEmpty, NoChan
  <2>2. UNCHANGED <<PastLink, LastBlock>>
    BY <1>2 DEF PastLink, LastBlock, Receive, db
  <2>3. BusyPastLink'
    <3>1. Head(chan[s]) = chan[s][1] /\ 1 \in 1 .. Len(chan[s])
      BY <2>1
    <3>2. \A i \in Head(chan[s]) : BlockOf(i) \in PastLink
      BY <3>1 DEF Provenance, ChanPastLink
    <3>3. \A t \in Stage : \A k \in busy'[t] : k \in busy[t] \/ k.job = Head(chan[s])
      BY <1>2 DEF Receive, TypeOK, At
    <3> QED
      BY <2>2, <3>2, <3>3 DEF Provenance, BusyPastLink
  <2>4. ChanPastLink'
    <3>1. \A n \in 1 .. Len(Tail(chan[s])) :
            n + 1 \in 1 .. Len(chan[s]) /\ Tail(chan[s])[n] = chan[s][n + 1]
      BY <2>1
    <3>2. \A t \in Stage : \A n \in 1 .. Len(chan'[t]) :
            \E m \in 1 .. Len(chan[t]) : chan'[t][n] = chan[t][m]
      BY <1>2, <3>1 DEF Receive, TypeOK
    <3> QED
      BY <2>2, <3>2 DEF Provenance, ChanPastLink
  <2>5. LoopPastLink' /\ BlockValidatorsComplete'
    BY <1>2, <2>2 DEF Provenance, LoopPastLink, BlockValidatorsComplete, Receive, db, main
  <2> QED
    BY <1>2, <2>1, <2>2, <2>3, <2>4, <2>5, TablesUnchanged DEF Receive, db, main
<1>3. ASSUME NEW j \in busy["transactions"], SaveTransactions(j) PROVE Provenance'
  <2>1. "transactions" \in Stage /\ "transactions" # "transaction_outputs"
    BY DEF Stage
  <2>2. BusyPastLink'
    BY <1>3, <2>1, StepPastLink DEF Provenance, SaveTransactions, PastLink
  <2> QED
    BY <1>1, <1>3, <2>1, <2>2, InsertProvenance DEF SaveTransactions
<1>4. ASSUME NEW j \in busy["transactions"], SendLinks(j) \/ SendOutputs(j) PROVE Provenance'
  <2>1. /\ "transactions" \in Stage /\ "transaction_validator" \in Stage
        /\ "transaction_outputs" \in Stage
    BY DEF Stage
  <2>2. UNCHANGED <<PastLink, LastBlock>> /\ UNCHANGED <<pc, height, left, db>>
    <3>1. UNCHANGED <<blocks, linked, pc, height, left, db>>
      BY <1>4 DEF SendLinks, SendOutputs, db, main
    <3> QED
      BY <3>1 DEF PastLink, LastBlock
  <2>3. BusyPastLink'
    BY <1>4, <2>1, <2>2, StepPastLink DEF Provenance, SendLinks, SendOutputs
  <2>4. /\ j.job \in SUBSET Item /\ j.job \cap Links \in SUBSET Item
        /\ \A i \in j.job : BlockOf(i) \in PastLink
    BY <1>1, <2>1
  <2>5. ChanPastLink'
    BY <1>4, <2>1, <2>2, <2>4, SendPastLink DEF Provenance, SendLinks, SendOutputs
  <2>6. LoopPastLink' /\ BlockValidatorsComplete'
    BY <2>2 DEF Provenance, LoopPastLink, BlockValidatorsComplete, db
  <2> QED
    BY <1>1, <2>1, <2>2, <2>3, <2>5, <2>6, TablesUnchanged DEF db
<1>5. ASSUME NEW j \in busy["transaction_outputs"], SaveOutputs(j) PROVE Provenance'
  <2>1. "transaction_outputs" \in Stage
    BY DEF Stage
  <2>2. BusyPastLink'
    BY <1>5, <2>1, StepPastLink DEF Provenance, SaveOutputs, PastLink
  <2>3. WithOutputs(j.job) \subseteq j.job /\ WithOutputs(j.job) \subseteq Stored("transactions")
    BY <1>5 DEF SaveOutputs, Insertable, Referable, RowsFor, WithOutputs
  <2>4. WithOutputs(j.job) \in SUBSET Item /\ \A i \in WithOutputs(j.job) : BlockOf(i) \in PastLink
    BY <1>1, <2>1, <2>3
  <2> QED
    BY <1>1, <1>5, <2>1, <2>2, <2>3, <2>4, InsertProvenance DEF SaveOutputs
<1>6. ASSUME NEW j \in busy["transaction_outputs"], IndexTxAddress(j) PROVE Provenance'
  <2>1. "transaction_outputs" \in Stage
    BY DEF Stage
  <2>2. BusyPastLink'
    BY <1>6, <2>1, StepPastLink DEF Provenance, IndexTxAddress, PastLink
  <2> QED
    BY <1>1, <1>6, <2>1, <2>2, IndexProvenance DEF IndexTxAddress
<1>7. ASSUME NEW s \in LeafStage, NEW j \in busy[s], SaveRows(s, j) PROVE Provenance'
  <2>1. s \in Stage /\ s # "transaction_outputs"
    BY DEF LeafStage
  <2>2. BusyPastLink'
    BY <1>7, <2>1, StepPastLink DEF Provenance, SaveRows, PastLink
  <2> QED
    BY <1>1, <1>7, <2>1, <2>2, InsertProvenance DEF SaveRows
<1> QED
  BY <1>2, <1>3, <1>4, <1>5, <1>6, <1>7 DEF TxWorker, OutputWorker, LeafWorker

\* The steps of event goroutines and periodic workers.
LEMMA OthersProvenance ==
  ASSUME TypedChain, Provenance,
         \/ \E h \in Height : ReadEvents(h) \/ HandleEventResponse(h) \/ AggregateRewards(h)
         \/ UpdateTxsIndex
         \/ \E c \in Coin : UpdateCoinMetaInfo(c) \/ UpdateCoinsInfo(c)
  PROVE  Provenance'
<1> USE DEF TypedChain
<1>1. ASSUME NEW h \in Height, HandleEventResponse(h) PROVE Provenance'
  <2> DEFINE k == EventChunks(h) - left[h]
             R == Chunk(RewardsOf[h], EventsChunkSize, k)
             S == Chunk(SlashesOf[h], EventsChunkSize, k - RewardChunks(h))
  <2>1. /\ k \in Nat /\ RewardChunks(h) \in Nat /\ h \in PastLink /\ pc # "down"
        /\ "rewards" \in Stage /\ "slashes" \in Stage
    BY <1>1, ChunkCounts DEF HandleEventResponse, TypeOK, Provenance, LoopPastLink,
       DownIsEmpty, NoLeft, Stage
  <2>2. UNCHANGED <<PastLink, LastBlock>>
    BY <1>1 DEF PastLink, LastBlock, HandleEventResponse, db
  <2>3. \A i \in Items(h) : BlockOf(i) \in PastLink
    BY <2>1, BlockOfItem
  <2>4. ChanPastLink'
    <3>1. CASE k < RewardChunks(h)
      <4>1. R \in SUBSET Item /\ R \subseteq Items(h)
        BY <2>1, ChunksAreItems, ItemsAreItems DEF Items, Item
      <4> QED
        BY <1>1, <2>1, <2>2, <2>3, <3>1, <4>1, SendPastLink DEF HandleEventResponse, Provenance
    <3>2. CASE ~(k < RewardChunks(h))
      <4>1. S \in SUBSET Item /\ S \subseteq Items(h)
        BY <2>1, <3>2, ChunksAreItems, ItemsAreItems DEF Items, Item
      <4> QED
        BY <1>1, <2>1, <2>2, <2>3, <3>2, <4>1, SendPastLink DEF HandleEventResponse, Provenance
    <3> QED
      BY <3>1, <3>2
  <2>5. LoopPastLink'
    <3>1. \A g \in Height : left'[g] > 0 => left[g] > 0
      BY <1>1 DEF HandleEventResponse, TypeOK
    <3> QED
      BY <1>1, <2>2, <3>1 DEF Provenance, LoopPastLink, HandleEventResponse, main
  <2>6. BusyPastLink' /\ BlockValidatorsComplete'
    BY <1>1, <2>2 DEF Provenance, BusyPastLink, BlockValidatorsComplete, HandleEventResponse,
       db, main
  <2> QED
    BY <1>1, <2>1, <2>2, <2>4, <2>5, <2>6, TablesUnchanged DEF HandleEventResponse, db, main
<1>2. ASSUME NEW h \in Height, AggregateRewards(h) PROVE Provenance'
  <2>1. \A s \in Stage : UNCHANGED Stored(s)
    BY <1>2 DEF Stored, AggregateRewards
  <2>2. "transactions" \in Stage /\ "transaction_outputs" \in Stage /\ "rewards" \in Stage
    BY DEF Stage
  <2>3. UNCHANGED <<PastLink, LastBlock>>
    BY <1>2 DEF PastLink, LastBlock, AggregateRewards
  <2>4. \A q \in Key : aggregated'[q] \subseteq Stored("rewards")
    BY <1>2 DEF AggregateRewards, RewardsBefore, Provenance, ReferencesResolve
  <2>5. ReferencesResolve' /\ OutputsHaveTxs'
    BY <1>2, <2>1, <2>2, <2>4 DEF AggregateRewards, Provenance, ReferencesResolve, OutputsHaveTxs
  <2>6. RowsPastLink' /\ ChanPastLink' /\ BusyPastLink' /\ LoopPastLink'
    BY <1>2, <2>1, <2>3 DEF AggregateRewards, Provenance, RowsPastLink, ChanPastLink,
       BusyPastLink, LoopPastLink, main
  <2>7. DownIsEmpty' /\ BlockValidatorsComplete'
    BY <1>2, <2>3 DEF AggregateRewards, Provenance, DownIsEmpty, BlockValidatorsComplete, main
  <2> QED
    BY <2>5, <2>6, <2>7 DEF Provenance
<1>3. CASE UpdateTxsIndex
  <2>1. BusyPastLink'
    BY <1>3 DEF UpdateTxsIndex, mem, Provenance, BusyPastLink, PastLink
  <2> QED
    BY <1>3, <2>1, IndexProvenance DEF UpdateTxsIndex, Up, mem
<1>4. ASSUME NEW c \in Coin, UpdateCoinMetaInfo(c) \/ UpdateCoinsInfo(c) PROVE Provenance'
  <2>1. \A s \in Stage : UNCHANGED Stored(s)
    BY <1>4 DEF Stored, UpdateCoinMetaInfo, UpdateCoinsInfo
  <2>2. "transactions" \in Stage /\ "transaction_outputs" \in Stage /\ "rewards" \in Stage
    BY DEF Stage
  <2>3. UNCHANGED <<PastLink, LastBlock>>
    <3>1. UNCHANGED <<blocks, linked>>
      BY <1>4 DEF UpdateCoinMetaInfo, UpdateCoinsInfo
    <3> QED
      BY <3>1 DEF PastLink, LastBlock
  <2>4. \A d \in Coin : meta'[d] # NoTx => meta'[d] \in Stored("transactions")
    BY <1>4 DEF UpdateCoinMetaInfo, UpdateCoinsInfo, TypeOK, Provenance, ReferencesResolve
  <2>5. ReferencesResolve' /\ OutputsHaveTxs'
    BY <1>4, <2>1, <2>2, <2>4 DEF UpdateCoinMetaInfo, UpdateCoinsInfo, Provenance,
       ReferencesResolve, OutputsHaveTxs
  <2>6. RowsPastLink' /\ ChanPastLink' /\ BusyPastLink' /\ LoopPastLink'
    BY <1>4, <2>1, <2>3 DEF UpdateCoinMetaInfo, UpdateCoinsInfo, Provenance, RowsPastLink,
       ChanPastLink, BusyPastLink, LoopPastLink, main, mem
  <2>7. DownIsEmpty' /\ BlockValidatorsComplete'
    BY <1>4, <2>3 DEF UpdateCoinMetaInfo, UpdateCoinsInfo, Provenance, DownIsEmpty,
       BlockValidatorsComplete, main, mem
  <2> QED
    BY <2>5, <2>6, <2>7 DEF Provenance
<1>5. ASSUME NEW h \in Height, ReadEvents(h) PROVE Provenance'
  BY <1>5, NothingStored DEF ReadEvents, main
<1> QED
  BY <1>1, <1>2, <1>3, <1>4, <1>5

\* What pins a block is stored, so the block is past its link.
LEMMA PinnedPastLink ==
  ASSUME TypedChain, Provenance, NEW h \in Height, Pinned(h)
  PROVE  h \in PastLink
<1>1. "transactions" \in Stage /\ "rewards" \in Stage
  BY DEF Stage
<1>2. ASSUME NEW c \in Coin, meta[c] \in TxItems(h) PROVE h \in PastLink
  <2>1. meta[c] # NoTx /\ meta[c] \in Items(h)
    BY <1>2, ItemsAreItems, ChainAssumption DEF Items
  <2>2. meta[c] \in Stored("transactions") /\ BlockOf(meta[c]) = h
    BY <2>1, BlockOfItem DEF Provenance, ReferencesResolve
  <2> QED
    BY <1>1, <2>2 DEF Provenance, RowsPastLink
<1>3. ASSUME NEW k \in Key, h \in {BlockOf(r) : r \in aggregated[k]} PROVE h \in PastLink
  <2>1. PICK r \in aggregated[k] : BlockOf(r) = h
    BY <1>3
  <2> QED
    BY <1>1, <2>1 DEF Provenance, ReferencesResolve, RowsPastLink
<1> QED
  BY <1>2, <1>3 DEF Pinned

\* The blocks of a sum of rewards end at the last block at most, so a last block
\* that gave to a sum ends it, and the foreign key of the end pins it.
LEMMA UnpinnedUnreferenced ==
  ASSUME TypedChain, Provenance, LastBlock \in Height, ~Pinned(LastBlock)
  PROVE  /\ \A c \in Coin : meta[c] # NoTx => meta[c] \notin Items(LastBlock)
         /\ \A k \in Key : \A r \in aggregated[k] : r \notin Items(LastBlock)
<1> DEFINE L == LastBlock
<1>1. ASSUME NEW c \in Coin, meta[c] # NoTx PROVE meta[c] \notin Items(L)
  <2>1. meta[c] \in Tx /\ meta[c] \notin TxItems(L)
    BY <1>1 DEF Pinned, TypedChain, TypeOK
  <2> QED
    BY <2>1, ItemsAreItems, ChainAssumption DEF Items
<1>2. ASSUME NEW k \in Key, NEW r \in aggregated[k], r \in Items(L) PROVE FALSE
  <2> DEFINE H == {BlockOf(q) : q \in aggregated[k]}
  <2>1. L \in H
    BY <1>2, BlockOfItem
  <2>2. \A g \in H : g \in blocks
    <3>1. "rewards" \in Stage
      BY DEF Stage
    <3> QED
      BY <3>1 DEF Provenance, ReferencesResolve, RowsPastLink, PastLink
  <2>3. \A g \in H : g <= L
    BY <2>2 DEF TypedChain, ChainInv, BlocksHaveNoGaps
  <2> QED
    BY <2>1, <2>3 DEF Pinned
<1> QED
  BY <1>1, <1>2

\* A restart redoes the last block or keeps one that is past its link.
LEMMA RestartProvenance ==
  ASSUME TypedChain, Provenance, pc = "down", DeleteLastBlockData,
         pc' = "save", UNCHANGED <<meta, aggregated, mem>>
  PROVE  Provenance'
<1>1. chan = NoChan /\ busy = NoBusy /\ left = NoLeft
  BY DEF Provenance, DownIsEmpty
<1>2. ChanPastLink' /\ BusyPastLink' /\ LoopPastLink' /\ DownIsEmpty'
  BY <1>1 DEF ChanPastLink, BusyPastLink, LoopPastLink, DownIsEmpty, NoChan, NoBusy, NoLeft, mem
<1>3. "transactions" \in Stage /\ "transaction_outputs" \in Stage /\ "rewards" \in Stage
  BY DEF Stage
<1>4. LastBlock \in 0 .. MaxHeight /\ blocks = 1 .. LastBlock /\ MaxHeight \in Nat
  BY ParametersAssumption DEF TypedChain, ChainInv, BlocksHaveNoGaps
<1>5. CASE UNCHANGED <<blocks, linked, rows, indexed>> /\ (blocks = {} \/ Pinned(LastBlock))
  <2>1. \A s \in Stage : UNCHANGED Stored(s)
    BY <1>5 DEF Stored
  <2>2. UNCHANGED <<PastLink, LastBlock>>
    BY <1>5 DEF PastLink, LastBlock
  <2>3. RowsPastLink' /\ OutputsHaveTxs'
    BY <1>3, <2>1, <2>2 DEF Provenance, RowsPastLink, OutputsHaveTxs
  <2>4. ReferencesResolve'
    BY <1>3, <1>5, <2>1 DEF Provenance, ReferencesResolve
  <2>5. BlockValidatorsComplete'
    <3>1. ASSUME NEW h \in blocks \ {1} PROVE h \in linked
      <4>1. CASE h = LastBlock
        BY <1>4, <1>5, <3>1, <4>1, PinnedPastLink DEF PastLink, Height
      <4>2. CASE h # LastBlock
        BY <3>1, <4>2 DEF Provenance, BlockValidatorsComplete
      <4> QED
        BY <4>1, <4>2
    <3> QED
      BY <1>5, <3>1 DEF BlockValidatorsComplete
  <2> QED
    BY <1>2, <2>3, <2>4, <2>5 DEF Provenance
<1>6. CASE /\ blocks # {} /\ ~Pinned(LastBlock)
           /\ blocks' = blocks \ {LastBlock} /\ linked' = linked \ {LastBlock}
           /\ rows' = [s \in Stage |->
                         [i \in Item |-> IF i \in Items(LastBlock) THEN 0 ELSE rows[s][i]]]
           /\ indexed' = {x \in indexed : x[2] \notin Items(LastBlock)}
  <2>1. LastBlock \in Height
    BY <1>4, <1>6 DEF Height
  <2>2. \A s \in Stage : Stored(s)' = Stored(s) \ Items(LastBlock)
    BY <1>6 DEF Stored
  <2>3. \A s \in Stage : \A i \in Stored(s)' : BlockOf(i) # LastBlock
    BY <2>1, <2>2, BlockOfItem DEF Stored
  <2>4. PastLink' = PastLink \ {LastBlock}
    BY <1>6 DEF PastLink
  <2>5. RowsPastLink'
    BY <2>2, <2>3, <2>4 DEF Provenance, RowsPastLink
  <2>6. OutputsHaveTxs'
    BY <1>3, <2>2 DEF Provenance, OutputsHaveTxs
  <2>7. ReferencesResolve'
    <3>1. /\ \A c \in Coin : meta[c] # NoTx => meta[c] \notin Items(LastBlock)
          /\ \A k \in Key : \A r \in aggregated[k] : r \notin Items(LastBlock)
      BY <1>6, <2>1, UnpinnedUnreferenced
    <3> QED
      BY <1>3, <1>6, <2>2, <3>1 DEF Provenance, ReferencesResolve
  <2>8. BlockValidatorsComplete'
    BY <1>6 DEF Provenance, BlockValidatorsComplete
  <2> QED
    BY <1>2, <2>5, <2>6, <2>7, <2>8 DEF Provenance
<1> QED
  BY <1>5, <1>6 DEF DeleteLastBlockData

\* Death and restart.
LEMMA FaultsProvenance ==
  ASSUME TypedChain, Provenance, Crash \/ LookupFails \/ Panic \/ Restart \/ RestartBlind
  PROVE  Provenance'
<1>1. CASE Crash \/ LookupFails \/ Panic
  <2>1. Die
    BY <1>1 DEF Crash, LookupFails, Panic
  <2>2. UNCHANGED <<blocks, linked, rows, indexed, meta, aggregated>> /\ pc' = "down"
    BY <2>1 DEF Die, db
  <2>3. \A s \in Stage : UNCHANGED Stored(s)
    BY <2>2 DEF Stored
  <2>4. UNCHANGED <<PastLink, LastBlock>>
    BY <2>2 DEF PastLink, LastBlock
  <2>5. "transactions" \in Stage /\ "transaction_outputs" \in Stage /\ "rewards" \in Stage
    BY DEF Stage
  <2>6. ChanPastLink' /\ BusyPastLink' /\ LoopPastLink' /\ DownIsEmpty'
    BY <2>1 DEF Die, ChanPastLink, BusyPastLink, LoopPastLink, DownIsEmpty, NoChan, NoBusy, NoLeft
  <2>7. RowsPastLink' /\ OutputsHaveTxs'
    BY <2>3, <2>4, <2>5 DEF Provenance, RowsPastLink, OutputsHaveTxs
  <2>8. ReferencesResolve' /\ BlockValidatorsComplete'
    BY <2>2, <2>3, <2>4, <2>5 DEF Provenance, ReferencesResolve, BlockValidatorsComplete
  <2> QED
    BY <2>6, <2>7, <2>8 DEF Provenance
<1>2. CASE Restart \/ RestartBlind
  <2>1. /\ pc = "down" /\ DeleteLastBlockData /\ pc' = "save"
        /\ UNCHANGED <<meta, aggregated, mem>>
    BY <1>2 DEF Restart, RestartBlind, ResumeAt, Up
  <2> QED
    BY <2>1, RestartProvenance
<1> QED
  BY <1>1, <1>2

\* Every step, whoever takes it.
LEMMA NextProvenance == TypedChain /\ Provenance /\ [Next]_vars => Provenance'
<1> SUFFICES ASSUME TypedChain, Provenance, [Next]_vars PROVE Provenance'
  OBVIOUS
<1>1. CASE UNCHANGED vars
  BY <1>1, NothingStored DEF vars, db, main, mem
<1>2. CASE Next
  BY <1>2, RunProvenance, WorkersProvenance, OthersProvenance, FaultsProvenance DEF Next
<1> QED
  BY <1>1, <1>2

\* Rewards in sums, creation transactions of coins and indexed transactions are
\* stored, whatever block a restart deletes.
THEOREM NoDanglingReferences == Spec => []ReferencesResolve
<1>1. Spec => [](TypedChain /\ Provenance)
  <2>1. Init => TypedChain /\ Provenance
    BY InitTypedChain, InitProvenance
  <2>2. (TypedChain /\ Provenance) /\ [Next]_vars => (TypedChain /\ Provenance)'
    BY NextTypedChain, NextProvenance
  <2> QED
    BY <2>1, <2>2, PTL DEF Spec
<1>2. Provenance => ReferencesResolve
  BY DEF Provenance
<1> QED
  BY <1>1, <1>2, PTL

\* A restart that cannot delete the last block keeps one that has its
\* block_validator rows.
THEOREM ValidatorsComplete == Spec => []BlockValidatorsComplete
<1>1. Spec => [](TypedChain /\ Provenance)
  <2>1. Init => TypedChain /\ Provenance
    BY InitTypedChain, InitProvenance
  <2>2. (TypedChain /\ Provenance) /\ [Next]_vars => (TypedChain /\ Provenance)'
    BY NextTypedChain, NextProvenance
  <2> QED
    BY <2>1, <2>2, PTL DEF Spec
<1>2. Provenance => BlockValidatorsComplete
  BY DEF Provenance
<1> QED
  BY <1>1, <1>2, PTL
=============================================================================
