------------------------ MODULE PipelineWritesProofs ------------------------
(***************************************************************************)
(* What makes the pipeline panic of itself.  The rows an insert refers to  *)
(* are there and no insert meets a conflicting row; every coin that is     *)
(* looked up has a row, although the coins of a block are written after    *)
(* its transactions went to the workers, and the row is not deleted unless *)
(* something failed before.                                                *)
(***************************************************************************)
EXTENDS PipelineOnceProofs

\* The steps of the loop before the coins of its block are written.
BeforeCoins == {"link", "valid", "invalid", "coins"}

HasCoins(h) == CoinsCreatedIn(h) \subseteq coins

\* Coins are written by blocks, those of a block all at once.
CoinsByBlock ==
  /\ GenesisCoins \subseteq coins
  /\ \A h \in Height : CoinsCreatedIn(h) \cap coins # {} => HasCoins(h)

\* A saved block has its coins, but for the last one before CreateNewCoins or
\* when the process died there.
BlocksHaveCoins ==
  \A h \in blocks : HasCoins(h) \/ (h = LastBlock /\ pc \in BeforeCoins \cup {"down"})

\* So has a block that a sum of rewards or a coin refers to: what may keep the
\* last block at a restart keeps none without its coins.
ReferredHaveCoins ==
  /\ \A k \in Key : \A r \in aggregated[k] : HasCoins(BlockOf(r))
  /\ \A c \in Coin : meta[c] # NoTx => HasCoins(BlockOf(meta[c]))

\* A goroutine is of a saved block.
GoroutinesOfSaved ==
  /\ aggregating \subseteq blocks /\ reading \subseteq blocks
  /\ pc = "down" => aggregating = {} /\ reading = {}

CoinTable == CoinsByBlock /\ BlocksHaveCoins /\ ReferredHaveCoins /\ GoroutinesOfSaved

LEMMA InitCoinTable == Init => CoinTable
BY CreationAssumption DEF Init, CoinTable, CoinsByBlock, BlocksHaveCoins, ReferredHaveCoins,
   GoroutinesOfSaved

\* Steps that write no coin and no reference to a block, and save or delete
\* none, while the loop stays on its side of CreateNewCoins.
LEMMA CoinsUnmoved ==
  ASSUME CoinTable, UNCHANGED <<blocks, coins, aggregated>>,
         \A c \in Coin : meta'[c] \in {meta[c], NoTx},
         aggregating' \subseteq aggregating \cup blocks,
         reading' \subseteq reading \cup blocks,
         pc' = "down" => aggregating' = {} /\ reading' = {},
         pc \in BeforeCoins \cup {"down"} => pc' \in BeforeCoins \cup {"down"}
  PROVE  CoinTable'
<1>1. UNCHANGED LastBlock /\ \A h : HasCoins(h)' <=> HasCoins(h)
  BY DEF LastBlock, HasCoins
<1>2. CoinsByBlock'
  BY <1>1 DEF CoinTable, CoinsByBlock
<1>3. BlocksHaveCoins'
  BY <1>1 DEF CoinTable, BlocksHaveCoins
<1>4. ReferredHaveCoins'
  BY <1>1 DEF CoinTable, ReferredHaveCoins
<1>5. GoroutinesOfSaved'
  BY DEF CoinTable, GoroutinesOfSaved
<1> QED
  BY <1>2, <1>3, <1>4, <1>5 DEF CoinTable

\* A new block is the last one, and those before it have their coins.
LEMMA SaveBlockCoins ==
  ASSUME Whole, Whole', CoinTable, SaveBlock
  PROVE  CoinTable'
<1>1. /\ pc = "save" /\ pc' = "link" /\ blocks' = blocks \cup {height}
      /\ UNCHANGED <<coins, meta, aggregated, aggregating, reading>>
  BY DEF SaveBlock, mem, lookups
<1>2. height = LastBlock'
  <2>1. pc' # "save" /\ Up' /\ height' = height
    BY <1>1 DEF SaveBlock, Up
  <2> QED
    BY <2>1 DEF Whole, TypedChain, ChainInv, BlocksHaveNoGaps
<1>3. \A h : HasCoins(h)' <=> HasCoins(h)
  BY <1>1 DEF HasCoins
<1>4. CoinsByBlock'
  BY <1>1, <1>3 DEF CoinTable, CoinsByBlock
<1>5. BlocksHaveCoins'
  BY <1>1, <1>2, <1>3 DEF CoinTable, BlocksHaveCoins, BeforeCoins
<1>6. ReferredHaveCoins'
  BY <1>1, <1>3 DEF CoinTable, ReferredHaveCoins
<1>7. GoroutinesOfSaved'
  BY <1>1 DEF CoinTable, GoroutinesOfSaved
<1> QED
  BY <1>4, <1>5, <1>6, <1>7 DEF CoinTable

\* CreateNewCoins writes the coins of the last block, and of no other.
LEMMA CreateNewCoinsCoins ==
  ASSUME Whole, CoinTable, CreateNewCoins
  PROVE  CoinTable'
<1>1. /\ pc = "coins" /\ pc' = "spawn" /\ coins' = coins \cup CoinsCreatedIn(height)
      /\ \A c \in Coin : meta'[c] \in {meta[c], NoTx}
      /\ UNCHANGED <<blocks, aggregated, aggregating, reading>>
  BY DEF CreateNewCoins, mem, lookups
<1>2. height = LastBlock /\ height \in Height
  BY <1>1, LoopAtLastBlock DEF Whole, Up
<1>3. \A h : HasCoins(h) => HasCoins(h)'
  BY <1>1 DEF HasCoins
<1>4. \A h : h = height => HasCoins(h)'
  BY <1>1 DEF HasCoins
<1>5. CoinsByBlock'
  <2>1. ASSUME NEW h \in Height, CoinsCreatedIn(h) \cap coins' # {} PROVE HasCoins(h)'
    <3>1. CASE h = height
      BY <1>4, <3>1
    <3>2. CASE h # height
      <4>1. CoinsCreatedIn(h) \cap CoinsCreatedIn(height) = {}
        BY <1>2, <3>2, CreationAssumption
      <4>2. CoinsCreatedIn(h) \cap coins # {}
        BY <1>1, <2>1, <4>1
      <4> QED
        BY <1>3, <4>2 DEF CoinTable, CoinsByBlock
    <3> QED
      BY <3>1, <3>2
  <2> QED
    BY <1>1, <2>1 DEF CoinTable, CoinsByBlock
<1>6. BlocksHaveCoins'
  BY <1>1, <1>2, <1>3, <1>4 DEF CoinTable, BlocksHaveCoins
<1>7. ReferredHaveCoins'
  BY <1>1, <1>3 DEF CoinTable, ReferredHaveCoins
<1>8. GoroutinesOfSaved'
  BY <1>1 DEF CoinTable, GoroutinesOfSaved
<1> QED
  BY <1>5, <1>6, <1>7, <1>8 DEF CoinTable

\* A sum takes rewards of blocks before a saved one.
LEMMA AggregateRewardsCoins ==
  ASSUME Whole, CoinTable, NEW h \in Height, AggregateRewards(h)
  PROVE  CoinTable'
<1>1. /\ h \in blocks /\ aggregating' = aggregating \ {h}
      /\ \A k \in Key : aggregated'[k] \in {aggregated[k], RewardsBefore(h, k)}
      /\ UNCHANGED <<blocks, coins, meta, pc, reading>>
  BY DEF AggregateRewards, CoinTable, GoroutinesOfSaved, main, lookups
<1>2. UNCHANGED LastBlock /\ \A g : HasCoins(g)' <=> HasCoins(g)
  BY <1>1 DEF LastBlock, HasCoins
<1>3. \A k : \A r \in RewardsBefore(h, k) : HasCoins(BlockOf(r))
  <2>1. \A g \in blocks : g < h => g # LastBlock
    BY <1>1 DEF Whole, TypedChain, ChainInv, BlocksHaveNoGaps
  <2>2. \A k : \A r \in RewardsBefore(h, k) : BlockOf(r) \in blocks /\ BlockOf(r) < h
    BY DEF RewardsBefore
  <2> QED
    BY <2>1, <2>2 DEF CoinTable, BlocksHaveCoins
<1>4. CoinsByBlock'
  BY <1>1, <1>2 DEF CoinTable, CoinsByBlock
<1>5. BlocksHaveCoins'
  BY <1>1, <1>2 DEF CoinTable, BlocksHaveCoins
<1>6. ReferredHaveCoins'
  BY <1>1, <1>2, <1>3 DEF CoinTable, ReferredHaveCoins
<1>7. GoroutinesOfSaved'
  BY <1>1 DEF CoinTable, GoroutinesOfSaved
<1> QED
  BY <1>4, <1>5, <1>6, <1>7 DEF CoinTable

\* A coin refers to a transaction that creates it: its block has its coins.
LEMMA UpdateCoinMetaInfoCoins ==
  ASSUME Whole, CoinTable, NEW c \in Coin, UpdateCoinMetaInfo(c)
  PROVE  CoinTable'
<1>1. PICK t \in Stored("transactions") \cap Tx : Creates[t] = c /\ meta' = [meta EXCEPT ![c] = t]
  BY DEF UpdateCoinMetaInfo
<1>2. /\ c \in coins /\ UNCHANGED <<blocks, coins, aggregated, aggregating, reading, pc>>
      /\ meta \in [Coin -> Tx \cup {NoTx}]
  BY DEF UpdateCoinMetaInfo, Undeleted, main, mem, lookups, Whole, TypedChain, TypeOK
<1>3. UNCHANGED LastBlock /\ \A g : HasCoins(g)' <=> HasCoins(g)
  BY <1>2 DEF LastBlock, HasCoins
<1>4. HasCoins(BlockOf(t))
  <2>1. "transactions" \in Stage /\ t \in Item /\ BlockOf(t) \in Height
    BY BlockOfItem DEF Stage, Item
  <2>2. t \in Due("transactions", BlockOf(t))
    BY <1>1, <2>1 DEF Whole, Once, Placed, Stored
  <2>3. t \in Valid(BlockOf(t))
    BY <2>1, <2>2, DueOf DEF Valid
  <2>4. c \in CoinsCreatedIn(BlockOf(t))
    BY <1>1, <2>3, ChainAssumption DEF CoinsCreatedIn
  <2> QED
    BY <1>2, <2>1, <2>4 DEF CoinTable, CoinsByBlock
<1>5. CoinsByBlock'
  BY <1>2, <1>3 DEF CoinTable, CoinsByBlock
<1>6. BlocksHaveCoins'
  BY <1>2, <1>3 DEF CoinTable, BlocksHaveCoins
<1>7. ReferredHaveCoins'
  BY <1>1, <1>2, <1>3, <1>4 DEF CoinTable, ReferredHaveCoins
<1>8. GoroutinesOfSaved'
  BY <1>2 DEF CoinTable, GoroutinesOfSaved
<1> QED
  BY <1>5, <1>6, <1>7, <1>8 DEF CoinTable

\* A restart deletes the last block or keeps it because something refers to it.
LEMMA RestartCoins ==
  ASSUME Whole, CoinTable, pc = "down", DeleteLastBlockData, pc' = "save",
         UNCHANGED <<coins, meta, aggregated, aggregating, reading>>
  PROVE  CoinTable'
<1>1. \A g : HasCoins(g)' <=> HasCoins(g)
  BY DEF HasCoins
<1>2. blocks' \subseteq blocks /\ \A h \in blocks' : HasCoins(h)
  <2>1. CASE UNCHANGED blocks /\ blocks = {}
    BY <2>1
  <2>2. CASE UNCHANGED blocks /\ blocks # {} /\ Pinned(LastBlock)
    <3>1. LastBlock \in Height
      BY <2>2, ParametersAssumption DEF Whole, TypedChain, ChainInv, BlocksHaveNoGaps, Height
    <3>2. ASSUME NEW c \in Coin, meta[c] \in TxItems(LastBlock) PROVE HasCoins(LastBlock)
      <4>1. meta[c] # NoTx /\ BlockOf(meta[c]) = LastBlock
        BY <3>1, <3>2, BlockOfItem, ItemsAreItems, ChainAssumption DEF Items
      <4> QED
        BY <4>1 DEF CoinTable, ReferredHaveCoins
    <3>3. ASSUME NEW k \in Key, LastBlock \in {BlockOf(r) : r \in aggregated[k]}
          PROVE  HasCoins(LastBlock)
      BY <3>3 DEF CoinTable, ReferredHaveCoins
    <3>4. HasCoins(LastBlock)
      BY <2>2, <3>2, <3>3 DEF Pinned
    <3> QED
      BY <2>2, <3>4 DEF CoinTable, BlocksHaveCoins
  <2>3. CASE blocks' = blocks \ {LastBlock}
    BY <2>3 DEF CoinTable, BlocksHaveCoins
  <2> QED
    BY <2>1, <2>2, <2>3 DEF DeleteLastBlockData
<1>3. CoinsByBlock'
  BY <1>1 DEF CoinTable, CoinsByBlock
<1>4. BlocksHaveCoins'
  BY <1>1, <1>2 DEF BlocksHaveCoins
<1>5. ReferredHaveCoins'
  BY <1>1 DEF CoinTable, ReferredHaveCoins
<1>6. GoroutinesOfSaved'
  BY DEF CoinTable, GoroutinesOfSaved
<1> QED
  BY <1>3, <1>4, <1>5, <1>6 DEF CoinTable

\* Every step, whoever takes it.
LEMMA NextCoinTable == Whole /\ Whole' /\ CoinTable /\ [Next]_vars => CoinTable'
<1> SUFFICES ASSUME Whole, Whole', CoinTable, [Next]_vars PROVE CoinTable'
  OBVIOUS
<1>1. CASE UNCHANGED vars
  <2>1. UNCHANGED <<blocks, coins, aggregated, meta, aggregating, reading, pc>>
    BY <1>1 DEF vars, db, main, mem, lookups
  <2> QED
    BY <2>1, CoinsUnmoved DEF CoinTable, GoroutinesOfSaved
<1>2. CASE LinkBlockValidator \/ SendTransactions \/ SendInvalidTransactions
  <2>1. /\ UNCHANGED <<blocks, coins, aggregated, meta, aggregating, reading>>
        /\ pc' \in {"valid", "invalid", "coins"}
    BY <1>2 DEF LinkBlockValidator, SendTransactions, SendInvalidTransactions, db, mem, lookups
  <2> QED
    BY <2>1, CoinsUnmoved DEF BeforeCoins
<1>3. CASE StartGoroutines
  <2>1. /\ UNCHANGED <<blocks, coins, aggregated, meta>>
        /\ pc = "spawn" /\ pc' = "save"
        /\ aggregating' \subseteq aggregating \cup {height}
        /\ reading' \subseteq reading \cup {height}
    BY <1>3 DEF StartGoroutines, db
  <2>2. height \in blocks
    BY <2>1, LoopAtLastBlock DEF Whole, Up
  <2> QED
    BY <2>1, <2>2, CoinsUnmoved DEF BeforeCoins
<1>4. CASE \/ \E s \in Stage : Receive(s)
           \/ TxWorker \/ OutputWorker
           \/ \E s \in LeafStage : LeafWorker(s)
           \/ \E h \in Height : ReadEvents(h) \/ HandleEventResponse(h)
           \/ UpdateTxsIndex
  <2>1. /\ UNCHANGED <<blocks, coins, aggregated, meta, aggregating, pc>>
        /\ reading' \subseteq reading
    BY <1>4 DEF Receive, TxWorker, OutputWorker, LeafWorker, SaveTransactions, SendLinks, SendOutputs,
       SaveOutputs, IndexTxAddress, SaveRows, ReadEvents, HandleEventResponse, UpdateTxsIndex, db,
       main, mem, lookups
  <2> QED
    BY <2>1, CoinsUnmoved DEF CoinTable, GoroutinesOfSaved
<1>5. CASE \E c \in Coin : UpdateCoinsInfo(c)
  <2>1. /\ UNCHANGED <<blocks, coins, aggregated, aggregating, reading, pc>>
        /\ \A c \in Coin : meta'[c] \in {meta[c], NoTx}
    BY <1>5 DEF UpdateCoinsInfo, main, mem, lookups, Whole, TypedChain, TypeOK
  <2> QED
    BY <2>1, CoinsUnmoved DEF CoinTable, GoroutinesOfSaved
<1>6. CASE Crash \/ LookupFails \/ Panic
  <2>1. /\ UNCHANGED <<blocks, coins, aggregated, meta>>
        /\ pc' = "down" /\ aggregating' = {} /\ reading' = {}
    BY <1>6 DEF Crash, LookupFails, Panic, Die, db
  <2> QED
    BY <2>1, CoinsUnmoved
<1>7. CASE Restart \/ RestartBlind
  BY <1>7, RestartCoins DEF Restart, RestartBlind, ResumeAt, Up, mem, lookups
<1> QED
  BY <1>1, <1>2, <1>3, <1>4, <1>5, <1>6, <1>7, SaveBlockCoins, CreateNewCoinsCoins,
     AggregateRewardsCoins, UpdateCoinMetaInfoCoins DEF Next, Run

-----------------------------------------------------------------------------
\* What an insert and a lookup need is there.

\* The coins that existed before a saved block have rows: they were created
\* before it, and only the last block may miss its own.
LEMMA CoinsHaveRows ==
  ASSUME Whole, CoinTable, NEW h \in blocks
  PROVE  h \in Height /\ CoinsBefore(h) \subseteq coins
<1>1. h \in Height /\ h <= LastBlock /\ blocks = 1 .. LastBlock /\ LastBlock \in Nat
  BY DEF Whole, TypedChain, TypeOK, ChainInv, BlocksHaveNoGaps
<1>2. \A g \in 1 .. h - 1 : HasCoins(g)
  BY <1>1 DEF CoinTable, BlocksHaveCoins, Height
<1>3. GenesisCoins \subseteq coins
  BY DEF CoinTable, CoinsByBlock
<1> QED
  BY <1>1, <1>2, <1>3 DEF HasCoins, CoinsBefore

\* The parent rows of a worker's job are there, and no row it conflicts with; the
\* items of an insert are due.
LEMMA JobsReferable ==
  ASSUME Whole, NEW s \in Stage, NEW j \in busy[s], j.phase = "insert"
  PROVE  /\ Referable(s, j.job)
         /\ \A i \in j.job : i \in Item /\ BlockOf(i) \in blocks
         /\ s = "transaction_outputs" =>
              \A t \in WithOutputs(j.job) : t \in Due("transactions", BlockOf(t))
<1> DEFINE T == "transactions"
<1>1. j.job \subseteq Item /\ RowsFor(s, j.job) \subseteq j.job /\ T \in Stage
  BY DEF Whole, TypedChain, TypeOK, Job, RowsFor, WithOutputs, Stage
<1>2. \A i \in j.job : BlockOf(i) \in blocks
  BY DEF Whole, Provenance, BusyPastLink, PastLink
<1>3. \A i \in j.job : /\ Placed(s, i) /\ Waiting(s, i) /\ InBusy(s, i, Live(s))
                       /\ rows[s][i] \in Nat
  <2>1. "insert" \in Live(s)
    BY LiveOf
  <2>2. \A i \in j.job : Waiting(s, i) /\ InBusy(s, i, Live(s))
    BY <2>1 DEF Waiting, InBusy
  <2>3. \A i \in Item : Placed(s, i) /\ rows[s][i] \in Nat
    BY DEF Whole, Once, TypedChain, TypeOK
  <2> QED
    BY <1>1, <2>2, <2>3
<1>4. s \in Derived => j.job \subseteq Stored(T)
  BY <1>1, <1>3 DEF Placed, Stored
<1>5. j.job \cap Stored(s) = {}
  BY <1>3 DEF Placed, Flow, One, Stored
<1>6. ASSUME s = "transaction_outputs", NEW t \in WithOutputs(j.job)
      PROVE  t \in Due(T, BlockOf(t))
  <2>1. t \in j.job /\ t \in Item /\ BlockOf(t) \in blocks /\ BlockOf(t) \in Height
    BY <1>1, <1>2, <1>6, BlockOfItem DEF WithOutputs
  <2> QED
    BY <1>3, <1>6, <2>1 DEF Placed, Load
<1>7. Referable(s, j.job)
  BY <1>1, <1>2, <1>4, <1>5 DEF Referable, Derived
<1> QED
  BY <1>1, <1>2, <1>6, <1>7

\* Every coin that is looked up has a row.
LEMMA LookedUpHaveRows ==
  ASSUME Whole, CoinTable
  PROVE  MissingCoins \subseteq coins \ Known
<1>1. ASSUME NEW h \in blocks, NEW t \in Valid(h)
      PROVE  {GasCoin[t]} \cup OutCoins[t] \subseteq coins
  <2>1. h \in Height /\ CoinsBefore(h) \subseteq coins
    BY CoinsHaveRows
  <2> QED
    BY <2>1, MempoolAssumption
<1>2. GasCoins \subseteq coins
  <2>1. SUFFICES ASSUME pc = "valid", NEW t \in TxChunk(height, chunk) \ Invalid
                 PROVE  GasCoin[t] \in coins
    BY DEF GasCoins
  <2>2. height \in blocks /\ height \in Height /\ chunk \in Nat
    BY <2>1, LoopAtLastBlock DEF Whole, Up, TypedChain, TypeOK
  <2>3. t \in Valid(height)
    BY <2>1, <2>2, ChunksAreItems DEF Valid
  <2> QED
    BY <1>1, <2>2, <2>3
<1>3. ASSUME NEW j \in busy["transaction_outputs"], j.phase = "insert"
      PROVE  CoinsFor("transaction_outputs", j.job) \subseteq coins
  <2>1. "transaction_outputs" \in Stage
    BY DEF Stage
  <2>2. ASSUME NEW t \in WithOutputs(j.job) PROVE OutCoins[t] \subseteq coins
    <3>1. t \in j.job
      BY <2>2 DEF WithOutputs
    <3>2. t \in Item /\ BlockOf(t) \in blocks /\ t \in Due("transactions", BlockOf(t))
      BY <1>3, <2>1, <2>2, <3>1, JobsReferable
    <3>3. t \in Valid(BlockOf(t))
      BY <3>2, CoinsHaveRows, DueOf DEF Valid
    <3> QED
      BY <1>1, <3>2, <3>3
  <2> QED
    BY <2>2 DEF CoinsFor
<1>4. ASSUME NEW h \in reading PROVE SlashCoins(h) \subseteq coins
  <2>1. h \in blocks
    BY DEF CoinTable, GoroutinesOfSaved
  <2>2. h \in Height /\ CoinsBefore(h) \subseteq coins
    BY <2>1, CoinsHaveRows
  <2> QED
    BY <2>2, MempoolAssumption DEF SlashCoins
<1> QED
  BY <1>2, <1>3, <1>4 DEF MissingCoins, LookedUp

\* Until something fails the process that deleted the coins is the running one,
\* and it has them in its cache.
FirstProcess == faults = 0 => deleted \subseteq cache

LEMMA FirstKnowsAll ==
  ASSUME Whole, CoinTable, FirstProcess, faults = 0
  PROVE  MissingCoins = {} /\ ~BlockExists /\ \A s \in Stage : Failing(s) = {}
<1>1. MissingCoins = {}
  <2>1. coins \subseteq Known
    BY DEF FirstProcess, Known, Undeleted
  <2> QED
    BY <2>1, LookedUpHaveRows
<1>2. ~BlockExists
  <2>1. pc = "save" => height = LastBlock + 1 /\ blocks = 1 .. LastBlock /\ LastBlock \in Nat
    BY DEF Whole, TypedChain, ChainInv, BlocksHaveNoGaps
  <2>2. ~(LastBlock + 1 \in 1 .. LastBlock) \/ LastBlock \notin Nat
    OBVIOUS
  <2> QED
    BY <2>1, <2>2 DEF BlockExists
<1>3. ASSUME NEW s \in Stage, NEW j \in busy[s], j.phase = "insert"
      PROVE  Insertable(s, j.job)
  <2>1. Referable(s, j.job)
    BY <1>3, JobsReferable
  <2>2. CoinsFor(s, j.job) \subseteq Known
    <3>1. CASE s = "transaction_outputs"
      <4>1. CoinsFor(s, j.job) \subseteq Coin
        BY <3>1, ChainAssumption DEF CoinsFor, WithOutputs
      <4> QED
        BY <1>1, <1>3, <3>1, <4>1 DEF MissingCoins, LookedUp
    <3>2. CASE s # "transaction_outputs"
      BY <3>2 DEF CoinsFor
    <3> QED
      BY <3>1, <3>2
  <2> QED
    BY <2>1, <2>2 DEF Insertable
<1> QED
  BY <1>1, <1>2, <1>3 DEF Failing

LEMMA NextFirstProcess ==
  Whole /\ CoinTable /\ FirstProcess /\ [Next]_vars => FirstProcess'
<1> SUFFICES ASSUME Whole, CoinTable, FirstProcess, [Next]_vars, faults' = 0
             PROVE  deleted' \subseteq cache'
  BY DEF FirstProcess
<1>1. faults \in Nat
  BY ParametersAssumption DEF Whole, TypedChain, TypeOK
<1>2. CASE UNCHANGED vars \/ Run
  BY <1>2 DEF FirstProcess, vars, Run, SaveBlock, LinkBlockValidator, SendTransactions,
     SendInvalidTransactions, CreateNewCoins, StartGoroutines, db, mem, lookups
<1>3. CASE \/ \E s \in Stage : Receive(s)
           \/ TxWorker \/ OutputWorker
           \/ \E s \in LeafStage : LeafWorker(s)
  BY <1>3 DEF FirstProcess, Receive, TxWorker, OutputWorker, LeafWorker, SaveTransactions, SendLinks,
     SendOutputs, SaveOutputs, IndexTxAddress, SaveRows, db, lookups
<1>4. CASE \E h \in Height : ReadEvents(h)
  BY <1>4 DEF FirstProcess, ReadEvents, Undeleted
<1>5. CASE \/ \E h \in Height : HandleEventResponse(h) \/ AggregateRewards(h)
           \/ UpdateTxsIndex
           \/ \E c \in Coin : UpdateCoinMetaInfo(c) \/ UpdateCoinsInfo(c)
  BY <1>5 DEF FirstProcess, HandleEventResponse, AggregateRewards, UpdateTxsIndex,
     UpdateCoinMetaInfo, UpdateCoinsInfo, db, mem, lookups
<1>6. CASE Crash \/ LookupFails \/ RestartBlind
  BY <1>1, <1>6 DEF Crash, LookupFails, RestartBlind
<1>7. CASE Panic
  BY <1>7, FirstKnowsAll DEF Panic
<1>8. CASE Restart
  BY <1>8 DEF FirstProcess, Restart, ResumeAt, mem, lookups
<1> QED
  BY <1>2, <1>3, <1>4, <1>5, <1>6, <1>7, <1>8 DEF Next

LEMMA AlwaysFirst == Spec => [](Whole /\ CoinTable /\ FirstProcess)
<1>1. Init => CoinTable /\ FirstProcess
  BY InitCoinTable DEF Init, FirstProcess
<1>2. Whole /\ Whole' /\ (CoinTable /\ FirstProcess) /\ [Next]_vars
        => (CoinTable /\ FirstProcess)'
  BY NextCoinTable, NextFirstProcess
<1> QED
  BY <1>1, <1>2, AlwaysWhole, PTL DEF Spec

\* No insert of a worker fails for want of a parent row or over a row it conflicts
\* with, whatever crashes lost and restarts deleted.
THEOREM ParentsFound == Spec => []InsertsFindParents
<1>1. Whole => InsertsFindParents
  BY JobsReferable DEF InsertsFindParents
<1> QED
  BY <1>1, AlwaysWhole, PTL

\* The coins of a block's transactions, and those of its slashes, have rows when
\* they are looked up; only a process that was started again, or a start at block 1
\* after a failed read, panics over a coin that is deleted or a block that exists.
THEOREM PanicsNeedFaults == Spec => []PanicsFollowFaults
<1>1. ASSUME Whole, CoinTable, FirstProcess PROVE PanicsFollowFaults
  <2>1. faults \in Nat
    BY <1>1, ParametersAssumption DEF Whole, TypedChain, TypeOK
  <2>2. MissingCoins \subseteq deleted
    BY <1>1, LookedUpHaveRows DEF Known, Undeleted
  <2>3. BlockExists => height = 1
    <3>1. pc = "save" => /\ height = LastBlock + 1 \/ height = 1
                         /\ blocks = 1 .. LastBlock /\ LastBlock \in Nat
      BY <1>1 DEF Whole, TypedChain, ChainInv, BlocksHaveNoGaps
    <3>2. ~(LastBlock + 1 \in 1 .. LastBlock) \/ LastBlock \notin Nat
      OBVIOUS
    <3> QED
      BY <3>1, <3>2 DEF BlockExists
  <2>4. BlockExists \/ MissingCoins # {} => faults > 0
    BY <1>1, <2>1, FirstKnowsAll
  <2> QED
    BY <2>2, <2>3, <2>4 DEF PanicsFollowFaults
<1> QED
  BY <1>1, AlwaysFirst, PTL
=============================================================================
