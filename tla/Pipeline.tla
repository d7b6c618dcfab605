------------------------------ MODULE Pipeline ------------------------------
(***************************************************************************)
(* The block pipeline of the Extender: the loop of Extender.Run, which     *)
(* fetches one block after the other, saves it and hands its transactions  *)
(* and events to pools of workers over bounded channels; the workers,      *)
(* which fill the tables of the database; the periodic workers that index  *)
(* transactions and repair coins; and the death and restart of the whole   *)
(* process, which begins by deleting the last block again.                 *)
(*                                                                         *)
(* helpers.HandleError panics and no goroutine recovers, so an error in    *)
(* any of them kills the process: its channels, goroutines and caches are  *)
(* lost and only the database survives.  How addresses, validators and     *)
(* coins are looked up is the subject of modules of their own; what a      *)
(* failing lookup does to the pipeline is here.                            *)
(***************************************************************************)
EXTENDS Integers, Sequences, FiniteSets, Chunks

CONSTANTS
  MaxHeight,        \* bound: the node holds blocks 1 .. MaxHeight
  Tx, Reward, Slash,               \* what the blocks contain
  TxsOf, RewardsOf, SlashesOf,     \* the lists of each block, in its order
  Invalid,          \* transactions with a log, i.e. failed ones
  Links,            \* transactions that name a validator
  SlashCoin,        \* the coin of a slash
  LiquidatedIn,     \* the coins that a block's events liquidate
  OutCoins,         \* the coins of a transaction's outputs, {} without outputs
  GasCoin,          \* the coin a transaction pays its fee in
  Creates,          \* the coin a transaction creates, or NoCoin
  Coin, NoCoin, NoTx,
  GenesisCoins,     \* the coins in the database before the first start
  NoValidators,     \* blocks without validators
  TxChunkSize, EventsChunkSize,
  RewardAggregateEveryBlocksCount,
  TimeOf,           \* date_trunc(interval, created_at) of each block
  Recipient, RecipientOf,          \* (address, validator, role) of a reward
  WrkUpdateTxsIndexNumBlocks,
  Wrk,              \* workers of each stage, also its channel's capacity
  MaxFaults         \* bound on crashes, failed reads and failed lookups

Height     == 1 .. MaxHeight
Item       == Tx \cup Reward \cup Slash
TxItems(h) == Elements(TxsOf[h])
Items(h)   == TxItems(h) \cup Elements(RewardsOf[h]) \cup Elements(SlashesOf[h])
BlockOf(i) == CHOOSE h \in Height : i \in Items(h)
Valid(h)   == TxItems(h) \ Invalid

\* A stage is a pool of workers, named for the table it fills.
Stage == {"transactions", "transaction_outputs", "transaction_validator",
          "invalid_transactions", "rewards", "slashes"}
LeafStage == Stage \ {"transactions", "transaction_outputs"}

Distinct(list) ==
  \A p, q \in 1 .. Len(list) : list[p] = list[q] => p = q

ASSUME ParametersAssumption ==
  /\ MaxHeight \in Nat /\ MaxFaults \in Nat
  /\ TxChunkSize \in Nat \ {0} /\ EventsChunkSize \in Nat \ {0}
  /\ RewardAggregateEveryBlocksCount \in Nat \ {0}
  /\ WrkUpdateTxsIndexNumBlocks \in Nat
  /\ Wrk \in [Stage -> Nat \ {0}]

ASSUME ChainAssumption ==
  /\ TxsOf \in [Height -> Seq(Tx)]
  /\ RewardsOf \in [Height -> Seq(Reward)]
  /\ SlashesOf \in [Height -> Seq(Slash)]
  /\ \A h \in Height :
       Distinct(TxsOf[h]) /\ Distinct(RewardsOf[h]) /\ Distinct(SlashesOf[h])
  /\ Tx \cap Reward = {} /\ Tx \cap Slash = {} /\ Reward \cap Slash = {}
  /\ \A i \in Item : \E h \in Height : i \in Items(h)
  /\ \A g, h \in Height : g # h => Items(g) \cap Items(h) = {}
  /\ NoValidators \subseteq {1}
  /\ OutCoins \in [Tx -> SUBSET Coin] /\ GasCoin \in [Tx -> Coin]
  /\ Creates \in [Tx -> Coin \cup {NoCoin}]
  /\ SlashCoin \in [Slash -> Coin] /\ LiquidatedIn \in [Height -> SUBSET Coin]
  /\ NoCoin \notin Coin /\ NoTx \notin Tx /\ GenesisCoins \subseteq Coin
  /\ TimeOf \in [Height -> Nat] /\ RecipientOf \in [Reward -> Recipient]

\* The coins the valid transactions of a block create.
CoinsCreatedIn(h) == {Creates[t] : t \in Valid(h)} \ {NoCoin}

\* The node admits a transaction into a block only if the state of the last
\* block already has the coins it names; so has it the coin of a slashed stake.
CoinsBefore(h) ==
  (GenesisCoins \cup UNION {CoinsCreatedIn(g) : g \in 1 .. h - 1})
    \ UNION {LiquidatedIn[g] : g \in 1 .. h - 1}

ASSUME MempoolAssumption ==
  \A h \in Height :
    /\ \A t \in Valid(h) : {GasCoin[t]} \cup OutCoins[t] \subseteq CoinsBefore(h)
    /\ \A s \in Elements(SlashesOf[h]) : SlashCoin[s] \in CoinsBefore(h)
    /\ LiquidatedIn[h] \subseteq CoinsBefore(h)

\* The node refuses to create a coin that exists.  (One that was liquidated could
\* be created again: left out, here and in module Coins.)
ASSUME CreationAssumption ==
  /\ \A h \in Height : CoinsCreatedIn(h) \cap GenesisCoins = {}
  /\ \A g, h \in Height : g # h => CoinsCreatedIn(g) \cap CoinsCreatedIn(h) = {}

VARIABLES
  \* The database.
  blocks,       \* blocks
  linked,       \* blocks whose block_validator rows are there
  rows,         \* rows[s][i]: rows of item i in the table of stage s
  indexed,      \* index_transaction_by_address: <<"from" or "to", tx>>
  coins,        \* coins, by symbol, the deleted ones included
  deleted,      \* coins whose deleted_at is set: no query finds them
  meta,         \* coins.creation_transaction_id, NoTx when it is NULL
  aggregated,   \* aggregated_rewards[time, recipient]: the rewards summed up
  \* The process.
  pc, height, chunk,   \* Run: its next step (or "down"), its block and chunk
  chan,         \* the channels' contents
  busy,         \* the jobs the workers hold; workers of a stage are alike
  left,         \* event chunks handleEventResponse(h) has still to send
  reading,      \* blocks whose goroutine has not gone through its events yet
  cache,        \* the coins this process has deleted, which its cache still has
  aggregating,  \* blocks whose AggregateRewards goroutine has not run yet
  \* The bound and the history.
  faults,
  resumed       \* the first block the running process can save

db   == <<blocks, linked, rows, indexed, coins, deleted, meta, aggregated>>
main == <<pc, height, chunk>>
lookups == <<reading, cache>>
mem  == <<chan, busy, left, lookups, aggregating>>
vars == <<db, main, mem, faults, resumed>>

-----------------------------------------------------------------------------
\* Jobs and tables.

Phase == {"insert", "links", "outputs", "index"}
Job   == [phase : Phase, job : SUBSET Item]

At(phase, S) == [phase |-> phase, job |-> S]

TxChunk(h, k)  == Chunk(TxsOf[h], TxChunkSize, k)
TxChunks(h)    == ChunksCount(Len(TxsOf[h]), TxChunkSize)
RewardChunks(h) == ChunksCount(Len(RewardsOf[h]), EventsChunkSize)
EventChunks(h) ==
  RewardChunks(h) + ChunksCount(Len(SlashesOf[h]), EventsChunkSize)

\* A send on a channel, skipped when the code found the list empty.
Send(s, S) ==
  \/ S = {} /\ UNCHANGED chan
  \/ /\ S # {}
     /\ Len(chan[s]) < Wrk[s]
     /\ chan' = [chan EXCEPT ![s] = Append(@, S)]

Step(s, j, phase) == busy' = [busy EXCEPT ![s] = (@ \ {j}) \cup {At(phase, j.job)}]
Finish(s, j)      == busy' = [busy EXCEPT ![s] = @ \ {j}]

\* db.Insert(rows...): one statement, so all rows or none.
Insert(s, S) ==
  rows' = [rows EXCEPT ![s] = [i \in Item |-> IF i \in S THEN @[i] + 1 ELSE @[i]]]

Stored(s) == {i \in Item : rows[s][i] > 0}

WithOutputs(S) == {t \in S \cap Tx : OutCoins[t] # {}}

\* The rows a worker inserts for its job.
RowsFor(s, S) == IF s = "transaction_outputs" THEN WithOutputs(S) ELSE S

\* FindIdBySymbol finds a coin in its cache or as one that is not deleted.
Undeleted == coins \ deleted
Known     == Undeleted \cup cache

\* What the schema asks of an insert: the parent rows (FOREIGN KEY) and no second
\* link of a transaction (PRIMARY KEY).
Referable(s, S) ==
  /\ \A i \in RowsFor(s, S) : BlockOf(i) \in blocks
  /\ s \in {"transaction_outputs", "transaction_validator"} =>
       RowsFor(s, S) \subseteq Stored("transactions")
  /\ s = "transaction_validator" => S \cap Stored(s) = {}

\* The coins that are looked up before an insert.
CoinsFor(s, S) ==
  IF s = "transaction_outputs" THEN UNION {OutCoins[t] : t \in WithOutputs(S)} ELSE {}

Insertable(s, S) == Referable(s, S) /\ CoinsFor(s, S) \subseteq Known

IndexRows(S) ==
  {<<"from", t>> : t \in S \cap Stored("transactions")}
    \cup {<<"to", t>> : t \in S \cap Stored("transaction_outputs")}

LastBlock == IF blocks = {} THEN 0
             ELSE CHOOSE h \in blocks : \A g \in blocks : g <= h

-----------------------------------------------------------------------------
\* The loop of Extender.Run.  Fetching, addresses and balances come before.

GasCoins == IF pc = "valid" THEN {GasCoin[t] : t \in TxChunk(height, chunk) \ Invalid}
            ELSE {}

BlockExists == pc = "save" /\ height \in blocks

\* Mutant of SaveBlock: the error in the node's response is not looked at.
SaveBlockUnchecked ==
  /\ pc = "save" /\ height \notin blocks
  /\ blocks' = blocks \cup {height}
  /\ pc' = "link"
  /\ UNCHANGED <<linked, rows, indexed, coins, deleted, meta, aggregated,
                 height, chunk, mem, faults, resumed>>

\* Height > MaxHeight: GetBlock answers with an error and the loop sleeps.
SaveBlock ==
  /\ pc = "save" /\ height <= MaxHeight /\ height \notin blocks
  /\ blocks' = blocks \cup {height}
  /\ pc' = "link"
  /\ UNCHANGED <<linked, rows, indexed, coins, deleted, meta, aggregated,
                 height, chunk, mem, faults, resumed>>

LinkBlockValidator ==
  /\ pc = "link"
  /\ linked' = IF height = 1 THEN linked ELSE linked \cup {height}
  /\ pc' = IF TxItems(height) = {} \/ height \in NoValidators THEN "coins" ELSE "valid"
  /\ chunk' = 0
  /\ UNCHANGED <<blocks, rows, indexed, coins, deleted, meta, aggregated,
                 height, mem, faults, resumed>>

\* The send to the coin updater that follows is the cause of UpdateCoinsInfo.
SendTransactions ==
  /\ pc = "valid" /\ GasCoins \subseteq Known
  /\ Send("transactions", TxChunk(height, chunk) \ Invalid)
  /\ pc' = "invalid"
  /\ UNCHANGED <<db, height, chunk, busy, left, lookups, aggregating, faults,
                 resumed>>

SendInvalidTransactions ==
  /\ pc = "invalid"
  /\ Send("invalid_transactions", TxChunk(height, chunk) \cap Invalid)
  /\ IF chunk + 1 < TxChunks(height)
     THEN pc' = "valid" /\ chunk' = chunk + 1
     ELSE pc' = "coins" /\ chunk' = 0
  /\ UNCHANGED <<db, height, busy, left, lookups, aggregating, faults, resumed>>

\* Mutant of CreateNewCoins: the coins of a block are saved with the next block.
CreateNewCoinsLate ==
  LET created == IF height = 1 THEN {} ELSE CoinsCreatedIn(height - 1) IN
  /\ pc = "coins"
  /\ coins' = coins \cup created /\ deleted' = deleted \ created
  /\ meta' = [c \in Coin |-> IF c \in created THEN NoTx ELSE meta[c]]
  /\ pc' = "spawn"
  /\ UNCHANGED <<blocks, linked, rows, indexed, aggregated, height, chunk, mem,
                 faults, resumed>>

\* The upsert writes every column of the coin, so one that has a row loses its
\* creation transaction and its deletion.
CreateNewCoins ==
  /\ pc = "coins"
  /\ coins' = coins \cup CoinsCreatedIn(height)
  /\ deleted' = deleted \ CoinsCreatedIn(height)
  /\ meta' = [c \in Coin |-> IF c \in CoinsCreatedIn(height) THEN NoTx ELSE meta[c]]
  /\ pc' = "spawn"
  /\ UNCHANGED <<blocks, linked, rows, indexed, aggregated, height, chunk, mem,
                 faults, resumed>>

StartGoroutines ==
  /\ pc = "spawn"
  /\ aggregating' = IF height % RewardAggregateEveryBlocksCount = 0
                    THEN aggregating \cup {height} ELSE aggregating
  /\ left' = [left EXCEPT ![height] = EventChunks(height)]
  /\ reading' = IF EventChunks(height) = 0 /\ LiquidatedIn[height] = {}
                THEN reading ELSE reading \cup {height}
  /\ height' = height + 1
  /\ pc' = "save"
  /\ UNCHANGED <<db, chunk, chan, busy, cache, faults, resumed>>

-----------------------------------------------------------------------------
\* The workers.

Receive(s) ==
  /\ chan[s] # <<>> /\ Cardinality(busy[s]) < Wrk[s]
  /\ busy' = [busy EXCEPT ![s] = @ \cup {At("insert", Head(chan[s]))}]
  /\ chan' = [chan EXCEPT ![s] = Tail(@)]
  /\ UNCHANGED <<db, main, left, lookups, aggregating, faults, resumed>>

\* Mutant of SaveTransactions: a job that was saved is tried again.
SaveTransactionsAgain(j) ==
  /\ j.phase = "insert" /\ Insertable("transactions", j.job)
  /\ Insert("transactions", j.job)
  /\ (Step("transactions", j, "links") \/ UNCHANGED busy)
  /\ UNCHANGED <<blocks, linked, indexed, coins, deleted, meta, aggregated,
                 main, chan, left, lookups, aggregating, faults, resumed>>

\* SaveTransactionsWorker: SaveAll, then the links, then the outputs.
SaveTransactions(j) ==
  /\ j.phase = "insert" /\ Insertable("transactions", j.job)
  /\ Insert("transactions", j.job)
  /\ Step("transactions", j, "links")
  /\ UNCHANGED <<blocks, linked, indexed, coins, deleted, meta, aggregated,
                 main, chan, left, lookups, aggregating, faults, resumed>>

\* Mutant of SendLinks: the links are sent before the transactions are saved.
SendLinksEarly(j) ==
  /\ j.phase \in {"insert", "links"}
  /\ Send("transaction_validator", j.job \cap Links)
  /\ Step("transactions", j, "outputs")
  /\ UNCHANGED <<db, main, left, lookups, aggregating, faults, resumed>>

\* A job has at most TxChunkSize transactions and each one at most one link, so
\* the loop over chunks of links sends at most one job.  The validator of a link
\* is looked up and, when missing, inserted before (module Validators); when that
\* fails the process dies (LookupFails).
SendLinks(j) ==
  /\ j.phase = "links"
  /\ Send("transaction_validator", j.job \cap Links)
  /\ Step("transactions", j, "outputs")
  /\ UNCHANGED <<db, main, left, lookups, aggregating, faults, resumed>>

\* Mutant of SendOutputs: a send that does not wait for room in the channel.
SendOutputsOrDrop(j) ==
  /\ j.phase = "outputs"
  /\ IF Len(chan["transaction_outputs"]) < Wrk["transaction_outputs"]
     THEN Send("transaction_outputs", j.job) ELSE UNCHANGED chan
  /\ Finish("transactions", j)
  /\ UNCHANGED <<db, main, left, lookups, aggregating, faults, resumed>>

SendOutputs(j) ==
  /\ j.phase = "outputs"
  /\ Send("transaction_outputs", j.job)
  /\ Finish("transactions", j)
  /\ UNCHANGED <<db, main, left, lookups, aggregating, faults, resumed>>

\* Mutant of SaveOutputs: an output for every transaction of the job.
SaveOutputsOfAll(j) ==
  /\ j.phase = "insert" /\ Insertable("transaction_outputs", j.job)
  /\ Insert("transaction_outputs", j.job)
  /\ Step("transaction_outputs", j, "index")
  /\ UNCHANGED <<blocks, linked, indexed, coins, deleted, meta, aggregated,
                 main, chan, left, lookups, aggregating, faults, resumed>>

\* SaveTransactionsOutputWorker: SaveAllTxOutputs, then IndexTxAddress.
SaveOutputs(j) ==
  /\ j.phase = "insert" /\ Insertable("transaction_outputs", j.job)
  /\ Insert("transaction_outputs", WithOutputs(j.job))
  /\ Step("transaction_outputs", j, "index")
  /\ UNCHANGED <<blocks, linked, indexed, coins, deleted, meta, aggregated,
                 main, chan, left, lookups, aggregating, faults, resumed>>

IndexTxAddress(j) ==
  /\ j.phase = "index"
  /\ indexed' = indexed \cup IndexRows(j.job)
  /\ Finish("transaction_outputs", j)
  /\ UNCHANGED <<blocks, linked, rows, coins, deleted, meta, aggregated, main,
                 chan, left, lookups, aggregating, faults, resumed>>

\* Mutant of SaveRows: a job that was saved is tried again.
SaveRowsAgain(s, j) ==
  /\ Insertable(s, j.job)
  /\ Insert(s, j.job)
  /\ (Finish(s, j) \/ UNCHANGED busy)
  /\ UNCHANGED <<blocks, linked, indexed, coins, deleted, meta, aggregated,
                 main, chan, left, lookups, aggregating, faults, resumed>>

\* The workers of invalid transactions, validator links, rewards and slashes.
SaveRows(s, j) ==
  /\ Insertable(s, j.job)
  /\ Insert(s, j.job)
  /\ Finish(s, j)
  /\ UNCHANGED <<blocks, linked, indexed, coins, deleted, meta, aggregated,
                 main, chan, left, lookups, aggregating, faults, resumed>>

\* The coins that the goroutine of a block's events looks up.
SlashCoins(h) == {SlashCoin[s] : s \in Elements(SlashesOf[h])}

\* The goroutine of a block's events goes through them: it deletes the liquidated
\* coins, which its own lookup leaves in the cache (their balances and the order
\* of the statements are in module Coins), and looks up those of the slashes.
ReadEvents(h) ==
  /\ h \in reading /\ SlashCoins(h) \subseteq Known
  /\ deleted' = deleted \cup (LiquidatedIn[h] \cap coins)
  /\ cache' = cache \cup (LiquidatedIn[h] \cap Undeleted)
  /\ reading' = reading \ {h}
  /\ UNCHANGED <<blocks, linked, rows, indexed, coins, meta, aggregated, main,
                 chan, busy, left, aggregating, faults, resumed>>

\* Mutant of HandleEventResponse: a chunk of rewards that finds its channel full
\* is dropped.
HandleEventResponseOrDrop(h) ==
  LET k == EventChunks(h) - left[h] IN
  /\ left[h] > 0 /\ h \notin reading
  /\ IF k < RewardChunks(h)
     THEN IF Len(chan["rewards"]) < Wrk["rewards"]
          THEN Send("rewards", Chunk(RewardsOf[h], EventsChunkSize, k))
          ELSE UNCHANGED chan
     ELSE Send("slashes", Chunk(SlashesOf[h], EventsChunkSize, k - RewardChunks(h)))
  /\ left' = [left EXCEPT ![h] = @ - 1]
  /\ UNCHANGED <<db, main, busy, lookups, aggregating, faults, resumed>>

\* Then it sends the chunks of rewards and, after them, those of slashes.
HandleEventResponse(h) ==
  LET k == EventChunks(h) - left[h] IN
  /\ left[h] > 0 /\ h \notin reading
  /\ IF k < RewardChunks(h)
     THEN Send("rewards", Chunk(RewardsOf[h], EventsChunkSize, k))
     ELSE Send("slashes", Chunk(SlashesOf[h], EventsChunkSize, k - RewardChunks(h)))
  /\ left' = [left EXCEPT ![h] = @ - 1]
  /\ UNCHANGED <<db, main, busy, lookups, aggregating, faults, resumed>>

\* AggregateRewards(h): sums of the rewards of the blocks before h, by time and
\* recipient, from the last time aggregated so far on; they replace the sums of
\* the same key.  Blocks are created in the order of their heights.
Key == {TimeOf[h] : h \in Height} \X Recipient

Since(t) == \A k \in Key : aggregated[k] # {} => k[1] <= t

RewardsBefore(h, k) ==
  {r \in Stored("rewards") \cap Reward :
     /\ BlockOf(r) \in blocks /\ BlockOf(r) < h
     /\ TimeOf[BlockOf(r)] = k[1] /\ RecipientOf[r] = k[2]}

AggregateRewards(h) ==
  /\ h \in aggregating
  /\ aggregated' = [k \in Key |-> IF Since(k[1]) /\ RewardsBefore(h, k) # {}
                                  THEN RewardsBefore(h, k) ELSE aggregated[k]]
  /\ aggregating' = aggregating \ {h}
  /\ UNCHANGED <<blocks, linked, rows, indexed, coins, deleted, meta, main,
                 chan, busy, left, lookups, faults, resumed>>

-----------------------------------------------------------------------------
\* The periodic workers and the coin updates.

Up == pc # "down"

\* Mutant of UpdateTxsIndex: the window is one block short.
UpdateTxsIndexShort ==
  /\ Up
  /\ indexed' = indexed \cup
       IndexRows({t \in Tx : BlockOf(t) + WrkUpdateTxsIndexNumBlocks > LastBlock + 1})
  /\ UNCHANGED <<blocks, linked, rows, coins, deleted, meta, aggregated, main,
                 mem, faults, resumed>>

\* IndexLastNTxAddress: the transactions of the last N blocks.
UpdateTxsIndex ==
  /\ Up
  /\ indexed' = indexed \cup
       IndexRows({t \in Tx : BlockOf(t) + WrkUpdateTxsIndexNumBlocks > LastBlock})
  /\ UNCHANGED <<blocks, linked, rows, coins, deleted, meta, aggregated, main,
                 mem, faults, resumed>>

\* One update of FixBrokenCoinMetaInfo: a coin without creation transaction
\* gets a stored transaction that creates it and that no coin refers to.
UpdateCoinMetaInfo(c) ==
  /\ Up /\ c \in Undeleted /\ meta[c] = NoTx
  /\ \E t \in Stored("transactions") \cap Tx :
       /\ Creates[t] = c
       /\ \A d \in Coin : meta[d] # t
       /\ meta' = [meta EXCEPT ![c] = t]
  /\ UNCHANGED <<blocks, linked, rows, indexed, coins, deleted, aggregated,
                 main, mem, faults, resumed>>

\* UpdateCoinsInfo: the upsert of a coin with what the node answers, which
\* clears its creation transaction and its deletion.  Which coins are updated and
\* when is left open here.
UpdateCoinsInfo(c) ==
  /\ Up /\ c \in Known /\ (meta[c] # NoTx \/ c \in deleted)
  /\ meta' = [meta EXCEPT ![c] = NoTx]
  /\ deleted' = deleted \ {c}
  /\ UNCHANGED <<blocks, linked, rows, indexed, coins, aggregated, main, mem,
                 faults, resumed>>

-----------------------------------------------------------------------------
\* Death and restart.

NoChan == [s \in Stage |-> <<>>]
NoBusy == [s \in Stage |-> {}]
NoLeft == [h \in Height |-> 0]

Die ==
  /\ pc' = "down" /\ height' = 0 /\ chunk' = 0
  /\ chan' = NoChan /\ busy' = NoBusy /\ left' = NoLeft /\ aggregating' = {}
  /\ reading' = {} /\ cache' = {}
  /\ UNCHANGED <<db, resumed>>

Crash ==
  /\ Up /\ faults < MaxFaults
  /\ faults' = faults + 1
  /\ Die

\* Addresses are looked up for the rows of a block's transactions and outputs, and
\* addresses and validators for those of its events; validators are looked up or
\* inserted for its links.  Whether that fails, or a statement of a liquidation
\* does, is the subject of modules Addresses, Validators and Coins.
LooksUp ==
  \/ pc \in {"valid", "invalid"} \/ reading # {}
  \/ \E j \in busy["transactions"] : j.phase = "links" /\ j.job \cap Links # {}
  \/ \E j \in busy["transaction_outputs"] :
       j.phase = "insert" /\ WithOutputs(j.job) # {}

LookupFails ==
  /\ LooksUp /\ faults < MaxFaults
  /\ faults' = faults + 1
  /\ Die

\* The jobs of a worker whose insert, or lookup of a coin, fails.
Failing(s) ==
  {j \in busy[s] : j.phase = "insert" /\ ~Insertable(s, j.job)}

\* The coins that a goroutine looks up next, and those it does not find.
LookedUp(c) ==
  \/ c \in GasCoins
  \/ \E j \in busy["transaction_outputs"] :
       j.phase = "insert" /\ c \in CoinsFor("transaction_outputs", j.job)
  \/ \E h \in reading : c \in SlashCoins(h)

MissingCoins == {c \in Coin \ Known : LookedUp(c)}

Panic ==
  /\ BlockExists \/ MissingCoins # {} \/ \E s \in Stage : Failing(s) # {}
  /\ faults' = faults
  /\ Die

\* Mutants of Pinned: only the first block of a sum counts; every block is kept.
PinnedByFirst(h) ==
  \/ \E c \in Coin : meta[c] \in TxItems(h)
  \/ \E k \in Key :
       LET H == {BlockOf(r) : r \in aggregated[k]} IN
       h \in H /\ \A g \in H : g >= h

PinnedAlways(h) == h = h

\* A foreign key without ON DELETE keeps block h: a coin refers to one of its
\* transactions, or a sum of rewards begins or ends at h.
Pinned(h) ==
  \/ \E c \in Coin : meta[c] \in TxItems(h)
  \/ \E k \in Key :
       LET H == {BlockOf(r) : r \in aggregated[k]} IN
       /\ h \in H
       /\ (\A g \in H : g <= h) \/ (\A g \in H : g >= h)

\* Nine statements in one database transaction.  When one fails the database
\* aborts the transaction, the errors of the statements are dropped and COMMIT
\* answers without an error: nothing is deleted, and Run cannot tell.
DeleteLastBlockData ==
  IF blocks = {} \/ Pinned(LastBlock)
  THEN UNCHANGED <<blocks, linked, rows, indexed>>
  ELSE /\ blocks' = blocks \ {LastBlock}
       /\ linked' = linked \ {LastBlock}
       /\ rows' = [s \in Stage |->
                     [i \in Item |-> IF i \in Items(LastBlock) THEN 0 ELSE rows[s][i]]]
       /\ indexed' = {x \in indexed : x[2] \notin Items(LastBlock)}

ResumeAt(h) ==
  /\ pc' = "save" /\ height' = h /\ chunk' = 0
  /\ resumed' = LastBlock' + 1
  /\ UNCHANGED <<coins, deleted, meta, aggregated, mem>>

\* Mutant of Restart: the last block is read before it is deleted.
RestartStale ==
  /\ ~Up
  /\ DeleteLastBlockData
  /\ ResumeAt(LastBlock + 1)
  /\ UNCHANGED faults

Restart ==
  /\ ~Up
  /\ DeleteLastBlockData
  /\ ResumeAt(LastBlock' + 1)
  /\ UNCHANGED faults

\* The error of GetLastFromDB is dropped and Run starts over at block 1.
RestartBlind ==
  /\ ~Up /\ faults < MaxFaults
  /\ DeleteLastBlockData
  /\ ResumeAt(1)
  /\ faults' = faults + 1

-----------------------------------------------------------------------------

Init ==
  /\ blocks = {} /\ linked = {} /\ indexed = {}
  /\ rows = [s \in Stage |-> [i \in Item |-> 0]]
  /\ coins = GenesisCoins /\ deleted = {}
  /\ meta = [c \in Coin |-> NoTx]
  /\ aggregated = [k \in Key |-> {}]
  /\ pc = "save" /\ height = 1 /\ chunk = 0 /\ resumed = 1
  /\ chan = NoChan /\ busy = NoBusy /\ left = NoLeft /\ aggregating = {}
  /\ reading = {} /\ cache = {}
  /\ faults = 0

Run ==
  \/ SaveBlock \/ LinkBlockValidator
  \/ SendTransactions \/ SendInvalidTransactions
  \/ CreateNewCoins \/ StartGoroutines

TxWorker     == \E j \in busy["transactions"] :
                  SaveTransactions(j) \/ SendLinks(j) \/ SendOutputs(j)
OutputWorker == \E j \in busy["transaction_outputs"] :
                  SaveOutputs(j) \/ IndexTxAddress(j)
LeafWorker(s) == \E j \in busy[s] : SaveRows(s, j)

Next ==
  \/ Run
  \/ \E s \in Stage : Receive(s)
  \/ TxWorker \/ OutputWorker
  \/ \E s \in LeafStage : LeafWorker(s)
  \/ \E h \in Height : ReadEvents(h) \/ HandleEventResponse(h) \/ AggregateRewards(h)
  \/ UpdateTxsIndex
  \/ \E c \in Coin : UpdateCoinMetaInfo(c) \/ UpdateCoinsInfo(c)
  \/ Crash \/ LookupFails \/ Panic \/ Restart \/ RestartBlind

Spec == Init /\ [][Next]_vars

\* Go runs every goroutine that can proceed, and the Dockerfile has the process
\* restarted ("--restart=always").
Fairness ==
  /\ WF_vars(Run) /\ WF_vars(TxWorker) /\ WF_vars(OutputWorker)
  /\ \A s \in Stage : WF_vars(Receive(s))
  /\ \A s \in LeafStage : WF_vars(LeafWorker(s))
  /\ \A h \in Height :
       WF_vars(ReadEvents(h) \/ HandleEventResponse(h)) /\ WF_vars(AggregateRewards(h))
  /\ WF_vars(UpdateTxsIndex)
  /\ WF_vars(Panic) /\ WF_vars(Restart)

FairSpec == Spec /\ Fairness

-----------------------------------------------------------------------------
\* Properties.

TypeOK ==
  /\ blocks \subseteq Height /\ linked \subseteq Height
  /\ rows \in [Stage -> [Item -> Nat]]
  /\ indexed \subseteq {"from", "to"} \X Item
  /\ coins \subseteq Coin /\ deleted \subseteq coins
  /\ meta \in [Coin -> Tx \cup {NoTx}]
  /\ aggregated \in [Key -> SUBSET Reward]
  /\ pc \in {"save", "link", "valid", "invalid", "coins", "spawn", "down"}
  /\ height \in Nat /\ chunk \in Nat
  /\ chan \in [Stage -> Seq(SUBSET Item)]
  /\ busy \in [Stage -> SUBSET Job]
  /\ left \in [Height -> Nat] /\ \A h \in Height : left[h] <= EventChunks(h)
  /\ reading \subseteq Height /\ cache \subseteq coins /\ aggregating \subseteq Height
  /\ faults \in 0 .. MaxFaults
  /\ resumed \in Nat

\* The database holds the blocks 1 .. n of the chain whatever crashes,
\* restarts and failed reads of the last block happen, and Run works on block
\* n or on the one after it; only when the read of the last block failed does it
\* start over at block 1.
BlocksHaveNoGaps ==
  /\ blocks = 1 .. LastBlock
  /\ pc = "save" => height = LastBlock + 1 \/ (height = 1 /\ faults > 0)
  /\ Up /\ pc # "save" => height = LastBlock

\* Every block but the first has its block_validator rows, except the last one
\* before its links are written: a restart never keeps a block without them.
BlockValidatorsComplete ==
  \A h \in blocks \ {1} :
    h \in linked \/ (h = LastBlock /\ pc \in {"link", "down"})

\* No insert of a worker fails: its parent rows are there and no row it conflicts
\* with, in whichever order the jobs reach the pools, whatever crashes lost and
\* restarts deleted.
InsertsFindParents ==
  \A s \in Stage : \A j \in busy[s] : j.phase = "insert" => Referable(s, j.job)

\* A process does not panic over the work of its own: every coin it looks up has a
\* row, although the coins of a block are written after its transactions went to
\* the workers, and the row is not deleted unless there was a crash and a block is
\* being redone.  So it takes a crash, or a failed read of the last block, to save
\* a block that exists: then Run has started over at block 1.
PanicsFollowFaults ==
  /\ MissingCoins \subseteq deleted
  /\ BlockExists => height = 1
  /\ BlockExists \/ MissingCoins # {} => faults > 0

\* The items that a block gives to a table.  A block without validators has its
\* transactions dropped.
Due(s, h) ==
  LET txs   == IF h \in NoValidators THEN {} ELSE TxItems(h)
      valid == txs \ Invalid
  IN  CASE s = "transactions"          -> valid
        [] s = "transaction_outputs"   -> WithOutputs(valid)
        [] s = "transaction_validator" -> valid \cap Links
        [] s = "invalid_transactions"  -> txs \cap Invalid
        [] s = "rewards"               -> Elements(RewardsOf[h])
        [] s = "slashes"               -> Elements(SlashesOf[h])

\* What the loop and the event goroutines have still to send.
UnsentTxs ==
  LET rest(k) == UNION {TxChunk(height, l) : l \in k .. TxChunks(height)}
  IN  CASE pc = "link"    -> TxItems(height)
        [] pc = "valid"   -> rest(chunk)
        [] pc = "invalid" -> (TxChunk(height, chunk) \cap Invalid) \cup rest(chunk + 1)
        [] OTHER          -> {}

UnsentEvents(h) ==
  IF h = height /\ Up /\ pc # "save"
  THEN Elements(RewardsOf[h]) \cup Elements(SlashesOf[h])
  ELSE LET sent == EventChunks(h) - left[h] IN
       IF left[h] = 0 THEN {} ELSE
       (UNION {Chunk(RewardsOf[h], EventsChunkSize, k) : k \in sent .. RewardChunks(h)})
       \cup UNION {Chunk(SlashesOf[h], EventsChunkSize, k - RewardChunks(h)) :
                    k \in {n \in sent .. EventChunks(h) : n >= RewardChunks(h)}}

\* The jobs of stage t in which a row of stage s for item i is still to come.
Carriers(s, t, i) ==
  LET phases == IF s = t THEN {"insert"}
                ELSE {"insert", "links"}
                       \cup (IF s = "transaction_outputs" THEN {"outputs"} ELSE {})
  IN  Cardinality({n \in DOMAIN chan[t] : i \in chan[t][n]})
      + Cardinality({j \in busy[t] : i \in j.job /\ j.phase \in phases})

\* Rows of item i in the table of stage s, present and to come.
Copies(s, i) ==
  rows[s][i] + Carriers(s, s, i)
  + (IF s \in {"transaction_outputs", "transaction_validator"}
     THEN Carriers(s, "transactions", i) ELSE 0)
  + (IF i \in UnsentTxs \cup UNION {UnsentEvents(h) : h \in Height} THEN 1 ELSE 0)

\* While the process runs, everything a block gives that it saved itself is
\* stored or on its way, and not twice: no job is lost or repeated between the
\* loop, the goroutines, the channels and the workers.
ExactlyOnce ==
  Up => \A s \in Stage : \A h \in {g \in blocks : g >= resumed} :
          \A i \in Due(s, h) : Copies(s, i) = 1

\* The rows of all blocks, those of earlier processes included: no table has an
\* item twice, none has one of a block that is not there, or that is not due.
AtMostOnce ==
  \A s \in Stage : \A i \in Item :
    rows[s][i] <= IF BlockOf(i) \in blocks /\ i \in Due(s, BlockOf(i)) THEN 1 ELSE 0

\* Restarts that delete blocks leave no reference dangling: each reward that
\* was added into a sum is still stored, those between the first and the last
\* block of the sum (which no foreign key names) included, and so is the
\* creation transaction of each coin.
ReferencesResolve ==
  /\ \A k \in Key : aggregated[k] \subseteq Stored("rewards")
  /\ \A c \in Coin : meta[c] # NoTx => meta[c] \in Stored("transactions")
  /\ \A x \in indexed : x[2] \in Stored("transactions")

\* Nothing is under way and the loop waits for the next block.
Quiescent ==
  /\ pc = "save" /\ height > MaxHeight
  /\ chan = NoChan /\ busy = NoBusy /\ left = NoLeft
  /\ reading = {} /\ aggregating = {}

\* blocks.num_txs is the "Count of txs in block": once nothing is under way, each
\* saved block has as many transactions as the node's block.
TxCountsAgree ==
  Quiescent => \A h \in blocks :
    Cardinality(TxItems(h) \cap (Stored("transactions") \cup Stored("invalid_transactions")))
      = Len(TxsOf[h])

\* A restart that goes on (its DeleteLastBlockData answered without an error) has
\* deleted the last block.
RestartDeletesLastBlock ==
  [][(pc = "down" /\ pc' = "save" /\ blocks # {}) => LastBlock \notin blocks']_vars

\* Everything the blocks of H give is stored and indexed.
Complete(H) ==
  /\ \A s \in Stage : \A h \in H : Due(s, h) \subseteq Stored(s)
  /\ IndexRows(UNION {TxItems(h) : h \in H}) \subseteq indexed

\* A process that is not interrupted stores everything the node has.
EventuallySeeded ==
  [](faults = 0) => <>[](blocks = Height /\ Complete(Height))

Recovered ==
  /\ blocks = Height
  /\ IndexRows({t \in Tx : BlockOf(t) + WrkUpdateTxsIndexNumBlocks > LastBlock})
       \subseteq indexed

\* Crashes and restarts stop the service for good only over a liquidated coin: all
\* blocks are saved in the end, and the transactions stored of the last N of them
\* are indexed even where the worker that would have indexed them died, unless
\* again and again a redone block misses a coin that was deleted (which happens:
\* EventuallyFollowed in module Coins).
EventuallyRecovered == <>[]Recovered \/ []<>(MissingCoins # {})

\* The pipeline implements the abstract seeding of a database.
Abstract == INSTANCE Seeding WITH last <- LastBlock, Table <- Stage

Seeds == Abstract!Spec
=============================================================================
