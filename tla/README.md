# Verification of the CoinExplorer Extender

The Extender follows a Noah node: it fetches one block after the other, with the
events of the block, and fills the PostgreSQL tables the explorer reads. This
directory holds TLA+ models of how it does that, the TLC configurations that check
them on small instances, and proofs, checked by TLAPS, for all instances. Paths below
are relative to `src/internal/` unless they begin with `src/`.

Contents: 1 the system; 2 what is hard about it; 3 the modules; 4 the runs; 5 the
fairness assumed; 6 the proofs; 7 findings; 8 what is not modelled; 9 the plan.

## 1. The system

One process, one loop and many goroutines. `helpers.HandleError` panics on an error and
no goroutine recovers, so an error that reaches it anywhere kills the process; the
container is started again (`src/Dockerfile:3`, `--restart=always`). Nothing but the
database survives.

| component | state it keeps | operations | talks to |
|---|---|---|---|
| block loop (`core/main.go`, `block/`) | the height it works at, the last block's time (cache), the chasing flag; tables `blocks`, `block_validator` | fetch, save the block, link validators, hand out transactions, create coins, start the goroutines of the block; at a start: delete the last block | every service, by calls and by sends on bounded channels |
| transactions (`transaction/`) | four bounded channels; tables `transactions`, `transaction_outputs`, `transaction_validator`, `invalid_transactions`, `index_transaction_by_address` | workers for transactions (save, send links, send outputs), outputs (save, index), links, failed transactions; a periodic index of the last N blocks | loop to workers to workers |
| events (`events/`) | two bounded channels; tables `rewards`, `slashes`, `aggregated_rewards` | one goroutine per block cuts events into jobs; workers save them; one goroutine every N blocks sums rewards up | loop, coins, balances (liquidation) |
| coins (`coin/`) | symbol/id caches, two update channels, a badger database of update times that is only written; table `coins` | creation in the loop, update from transactions and events, repair of creation transactions, liquidation, price | node, loop, transactions |
| addresses (`address/`) | address/id caches, a bounded channel and a wait group; table `addresses` | extraction from blocks and events, `SaveAllIfNotExist`, `FindId`, `FindIdOrCreate` | loop waits for the pool; hands the addresses on to balances; used by the validator workers |
| balances (`balance/`) | an unbuffered channel, two bounded ones, a wait group; table `balances` | cut into jobs, fetch from the node, compare with the table, write three statements | loop (rendezvous), node |
| validators (`validator/`) | key/id caches, two channels; tables `validators`, `stakes` | creation at a block, status and stake updates, uptimes | loop, node, addresses |
| price, configuration, HTTP status, genesis types | none that changes | | |

The order of one round of the loop (`core/main.go:145-176`) matters: addresses first
(wait for them, then hand them to the balance service), then validators and the block,
its links, its transactions chunk by chunk, the stake or validator update, then the coins
the block creates, then two goroutines (aggregation, events).

What makes each component correct:

- loop: blocks without gaps; a restart loses nothing and doubles nothing; no goroutine
  panics because of an order of writes; the end of the chain is reached.
- transactions and events: each item of a block is stored once, or is on its way,
  whatever the interleaving; it is indexed.
- coins: known when looked up; the creation transaction exists.
- addresses: after the wait, every address of the block can be looked up; ids in the cache
  are those of rows.
- balances: after the service is through with a block, the table holds the balances the
  node had at the last block that named the address; no job outlives the wait.
- coins again: a liquidated coin and its balances end up deleted, the others as the node
  has them; no update is lost between the two channels.
- validators: statuses, stakes and delegations are those of one list of candidates, whatever
  is created or deleted meanwhile; a conflict of two creations costs a process at most.

## 2. What is hard

`PROJECT.json` lists the hazards at their lines with the properties that cover them. In
short:

- the loop runs ahead of the workers, so a crash hits several blocks at once while a
  restart redoes one;
- the restart's nine deletes are refused as a whole by foreign keys, silently;
- coins are written after the transactions that the workers look coins up for;
- pools send into bounded channels of other pools while they hold a job;
- two wait groups and an unbuffered channel tie the loop to other services;
- caches are read, tables are read, and rows are inserted in separate steps by goroutines
  that share nothing but the repository;
- aggregation races the workers it reads from and pins blocks against deletion;
- many goroutines (the loop, both workers of candidates, the workers of transactions) create
  validators, in a read and a later insert, and what the loser of a race caches decides about
  later lookups;
- the searches before those inserts drop their errors, so a failed one looks like absent rows;
- statuses and uptimes are each rewritten in several statements, the second from the first,
  by goroutines that do not know of each other;
- a coin is deleted while its id is cached, its balances are being written and answers of
  the node about it are on their way; a crash may redo the block that used it last.

## 3. The modules

| module | models | built on |
|---|---|---|
| `Chunks` | the loop that cuts a list into jobs, written out seven times in the code | |
| `Pipeline` | the loop, the pools of transactions and events, liquidation, aggregation, indexing, coin creation and repair, death and restart | `Chunks` |
| `Seeding` | abstract: what the database promises to its readers | |
| `Addresses` | the address pool beside the two candidate workers, the cache, death and restart | |
| `Balances` | the balance service, its workers, the loop beside it, death and restart | `Chunks` |
| `Validators` | creation of validators by the loop, the two candidate workers and the workers of transactions, statuses, uptimes, the two job channels, death and restart | |
| `Coins` | the life of a coin: creation, lookups through two caches, both update workers, stakes and delegations, liquidation beside all of them and beside the balance service, death and restart | `Chunks` |
| `MCPipeline`, `MCAddresses`, `MCBalances`, `MCValidators`, `MCCoins` | small chains for TLC | the module of that name |
| `ChunksProofs`, `PipelineProofs`, `AddressesProofs`, `BalancesProofs`, `ValidatorsProofs`, `CoinsProofs` | theorems | the module of that name, TLAPS |
| `PipelineOnceProofs`, `PipelineWritesProofs` | delivery and the refinement of `Seeding`; the parent rows of every write and the coins of every lookup | `PipelineProofs`, TLAPS |

### Pipeline

State. `blocks`, `linked`, `rows`, `indexed`, `coins`, `deleted`, `meta`, `aggregated` are the
tables: `rows[s][i]` counts the rows of item `i` in the table of stage `s`, because nothing but the
key of a link would stop a second one (the index on the hash of a transaction is not a unique
index); `deleted` are the coins whose `deleted_at` is set, `meta` is
`coins.creation_transaction_id`. `pc`, `height`, `chunk` are where `Run` is; `chan` holds
the contents of the channels, `busy` the jobs in the hands of workers, `left` the event
chunks a goroutine `handleEventResponse` still has to send, `reading` the blocks whose goroutine
has not gone through its events yet, `aggregating` the blocks whose `AggregateRewards` goroutine
has not run; `cache` are the coins this process has deleted, which its symbol cache still has.
`faults` bounds crashes, failed reads and failed lookups, `resumed` is history.

A job of a pool goes through phases (`insert`, `links`, `outputs`, `index`), one action per
phase: `SaveTransactions`, `SendLinks`, `SendOutputs`, `SaveOutputs`, `IndexTxAddress`,
`SaveRows`. The loop has one action per step that another goroutine can see: `SaveBlock`,
`LinkBlockValidator`, `SendTransactions`, `SendInvalidTransactions`, `CreateNewCoins`,
`StartGoroutines`. An insert is guarded by what the schema and the lookups before it ask
(`Insertable`); a job for which that fails makes `Panic` possible and nothing else.
`DeleteLastBlockData` is the database transaction of `block/repository.go:44`: all nine
statements or, when a foreign key refuses one (`Pinned`), none, and no error either way.
`RestartBlind` is the start whose `GetLastFromDB` fails. `ReadEvents` is the first half of
`HandleEventResponse`: it deletes the liquidated coins and looks up those of the slashes;
`HandleEventResponse` sends the chunks. A lookup of a coin finds what the cache or the table has
(`Known`); fees, outputs and slashes that name another one (`MissingCoins`) make `Panic` possible.
`LookupFails` is the death of the process wherever an address or a validator is looked up or
inserted for a row (`LooksUp`), `getLinksTxValidator` included; why that fails is in `Addresses` and
`Validators`.

Abstractions. Workers of a pool are alike, so a pool is the set of its jobs; the channel
capacity is the number of workers, as `NewService` makes it. Contents of a transaction are
its coins, whether it failed, whether it names a validator. `created_at` grows with the
height, so `TimeOf` gives the aggregation time of a block. `UpdateCoinsInfo` stands for the
coin update workers and may write any coin at any time. A node that does not have the next
block yet is the end of the chain (`MaxHeight`). Database statements fail only for reasons
of the schema, apart from `RestartBlind` and `LookupFails`. `MempoolAssumption` says that a
transaction, a slash and a liquidation name only coins that existed at the end of the block
before: the node checks it so. Without it a coin could be missing in a process that nothing
disturbs. `CreationAssumption` says that the node creates no coin twice and none of the genesis;
without it `PanicsFollowFaults` is false, for a block whose coin is already there could be pinned by
it before `CreateNewCoins` and would never get its other coins. A coin created again under the
symbol of a liquidated one is left out for that reason.

`Seeds` is the refinement: `Pipeline` implements `Seeding` with `last <- LastBlock` and the
`rows` of all stages; a step of the pipeline appends a block, stores due rows, drops the
last block with everything it gave, or changes nothing a reader sees.

### Addresses

`SaveAllIfNotExist` is four steps of a saver: check the cache, find in the table, collect
what is missing from the cache, insert. The pool runs it for chunks of a block's
addresses and calls `wgAddresses.Done()` at its end; the two candidate workers run it for the
addresses of candidates, then `FindIdOrCreate` for each. `cache[a]` is `"none"`, `"id"` or
`"zero"`: `addToCache` after a failed insert stores the id 0. `UseAddresses` is everything
the block does with its addresses and needs their ids; `PanicOnAddress` is a missing or
zero id. `FindAllFails` is the search whose error is dropped: the pool then inserts rows that are
there and dies of it, a candidate worker caches zeros for them. Which addresses a transaction or an event names (`ExtractAddresses...`) is the
constant `AddressesOf`.

### Balances

`HandOff` is the rendezvous on the unbuffered channel, `CreateNewCoins` the rest of the
loop's round, in which new coins appear while the service works. A job carries what the node
answered and what the table held when it was read, and is written in three statements
(`create`, `update`, `delete`), one step each; the rows of each statement are computed from
what was read, not from the table. Faults are a request that fails after its retries
(`FetchFails`: no `Done`), an answer without entries (`FetchEmpty`), a statement that fails
(`WriteFails`: the rest is dropped, `Done` is deferred and called) and the death of the
process. The coins of an answer are looked up in one step.

### Validators

`CheckCache`, `FindAllByPK` and `InsertMissing` are `SaveAllIfNotExist`, taken by each of
three goroutines (`pc["loop"]`, `pc["validators"]`, `pc["stakes"]`) with the keys it wants;
`FindIdByPk`, `FindNoIdByPk` and `Create` are `FindIdByPkOrCreate` for one candidate after the
other, and `FindNamed`, `FindNoNamed` and `CreateNamed` the same call in the workers that save
transactions (`getLinksTxValidator`), for the transactions that name a validator: `naming` are those
whose validator is not looked up yet, `creating` those for which a worker is about to insert it.
Both searches may fail without being noticed (`FindAllByPKFails`, `FindIdByPkFails`,
`FindNamedFails`): what they should have found is inserted again. A conflict of two inserts is logged
by a worker of candidates and kills the process in `Run` and in a worker of transactions (`Panic`); in
`Run` an unresolved proposer or link does so too. `cache[k]` may be `"zero"`: an
insert that returned no id would leave it. `SendJob` sends the height to one of the two
channels of capacity one. `ResetAllStatuses` and `UpdateAll` are the two statements of
`UpdateValidatorsWorker`; the uptime worker reads the active validators, resets all
uptimes and counts again for one validator after the other, joining the status once more.

Abstractions. `FindAllByPK` and the collection of what is missing are one step: the cache only
grows, so another goroutine in between makes less missing, as a later `CheckCache` would.
An address of a candidate that cannot be found is the fault `AddressFails`; how that comes about
is in `Addresses`. The proposer is one of the block's validators. `status[k]` is the height of the
list that a status is from, which decides whether the validator is ready. The way of transactions
to their workers is in `Pipeline`: here they are at hand once the block is linked, in any order and
one by one, with at most `SaveTxsCount` inserts at a time. Dates of creation are
left out: all links of a validator count. A failed reset of uptimes is left out. `Restart`
keeps a block only when it is past its links, which is what `Pipeline` shows of it.

### Coins

`Alive(c, h)` is the node: the coins it has at a height. The database has `coin[c]` (`"none"`,
`"live"` or `"deleted"`), `asOf[c]`, the height of the chain its columns are from,
`delegated[c]`, the height of the list its delegation is from, `held`, the coins with balances,
and `staked`. `Known` is what `FindIdBySymbol` finds, `Named` what `FindSymbolById` finds, and
both put what the table has into the caches `cache` and `inverse`. The loop has the steps that
meet the others: `HandOff` (rendezvous with the balance service, for a block that names an address;
`Addressed` are those blocks), `SaveBlock`, `SendTransactions`
(the lookups of fees, the hand-over to the output workers and to the coin updates),
`SendStakesJob`, `CreateNewCoins`. `FindSlashedCoins`, `DeleteByCoinId`, `DeleteBySymbol` and
`SendSlashedCoins` are the goroutine of a block's events, one for each block and possibly several
at once. `CollectSymbols` and `SendSymbols` are `UpdateCoinsInfoFromTxsWorker`; `TakeSymbols`,
`GetCoinFromNode` and `SaveCoins` are `UpdateCoinsInfoFromCoinsMap`, whose answers come from
whatever height the node has reached. `GetCandidates`, `FindStakedCoins`, `SaveAllStakes`,
`DeleteStakesNotInListIds` and `ResetCoinDelegationNotInListIds` are `UpdateStakesWorker`, and
`UpdateCoinDelegation` its goroutines. `FindStakesFails` is a list in which validators or owners
could not be found or created: the code skips their stakes (`missed`). `Panic` is a failed lookup of a coin that the code does
not survive (`Missing`).

Abstractions. Deletion is soft: `models.Coin` is not in this repository, the column
`deleted_at` and the `Delete` of its model are; a deleted row is not found and an upsert of all
columns brings it back. The node answers for a coin at or above the height that was fetched,
and for balances at the block's height. A symbol is not created again after its liquidation.
A block's transactions make one batch for the coin workers. Slashes are looked up before
liquidations (in the list they may be mixed). Statements do not fail here, those whose error the code
only logs included (the deletes and resets of stakes and delegations, the update of a coin), and
requests for balances do so in `Balances`. Any stakes of an answer may be missed together, and each
list that misses some counts as a fault, whatever the cause (a conflict between two creators needs
none in `Validators`). `StakesIn` is the loop that makes the list of stakes, written as a
recursive function so that it can be reasoned about. The output workers are the set of coins they still have to look
up. `Restart` keeps a block only when the coins it creates exist.

## 4. The runs

Each passing run checks several properties, each of which a change of one definition (the
`mutants` of `PROJECT.json`: a dropped wait, a stale read, a chunk one short, a job tried
twice...) violates under the same configuration. A run that checks no liveness property may use a
larger chain; temporal properties of the chain of `updates` exceed what TLC does in minutes, which
is why what an undisturbed process ends up with is stated there as two invariants, of the moments
when events or coin workers have nothing in hand.

| run | instance | shows |
|---|---|---|
| `tx` | 3 blocks, 4 transactions (one failed, two with outputs, two with links), two workers per pool, chunks of 2, one fault (a crash or a failed lookup) | `ExactlyOnce`: nothing is lost or repeated between loop, channels and workers of one process; `AtMostOnce`: nor across restarts; `InsertsFindParents`; `Seeds` |
| `events` | 3 blocks, 2 rewards of one recipient in one aggregation time, aggregation at every block, a coin created in block 2, paid with, sent and liquidated in block 3, chunks of 1, two faults (crashes, failed lookups, a failed read of the last block) | `ExactlyOnce` and `AtMostOnce` for events; `BlocksHaveNoGaps` and `BlockValidatorsComplete` over every kind of restart; `ReferencesResolve`: no sum counts a deleted reward, although foreign keys name only a sum's first and last block, and no creation transaction dangles; `PanicsFollowFaults`: a coin is missing only because it was deleted and a block is redone, and an existing block is saved again only from block 1 |
| `fair` | 2 blocks with transactions, a coin that is sent, slashed and liquidated, rewards, aggregation, one fault | `EventuallySeeded`: without a fault everything ends up stored and indexed, however the bounded channels fill; `EventuallyRecovered`: with one, the end of the chain is reached and the stored transactions of the last N blocks are indexed, unless a redone block misses a deleted coin again and again, as the run `stuck` shows it can |
| `addresses` | 2 blocks sharing an address, candidates sharing addresses with both, chunks of 1, two workers, one crash or failed search | `WaitSuffices`, `CachedIdsExist`, `PoolIsDisjoint`, `EventuallyUsed`: conflicts cost processes but not progress |
| `balances` | 3 blocks, 3 addresses, jobs of 2 and of 1 address, one fetch and two update workers, two faults of any kind | `WaitCoversJobs`, `BalancesCurrent`, `EventuallyServed` |
| `validators` | 4 blocks, 3 validators that appear one after the other, two transactions that name validators, two workers for them, a list of stakes between two of validators, one fault of any kind (crash, failed request, search, lookup or statement) | `LinksResolve` and `CachedIdsExist` in spite of conflicts; `ConflictsOnlyWithWorkers`: what Run can panic about; `StatusesCurrent`; `EventuallyFollowed`: the panics end; `EventuallyListed`: no height is lost in a channel; `UptimesRepaired`: a race of uptimes with statuses heals |
| `updates` | 4 blocks: 2 creates a coin and stakes it, 3 slashes and liquidates a coin that its addresses hold, 4 names no address and liquidates the coin of block 2, in which a transaction of block 3 pays its fee and trades another one; stakes at every second height in chunks of 1; one fault of any kind | `NoBalanceOfDeletedCoin`: only a block without addresses leaves balances in a coin it liquidates; `NeverOlder`: no columns of a coin are replaced by older ones; `RevivedLate`: what brings a deleted coin back; `LookupsFailOnlyAfterCrash`: no lookup comes too early, the caches bridge a deletion; `StakesCurrent`; `NoOldDelegation`; `CoinsMirrorTheNode` and `NoUpdateIsLost`: the coins of an undisturbed process |
| `lost`, `pinned`, `poisoned`, `wedged`, `stuck` | small | each finds the violation described in section 7 |

Why the bounds are enough. The hazards need two blocks in memory and one in the
database (3 blocks), a list of two chunks with a short last one, a full channel and a busy
worker behind it (capacity 1 or 2), two workers of one pool, and a crash between any two
steps; a second crash reaches a restart in the middle of a redone block. A sum that begins,
ends and passes over a block needs two rewards in two blocks of one time, and the third block for
the restart. Balances need one that appears, one that changes, one that goes and
one in a new coin. Three validators suffice for a list that conflicts in part, and
four heights for a list of stakes while the validators of the next block are saved. In `updates`
one coin must be liquidated by a block with addresses and one by a block without, the second while
balances in it are in hand and a transaction that paid its fee in it waits for the coin worker,
together with another coin that it trades; two lists of stakes must follow each other, the first in
a coin of its own block and the second, in two chunks, without it. Stakes are asked for at every
second height instead of every twelfth, which only makes them meet more often. `stuck` has a chain
of its own, in which a transaction pays its fee in the coin that its own block liquidates.

One fault in `tx`, `fair`, `addresses`, `validators` and `updates` is a crash or one of the failures,
not both; `events` and `balances` have two. A block that exists already is met only after a death and
a failed read of the last block (`RestartBlind`), two faults: `events` has them.

Deadlock is checked in the runs of `Pipeline`, `Addresses` and `Validators`, where it
shows little because a periodic or a candidate worker can always go on: what rules a blocked
loop out there is the liveness properties. `balances`, `wedged`, `updates` and `stuck` turn it
off because the model ends with its chain.

## 5. Fairness

Weak fairness for the loop, each pool, each goroutine, the periodic indexer, a pending
panic and the restart: Go runs every goroutine that can proceed, a blocked channel operation
proceeds when its partner does, and the container is restarted whenever it exits. No
fairness for crashes, failed requests and lookups, `RestartBlind`, the arrival of candidates, or, in `Pipeline`, the
updates and repairs of coins: nothing that is shown to happen there relies on them. Strong
fairness is nowhere needed: a job in a channel stays until a worker of its pool takes it. The uptime
worker of `Validators` has weak fairness too, for its timer always fires again.

`Pipeline` and `Coins` have two specifications each: `Spec` without fairness for the runs that check
invariants and action properties, `FairSpec` with it for `fair`, `pinned` and `stuck`.

The liveness that is shown is that of the models: `EventuallySeeded` of `Pipeline` says nothing of
the wait for balances, which can block the loop for ever (run `wedged`), and treats the death of a
process over a lookup of an address or a validator as a fault.

## 6. The proofs

`ChunksProofs` (for every length and every size): `ChunksAreBounded` (each chunk is inside
the list, not empty, at most the size), `ChunksAreDisjoint`, `ChunksCover` and, from these,
`ChunksCarryTheList`: the jobs made of a list carry its elements and no others. They rest
on two facts about division and on `CountIsExact`: the loop runs over exactly the chunks
that begin inside the list.

`PipelineProofs`, `PipelineOnceProofs` and `PipelineWritesProofs` (for every chain, worker count,
chunk size and number of faults, from `ParametersAssumption` and `ChainAssumption`; the last
also from `CreationAssumption` and `MempoolAssumption`):

- `TypeCorrect` and `ChainComplete`. The types are not inductive alone: the loop writes
  `linked` and `left` at its own height, which must be one of the chain. The invariant is
  `TypedChain`: the types, `BlocksHaveNoGaps`, and a positive height at most `MaxHeight` for
  the last block.
- `NoDanglingReferences` (`ReferencesResolve`) and `ValidatorsComplete`
  (`BlockValidatorsComplete`). Why can a restart delete a block without breaking a sum
  that no foreign key protects in its middle? Because it deletes only the last block, and a
  sum that has a reward of the last block ends there, where a key protects it. Why does it
  never keep a block without validator links? Because what pins a block is a stored item of
  it, and items leave the loop after the links are written. The invariant `Provenance` says
  so: everything in a table, a channel or a worker belongs to a block past its link
  step (`RowsPastLink`, `ChanPastLink`, `BusyPastLink`, `LoopPastLink`), a dead process has
  nothing in memory, an output has its transaction. One lemma per group of actions carries it
  through a step; `PinnedPastLink` and `UnpinnedUnreferenced` are the two halves of the
  argument about the restart.
- `StoredAtMostOnce` (`AtMostOnce`) and `DeliveredExactlyOnce` (`ExactlyOnce`). The invariant `Once`
  says of every table and item that the item is in at most one place on its way there: unsent by
  the loop or by the goroutine of events, in a job of the stage before that has still to send it
  on, in a job of the stage itself, or stored (`Placed`); and of what this process's blocks give,
  that it is in one of them (`NothingLost`). The places are counted by `Flow`, and each group of
  actions has a lemma that says which place gives an item to which. The arithmetic of chunks
  enters where the loop sends one (`TxsStep`, `EventsStep`: a chunk and what is left after it are
  disjoint and together what was left before). A dead process leaves only rows, and a deleted
  block takes its rows along, so a block that is redone stores nothing twice.
- `Implements` (`Seeds`), the refinement: every step of `Pipeline` is one of `Seeding` or a stutter
  under the mapping. That an insert stores only what is due and missing is `Once`; that a restart
  drops the last block with all it gave, and no other, is `Provenance`.
- `ParentsFound` (`InsertsFindParents`). What a job refers to is stored before the job is sent, and a
  block is deleted only when the process, and every job with it, is gone.
- `PanicsNeedFaults` (`PanicsFollowFaults`). Why are a block's coins known when its transactions are
  worked on, although they are written after them? Because a transaction names coins of earlier
  blocks, and of the saved blocks only the last may miss its coins (`BlocksHaveCoins`). Why does a
  restart never go on from such a block? It is kept only if something refers to it, and
  what refers to it was written by something that came after its coins (`ReferredHaveCoins`,
  `CoinsByBlock`). So a coin that is looked up has a row; if it is deleted, the process that deleted
  it still has it in its cache, so that it takes a restart to miss it. The exception about existing
  blocks is in the property: a start at block 1 after a failed read.

`AddressesProofs` (for every pool, chunk size, list of candidates and number of faults):

- `TypeCorrect`. That the wait group stays a natural number needs `Counted`: it is the
  length of the channel plus the number of busy workers. `WaitIsForAll` follows: when `Wait`
  is possible the pool has nothing left.
- `AddressesKnown` (`WaitSuffices`). The invariant `Covered` says where an address of the
  block is: known (cached or stored), not sent yet, in the channel, or in a worker's job.
  A worker may drop it from its insert only because it was known (`RestIsKnown`), and what
  is known stays known while the process lives (`KnownGrows`).
- `PoolDisjoint` (`PoolIsDisjoint`). `JobsApart` adds the channel and the addresses not sent
  yet to the pool's jobs; between blocks `WaitIsForAll` empties all three.
- `CachedIds` (`CachedIdsExist`).

`BalancesProofs` (likewise):

- `TypeCorrect` and `NoJobOutlivesTheWait` (`WaitCoversJobs`).
  The wait group counts at least the chunks to send and the jobs under way; it is only an
  inequality because a failed request leaves it too high, which is the defect of the run
  `wedged`. `OneChunkLess` connects it with the arithmetic of `Chunks`.
- `BalancesFollow` (`BalancesCurrent`). Two jobs of a block never have an address in common
  (`AllAlone`), so what a worker has read of its addresses is still in the table when it writes:
  between its three statements the table is exactly as far as the job (`JobsFit` with `InStep`).
  What the job got from the node belongs to the service's block (`Informed`), in coins that were
  in the table unless the block creates them (`CoinsKept`). While the wait group counts exactly,
  an address of that block is under way or has its balances (`NoneMissed`), so that the service,
  which leaves the block only when the count is 0, leaves it with all of them; when the count
  is too high it never leaves. `ServiceFits` says that the service's block is the last one handed
  over with addresses, which makes it the latest for each of them.

`ValidatorsProofs` (for every chain, all lists of candidates and every number of faults):

- `TypeCorrect`. `TypedInv` adds `Places`: which steps each goroutine can be at, and that the
  heights it works at are those of the chain, without which `Wanted` is not defined.
- `CachedIds` (`CachedIdsExist`). Why is the value 0 never cached? `addToCache` goes over all wanted
  keys, and those that were not inserted must have been in the cache already. `ArgsCover` says
  so: what a goroutine wants and the cache does not have is among what it is about to insert.
  `CacheInv` is inductive with it.
- `BlockValidatorsKnown` (`LinksResolve`): behind the insert all wanted keys are in the cache
  (`AllCached`), and with `CachedIds` what is in the cache resolves.
- `ConflictsAreRaces` (`ConflictsOnlyWithWorkers`): when Run collects what is missing, none
  of it is in the table, for `FindAllByPK` has just cached what is, unless it failed (`blind`); the lemma `StepMade` shows
  that while it waits with its insert every new row is one that a worker of this process made.
- `StatusesAreCurrent` (`StatusesCurrent`). `StatusInv` says how far a list that is not spoiled has
  come: the candidates passed are exactly those to be written (`Passed`), and between the two
  statements all statuses are empty.

`CoinsProofs` (for every chain, all lists of stakes and every number of faults, from both
`ASSUME`s):

- `BalancesDeleted` (`NoBalanceOfDeletedCoin`). Why can the balance service, which works beside the
  loop and the goroutines of several blocks, not write a balance of a coin after its
  deletion, when the block that liquidates the coin names an address? Because then the loop has met the
  service at that block, so the service is at it or at a later one (`Passed`, `Places`), and the node
  has no balance in a coin that was liquidated before the block it is asked for (`Asked`, `NotAsked`).
  A block without addresses is passed without that meeting: its coins are `Unguarded`, and the
  invariants leave them out. After crashes the same blocks may be redone, at heights
  where the node still has the coin; then the new process does not know it, for a coin that
  is deleted and still cached was liquidated before the block at work (`Deleted`). `Between` covers
  the moment between the deletion of the balances and that of the coin.
- `LookupsFail` (`LookupsFailOnlyAfterCrash`). `Rows`: the coins created by the blocks below have
  rows, and nothing takes a row away; so a coin the node had one block ago (`HasRow`) is there or
  deleted, and until the first crash (`crashed`, which failed requests do not set) a deleted one is
  cached.
- `DelegationsAreCurrent` (`NoOldDelegation`). `DelegationInv` says for the last list, unless it
  overtook a goroutine, that each coin in it has its delegation or its goroutine.
- `TypeCorrect`, and under it `StakesInIsFilter`: the recursive loop over an answer returns a
  sequence of exactly the stakes in the given coins, whatever the answer. The library's induction
  theorems take an operator as a parameter, which the provers cannot instantiate; `Induction` gets
  the same for a set of numbers from the library's theorem on minimal elements.
- `StakesAreCurrent` (`StakesCurrent`). `Written`: the chunks before the current one have the list's
  height, and by `ChunksCarryTheList` those are all stakes of the list when the loop ends;
  `Settled`: after the deletion there are no others. `Looked` says why a stake of the answer is not
  in the list: it was missed, or its coin was created by the list's own block, or is deleted and unknown to the cache
  (`Skipped`), and `GoneStays` that such a coin stays deleted: the loop creates no coin again, and the
  coin workers write only coins that they have found (`AnswersCached`). An earlier form of the property
  left out only deleted coins; it failed on an instance that stakes a coin in the block of its
  creation, because the loop asks for the stakes before it stores the coins.
- `ColumnsNeverOlder` (`NeverOlder`) and `RevivedOnlyLate` (`RevivedLate`), action properties. `AgeInv`
  orders the heights that meet in a row: what the table holds is not newer than an answer in
  hand, the answer not newer than the node, nor the loop's block; and until something fails the table
  has no coin of a block still to come, so that the creation of a coin replaces nothing.
- `CoinsAreMirrored` (`CoinsMirrorTheNode`). `Mirror`: in an undisturbed process a coin that an earlier
  block liquidated is deleted, or that block's goroutine has still to delete it, or it is `late`. A coin
  creation brings none back, for the node creates no coin twice. The other direction, that what is
  deleted was liquidated and what is there was created by then, is in `Inv` and `AgeInv`.
- `UpdatesArrive` (`NoUpdateIsLost`). `UpdateInv` says where the update of a coin that a block refreshes
  is (`Pending`): its block is in the first channel, its symbol in the hands of the first worker, in the
  second channel, among those to ask for, or its answer is in hand; or the coin is as of that block or
  later, or the node has it no more. An answer comes from the height the node has reached, which is at
  least that of the block.

Most steps only look coins up; `Quiet`, `Other` and `Still` are what they have in common, so that each
invariant needs a lemma only for the others.

Each theorem about a specification is about a property that a run checks too, and every safety
property of a passing run, the refinement and the action properties of `Coins` included, has its
theorem. The proofs assume no more than the `ASSUME`s of the modules, which TLC evaluates. Some of
them corrected the models: `Carriers` of `Pipeline` had a `CASE` with overlapping arms, of which
`CHOOSE` may take either; `CreationAssumption` and the exception in `StakesCurrent` came from steps
that could not be proved and that TLC then refuted.

Only model-checked: the liveness properties (`EventuallySeeded`, `EventuallyRecovered`,
`EventuallyUsed`, `EventuallyServed`, `EventuallyFollowed`, `EventuallyListed`, `UptimesRepaired`),
which need fairness and `ENABLED`, and the runs that expect a
violation.

## 7. Findings

Five runs find what the repository says refuted by what the code does; each counterexample
is a few steps long and `PROJECT.json` quotes the lines.

- `lost`: a crash loses the transactions of earlier blocks that were still in channels or
  workers. The restart redoes the last block only, and those blocks stay short of
  `blocks.num_txs`.
- `pinned`: a foreign key keeps the last block, the delete does nothing and reports no
  error, and the loop goes on from a block that may be incomplete.
- `poisoned`: the address cache is filled when the insert failed (`if err != nil`) instead of
  when it succeeded; an address with the cached id 0 is then never saved by the pool.
- `wedged`: a balance request that fails leaves the wait group above zero; the service waits
  for ever and the loop blocks at its next block with addresses, with the process alive, so
  that nothing restarts it.
- `stuck`: a crash after a liquidation was carried out, while its block is the last one, has
  the block redone; the coin that a transaction of the block paid its fee in is deleted and no
  longer cached, its lookup fails and kills the process, after every restart again.

Not findings, because no text of the repository contradicts them, but visible in the models:
a reward stored after its time was last aggregated is never summed up; a delayed aggregation
with a smaller height can shrink the newest sum until the next one; a balance in a
coin the block itself creates is skipped when it is looked up before the coin is written; an
answer without results deletes the balances of its addresses. In the models of validators and
coins: a validator that Run or a worker of transactions creates at once with another goroutine kills the
process, which then recovers; so does a search of Run that fails, with an error nobody looks at;
`COUNT(signed)` counts the blocks a validator failed to sign as well, since the column is never
null; uptimes computed while the statuses are empty are 0 until the next round; every
refresh of a coin sets its delegation to 0 and clears its creation transaction; an answer
about a coin that arrives after its liquidation brings the coin back for good; a transaction
whose fee was paid in a coin liquidated since is passed over by the coin worker, with the
coins it traded; the rows that the balance service has in hand when a block without addresses
liquidates their coin are written after the deletion and stay; stakes of a validator or an owner that
cannot be found are dropped from the table until the next list; an empty list of candidates leaves old stakes and delegations as they
are (the deletes have no ids to exclude); a crash loses a liquidation of a block that was not the
last one.

## 8. Not modelled

- The chasing flag and the stored node height (`core/main.go:375-393`): the subtraction in 64 bits
  wraps once the height passes the stored one, but no other code reads either field.
- The counts of delegators (`validator/service.go:280-296`), a column computed from one query by
  a goroutine each and read by nothing here, and functions that nobody calls
  (`HandleCandidateResponse`, `GetStakesFromCandidateResponse`, `DeleteStakesByValidatorIds`,
  `Update` and `Save` of validators).
- `Pipeline` leaves out the sends to the coin and candidate workers (`core/main.go:270-274`,
  `transaction/service.go:94`, `events/service.go:125-127`) and the insert of a validator that a
  transaction names, which `Coins` and `Validators` have, and over-approximates what the coin workers
  write by `UpdateCoinsInfo`.
- In `Coins`: failures of statements whose error is only logged (deletes and resets of stakes and
  delegations, updates of coins); a coin created again after its liquidation.
- The badger database of update times: it is written and never read.
- Genesis upload: what it stores are constants (`GenesisCoins`).
- The price (`coin/price.go`): 100-digit floating-point powers, which TLC does not have.
- Configuration, HTTP status, genesis types and conversions: no state that changes.
- Fees, hashes, texts, volumes and all other columns that no property tells apart.

## 9. Plan

1. Done: `Chunks`, `Pipeline`, `Seeding`, `Addresses`, `Balances`, `Validators`, `Coins`, the runs
   above, the proofs of section 6.
2. Done: all safety properties of the passing runs proved.
3. Composition: `Addresses` and `Balances` with the loop of `Pipeline` as abstractions of its
   `save` step, and `UpdateCoinsInfo` of `Pipeline` as the abstraction of the workers of `Coins`, as
   refinement mappings where the state allows.

## 10. Running it

    tlc -config tx.cfg MCPipeline.tla          # likewise events, fair, lost, pinned
    tlc -config addresses.cfg MCAddresses.tla  # likewise poisoned
    tlc -config balances.cfg MCBalances.tla    # likewise wedged
    tlc -config validators.cfg MCValidators.tla
    tlc -config updates.cfg MCCoins.tla        # likewise stuck
    tlapm ChunksProofs.tla                     # likewise the other proof modules
