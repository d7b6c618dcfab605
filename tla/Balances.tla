------------------------------ MODULE Balances ------------------------------
(***************************************************************************)
(* How balances follow the blocks.  Run hands the addresses of a block to  *)
(* the balance service over an unbuffered channel.  The service cuts them  *)
(* into jobs, fetch workers ask the node for the balances at the height of *)
(* the block, update workers bring the table up to date in up to three     *)
(* statements, and the service takes the next block only when a wait group *)
(* says that all jobs are done.  Meanwhile Run saves the block and, at its *)
(* end, the coins the block creates.                                       *)
(***************************************************************************)
EXTENDS Integers, Sequences, FiniteSets, FiniteSetsExt, Chunks

CONSTANTS
  MaxHeight,           \* bound: the node holds blocks 1 .. MaxHeight
  Address, Coin,
  AddressesOf,         \* the addresses of each block
  CoinsOf,             \* the coins each block creates
  BalanceAt,           \* the node's balances after each block, 0 for none
  GenesisCoins,
  AddrChunkSize,
  WrkGetBalancesFromNodeCount, WrkUpdateBalanceCount,
  MaxFaults            \* bound on crashes and failed requests and statements

Height == 1 .. MaxHeight
Table  == [Address -> [Coin -> Nat]]

ASSUME ParametersAssumption ==
  /\ MaxHeight \in Nat /\ MaxFaults \in Nat /\ AddrChunkSize \in Nat \ {0}
  /\ WrkGetBalancesFromNodeCount \in Nat \ {0} /\ WrkUpdateBalanceCount \in Nat \ {0}
  /\ IsFiniteSet(Address) /\ GenesisCoins \subseteq Coin
  /\ AddressesOf \in [Height -> SUBSET Address] /\ CoinsOf \in [Height -> SUBSET Coin]

\* A balance is in a coin that exists.
ASSUME ChainAssumption ==
  /\ BalanceAt \in [Height -> Table]
  /\ \A h \in Height : \A a \in Address : \A c \in Coin :
       BalanceAt[h][a][c] > 0 => c \in GenesisCoins \cup UNION {CoinsOf[g] : g \in 1 .. h}

VARIABLES
  balances, coins,           \* the tables of those names
  pc, height,                \* Run
  serving, unsent, wg,       \* the service: its block (0: none), addresses not sent
  chGet, fetching,           \* jobGetBalancesFromNode, the fetch workers' jobs
  chUpdate, updating,        \* jobUpdateBalance, the update workers' jobs
  resumed, spoiled, faults   \* history: first block of this process, blocks
                             \* with an empty answer or a failed statement

service == <<serving, unsent, wg>>
workers == <<chGet, fetching, chUpdate, updating>>
vars == <<balances, coins, pc, height, service, workers, resumed, spoiled, faults>>

-----------------------------------------------------------------------------
NoBalances == [a \in Address |-> [c \in Coin |-> 0]]

\* A job: its block and addresses, the balances the node answered, those read
\* from the table, and where it is.
Job(at, h, S, node, db) == [at |-> at, height |-> h, of |-> S, node |-> node, db |-> db]

Statement == {"create", "update", "delete"}

Up == pc # "down"

-----------------------------------------------------------------------------
\* Run.

\* Mutant of HandOff: the number of chunks is rounded down.
HandOffFloor ==
  /\ pc = "addresses" /\ height <= MaxHeight
  /\ IF AddressesOf[height] = {} THEN UNCHANGED service
     ELSE /\ serving = 0
          /\ serving' = height /\ unsent' = AddressesOf[height]
          /\ wg' = wg + Cardinality(AddressesOf[height]) \div AddrChunkSize
  /\ pc' = "coins"
  /\ UNCHANGED <<balances, coins, height, workers, resumed, spoiled, faults>>

\* The send on chAddresses, which meets the service's receive, and wg.Add.
HandOff ==
  /\ pc = "addresses" /\ height <= MaxHeight
  /\ IF AddressesOf[height] = {} THEN UNCHANGED service
     ELSE /\ serving = 0
          /\ serving' = height /\ unsent' = AddressesOf[height]
          /\ wg' = wg + ChunksCount(Cardinality(AddressesOf[height]), AddrChunkSize)
  /\ pc' = "coins"
  /\ UNCHANGED <<balances, coins, height, workers, resumed, spoiled, faults>>

\* The rest of the block, down to the coins it creates.
CreateNewCoins ==
  /\ pc = "coins"
  /\ coins' = coins \cup CoinsOf[height]
  /\ height' = height + 1 /\ pc' = "addresses"
  /\ UNCHANGED <<balances, service, workers, resumed, spoiled, faults>>

-----------------------------------------------------------------------------
\* HandleAddresses.

\* The addresses come from a Go map, so any of them may make up a chunk.
SendChunk ==
  /\ unsent # {} /\ Len(chGet) < WrkGetBalancesFromNodeCount
  /\ \E S \in SUBSET unsent :
       /\ S # {} /\ Cardinality(S) <= AddrChunkSize
       /\ Cardinality(S) < AddrChunkSize => S = unsent
       /\ chGet' = Append(chGet, Job("fetch", serving, S, NoBalances, NoBalances))
       /\ unsent' = unsent \ S
  /\ UNCHANGED <<balances, coins, pc, height, serving, wg, fetching, chUpdate, updating,
                 resumed, spoiled, faults>>

Wait ==
  /\ serving # 0 /\ unsent = {} /\ wg = 0
  /\ serving' = 0
  /\ UNCHANGED <<balances, coins, pc, height, unsent, wg, workers, resumed, spoiled, faults>>

-----------------------------------------------------------------------------
\* GetBalancesFromNodeWorker.

TakeGet ==
  /\ chGet # <<>> /\ Cardinality(fetching) < WrkGetBalancesFromNodeCount
  /\ fetching' = fetching \cup {Head(chGet)} /\ chGet' = Tail(chGet)
  /\ UNCHANGED <<balances, coins, pc, height, service, chUpdate, updating, resumed,
                 spoiled, faults>>

\* The node's balances at the job's height, but for coins that are not in the
\* table when they are looked up: those are skipped.
Answer(j) ==
  [a \in Address |-> [c \in Coin |->
     IF a \in j.of /\ c \in coins THEN BalanceAt[j.height][a][c] ELSE 0]]

Fetch(j) ==
  /\ j.at = "fetch"
  /\ fetching' = (fetching \ {j}) \cup {Job("send", j.height, j.of, Answer(j), NoBalances)}
  /\ UNCHANGED <<balances, coins, pc, height, service, chGet, chUpdate, updating, resumed,
                 spoiled, faults>>

\* An answer without results, which is what an error of the node decodes to: it
\* counts as "no balances".
FetchEmpty(j) ==
  /\ j.at = "fetch" /\ faults < MaxFaults
  /\ fetching' = (fetching \ {j}) \cup {Job("send", j.height, j.of, NoBalances, NoBalances)}
  /\ spoiled' = spoiled \cup {j.height}
  /\ faults' = faults + 1
  /\ UNCHANGED <<balances, coins, pc, height, service, chGet, chUpdate, updating, resumed>>

\* A request that fails after its retries: the worker takes the next job and
\* nobody calls Done for this one.
FetchFails(j) ==
  /\ j.at = "fetch" /\ faults < MaxFaults
  /\ fetching' = fetching \ {j}
  /\ faults' = faults + 1
  /\ UNCHANGED <<balances, coins, pc, height, service, chGet, chUpdate, updating, resumed,
                 spoiled>>

\* Mutant of SendResult: the fetch worker is done with the wait group as well.
SendResultDone(j) ==
  /\ j.at = "send" /\ Len(chUpdate) < WrkUpdateBalanceCount
  /\ fetching' = fetching \ {j}
  /\ chUpdate' = Append(chUpdate, [j EXCEPT !.at = "read"])
  /\ wg' = wg - 1
  /\ UNCHANGED <<balances, coins, pc, height, serving, unsent, chGet, updating, resumed,
                 spoiled, faults>>

SendResult(j) ==
  /\ j.at = "send" /\ Len(chUpdate) < WrkUpdateBalanceCount
  /\ fetching' = fetching \ {j}
  /\ chUpdate' = Append(chUpdate, [j EXCEPT !.at = "read"])
  /\ UNCHANGED <<balances, coins, pc, height, service, chGet, updating, resumed, spoiled,
                 faults>>

-----------------------------------------------------------------------------
\* UpdateBalancesWorker and updateBalances.

TakeUpdate ==
  /\ chUpdate # <<>> /\ Cardinality(updating) < WrkUpdateBalanceCount
  /\ updating' = updating \cup {Head(chUpdate)} /\ chUpdate' = Tail(chUpdate)
  /\ UNCHANGED <<balances, coins, pc, height, service, chGet, fetching, resumed, spoiled,
                 faults>>

\* FindAllByAddress.
ReadBalances(j) ==
  /\ j.at = "read"
  /\ updating' = (updating \ {j}) \cup
       {Job("create", j.height, j.of, j.node,
            [a \in Address |-> IF a \in j.of THEN balances[a] ELSE NoBalances[a]])}
  /\ UNCHANGED <<balances, coins, pc, height, service, chGet, fetching, chUpdate, resumed,
                 spoiled, faults>>

\* Mutant of Rows: a row that was updated is not taken out of those to delete.
RowsKept(j, statement) ==
  {x \in j.of \X Coin :
     CASE statement = "create" -> j.db[x[1]][x[2]] = 0 /\ j.node[x[1]][x[2]] > 0
       [] statement = "update" -> j.db[x[1]][x[2]] > 0 /\ j.node[x[1]][x[2]] > 0
       [] statement = "delete" -> j.db[x[1]][x[2]] > 0}

\* The rows of each statement: forCreate, forUpdate, forDelete.
Rows(j, statement) ==
  {x \in j.of \X Coin :
     CASE statement = "create" -> j.db[x[1]][x[2]] = 0 /\ j.node[x[1]][x[2]] > 0
       [] statement = "update" -> j.db[x[1]][x[2]] > 0 /\ j.node[x[1]][x[2]] > 0
       [] statement = "delete" -> j.db[x[1]][x[2]] > 0 /\ j.node[x[1]][x[2]] = 0}

\* An update and a delete find their row by its id and do nothing without it.
Written(j) ==
  [a \in Address |-> [c \in Coin |->
     IF <<a, c>> \in Rows(j, j.at) /\ (j.at = "create" \/ balances[a][c] > 0)
     THEN IF j.at = "delete" THEN 0 ELSE j.node[a][c]
     ELSE balances[a][c]]]

After == [create |-> "update", update |-> "delete"]

\* Mutant of Write: Done is not deferred, and SaveAll of an address without
\* balances in the table returns before it.
WriteNotDeferred(j) ==
  /\ j.at \in Statement
  /\ balances' = Written(j)
  /\ updating' = (updating \ {j}) \cup
       (IF j.at = "delete" THEN {} ELSE {[j EXCEPT !.at = After[j.at]]})
  /\ wg' = IF j.at = "delete" /\ j.db # NoBalances THEN wg - 1 ELSE wg
  /\ UNCHANGED <<coins, pc, height, serving, unsent, chGet, fetching, chUpdate, resumed,
                 spoiled, faults>>

Write(j) ==
  /\ j.at \in Statement
  /\ balances' = Written(j)
  /\ updating' = (updating \ {j}) \cup
       (IF j.at = "delete" THEN {} ELSE {[j EXCEPT !.at = After[j.at]]})
  /\ wg' = IF j.at = "delete" THEN wg - 1 ELSE wg
  /\ UNCHANGED <<coins, pc, height, serving, unsent, chGet, fetching, chUpdate, resumed,
                 spoiled, faults>>

\* An error is logged, the statements that remain are dropped.
WriteFails(j) ==
  /\ faults < MaxFaults
  /\ updating' = updating \ {j}
  /\ wg' = wg - 1
  /\ spoiled' = spoiled \cup {j.height}
  /\ faults' = faults + 1
  /\ UNCHANGED <<balances, coins, pc, height, serving, unsent, chGet, fetching, chUpdate,
                 resumed>>

-----------------------------------------------------------------------------
\* Death and restart.  The block under way may have been saved; the last block
\* saved is done again unless a foreign key keeps it, and none can keep a block
\* whose coins are still to be created.

Crash ==
  /\ Up /\ faults < MaxFaults
  /\ faults' = faults + 1
  /\ pc' = "down"
  /\ serving' = 0 /\ unsent' = {} /\ wg' = 0
  /\ chGet' = <<>> /\ fetching' = {} /\ chUpdate' = <<>> /\ updating' = {}
  /\ UNCHANGED <<balances, coins, height, resumed, spoiled>>

Restart ==
  /\ ~Up
  /\ height' \in {height - 1, height} \ {0}
  /\ resumed' = height' /\ pc' = "addresses" /\ spoiled' = {}
  /\ UNCHANGED <<balances, coins, service, workers, faults>>

Init ==
  /\ balances = NoBalances /\ coins = GenesisCoins
  /\ pc = "addresses" /\ height = 1 /\ resumed = 1
  /\ serving = 0 /\ unsent = {} /\ wg = 0
  /\ chGet = <<>> /\ fetching = {} /\ chUpdate = <<>> /\ updating = {}
  /\ spoiled = {} /\ faults = 0

Run     == HandOff \/ CreateNewCoins
Service == SendChunk \/ Wait
FetchWorker  == TakeGet \/ \E j \in fetching : Fetch(j) \/ SendResult(j)
UpdateWorker == TakeUpdate \/ \E j \in updating : ReadBalances(j) \/ Write(j)

Next ==
  \/ Run \/ Service \/ FetchWorker \/ UpdateWorker
  \/ \E j \in fetching : FetchEmpty(j) \/ FetchFails(j)
  \/ \E j \in updating : WriteFails(j)
  \/ Crash \/ Restart

\* Go runs every goroutine that can proceed.
Fairness ==
  /\ WF_vars(Run) /\ WF_vars(Service) /\ WF_vars(FetchWorker) /\ WF_vars(UpdateWorker)
  /\ WF_vars(Restart)

Spec == Init /\ [][Next]_vars /\ Fairness

-----------------------------------------------------------------------------
\* Properties.

JobType ==
  [at : {"fetch", "send", "read"} \cup Statement, height : Height, of : SUBSET Address,
   node : Table, db : Table]

Fetching == Len(chGet) + Cardinality(fetching)
Updating == Len(chUpdate) + Cardinality(updating)

TypeOK ==
  /\ balances \in Table /\ coins \subseteq Coin
  /\ pc \in {"addresses", "coins", "down"} /\ height \in 1 .. MaxHeight + 1
  /\ serving \in 0 .. MaxHeight /\ unsent \subseteq Address /\ wg \in Nat
  /\ chGet \in Seq(JobType) /\ fetching \subseteq JobType
  /\ chUpdate \in Seq(JobType) /\ updating \subseteq JobType
  /\ resumed \in 1 .. MaxHeight + 1 /\ spoiled \subseteq Height /\ faults \in 0 .. MaxFaults

\* The service never goes on while a job of its block is under way, whatever
\* requests and statements fail: the wait group counts at least the jobs.
WaitCoversJobs ==
  /\ wg >= Fetching + Updating
  /\ serving = 0 => Fetching + Updating = 0

\* The blocks this process has handed over that name address a.
Named(a) ==
  {h \in Height : /\ h >= resumed /\ a \in AddressesOf[h]
                  /\ h < height \/ (h = height /\ pc = "coins")}

\* The table holds the balances of each address at the last block that named
\* it, once the service is through with that block, although workers and blocks
\* overlap and a restart does blocks again.  Left out are balances in the coins
\* that this very block created, which may have been looked up too early, and
\* blocks with an empty answer or a failed statement.
BalancesCurrent ==
  Up => \A a \in Address :
    LET h == IF Named(a) = {} THEN 0 ELSE Max(Named(a)) IN
    h # 0 /\ h # serving /\ h \notin spoiled =>
      \A c \in Coin \ CoinsOf[h] : balances[a][c] = BalanceAt[h][a][c]

\* If nothing fails, all blocks are handed over and worked off.
EventuallyServed == <>[](height > MaxHeight /\ serving = 0) \/ <>(faults > 0)

\* "Extender is a service responsible for seeding the database from the blockchain
\* network": it gets through all blocks.
EventuallySeeded == <>(height > MaxHeight)
=============================================================================
