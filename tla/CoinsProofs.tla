----------------------------- MODULE CoinsProofs -----------------------------
(***************************************************************************)
(* Proofs about coins, for every chain, every list of stakes and every     *)
(* number of faults.                                                       *)
(***************************************************************************)
EXTENDS Coins, ChunksProofs, WellFoundedInduction

-----------------------------------------------------------------------------
\* The invariant behind liquidations and lookups.

Typed ==
  /\ coin \in [Coin -> {"none", "live", "deleted"}]
  /\ event \in [Height -> {"none", "slashes", "balances", "coins", "send"}]
  /\ holding \in [step : {"idle", "ask", "write"}, at : Int, coins : SUBSET Coin]
  /\ held \subseteq Coin /\ cache \subseteq Coin /\ outputs \subseteq Coin
  /\ pc \in {"addresses", "save", "transactions", "stakes", "coins", "down"}
  /\ saved \in 0 .. MaxHeight /\ height \in Nat /\ faults \in Nat
  /\ crashed \in BOOLEAN /\ (crashed => faults > 0)

\* Where the loop and the balance service are.  The service is at the block with
\* addresses that the loop has handed over last; events belong to earlier blocks.
\* Passed are the blocks that the loop has handed over or found without addresses.
Passed == IF pc = "addresses" THEN height - 1 ELSE height

Places ==
  /\ Up => height \in 1 .. MaxHeight + 1 /\ saved <= height
  /\ pc \notin {"addresses", "down"} => height \in Height
  /\ holding.step # "idle" =>
       /\ Up /\ holding.at \in Height
       /\ \A g \in Height : holding.at < g /\ g <= Passed => g \notin Addressed
  /\ \A h \in Height : event[h] # "none" => Up /\ h < height

\* What a dead process has in memory.
Empty ==
  ~Up =>
    /\ crashed /\ cache = {} /\ outputs = {} /\ holding.coins = {}
    /\ jobUpdateCoins = <<>> /\ jobUpdateCoinsFromMap = <<>> /\ jobUpdateStakes = <<>>
    /\ symbols = <<>> /\ asking = {} /\ Answered = {}
    /\ stakesAt = "idle" /\ delegating = {}

\* The coins created by the blocks before this one have rows.
Past == IF Up THEN height ELSE saved

Rows ==
  /\ \A c \in GenesisCoins : coin[c] # "none"
  /\ \A g \in Height : g < Past => \A c \in CreatedIn[g] : coin[c] # "none"
  /\ \A c \in held \cup holding.coins \cup cache \cup outputs : coin[c] # "none"

\* The coins in the hands of the balance service were there at its block.
Asked ==
  /\ holding.coins \subseteq HeldAt(holding.at, holding.at)
  /\ holding.step = "idle" => holding.coins = {}

\* The coins whose liquidation does not wait for the balance service.
Unguarded == {c \in Coin : \E h \in Height \ Addressed : c \in LiquidatedIn[h]}

\* A deleted coin that the cache still knows was liquidated before this block.
Deleted ==
  \A c \in Coin : coin[c] = "deleted" =>
    /\ c \notin Unguarded => c \notin held /\ c \notin holding.coins
    /\ c \in cache => \E g \in Height : g < height /\ c \in LiquidatedIn[g]
    /\ ~crashed => c \in cache

\* Between its two deletions a liquidation has left no balance, and the first process
\* has the coin in its cache.
Between ==
  \A h \in Height : event[h] = "coins" =>
    \A c \in LiquidatedIn[h] :
      /\ c \notin Unguarded => c \notin held
      /\ c \in Live /\ ~crashed => c \in cache

Inv == Typed /\ Places /\ Empty /\ Rows /\ Asked /\ Deleted /\ Between

-----------------------------------------------------------------------------
\* The node.

LEMMA Chain ==
  /\ MaxHeight \in Nat
  /\ GenesisCoins \subseteq Coin /\ BaseCoin \notin Coin
  /\ \A h \in Height : /\ CreatedIn[h] \subseteq Coin /\ LiquidatedIn[h] \subseteq Coin
                       /\ SlashedIn[h] \subseteq Coin /\ HeldIn[h] \subseteq Coin
BY ParametersAssumption

LEMMA TxCoins ==
  ASSUME NEW h \in Height
  PROVE  /\ GasCoins(h) \subseteq Coin \cup {BaseCoin}
         /\ UNION {SentBy[t] : t \in TxsOf[h]} \subseteq Coin
<1>1. TxsOf[h] \subseteq Tx
  BY DEF Tx
<1> QED
  BY <1>1, ParametersAssumption DEF GasCoins

LEMMA NotAlive ==
  ASSUME NEW c, NEW g \in Height, c \in LiquidatedIn[g], NEW h \in Int, g <= h
  PROVE  ~Alive(c, h)
<1>1. g \in 1 .. h
  BY Chain DEF Height
<1> QED
  BY <1>1 DEF Alive

\* What the node had one block ago has a row.
LEMMA HasRow ==
  ASSUME Inv, Up, NEW h \in Height, h <= height, NEW c, Alive(c, h - 1)
  PROVE  coin[c] # "none"
<1>1. CASE c \in GenesisCoins
  BY <1>1 DEF Inv, Rows
<1>2. ASSUME NEW g \in 1 .. (h - 1), c \in CreatedIn[g] PROVE coin[c] # "none"
  <2>1. g \in Height /\ g < height
    BY <1>2, Chain DEF Height, Inv, Typed
  <2> QED
    BY <1>2, <2>1 DEF Inv, Rows, Past
<1> QED
  BY <1>1, <1>2 DEF Alive

\* The balance service never holds a coin that was liquidated before this block, if
\* the liquidation waited for it.
LEMMA NotAsked ==
  ASSUME Inv, NEW g \in Height, g < height, NEW c \in LiquidatedIn[g] \ Unguarded,
         holding.step # "idle"
  PROVE  c \notin HeldAt(holding.at, holding.at)
<1>1. g \in Addressed
  BY Chain DEF Unguarded
<1>2. height \in Nat /\ g \in Int /\ holding.at \in Int
  BY Chain DEF Inv, Typed, Height
<1>3. g <= Passed
  BY <1>2 DEF Passed
<1>4. ~(holding.at < g)
  BY <1>1, <1>3 DEF Inv, Places
<1>5. holding.at \in Int /\ g <= holding.at
  BY <1>2, <1>4
<1> QED
  BY <1>5, NotAlive DEF HeldAt

LEMMA NotHolding ==
  ASSUME Inv, NEW g \in Height, g < height, NEW c \in LiquidatedIn[g] \ Unguarded,
         holding.step # "idle"
  PROVE  c \notin holding.coins
BY NotAsked DEF Inv, Asked

-----------------------------------------------------------------------------
\* Steps that only look coins up, or do not concern the invariant.

Quiet ==
  /\ UNCHANGED <<coin, held, saved, pc, height, event, holding>>
  /\ faults' \in Nat /\ faults' >= faults /\ crashed' = crashed
  /\ cache \subseteq cache' /\ cache' \subseteq cache \cup Live
  /\ outputs' \subseteq outputs

LEMMA QuietInv == Inv /\ Quiet /\ Up => Inv'
<1> SUFFICES ASSUME Inv, Quiet, Up PROVE Inv'
  OBVIOUS
<1> USE DEF Inv, Quiet
<1>1. Typed'
  BY DEF Typed, Live
<1>2. Places' /\ Empty' /\ Asked'
  BY DEF Places, Passed, Empty, Asked, Up, HeldAt, Typed
<1>3. Rows'
  BY DEF Rows, Past, Up, Live
<1>4. Deleted' /\ Between'
  BY DEF Deleted, Between, Live, Typed
<1> QED
  BY <1>1, <1>2, <1>3, <1>4

LEMMA QuietSteps ==
  ASSUME Inv, [Next]_vars, Up
  PROVE  \/ Quiet \/ Crash \/ Panic \/ Restart
         \/ Run \/ BalanceService \/ (\E h \in Height : HandleEventResponse(h))
         \/ SaveCoins
<1> USE DEF Inv, Typed, Quiet, db, loop, caches, update, stakes, bound
<1>1. CASE CoinsFromTxs
  BY <1>1 DEF CoinsFromTxs, CollectSymbols, SendSymbols
<1>2. CASE TakeSymbols \/ (\E c \in Coin : GetCoinFromNode(c) \/ GetCoinFails(c) \/ SaveTxOutput(c))
  BY <1>2 DEF TakeSymbols, GetCoinFromNode, GetCoinFails, SaveTxOutput, FindIdBySymbol
<1>3. CASE UpdateStakes \/ GetCandidatesFails \/ FindStakesFails
  <2>1. CASE FindStakedCoins \/ FindStakesFails
    <3>1. PICK M : ListStakes(M)
      BY <2>1 DEF FindStakedCoins, FindStakesFails
    <3>2. faults' \in {faults, faults + 1}
      BY <2>1 DEF FindStakedCoins, FindStakesFails
    <3>3. /\ UNCHANGED <<coin, held, saved, pc, height, event, holding, crashed, outputs>>
          /\ cache \subseteq cache' /\ cache' \subseteq cache \cup Live
      BY <3>1 DEF ListStakes, FindIdBySymbol
    <3> QED
      BY <3>2, <3>3
  <2> QED
    BY <1>3, <2>1 DEF UpdateStakes, GetCandidates, SaveAllStakes, DeleteStakesNotInListIds,
       ResetCoinDelegationNotInListIds, GetCandidatesFails
<1>4. CASE \E c \in Coin, h \in Height : UpdateCoinDelegation(c, h)
  BY <1>4 DEF UpdateCoinDelegation
<1>5. CASE UNCHANGED vars
  BY <1>5 DEF vars
<1> QED
  BY <1>1, <1>2, <1>3, <1>4, <1>5 DEF Next, Step, CoinsFromMap

LEMMA DownSteps ==
  ASSUME Inv, [Next]_vars, ~Up
  PROVE  Restart \/ UNCHANGED vars
<1>1. /\ pc = "down" /\ outputs = {} /\ holding.step = "idle"
      /\ \A h \in Height : event[h] = "none"
      /\ jobUpdateCoins = <<>> /\ jobUpdateCoinsFromMap = <<>> /\ jobUpdateStakes = <<>>
      /\ symbols = <<>> /\ asking = {} /\ Answered = {}
      /\ stakesAt = "idle" /\ delegating = {}
  BY DEF Inv, Typed, Places, Empty, Up
<1>2. ~Run /\ ~BalanceService
  BY <1>1 DEF Run, HandOff, SaveBlock, SendTransactions, SendStakesJob, CreateNewCoins,
     BalanceService, GetAddresses, UpdateBalances
<1>3. \A h \in Height : ~HandleEventResponse(h)
  BY <1>1 DEF HandleEventResponse, FindSlashedCoins, DeleteByCoinId, DeleteBySymbol,
     SendSlashedCoins
<1>4. /\ ~CoinsFromTxs /\ ~CoinsFromMap /\ ~UpdateStakes
      /\ ~GetCandidatesFails /\ ~FindStakesFails
  BY <1>1 DEF CoinsFromTxs, CollectSymbols, SendSymbols, CoinsFromMap, TakeSymbols,
     GetCoinFromNode, SaveCoins, UpdateStakes, GetCandidates, FindStakedCoins,
     SaveAllStakes, DeleteStakesNotInListIds, ResetCoinDelegationNotInListIds,
     GetCandidatesFails, FindStakesFails
<1>5. \A c \in Coin : ~SaveTxOutput(c) /\ ~GetCoinFails(c)
  BY <1>1 DEF SaveTxOutput, GetCoinFails
<1>6. \A c \in Coin, h \in Height : ~UpdateCoinDelegation(c, h)
  BY <1>1 DEF UpdateCoinDelegation
<1>7. ~Panic /\ ~Crash
  BY <1>1 DEF Panic, Missing, Crash, Up
<1> QED
  BY <1>2, <1>3, <1>4, <1>5, <1>6, <1>7 DEF Next, Step

-----------------------------------------------------------------------------
\* The balance service.

LEMMA HandOffInv == Inv /\ HandOff => Inv'
<1> SUFFICES ASSUME Inv, HandOff PROVE Inv'
  OBVIOUS
<1>1. /\ \/ /\ height \in Addressed
            /\ holding' = [step |-> "ask", at |-> height, coins |-> {}]
         \/ height \notin Addressed /\ holding' = holding
      /\ UNCHANGED <<coin, held, cache, saved, height, event, outputs, faults, crashed>>
      /\ pc = "addresses" /\ pc' = "save" /\ height <= MaxHeight
  BY DEF HandOff, db, caches, bound
<1>2. height \in Height /\ Up
  BY <1>1, Chain DEF Inv, Typed, Places, Up, Height
<1>3. Typed' /\ Empty' /\ Asked'
  BY <1>1, <1>2, Chain DEF Inv, Typed, Empty, Asked, Up, HeldAt, Height
<1>4. Places'
  <2>1. \A g \in Height : g <= height => g <= height - 1 \/ g = height
    BY <1>2, Chain DEF Height
  <2>2. Passed = height - 1 /\ Passed' = height
    BY <1>1 DEF Passed
  <2>3. \A g \in Height : ~(height < g /\ g <= height)
    BY <1>2, Chain DEF Height
  <2>4. CASE height \in Addressed
    <3>1. \A g \in Height : holding'.at < g /\ g <= Passed' => g \notin Addressed
      BY <1>1, <2>2, <2>3, <2>4
    <3> QED
      BY <1>1, <1>2, <2>4, <3>1 DEF Inv, Places, Up
  <2>5. CASE height \notin Addressed
    <3>1. holding.step # "idle" =>
            \A g \in Height : holding.at < g /\ g <= Passed' => g \notin Addressed
      BY <2>1, <2>2, <2>5 DEF Inv, Places
    <3> QED
      BY <1>1, <1>2, <2>5, <3>1 DEF Inv, Places, Up
  <2> QED
    BY <2>4, <2>5
<1>5. Rows' /\ Deleted' /\ Between'
  BY <1>1 DEF Inv, Rows, Past, Up, Deleted, Between, Live
<1> QED
  BY <1>3, <1>4, <1>5 DEF Inv

LEMMA GetAddressesInv == Inv /\ GetAddresses => Inv'
<1> SUFFICES ASSUME Inv, GetAddresses PROVE Inv'
  OBVIOUS
<1> DEFINE C == HeldAt(holding.at, holding.at)
<1>1. /\ holding' = [step |-> "write", at |-> holding.at, coins |-> C \cap Known]
      /\ cache' = cache \cup (C \cap Live)
      /\ holding.step = "ask"
      /\ UNCHANGED <<coin, held, saved, pc, height, event, outputs, faults, crashed>>
  BY DEF GetAddresses, FindIdBySymbol, Inv, Typed, db, loop, bound
<1>2. Up /\ holding.at \in Height
  BY <1>1 DEF Inv, Places
<1>3. C \cap Known \subseteq Coin /\ \A c \in C \cap Known : c \in cache \/ c \in Live
  BY <1>2, Chain DEF HeldAt, Known
<1>4. Typed' /\ Places' /\ Empty'
  BY <1>1, <1>2, <1>3 DEF Inv, Typed, Places, Passed, Empty, Up, Live
<1>5. Rows'
  BY <1>1, <1>3 DEF Inv, Rows, Past, Up, Live
<1>6. Asked'
  BY <1>1 DEF Asked, HeldAt
<1>7. Deleted'
  <2> SUFFICES ASSUME NEW c \in Coin, coin[c] = "deleted"
               PROVE  /\ c \notin Unguarded => c \notin held /\ c \notin C \cap Known
                      /\ c \in cache \cup (C \cap Live) =>
                           \E g \in Height : g < height /\ c \in LiquidatedIn[g]
                      /\ ~crashed => c \in cache
    BY <1>1 DEF Deleted
  <2>1. c \notin Live
    BY DEF Live
  <2>2. c \in cache /\ c \notin Unguarded => c \notin C
    BY <1>1, NotAsked DEF Inv, Deleted
  <2> QED
    BY <1>3, <2>1, <2>2 DEF Inv, Deleted
<1>8. Between'
  BY <1>1 DEF Inv, Between, Live
<1> QED
  BY <1>4, <1>5, <1>6, <1>7, <1>8 DEF Inv

LEMMA UpdateBalancesInv == Inv /\ UpdateBalances => Inv'
<1> SUFFICES ASSUME Inv, UpdateBalances PROVE Inv'
  OBVIOUS
<1>1. /\ holding' = [step |-> "idle", at |-> 0, coins |-> {}]
      /\ held' \subseteq held \cup holding.coins
      /\ holding.step = "write"
      /\ UNCHANGED <<coin, cache, saved, pc, height, event, outputs, faults, crashed>>
  BY DEF UpdateBalances, Inv, Typed, caches, loop, bound
<1>2. Typed' /\ Places' /\ Empty' /\ Asked'
  BY <1>1 DEF Inv, Typed, Places, Passed, Empty, Asked, Up, UpdateBalances, update, stakes, Answered
<1>3. Rows' /\ Deleted'
  BY <1>1 DEF Inv, Rows, Past, Up, Deleted
<1>4. Between'
  <2> SUFFICES ASSUME NEW h \in Height, event[h] = "coins", NEW c \in LiquidatedIn[h]
               PROVE  c \notin Unguarded => c \notin held'
    BY <1>1 DEF Inv, Between, Live
  <2>1. h < height
    BY DEF Inv, Places
  <2> QED
    BY <1>1, <2>1, NotHolding DEF Inv, Between
<1> QED
  BY <1>2, <1>3, <1>4 DEF Inv

-----------------------------------------------------------------------------
\* The loop.

LEMMA LoopInv == Inv /\ (SaveBlock \/ SendStakesJob) => Inv'
<1> SUFFICES ASSUME Inv, SaveBlock \/ SendStakesJob PROVE Inv'
  OBVIOUS
<1>1. /\ UNCHANGED <<coin, held, cache, height, event, holding, outputs, faults, crashed>>
      /\ saved' \in {saved, height} /\ pc' \notin {"addresses", "down"}
      /\ pc \notin {"addresses", "down"}
      /\ pc' \in {"transactions", "coins"}
  BY DEF SaveBlock, SendStakesJob, db, caches, bound
<1>2. Typed' /\ Places' /\ Empty' /\ Asked'
  BY <1>1, Chain DEF Inv, Typed, Places, Passed, Empty, Asked, Up, HeldAt, Height
<1>3. Rows' /\ Deleted' /\ Between'
  BY <1>1 DEF Inv, Rows, Past, Up, Deleted, Between, Live
<1> QED
  BY <1>2, <1>3 DEF Inv

LEMMA SendTransactionsInv == Inv /\ SendTransactions => Inv'
<1> SUFFICES ASSUME Inv, SendTransactions PROVE Inv'
  OBVIOUS
<1> DEFINE S == UNION {SentBy[t] : t \in TxsOf[height]}
<1>1. /\ UNCHANGED <<coin, held, height, saved, event, holding, faults, crashed>>
      /\ cache \subseteq cache' /\ cache' \subseteq cache \cup Live
      /\ outputs' = outputs \cup S
      /\ pc = "transactions" /\ pc' = "stakes"
  BY DEF SendTransactions, FindIdBySymbol, db, bound
<1>2. height \in Height /\ Up
  BY <1>1 DEF Inv, Places, Up
<1>3. S \subseteq Coin
  BY <1>2, TxCoins
<1>4. \A c \in S : coin[c] # "none"
  <2> SUFFICES ASSUME NEW t \in TxsOf[height], NEW c \in SentBy[t] PROVE coin[c] # "none"
    OBVIOUS
  <2>1. c \in Coin /\ c # BaseCoin
    BY <1>2, <1>3, Chain
  <2>2. Alive(c, height - 1)
    BY <1>2, <2>1, ChainAssumption
  <2> QED
    BY <1>2, <2>2, HasRow DEF Inv, Typed
<1>5. Typed' /\ Places' /\ Empty' /\ Asked'
  BY <1>1, <1>2, <1>3 DEF Inv, Typed, Places, Passed, Empty, Asked, Up, HeldAt, Live
<1>6. Rows'
  BY <1>1, <1>4 DEF Inv, Rows, Past, Up, Live
<1>7. Deleted' /\ Between'
  BY <1>1 DEF Inv, Deleted, Between, Live
<1> QED
  BY <1>5, <1>6, <1>7 DEF Inv

\* An upsert of coins, of which nothing but rows that are live and cached comes.
Upsert(C) ==
  /\ coin' = [c \in Coin |-> IF c \in C THEN "live" ELSE coin[c]]
  /\ cache' = cache \cup C
  /\ UNCHANGED <<held, saved, holding, outputs, faults, crashed>>

LEMMA UpsertInv ==
  ASSUME Inv, NEW C \in SUBSET Coin, Upsert(C), height' >= height,
         \A h \in Height : event'[h] = "coins" => event[h] = "coins"
  PROVE  /\ \A c \in GenesisCoins : coin'[c] # "none"
         /\ \A g \in Height : \A c \in CreatedIn[g] :
              coin[c] # "none" \/ c \in C => coin'[c] # "none"
         /\ \A c \in (held \cup holding.coins \cup cache \cup outputs)' :
              coin'[c] # "none"
         /\ height' \in Nat => Deleted'
         /\ Between'
<1>1. Typed /\ Rows /\ Deleted /\ Between
  BY DEF Inv
<1>2. \A c \in Coin : /\ coin'[c] = "deleted" => coin[c] = "deleted" /\ c \notin C
                      /\ coin'[c] = "none" => coin[c] = "none" /\ c \notin C
                      /\ coin'[c] = "live" => coin[c] = "live" \/ c \in C
  BY DEF Upsert
<1>3. \A g \in Height : CreatedIn[g] \subseteq Coin /\ LiquidatedIn[g] \subseteq Coin
  BY Chain
<1>4. \A c \in GenesisCoins : coin'[c] # "none"
  BY <1>1, <1>2, Chain DEF Rows
<1>5. \A g \in Height : \A c \in CreatedIn[g] :
        coin[c] # "none" \/ c \in C => coin'[c] # "none"
  BY <1>2, <1>3
<1>6. \A c \in (held \cup holding.coins \cup cache \cup outputs)' : coin'[c] # "none"
  BY <1>1, <1>2 DEF Typed, Rows, Upsert
<1>7. ASSUME height' \in Nat PROVE Deleted'
  <2> SUFFICES ASSUME NEW c \in Coin, coin'[c] = "deleted"
               PROVE  /\ c \notin Unguarded => c \notin held' /\ c \notin holding'.coins
                      /\ c \in cache' => \E g \in Height : g < height' /\ c \in LiquidatedIn[g]
                      /\ ~crashed' => c \in cache'
    BY DEF Deleted
  <2>1. coin[c] = "deleted" /\ c \notin C
    BY <1>2
  <2>2. \A g \in Height : g < height => g < height'
    BY <1>1, <1>7, Chain DEF Typed, Height
  <2> QED
    BY <1>1, <2>1, <2>2 DEF Deleted, Upsert
<1>8. Between'
  BY <1>1, <1>2, <1>3 DEF Between, Live, Upsert
<1> QED
  BY <1>4, <1>5, <1>6, <1>7, <1>8

LEMMA CreateNewCoinsInv == Inv /\ CreateNewCoins => Inv'
<1> SUFFICES ASSUME Inv, CreateNewCoins PROVE Inv'
  OBVIOUS
<1> DEFINE C == CreatedIn[height]
<1>1. /\ pc = "coins" /\ pc' = "addresses" /\ height' = height + 1
      /\ Upsert(C) /\ UNCHANGED <<holding, saved>>
  BY DEF CreateNewCoins, SaveAllIfNotExist, Upsert, bound
<1>2. \E e \in {"none", "slashes"} : event' = [event EXCEPT ![height] = e]
  BY DEF CreateNewCoins
<1>3. height \in Height /\ Up /\ C \in SUBSET Coin
  BY <1>1, Chain DEF Inv, Places, Up
<1>4. height \in Int /\ height + 1 \in Nat /\ height + 1 >= height
      /\ height + 1 \in 1 .. MaxHeight + 1
  BY <1>3, Chain DEF Height
<1>5. \A h \in Height : event'[h] = "coins" => event[h] = "coins"
  BY <1>2, <1>3 DEF Inv, Typed
<1>6. Typed'
  BY <1>1, <1>2, <1>3, <1>4 DEF Inv, Typed, Upsert
<1>7. Places'
  <2>1. \A h \in Height : event'[h] # "none" => h < height'
    BY <1>1, <1>2, <1>3, <1>4, Chain DEF Inv, Typed, Places, Height
  <2>2. saved \in Nat /\ saved <= height + 1
    BY <1>3, <1>4, Chain DEF Inv, Typed, Places
  <2>3. Passed' = Passed
    BY <1>1, <1>3, <1>4, Chain DEF Passed, Height
  <2>4. holding.step # "idle" =>
          /\ holding.at \in Height
          /\ \A g \in Height : holding.at < g /\ g <= Passed' => g \notin Addressed
    BY <1>1, <2>3 DEF Inv, Places
  <2> QED
    BY <1>1, <1>3, <1>4, <2>1, <2>2, <2>4 DEF Places, Up
<1>8. Empty' /\ Asked'
  BY <1>1 DEF Inv, Empty, Asked, Up, HeldAt
<1>9. \A g \in Height : g < Past' => \A c \in CreatedIn[g] : coin[c] # "none" \/ c \in C
  <2> SUFFICES ASSUME NEW g \in Height, g < height + 1, g # height
               PROVE  \A c \in CreatedIn[g] : coin[c] # "none"
    BY <1>1 DEF Past, Up
  <2>1. g < height
    BY <1>4, Chain DEF Height
  <2> QED
    BY <1>3, <2>1 DEF Inv, Rows, Past
<1>10. Rows' /\ Deleted' /\ Between'
  BY <1>1, <1>3, <1>4, <1>5, <1>9, UpsertInv DEF Rows
<1> QED
  BY <1>6, <1>7, <1>8, <1>10 DEF Inv

LEMMA SaveCoinsInv == Inv /\ SaveCoins => Inv'
<1> SUFFICES ASSUME Inv, SaveCoins PROVE Inv'
  OBVIOUS
<1>1. /\ Upsert(Answered) /\ Answered # {}
      /\ UNCHANGED <<pc, height, event, saved, holding>>
  BY DEF SaveCoins, SaveAllIfNotExist, Upsert, loop
<1>2. Answered \in SUBSET Coin /\ Up
  BY <1>1 DEF Answered, Inv, Empty
<1>3. height \in Nat /\ height' >= height
  BY <1>1 DEF Inv, Typed
<1>4. Typed' /\ Places' /\ Empty' /\ Asked'
  BY <1>1, <1>2 DEF Inv, Typed, Places, Passed, Empty, Asked, Up, HeldAt, Upsert
<1>5. Rows' /\ Deleted' /\ Between'
  <2>1. \A g \in Height : g < Past' => \A c \in CreatedIn[g] : coin[c] # "none"
    BY <1>1 DEF Inv, Rows, Past, Up
  <2> QED
    BY <1>1, <1>2, <1>3, <2>1, UpsertInv DEF Rows
<1> QED
  BY <1>4, <1>5 DEF Inv

-----------------------------------------------------------------------------
\* The goroutine of a block's events.

LEMMA SlashesInv ==
  ASSUME Inv, NEW h \in Height, FindSlashedCoins(h) \/ SendSlashedCoins(h)
  PROVE  Inv'
<1>1. /\ UNCHANGED <<coin, held, saved, pc, height, holding, outputs, faults, crashed>>
      /\ event[h] # "none"
      /\ \E e \in {"balances", "none"} : event' = [event EXCEPT ![h] = e]
      /\ cache \subseteq cache' /\ cache' \subseteq cache \cup Live
  BY DEF FindSlashedCoins, SendSlashedCoins, FindIdBySymbol, db, loop, caches, bound
<1>2. Up /\ h < height
  BY <1>1 DEF Inv, Places
<1>3. Typed' /\ Places' /\ Empty' /\ Asked'
  BY <1>1, <1>2 DEF Inv, Typed, Places, Passed, Empty, Asked, Up, HeldAt, Live
<1>4. Rows' /\ Deleted'
  BY <1>1 DEF Inv, Rows, Past, Up, Deleted, Live
<1>5. Between'
  BY <1>1 DEF Inv, Typed, Between, Live
<1> QED
  BY <1>3, <1>4, <1>5 DEF Inv

LEMMA DeleteBalancesInv ==
  ASSUME Inv, NEW h \in Height, DeleteByCoinId(h)
  PROVE  Inv'
<1> DEFINE L == LiquidatedIn[h]
<1>1. /\ UNCHANGED <<coin, saved, pc, height, holding, outputs, faults, crashed>>
      /\ event[h] = "balances" /\ event' = [event EXCEPT ![h] = "coins"]
      /\ held' = held \ (L \cap Known)
      /\ cache' = cache \cup (L \cap Live)
  BY DEF DeleteByCoinId, FindIdBySymbol, loop, bound
<1>2. Up /\ h < height
  BY <1>1 DEF Inv, Places
<1>3. Typed' /\ Places' /\ Empty' /\ Asked'
  BY <1>1, <1>2 DEF Inv, Typed, Places, Passed, Empty, Asked, Up, HeldAt, Live
<1>4. Rows' /\ Deleted'
  BY <1>1 DEF Inv, Rows, Past, Up, Deleted, Live
<1>5. held \ Unguarded \subseteq Live
  BY DEF Inv, Typed, Rows, Deleted, Live
<1>6. \A c \in L : /\ c \notin Unguarded => c \notin held'
                   /\ c \in Live => c \in cache'
  BY <1>1, <1>5 DEF Known
<1>7. Between'
  <2> SUFFICES ASSUME NEW g \in Height, event'[g] = "coins", NEW c \in LiquidatedIn[g]
               PROVE  /\ c \notin Unguarded => c \notin held'
                      /\ c \in Live /\ ~crashed => c \in cache'
    BY <1>1 DEF Between, Live
  <2>1. CASE g = h
    <3>1. c \in L
      BY <2>1
    <3>2. (c \notin Unguarded => c \notin held') /\ (c \in Live => c \in cache')
      BY <1>6, <3>1
    <3> HIDE DEF L
    <3> QED
      BY <3>2
  <2>2. CASE g # h
    BY <1>1, <2>2 DEF Inv, Typed, Between
  <2> QED
    BY <2>1, <2>2
<1> QED
  BY <1>3, <1>4, <1>7 DEF Inv

LEMMA DeleteCoinsInv ==
  ASSUME Inv, NEW h \in Height, DeleteBySymbol(h)
  PROVE  Inv'
<1> DEFINE L == LiquidatedIn[h]
<1>1. /\ UNCHANGED <<held, cache, saved, pc, height, holding, outputs, faults, crashed>>
      /\ event[h] = "coins"
      /\ \E e \in {"none", "send"} : event' = [event EXCEPT ![h] = e]
      /\ coin' = [c \in Coin |-> IF c \in L \cap Live THEN "deleted" ELSE coin[c]]
  BY DEF DeleteBySymbol, loop, caches, bound
<1>2. Up /\ h < height
  BY <1>1 DEF Inv, Places
<1>3. Typed' /\ Places' /\ Empty' /\ Asked'
  BY <1>1, <1>2 DEF Inv, Typed, Places, Passed, Empty, Asked, Up, HeldAt
<1>4. \A c \in Coin : (coin'[c] = "none" <=> coin[c] = "none")
  BY <1>1 DEF Live
<1>5. Rows'
  BY <1>1, <1>4, Chain DEF Inv, Typed, Rows, Past, Up
<1>6. \A c \in L : c \notin Unguarded => c \notin held /\ c \notin holding.coins
  <2>1. holding.step = "idle" => holding.coins = {}
    BY DEF Inv, Asked
  <2>2. holding.step # "idle" => \A c \in L : c \notin Unguarded => c \notin holding.coins
    BY <1>2, NotHolding
  <2> QED
    BY <1>1, <2>1, <2>2 DEF Inv, Between
<1>7. Deleted'
  <2> SUFFICES ASSUME NEW c \in Coin, coin'[c] = "deleted"
               PROVE  /\ c \notin Unguarded => c \notin held /\ c \notin holding.coins
                      /\ c \in cache => \E g \in Height : g < height /\ c \in LiquidatedIn[g]
                      /\ ~crashed => c \in cache
    BY <1>1 DEF Deleted
  <2>1. CASE c \in L \cap Live
    BY <1>1, <1>2, <1>6, <2>1 DEF Inv, Between
  <2>2. CASE c \notin L \cap Live
    BY <1>1, <2>2 DEF Inv, Deleted
  <2> QED
    BY <2>1, <2>2
<1>8. Between'
  <2>1. \A g \in Height : event'[g] = "coins" => event[g] = "coins"
    BY <1>1 DEF Inv, Typed
  <2>2. Live' \subseteq Live
    BY <1>1 DEF Live
  <2> QED
    BY <1>1, <2>1, <2>2 DEF Inv, Between
<1> QED
  BY <1>3, <1>5, <1>7, <1>8 DEF Inv

-----------------------------------------------------------------------------
\* Lookups that fail, death and restart.

LEMMA MissingDeleted == Inv => LookupsFailOnlyAfterCrash
<1> SUFFICES ASSUME Inv, NEW c \in Missing PROVE coin[c] = "deleted" /\ crashed
  BY DEF LookupsFailOnlyAfterCrash
<1> DEFINE Slashing == {g \in Height : event[g] = "slashes"}
<1>0. \/ pc = "transactions" /\ c \in GasCoins(height) \ Known
      \/ \E g \in Slashing : c \in SlashedIn[g] \ Known
      \/ c \in outputs \ Known
  <2>1. \/ c \in (IF pc = "transactions" THEN GasCoins(height) \ Known ELSE {})
        \/ c \in UNION {SlashedIn[g] \ Known : g \in Slashing}
        \/ c \in outputs \ Known
    BY DEF Missing
  <2> QED
    BY <2>1
<1>1. c \notin Known
  BY <1>0
<1>2. c \in Coin /\ coin[c] # "none"
  <2>1. CASE pc = "transactions" /\ c \in GasCoins(height)
    <3>1. height \in Height /\ Up
      BY <2>1 DEF Inv, Places, Up
    <3>2. c \in Coin
      BY <1>1, <2>1, <3>1, TxCoins DEF Known
    <3>3. Alive(c, height - 1)
      BY <2>1, <3>1, <3>2, Chain, ChainAssumption DEF GasCoins
    <3> QED
      BY <3>1, <3>2, <3>3, HasRow DEF Inv, Typed
  <2>2. CASE \E h \in Height : event[h] = "slashes" /\ c \in SlashedIn[h]
    <3> PICK h \in Height : event[h] = "slashes" /\ c \in SlashedIn[h]
      BY <2>2
    <3>1. Up /\ h < height
      BY DEF Inv, Places
    <3>2. h <= height
      BY <3>1, Chain DEF Inv, Typed, Height
    <3>3. Alive(c, h - 1)
      BY ChainAssumption
    <3> QED
      BY <3>1, <3>2, <3>3, HasRow, Chain
  <2>3. CASE c \in outputs
    BY <2>3 DEF Inv, Typed, Rows
  <2> QED
    BY <1>0, <2>1, <2>2, <2>3
<1>3. coin[c] = "deleted" /\ c \notin cache
  BY <1>1, <1>2 DEF Known, Live, Inv, Typed
<1> QED
  BY <1>2, <1>3 DEF Inv, Typed, Deleted

LEMMA DieInv ==
  ASSUME Inv, Die, Up, faults' \in Nat, faults' > 0, crashed' = TRUE
  PROVE  Inv'
<1>1. /\ pc' = "down" /\ height' = 0 /\ event' = [h \in Height |-> "none"]
      /\ cache' = {} /\ outputs' = {}
      /\ holding' = [step |-> "idle", at |-> 0, coins |-> {}]
      /\ UNCHANGED <<coin, held, saved>>
  BY DEF Die, NoEvent, db
<1>2. Typed' /\ Places' /\ Asked'
  BY <1>1 DEF Inv, Typed, Places, Passed, Asked, Up
<1>3. Empty'
  BY <1>1 DEF Die, Empty, Answered, NoAnswers
<1>4. Rows'
  <2>1. \A g \in Height : g < saved => g < height
    BY Chain DEF Inv, Typed, Places, Height
  <2> QED
    BY <1>1, <2>1 DEF Inv, Rows, Past, Up
<1>5. Deleted' /\ Between'
  BY <1>1 DEF Inv, Deleted, Between
<1> QED
  BY <1>2, <1>3, <1>4, <1>5 DEF Inv

LEMMA DeathInv == Inv /\ (Crash \/ Panic) => Inv'
<1> SUFFICES ASSUME Inv, Crash \/ Panic PROVE Inv'
  OBVIOUS
<1>1. Up
  <2>1. ~Up => Missing = {}
    BY DEF Missing, Inv, Typed, Places, Empty, Up
  <2> QED
    BY <2>1 DEF Crash, Panic
<1>2. CASE Crash
  BY <1>1, <1>2, DieInv DEF Crash, Inv, Typed
<1>3. CASE Panic
  BY <1>1, <1>3, DieInv, MissingDeleted DEF Panic, LookupsFailOnlyAfterCrash, Inv, Typed
<1> QED
  BY <1>2, <1>3

LEMMA RestartInv == Inv /\ Restart => Inv'
<1> SUFFICES ASSUME Inv, Restart PROVE Inv'
  OBVIOUS
<1>1. /\ ~Up /\ pc' = "addresses" /\ height' = saved' + 1
      /\ UNCHANGED <<coin, held, cache, event, holding, outputs, faults, crashed>>
  BY DEF Restart, caches, bound
<1>2. /\ saved \in 0 .. MaxHeight
      /\ \/ saved' = 0 /\ saved = 0
         \/ saved' = saved - 1 /\ saved > 0
         \/ saved' = saved /\ saved > 0 /\ \A c \in CreatedIn[saved] : coin[c] # "none"
  BY DEF Inv, Typed, Restart
<1>3. saved' \in 0 .. MaxHeight /\ saved' + 1 \in 1 .. MaxHeight + 1 /\ saved' <= saved' + 1
  BY <1>2, Chain
<1>4. Typed' /\ Empty' /\ Asked'
  <2>1. saved' + 1 \in Nat
    <3>1. \A n \in 1 .. MaxHeight + 1 : n \in Nat
      BY Chain
    <3> QED
      BY <1>3, <3>1
  <2>2. Typed'
    BY <1>1, <1>3, <2>1 DEF Inv, Typed
  <2> QED
    BY <1>1, <2>2 DEF Inv, Empty, Asked, Up, HeldAt
<1>5. Places'
  BY <1>1, <1>3 DEF Inv, Typed, Places, Passed, Up
<1>6. Rows'
  <2>1. \A g \in Height : g < saved' + 1 => g < saved \/ (g = saved /\ saved' = saved)
    BY <1>2, Chain DEF Height
  <2>2. \A g \in Height : g < saved' + 1 => \A c \in CreatedIn[g] : coin[c] # "none"
    <3> SUFFICES ASSUME NEW g \in Height, g < saved' + 1
                 PROVE  \A c \in CreatedIn[g] : coin[c] # "none"
      OBVIOUS
    <3>1. CASE g < saved
      BY <1>1, <3>1 DEF Inv, Rows, Past
    <3>2. CASE g = saved /\ saved' = saved
      BY <1>2, <3>2, Chain DEF Height
    <3> QED
      BY <2>1, <3>1, <3>2
  <2> QED
    BY <1>1, <2>2 DEF Inv, Rows, Past, Up
<1>7. Deleted' /\ Between'
  BY <1>1 DEF Inv, Deleted, Between, Live, Empty
<1> QED
  BY <1>4, <1>5, <1>6, <1>7 DEF Inv

LEMMA InitInv == Init => Inv
<1> SUFFICES ASSUME Init PROVE Inv
  OBVIOUS
<1>1. Typed /\ Places /\ Empty
  <2>1. crashed \in BOOLEAN /\ ~crashed
    BY DEF Init
  <2>2. pc = "addresses" /\ holding.step = "idle" /\ \A h \in Height : event[h] = "none"
    BY DEF Init, NoEvent
  <2>3. Typed
    BY <2>1, Chain DEF Init, Typed, NoEvent
  <2>4. height \in 1 .. MaxHeight + 1 /\ saved <= height
    BY Chain DEF Init
  <2> QED
    BY <2>2, <2>3, <2>4 DEF Places, Empty, Up
<1>2. Rows
  BY Chain DEF Init, Rows, Past, Up, Height
<1>3. Asked /\ Deleted /\ Between
  BY DEF Init, Asked, Deleted, Between, NoEvent
<1> QED
  BY <1>1, <1>2, <1>3 DEF Inv

LEMMA StepInv == Inv /\ [Next]_vars => Inv'
<1> SUFFICES ASSUME Inv, [Next]_vars PROVE Inv'
  OBVIOUS
<1>1. CASE ~Up
  <2>1. CASE UNCHANGED vars
    BY <2>1 DEF vars, db, loop, caches, update, stakes, bound, Inv, Typed, Places, Passed,
       Empty, Rows, Past, Asked, HeldAt, Deleted, Between, Up, Live, Answered
  <2> QED
    BY <1>1, <2>1, DownSteps, RestartInv
<1>2. CASE Up
  <2>1. CASE Run
    BY <2>1, HandOffInv, LoopInv, SendTransactionsInv, CreateNewCoinsInv DEF Run
  <2>2. CASE BalanceService
    BY <2>2, GetAddressesInv, UpdateBalancesInv DEF BalanceService
  <2>3. ASSUME NEW h \in Height, HandleEventResponse(h) PROVE Inv'
    BY <2>3, SlashesInv, DeleteBalancesInv, DeleteCoinsInv DEF HandleEventResponse
  <2> QED
    BY <1>2, <2>1, <2>2, <2>3, QuietSteps, QuietInv, SaveCoinsInv, DeathInv, RestartInv
<1> QED
  BY <1>1, <1>2

\* No interleaving of the balance service with the liquidations of a block that names
\* an address, in however many processes, leaves a balance in a deleted coin.
THEOREM BalancesDeleted == Spec => []NoBalanceOfDeletedCoin
<1>1. Inv => NoBalanceOfDeletedCoin
  BY DEF Inv, Typed, Deleted, Unguarded, NoBalanceOfDeletedCoin
<1> QED
  BY <1>1, InitInv, StepInv, PTL DEF Spec

\* No lookup of a coin comes too early, and none comes too late before the first crash.
THEOREM LookupsFail == Spec => []LookupsFailOnlyAfterCrash
BY InitInv, StepInv, MissingDeleted, PTL DEF Spec

-----------------------------------------------------------------------------
\* What the recursive definition of StakesIn computes.  The library's theorems on
\* induction take an operator as a parameter; its theorem on minimal elements
\* takes a set, and gives an induction over sets of numbers.

LEMMA Induction ==
  ASSUME NEW T, 0 \in T, \A n \in Nat : n \in T => n + 1 \in T
  PROVE  Nat \subseteq T
<1> DEFINE R == OpToRel(<, Nat)
           U == Nat \ T
<1>1. \A x, y \in Nat : y < x => <<y, x>> \in R
  BY DEF OpToRel
<1>2. IsWellFoundedOn(R, Nat)
  BY NatLessThanWellFounded
<1> HIDE DEF R
<1> SUFFICES ASSUME U # {} PROVE FALSE
  OBVIOUS
<1>3. PICK x \in U : \A y \in U : ~(<<y, x>> \in R)
  <2>1. U \subseteq Nat
    OBVIOUS
  <2> HIDE DEF U
  <2> QED
    BY <1>2, <2>1, WFMin
<1>4. x \in Nat /\ x \notin T /\ x # 0
  OBVIOUS
<1>5. x - 1 \in Nat /\ (x - 1) + 1 = x
  BY <1>4
<1>6. x - 1 \notin T
  BY <1>4, <1>5
<1>7. <<x - 1, x>> \in R
  BY <1>1, <1>4, <1>5
<1> QED
  BY <1>3, <1>5, <1>6, <1>7

\* The equation that defines the function found of StakesIn, up to m.
Appended(S, answer, f, n) ==
  IF n = 0 THEN <<>>
  ELSE IF answer[n] \in S THEN Append(f[n - 1], answer[n])
  ELSE f[n - 1]

Finds(S, answer, f, m) == f = [n \in 0 .. m |-> Appended(S, answer, f, n)]

LEMMA StakesInFound ==
  ASSUME NEW S, NEW answer
  PROVE  StakesIn(S, answer) = (CHOOSE f : Finds(S, answer, f, Len(answer)))[Len(answer)]
BY DEF StakesIn, Finds, Appended

LEMMA SomethingFinds ==
  ASSUME NEW S, NEW answer
  PROVE  \A m \in Nat : \E f : Finds(S, answer, f, m)
<1> DEFINE T == {m \in Nat : \E f : Finds(S, answer, f, m)}
<1>1. 0 \in T
  <2> DEFINE f == [n \in 0 .. 0 |-> <<>>]
  <2>1. \A n \in 0 .. 0 : Appended(S, answer, f, n) = <<>>
    BY DEF Appended
  <2>2. Finds(S, answer, f, 0)
    BY <2>1 DEF Finds
  <2> QED
    BY <2>2
<1>2. ASSUME NEW m \in Nat, m \in T PROVE m + 1 \in T
  <2>1. PICK f : Finds(S, answer, f, m)
    BY <1>2
  <2> DEFINE g == [n \in 0 .. m + 1 |-> IF n = m + 1 THEN Appended(S, answer, f, n) ELSE f[n]]
  <2>2. \A n \in 0 .. m + 1 : n # 0 => n - 1 \in 0 .. m + 1 /\ g[n - 1] = f[n - 1]
    OBVIOUS
  <2>3. \A n \in 0 .. m + 1 : Appended(S, answer, g, n) = Appended(S, answer, f, n)
    BY <2>2 DEF Appended
  <2>4. \A n \in 0 .. m : f[n] = Appended(S, answer, f, n)
    BY <2>1 DEF Finds
  <2>5. \A n \in 0 .. m + 1 : n # m + 1 => n \in 0 .. m
    OBVIOUS
  <2>6. g = [n \in 0 .. m + 1 |-> Appended(S, answer, g, n)]
    BY <2>3, <2>4, <2>5
  <2> HIDE DEF g
  <2> QED
    BY <2>6 DEF Finds
<1> HIDE DEF T
<1>3. Nat \subseteq T
  BY <1>1, <1>2, Induction
<1> QED
  BY <1>3 DEF T

\* What appending one stake does.
LEMMA AppendedElements ==
  ASSUME NEW q \in Seq(Stake), NEW s \in Stake
  PROVE  /\ Append(q, s) \in Seq(Stake)
         /\ Elements(Append(q, s)) = Elements(q) \cup {s}
<1>1. /\ Append(q, s) \in Seq(Stake) /\ Len(q) \in Nat
      /\ Len(Append(q, s)) = Len(q) + 1
      /\ \A p \in 1 .. Len(q) : Append(q, s)[p] = q[p]
      /\ Append(q, s)[Len(q) + 1] = s
  OBVIOUS
<1>2. 1 .. Len(Append(q, s)) = (1 .. Len(q)) \cup {Len(q) + 1}
  BY <1>1
<1> QED
  BY <1>1, <1>2 DEF Elements

\* The loop over an answer keeps the stakes of the given set, and no others, for
\* every answer; what ListStakes puts into its list.
THEOREM StakesInIsFilter ==
  ASSUME NEW S, NEW answer \in Seq(Stake)
  PROVE  /\ StakesIn(S, answer) \in Seq(Stake)
         /\ Elements(StakesIn(S, answer)) = Elements(answer) \cap S
<1> DEFINE m == Len(answer)
           f == CHOOSE g : Finds(S, answer, g, m)
           Upto(n) == {answer[p] : p \in {q \in 1 .. n : answer[q] \in S}}
           T == {n \in Nat : n <= m => f[n] \in Seq(Stake) /\ Elements(f[n]) = Upto(n)}
<1>1. m \in Nat /\ \A n \in 1 .. m : answer[n] \in Stake
  OBVIOUS
<1>2. Finds(S, answer, f, m)
  BY <1>1, SomethingFinds
<1> HIDE DEF f
<1>3. \A n \in 0 .. m : f[n] = Appended(S, answer, f, n)
  BY <1>2 DEF Finds
<1> HIDE DEF m
<1>4. 0 \in T
  <2>1. f[0] = <<>>
    BY <1>1, <1>3 DEF Appended
  <2>2. <<>> \in Seq(Stake) /\ Elements(<<>>) = {}
    BY DEF Elements
  <2>3. Upto(0) = {}
    OBVIOUS
  <2> QED
    BY <2>1, <2>2, <2>3
<1>5. ASSUME NEW n \in Nat, n \in T PROVE n + 1 \in T
  <2> SUFFICES ASSUME n + 1 <= m
               PROVE  f[n + 1] \in Seq(Stake) /\ Elements(f[n + 1]) = Upto(n + 1)
    OBVIOUS
  <2>1. n + 1 \in 1 .. m /\ n + 1 \in 0 .. m /\ n <= m /\ n + 1 # 0 /\ (n + 1) - 1 = n
    BY <1>1
  <2>2. f[n] \in Seq(Stake) /\ Elements(f[n]) = Upto(n) /\ answer[n + 1] \in Stake
    BY <1>1, <1>5, <2>1
  <2>3. f[n + 1] = IF answer[n + 1] \in S THEN Append(f[n], answer[n + 1]) ELSE f[n]
    BY <1>3, <2>1 DEF Appended
  <2>4. 1 .. n + 1 = (1 .. n) \cup {n + 1}
    OBVIOUS
  <2>5. Upto(n + 1) = Upto(n) \cup (IF answer[n + 1] \in S THEN {answer[n + 1]} ELSE {})
    BY <2>4
  <2> HIDE DEF Upto
  <2>6. CASE answer[n + 1] \in S
    <3>1. f[n + 1] = Append(f[n], answer[n + 1])
      BY <2>3, <2>6
    <3>2. f[n + 1] \in Seq(Stake) /\ Elements(f[n + 1]) = Elements(f[n]) \cup {answer[n + 1]}
      BY <2>2, <3>1, AppendedElements
    <3> QED
      BY <2>2, <2>5, <2>6, <3>2
  <2>7. CASE answer[n + 1] \notin S
    BY <2>2, <2>3, <2>5, <2>7
  <2> QED
    BY <2>6, <2>7
<1> HIDE DEF T
<1>6. m \in T
  BY <1>1, <1>4, <1>5, Induction
<1>7. StakesIn(S, answer) = f[m]
  BY StakesInFound DEF f, m
<1>8. Upto(m) = Elements(answer) \cap S
  BY DEF Elements, m
<1> QED
  BY <1>1, <1>6, <1>7, <1>8 DEF T

-----------------------------------------------------------------------------
\* Delegations.  Once the stakes of a list are in, its goroutines are the only
\* ones unless it overtook others; a live coin of the list has its delegation or
\* its goroutine, and after the reset the other coins have nothing older.

Newest == stakesAt \in {"idle", "reset"} /\ ~overtaken

DelegationInv ==
  /\ delegated \in [Coin -> Int]
  /\ Newest => \A c \in Coin, h \in Height : <<c, h>> \in delegating => h = listHeight
  /\ Newest => \A c \in Live \cap StakesInCoin :
       <<c, listHeight>> \in delegating \/ delegated[c] \in {0, listHeight}
  /\ Newest /\ stakesAt = "idle" /\ StakesInCoin # {} =>
       \A c \in Live \ StakesInCoin : delegated[c] \in {0, listHeight}

\* What a step does that leaves the stakes' worker where it is: a coin it makes
\* live has no delegation.
LEMMA DelegationKept ==
  ASSUME DelegationInv,
         UNCHANGED <<stakesAt, overtaken, delegating, listHeight, list>>,
         delegated' \in [Coin -> Int],
         \A c \in Coin : /\ coin'[c] = "live" /\ coin[c] # "live" => delegated'[c] = 0
                        /\ delegated'[c] \in {0, delegated[c]}
  PROVE  DelegationInv'
<1>1. StakesInCoin' = StakesInCoin /\ Newest' = Newest
  BY DEF StakesInCoin, Elements, Newest
<1>2. \A c \in Coin : c \in Live' => c \in Live \/ delegated'[c] = 0
  BY DEF Live
<1>3. Live' \subseteq Coin
  BY DEF Live
<1> QED
  BY <1>1, <1>2, <1>3 DEF DelegationInv

LEMMA StepDelegation == DelegationInv /\ [Next]_vars => DelegationInv'
<1> SUFFICES ASSUME DelegationInv, [Next]_vars PROVE DelegationInv'
  OBVIOUS
<1>1. delegated \in [Coin -> Int]
  BY DEF DelegationInv
<1>2. CASE UNCHANGED <<coin, delegated, stakesAt, overtaken, delegating, listHeight, list>>
  BY <1>1, <1>2, DelegationKept
<1>3. CASE Run \/ BalanceService
  <2>1. CASE CreateNewCoins
    BY <1>1, <2>1, DelegationKept DEF CreateNewCoins, SaveAllIfNotExist, stakes, bound
  <2> QED
    BY <1>2, <1>3, <2>1 DEF Run, HandOff, SaveBlock, SendTransactions, SendStakesJob,
       BalanceService, GetAddresses, UpdateBalances, db, stakes, bound
<1>4. ASSUME NEW h \in Height, HandleEventResponse(h) PROVE DelegationInv'
  <2>1. CASE DeleteBySymbol(h)
    BY <1>1, <2>1, DelegationKept DEF DeleteBySymbol, stakes, bound
  <2> QED
    BY <1>2, <1>4, <2>1 DEF HandleEventResponse, FindSlashedCoins, DeleteByCoinId,
       SendSlashedCoins, db, stakes, bound
<1>5. CASE CoinsFromTxs \/ CoinsFromMap
  <2>1. CASE SaveCoins
    BY <1>1, <2>1, DelegationKept DEF SaveCoins, SaveAllIfNotExist, stakes
  <2> QED
    BY <1>2, <1>5, <2>1 DEF CoinsFromTxs, CollectSymbols, SendSymbols, CoinsFromMap,
       TakeSymbols, GetCoinFromNode, db, stakes, bound
<1>6. CASE \E c \in Coin : SaveTxOutput(c) \/ GetCoinFails(c)
  BY <1>2, <1>6 DEF SaveTxOutput, GetCoinFails, db, stakes, bound
<1>7. CASE UpdateStakes \/ GetCandidatesFails \/ FindStakesFails
  <2>1. CASE GetCandidates \/ FindStakedCoins \/ FindStakesFails \/ SaveAllStakes
    BY <1>1, <2>1 DEF GetCandidates, FindStakedCoins, FindStakesFails, ListStakes,
       SaveAllStakes, DelegationInv, Newest, db, bound
  <2>2. CASE DeleteStakesNotInListIds
    <3>1. /\ stakesAt' = "reset" /\ overtaken' = (delegating # {})
          /\ delegating' = delegating \cup {<<c, listHeight>> : c \in StakesInCoin}
          /\ UNCHANGED <<coin, delegated, listHeight, list>>
      BY <2>2 DEF DeleteStakesNotInListIds
    <3>2. StakesInCoin' = StakesInCoin
      BY <3>1 DEF StakesInCoin, Elements
    <3>3. Newest' => delegating' = {<<c, listHeight>> : c \in StakesInCoin}
      BY <3>1 DEF Newest
    <3>4. Newest' => \A c \in Coin, h \in Height : <<c, h>> \in delegating' => h = listHeight
      BY <3>3
    <3> QED
      BY <1>1, <3>1, <3>2, <3>3, <3>4 DEF DelegationInv
  <2>3. CASE ResetCoinDelegationNotInListIds
    <3>1. /\ stakesAt = "reset" /\ stakesAt' = "idle"
          /\ delegated' = [c \in Coin |-> IF StakesInCoin # {} /\ c \notin StakesInCoin
                                         THEN 0 ELSE delegated[c]]
          /\ UNCHANGED <<coin, overtaken, delegating, listHeight, list>>
      BY <2>3 DEF ResetCoinDelegationNotInListIds, bound
    <3>2. StakesInCoin' = StakesInCoin /\ Newest' = Newest /\ Live' = Live
      BY <3>1 DEF StakesInCoin, Elements, Newest, Live
    <3>3. Live \subseteq Coin
      BY DEF Live
    <3> QED
      BY <1>1, <3>1, <3>2, <3>3 DEF DelegationInv
  <2>4. CASE GetCandidatesFails
    BY <1>2, <2>4 DEF GetCandidatesFails, db
  <2> QED
    BY <1>7, <2>1, <2>2, <2>3, <2>4 DEF UpdateStakes
<1>8. ASSUME NEW d \in Coin, NEW g \in Height, UpdateCoinDelegation(d, g)
      PROVE  DelegationInv'
  <2>1. /\ <<d, g>> \in delegating /\ delegating' = delegating \ {<<d, g>>}
        /\ delegated' = [delegated EXCEPT ![d] = IF d \in Live THEN g ELSE @]
        /\ UNCHANGED <<coin, stakesAt, overtaken, listHeight, list>>
    BY <1>8 DEF UpdateCoinDelegation, bound
  <2>2. StakesInCoin' = StakesInCoin /\ Newest' = Newest /\ Live' = Live
    BY <2>1 DEF StakesInCoin, Elements, Newest, Live
  <2>3. Live \subseteq Coin /\ g \in Int
    BY DEF Live, Height
  <2>4. Newest => g = listHeight
    BY <2>1 DEF DelegationInv
  <2>5. delegated' \in [Coin -> Int]
    BY <1>1, <2>1, <2>3
  <2>6. \A c \in Coin : Newest /\ delegated'[c] # delegated[c] => delegated'[c] = listHeight
    BY <1>1, <2>1, <2>4
  <2>7. \A c \in Live : <<c, listHeight>> \in delegating /\ Newest =>
          <<c, listHeight>> \in delegating' \/ delegated'[c] = listHeight
    BY <1>1, <2>1, <2>3, <2>4
  <2> QED
    BY <2>1, <2>2, <2>3, <2>5, <2>6, <2>7 DEF DelegationInv
<1>9. CASE Crash \/ Panic
  <2>1. /\ stakesAt' = "idle" /\ list' = <<>> /\ delegating' = {}
        /\ UNCHANGED delegated
    BY <1>9 DEF Crash, Panic, Die, db
  <2>2. StakesInCoin' = {}
    BY <2>1 DEF StakesInCoin, Elements
  <2> QED
    BY <1>1, <2>1, <2>2 DEF DelegationInv
<1>10. CASE Restart
  BY <1>2, <1>10 DEF Restart, stakes, bound
<1>11. CASE UNCHANGED vars
  BY <1>2, <1>11 DEF vars, db, stakes, bound
<1> QED
  BY <1>3, <1>4, <1>5, <1>6, <1>7, <1>8, <1>9, <1>10, <1>11 DEF Next, Step

\* When the goroutines of a list are through and it has overtaken none, no live
\* coin has a delegation from an older list.
THEOREM DelegationsAreCurrent == Spec => []NoOldDelegation
<1>1. Init => DelegationInv
  <2> SUFFICES ASSUME Init PROVE DelegationInv
    OBVIOUS
  <2>1. StakesInCoin = {}
    BY DEF Init, StakesInCoin, Elements
  <2> QED
    BY <2>1 DEF Init, NoAnswers, DelegationInv
<1>2. DelegationInv => NoOldDelegation
  BY DEF DelegationInv, NoOldDelegation, Newest
<1> QED
  BY <1>1, <1>2, StepDelegation, PTL DEF Spec

-----------------------------------------------------------------------------
\* The type invariant, in parts; while the worker is at a list it has its height.

RowTypes ==
  /\ saved \in 0 .. MaxHeight
  /\ coin \in [Coin -> {"none", "live", "deleted"}]
  /\ asOf \in [Coin -> 0 .. MaxHeight] /\ delegated \in [Coin -> 0 .. MaxHeight]
  /\ held \subseteq Coin /\ staked \in [Stake -> 0 .. MaxHeight]

RunTypes ==
  /\ pc \in {"addresses", "save", "transactions", "stakes", "coins", "down"}
  /\ height \in 0 .. MaxHeight + 1 /\ tip \in 0 .. MaxHeight
  /\ event \in [Height -> {"none", "slashes", "balances", "coins", "send"}]
  /\ cache \subseteq Coin /\ inverse \subseteq cache
  /\ outputs \subseteq Coin
  /\ holding \in [step : {"idle", "ask", "write"}, at : 0 .. MaxHeight,
                  coins : SUBSET Coin]

UpdateTypes ==
  /\ jobUpdateCoins \in {<<>>} \cup {<<h>> : h \in Height}
  /\ jobUpdateStakes \in {<<>>} \cup {<<h>> : h \in Height}
  /\ jobUpdateCoinsFromMap \in {<<>>} \cup {<<C>> : C \in SUBSET Coin}
  /\ symbols \in {<<>>} \cup {<<C>> : C \in SUBSET Coin}
  /\ asking \subseteq Coin /\ answers \in [Coin -> 0 .. MaxHeight]

ListTypes ==
  /\ stakesAt \in {"idle", "look", "save", "reset"}
  /\ listHeight \in 0 .. MaxHeight /\ list \in Seq(Stake) /\ chunk \in Nat
  /\ stakesAt # "idle" => listHeight \in Height
  /\ delegating \subseteq Coin \X Height
  /\ faults \in 0 .. MaxFaults /\ crashed \in BOOLEAN
  /\ late \subseteq Coin /\ overtaken \in BOOLEAN /\ missed \subseteq Stake

Types == RowTypes /\ RunTypes /\ UpdateTypes /\ ListTypes

LEMMA LoopTypes == Inv /\ Types /\ (Run \/ BalanceService) => Types'
<1> SUFFICES ASSUME Inv, Types, Run \/ BalanceService PROVE Types'
  OBVIOUS
<1> USE DEF Types, RowTypes, RunTypes, UpdateTypes, ListTypes
<1>1. /\ pc \notin {"addresses", "down"} => height \in Height
      /\ holding.step # "idle" => holding.at \in Height
      /\ MaxHeight \in Nat
  BY Chain DEF Inv, Places
<1>2. CASE HandOff
  <2>1. Later(height) \in 0 .. MaxHeight /\ height \in 0 .. MaxHeight
    BY <1>1, <1>2 DEF HandOff, Later
  <2> QED
    BY <1>2, <2>1 DEF HandOff, db, caches, update, stakes, bound
<1>3. CASE GetAddresses
  <2>1. HeldAt(holding.at, holding.at) \subseteq Coin
    BY <1>1, <1>3, Chain DEF GetAddresses, HeldAt
  <2>2. cache' = cache \cup (HeldAt(holding.at, holding.at) \cap Live)
    BY <1>3 DEF GetAddresses, FindIdBySymbol
  <2>3. /\ UNCHANGED <<db, loop, tip, event, inverse, update, outputs, stakes, bound>>
        /\ holding' = [holding EXCEPT !.step = "write",
                                      !.coins = HeldAt(holding.at, holding.at) \cap Known]
    BY <1>3 DEF GetAddresses
  <2>4. RowTypes' /\ UpdateTypes' /\ ListTypes'
    BY <2>3 DEF db, update, stakes, bound
  <2>5. RunTypes'
    BY <2>1, <2>2, <2>3 DEF loop
  <2> QED
    BY <2>4, <2>5
<1>4. CASE UpdateBalances
  <2>1. held' \subseteq Coin
    BY <1>4 DEF UpdateBalances
  <2>2. holding' = [step |-> "idle", at |-> 0, coins |-> {}]
    BY <1>4 DEF UpdateBalances
  <2>3. holding' \in [step : {"idle", "ask", "write"}, at : 0 .. MaxHeight, coins : SUBSET Coin]
    BY <1>1, <2>2
  <2> QED
    BY <1>4, <2>1, <2>3 DEF UpdateBalances, loop, caches, update, stakes, bound
<1>5. CASE SaveBlock
  BY <1>1, <1>5 DEF SaveBlock, caches, update, stakes, bound, Height
<1>6. CASE SendTransactions
  <2>1. height \in Height /\ UNION {SentBy[t] : t \in TxsOf[height]} \subseteq Coin
    BY <1>1, <1>6, TxCoins DEF SendTransactions
  <2>2. cache' = cache \cup (GasCoins(height) \cap Live) /\ Live \subseteq Coin
    BY <1>6 DEF SendTransactions, FindIdBySymbol, Live
  <2>3. jobUpdateCoins' \in {jobUpdateCoins, <<height>>}
    BY <1>6 DEF SendTransactions
  <2> QED
    BY <1>6, <2>1, <2>2, <2>3 DEF SendTransactions, db, stakes, bound
<1>7. CASE SendStakesJob
  <2>1. jobUpdateStakes' \in {jobUpdateStakes, <<height>>} /\ height \in Height
    BY <1>1, <1>7 DEF SendStakesJob
  <2> QED
    BY <1>7, <2>1 DEF SendStakesJob, db, caches, update, bound
<1>8. CASE CreateNewCoins
  <2>1. height \in Height /\ CreatedIn[height] \subseteq Coin /\ height + 1 \in 0 .. MaxHeight + 1
    BY <1>1, <1>8, Chain DEF CreateNewCoins, Height
  <2>2. /\ coin' \in [Coin -> {"none", "live", "deleted"}]
        /\ asOf' \in [Coin -> 0 .. MaxHeight] /\ delegated' \in [Coin -> 0 .. MaxHeight]
        /\ cache' \subseteq Coin /\ inverse' \subseteq cache'
    BY <1>1, <1>8, <2>1 DEF CreateNewCoins, SaveAllIfNotExist, Height
  <2>3. event' \in [Height -> {"none", "slashes", "balances", "coins", "send"}]
    BY <1>8 DEF CreateNewCoins
  <2> QED
    BY <1>8, <2>1, <2>2, <2>3 DEF CreateNewCoins, update, stakes, bound
<1> QED
  BY <1>2, <1>3, <1>4, <1>5, <1>6, <1>7, <1>8 DEF Run, BalanceService

LEMMA EventTypes ==
  ASSUME Inv, Types, NEW h \in Height, HandleEventResponse(h)
  PROVE  Types'
<1> USE DEF Types, RowTypes, RunTypes, UpdateTypes, ListTypes
<1>1. SlashedIn[h] \subseteq Coin /\ LiquidatedIn[h] \subseteq Coin /\ Live \subseteq Coin
  BY Chain DEF Live
<1>2. event' \in [Height -> {"none", "slashes", "balances", "coins", "send"}]
  BY DEF HandleEventResponse, FindSlashedCoins, DeleteByCoinId, DeleteBySymbol, SendSlashedCoins
<1>3. CASE FindSlashedCoins(h)
  <2>1. cache' \subseteq Coin /\ cache \subseteq cache'
    BY <1>1, <1>3 DEF FindSlashedCoins, FindIdBySymbol
  <2>2. UNCHANGED <<db, loop, tip, inverse, update, outputs, holding, stakes, bound>>
    BY <1>3 DEF FindSlashedCoins
  <2>3. RowTypes' /\ UpdateTypes' /\ ListTypes'
    BY <2>2 DEF db, update, stakes, bound
  <2>4. RunTypes'
    BY <1>2, <2>1, <2>2 DEF loop
  <2> QED
    BY <2>3, <2>4
<1>4. CASE DeleteByCoinId(h)
  <2>1. held' \subseteq Coin /\ cache' \subseteq Coin /\ cache \subseteq cache'
    BY <1>1, <1>4 DEF DeleteByCoinId, FindIdBySymbol
  <2> QED
    BY <1>2, <1>4, <2>1 DEF DeleteByCoinId, loop, update, stakes, bound
<1>5. CASE DeleteBySymbol(h)
  <2>1. coin' \in [Coin -> {"none", "live", "deleted"}]
    BY <1>5 DEF DeleteBySymbol
  <2>2. UNCHANGED <<saved, asOf, delegated, held, staked, loop, tip, caches, update,
                    outputs, holding, stakes, bound>>
    BY <1>5 DEF DeleteBySymbol
  <2>3. RowTypes' /\ UpdateTypes' /\ ListTypes'
    BY <2>1, <2>2 DEF update, stakes, bound
  <2>4. RunTypes'
    BY <1>2, <2>2 DEF loop, caches
  <2> QED
    BY <2>3, <2>4
<1>6. CASE SendSlashedCoins(h)
  <2>1. jobUpdateCoinsFromMap' \in {<<C>> : C \in SUBSET Coin}
    BY <1>1, <1>6 DEF SendSlashedCoins
  <2> QED
    BY <1>2, <1>6, <2>1 DEF SendSlashedCoins, db, loop, caches, stakes, bound
<1> QED
  BY <1>3, <1>4, <1>5, <1>6 DEF HandleEventResponse

LEMMA CoinWorkerTypes ==
  ASSUME Inv, Types,
         CoinsFromTxs \/ CoinsFromMap \/ \E c \in Coin : SaveTxOutput(c) \/ GetCoinFails(c)
  PROVE  Types'
<1> USE DEF Types, RowTypes, RunTypes, UpdateTypes, ListTypes
<1>1. Live \subseteq Coin /\ MaxHeight \in Nat /\ MaxFaults \in Nat
  BY ParametersAssumption DEF Live
<1>2. CASE CollectSymbols
  <2>1. PICK h \in Height : jobUpdateCoins = <<h>>
    BY <1>2 DEF CollectSymbols
  <2> DEFINE T == {t \in TxsOf[h] : GasCoin[t] \in Named}
             C == {GasCoin[t] : t \in T} \cap Live
             S == (UNION {{GasCoin[t]} \cup TradedBy[t] : t \in T}) \ {BaseCoin}
  <2>2. /\ symbols' = <<S>> /\ jobUpdateCoins' = <<>>
        /\ cache' = cache \cup (C \ inverse) /\ inverse' = inverse \cup C
    BY <1>2, <2>1 DEF CollectSymbols
  <2>3. S \subseteq Coin /\ C \subseteq Coin
    <3>1. \A t \in T : t \in Tx
      BY DEF Tx
    <3>2. \A t \in T : GasCoin[t] \in Coin \cup {BaseCoin} /\ TradedBy[t] \subseteq Coin
      BY <3>1, ParametersAssumption
    <3> QED
      BY <1>1, <3>2
  <2> HIDE DEF S, C
  <2> QED
    BY <1>2, <2>2, <2>3 DEF CollectSymbols, db, loop, stakes, bound
<1>3. CASE SendSymbols
  BY <1>3 DEF SendSymbols, db, loop, caches, stakes, bound
<1>4. CASE TakeSymbols
  <2>1. Head(jobUpdateCoinsFromMap) \subseteq Coin
    BY <1>4 DEF TakeSymbols
  <2>2. /\ UNCHANGED <<db, loop, tip, event, caches, jobUpdateCoins, symbols, answers, outputs>>
        /\ UNCHANGED <<holding, stakes, bound>>
        /\ asking' = Head(jobUpdateCoinsFromMap) /\ jobUpdateCoinsFromMap' = <<>>
    BY <1>4 DEF TakeSymbols
  <2>3. RowTypes' /\ RunTypes' /\ ListTypes'
    BY <2>2 DEF db, loop, caches, stakes, bound
  <2>4. UpdateTypes'
    BY <2>1, <2>2 DEF stakes
  <2> QED
    BY <2>3, <2>4
<1>5. ASSUME NEW c \in Coin, GetCoinFromNode(c) PROVE Types'
  <2>1. PICK h \in tip .. MaxHeight :
          /\ tip' = h
          /\ answers' = [answers EXCEPT ![c] = IF Alive(c, h) /\ c \in Known THEN h ELSE 0]
    BY <1>5 DEF GetCoinFromNode
  <2>2. h \in 0 .. MaxHeight /\ 0 \in 0 .. MaxHeight
    BY <1>1
  <2>3. tip' \in 0 .. MaxHeight /\ answers' \in [Coin -> 0 .. MaxHeight]
    BY <2>1, <2>2
  <2>4. cache' = cache \cup ({c} \cap Live)
    BY <1>5 DEF GetCoinFromNode, FindIdBySymbol
  <2>5. /\ UNCHANGED <<db, loop, event, inverse, jobUpdateCoins, jobUpdateCoinsFromMap, symbols>>
        /\ UNCHANGED <<outputs, holding, stakes, bound>>
        /\ asking' = asking \ {c}
    BY <1>5 DEF GetCoinFromNode
  <2>6. RowTypes' /\ ListTypes'
    BY <2>5 DEF db, stakes, bound
  <2>7. RunTypes'
    BY <1>1, <2>3, <2>4, <2>5 DEF loop
  <2>8. UpdateTypes'
    BY <2>3, <2>5 DEF stakes
  <2> QED
    BY <2>6, <2>7, <2>8
<1>6. CASE SaveCoins
  <2>1. /\ coin' \in [Coin -> {"none", "live", "deleted"}]
        /\ asOf' \in [Coin -> 0 .. MaxHeight] /\ delegated' \in [Coin -> 0 .. MaxHeight]
        /\ cache' \subseteq Coin /\ inverse' \subseteq cache'
    <3>1. /\ coin' = [c \in Coin |-> IF c \in Answered THEN "live" ELSE coin[c]]
          /\ asOf' = [c \in Coin |-> IF c \in Answered THEN answers[c] ELSE asOf[c]]
          /\ delegated' = [c \in Coin |-> IF c \in Answered THEN 0 ELSE delegated[c]]
          /\ cache' = cache \cup Answered /\ inverse' = inverse \cup Answered
      BY <1>6 DEF SaveCoins, SaveAllIfNotExist
    <3>2. coin' \in [Coin -> {"none", "live", "deleted"}]
      BY <3>1
    <3>3. asOf' \in [Coin -> 0 .. MaxHeight]
      BY <3>1
    <3>4. delegated' \in [Coin -> 0 .. MaxHeight]
      BY <1>1, <3>1
    <3>5. cache' \subseteq Coin /\ inverse' \subseteq cache'
      BY <3>1 DEF Answered
    <3> QED
      BY <3>2, <3>3, <3>4, <3>5
  <2>2. answers' \in [Coin -> 0 .. MaxHeight]
    BY <1>1, <1>6 DEF SaveCoins, NoAnswers
  <2>3. late' \subseteq Coin
    BY <1>6 DEF SaveCoins, Answered
  <2>4. /\ UNCHANGED <<saved, held, staked, loop, tip, event, jobUpdateCoins,
                        jobUpdateCoinsFromMap, symbols, asking, outputs, holding>>
        /\ UNCHANGED <<stakes, faults, crashed, overtaken, missed>>
    BY <1>6 DEF SaveCoins
  <2>5. RowTypes'
    BY <2>1, <2>4
  <2>6. RunTypes'
    BY <2>1, <2>4 DEF loop
  <2>7. UpdateTypes'
    BY <2>2, <2>4 DEF stakes
  <2>8. ListTypes'
    BY <2>3, <2>4 DEF stakes
  <2> QED
    BY <2>5, <2>6, <2>7, <2>8
<1>7. ASSUME NEW c \in Coin, SaveTxOutput(c) \/ GetCoinFails(c) PROVE Types'
  <2>1. CASE SaveTxOutput(c)
    <3>1. cache' \subseteq Coin /\ cache \subseteq cache' /\ outputs' \subseteq Coin
      BY <1>1, <2>1 DEF SaveTxOutput, FindIdBySymbol
    <3>2. UNCHANGED <<db, loop, tip, event, inverse, update, holding, stakes, bound>>
      BY <2>1 DEF SaveTxOutput
    <3>3. RowTypes' /\ UpdateTypes' /\ ListTypes'
      BY <3>2 DEF db, update, stakes, bound
    <3>4. RunTypes'
      BY <3>1, <3>2 DEF loop
    <3> QED
      BY <3>3, <3>4
  <2>2. CASE GetCoinFails(c)
    BY <1>1, <2>2 DEF GetCoinFails, db, loop, caches, stakes
  <2> QED
    BY <1>7, <2>1, <2>2
<1> QED
  BY <1>2, <1>3, <1>4, <1>5, <1>6, <1>7 DEF CoinsFromTxs, CoinsFromMap

LEMMA StakesTypes ==
  ASSUME Inv, Types,
         \/ UpdateStakes \/ GetCandidatesFails \/ FindStakesFails
         \/ \E c \in Coin, h \in Height : UpdateCoinDelegation(c, h)
  PROVE  Types'
<1> USE DEF Types, RowTypes, RunTypes, UpdateTypes, ListTypes
<1>1. Live \subseteq Coin /\ MaxHeight \in Nat /\ MaxFaults \in Nat
      /\ \A h \in Height : h \in 0 .. MaxHeight
  BY ParametersAssumption DEF Live, Height
<1>2. CASE GetCandidates
  <2>1. Head(jobUpdateStakes) \in Height
    BY <1>2 DEF GetCandidates
  <2> QED
    BY <1>1, <1>2, <2>1 DEF GetCandidates, db, loop, caches, update, bound
<1>3. CASE FindStakedCoins \/ FindStakesFails
  <2>1. stakesAt = "look" /\ faults' \in 0 .. MaxFaults
    BY <1>1, <1>3 DEF FindStakedCoins, FindStakesFails
  <2>2. listHeight \in Height
    BY <2>1
  <2>3. StakesOf[listHeight] \in Seq(Stake)
    BY <2>2, ParametersAssumption
  <2>4. Answer \subseteq Stake
    BY <2>3 DEF Answer, Elements
  <2>5. PICK M \in SUBSET Answer : ListStakes(M)
    BY <1>3 DEF FindStakedCoins, FindStakesFails
  <2>6. list' \in Seq(Stake)
    BY <2>3, <2>5, StakesInIsFilter DEF ListStakes
  <2>7. cache' \subseteq Coin /\ cache \subseteq cache'
    BY <1>1, <2>5 DEF ListStakes, FindIdBySymbol
  <2>8. /\ UNCHANGED <<db, loop, tip, event, inverse, update, outputs, holding>>
        /\ UNCHANGED <<jobUpdateStakes, listHeight, delegating, crashed, late, overtaken>>
        /\ missed' \subseteq Stake /\ chunk' = 0 /\ stakesAt' = "save"
    BY <2>4, <2>5 DEF ListStakes
  <2>9. RowTypes' /\ RunTypes' /\ UpdateTypes'
    BY <2>7, <2>8 DEF db, loop, update
  <2>10. ListTypes'
    BY <2>1, <2>2, <2>6, <2>8
  <2> QED
    BY <2>9, <2>10
<1>4. CASE SaveAllStakes
  <2>1. listHeight \in Height /\ staked' \in [Stake -> 0 .. MaxHeight] /\ chunk' \in Nat
    BY <1>1, <1>4 DEF SaveAllStakes
  <2> QED
    BY <1>4, <2>1 DEF SaveAllStakes, loop, caches, update, bound
<1>5. CASE DeleteStakesNotInListIds
  <2>1. StakesInCoin \subseteq Coin
    <3>1. \A s \in Elements(list) : s \in Stake
      BY DEF Elements
    <3> QED
      BY <3>1, ParametersAssumption DEF StakesInCoin
  <2>2. listHeight \in Height /\ staked' \in [Stake -> 0 .. MaxHeight]
    BY <1>1, <1>5 DEF DeleteStakesNotInListIds
  <2>3. delegating' \subseteq Coin \X Height
    BY <1>5, <2>1, <2>2 DEF DeleteStakesNotInListIds
  <2>4. overtaken' \in BOOLEAN
    BY <1>5 DEF DeleteStakesNotInListIds
  <2> QED
    BY <1>5, <2>2, <2>3, <2>4 DEF DeleteStakesNotInListIds, loop, caches, update
<1>6. CASE ResetCoinDelegationNotInListIds
  <2>1. delegated' \in [Coin -> 0 .. MaxHeight]
    BY <1>1, <1>6 DEF ResetCoinDelegationNotInListIds
  <2> QED
    BY <1>6, <2>1 DEF ResetCoinDelegationNotInListIds, loop, caches, update, bound
<1>7. CASE GetCandidatesFails
  BY <1>1, <1>7 DEF GetCandidatesFails, db, loop, caches, update
<1>8. ASSUME NEW c \in Coin, NEW h \in Height, UpdateCoinDelegation(c, h) PROVE Types'
  <2>1. delegated' \in [Coin -> 0 .. MaxHeight] /\ delegating' \subseteq Coin \X Height
    BY <1>1, <1>8 DEF UpdateCoinDelegation
  <2>2. /\ UNCHANGED <<saved, coin, asOf, held, staked, loop, tip, event, caches, update>>
        /\ UNCHANGED <<outputs, holding, jobUpdateStakes, stakesAt, listHeight, list, chunk,
                        bound>>
    BY <1>8 DEF UpdateCoinDelegation
  <2>3. RowTypes' /\ RunTypes'
    BY <2>1, <2>2 DEF loop, caches
  <2>4. UpdateTypes' /\ ListTypes'
    BY <2>1, <2>2 DEF update, bound
  <2> QED
    BY <2>3, <2>4
<1> QED
  BY <1>2, <1>3, <1>4, <1>5, <1>6, <1>7, <1>8 DEF UpdateStakes

LEMMA DeathTypes == Inv /\ Types /\ (Crash \/ Panic \/ Restart) => Types'
<1> SUFFICES ASSUME Inv, Types, Crash \/ Panic \/ Restart PROVE Types'
  OBVIOUS
<1> USE DEF Types, RowTypes, RunTypes, UpdateTypes, ListTypes
<1>1. MaxHeight \in Nat /\ MaxFaults \in Nat
  BY ParametersAssumption
<1>2. CASE Crash \/ Panic
  <2>1. Die /\ faults' \in 0 .. MaxFaults
    BY <1>1, <1>2 DEF Crash, Panic
  <2>2. /\ event' \in [Height -> {"none", "slashes", "balances", "coins", "send"}]
        /\ answers' \in [Coin -> 0 .. MaxHeight]
        /\ holding' \in [step : {"idle", "ask", "write"}, at : 0 .. MaxHeight, coins : SUBSET Coin]
    BY <1>1, <2>1 DEF Die, NoEvent, NoAnswers
  <2>3. /\ UNCHANGED <<saved, coin, asOf, delegated, held, staked, tip, late>>
        /\ pc' = "down" /\ height' = 0 /\ cache' = {} /\ inverse' = {}
        /\ jobUpdateCoins' = <<>> /\ jobUpdateCoinsFromMap' = <<>> /\ jobUpdateStakes' = <<>>
        /\ symbols' = <<>> /\ asking' = {} /\ outputs' = {}
        /\ stakesAt' = "idle" /\ listHeight' = 0 /\ list' = <<>> /\ chunk' = 0
        /\ delegating' = {} /\ overtaken' = FALSE /\ missed' = {}
    BY <2>1 DEF Die, db
  <2>4. height' \in 0 .. MaxHeight + 1 /\ listHeight' \in 0 .. MaxHeight
    BY <1>1, <2>3
  <2>5. RowTypes'
    BY <2>3
  <2>6. RunTypes'
    BY <2>2, <2>3, <2>4
  <2>7. UpdateTypes'
    BY <2>2, <2>3
  <2>8. <<>> \in Seq(Stake) /\ {} \subseteq Coin \X Height
    OBVIOUS
  <2>9. stakesAt' = "idle" /\ list' \in Seq(Stake) /\ chunk' \in Nat /\ late' \subseteq Coin
        /\ delegating' \subseteq Coin \X Height /\ overtaken' \in BOOLEAN
        /\ missed' \subseteq Stake
    BY <2>3, <2>8
  <2>10. crashed' \in BOOLEAN
    <3>1. CASE Crash
      BY <3>1 DEF Crash
    <3>2. CASE Panic
      <4>1. crashed' = crashed
        BY <3>2 DEF Panic
      <4>2. crashed \in BOOLEAN
        OBVIOUS
      <4> QED
        BY <4>1, <4>2
    <3> QED
      BY <1>2, <3>1, <3>2
  <2>11. ListTypes'
    BY <2>1, <2>3, <2>4, <2>9, <2>10 DEF ListTypes
  <2> QED
    BY <2>5, <2>6, <2>7, <2>11
<1>3. CASE Restart
  <2>1. saved' \in 0 .. MaxHeight
    BY <1>1, <1>3 DEF Restart
  <2>2. height' \in 0 .. MaxHeight + 1
    <3>1. height' = saved' + 1
      BY <1>3 DEF Restart
    <3>2. \A n \in 0 .. MaxHeight : n + 1 \in 0 .. MaxHeight + 1
      BY <1>1
    <3>3. saved' + 1 \in 0 .. MaxHeight + 1
      BY <2>1, <3>2
    <3> QED
      BY <3>1, <3>3
  <2> QED
    BY <1>3, <2>1, <2>2 DEF Restart, caches, update, stakes, bound
<1> QED
  BY <1>2, <1>3

LEMMA StepTypes == Inv /\ Types /\ [Next]_vars => Types'
<1> SUFFICES ASSUME Inv, Types, [Next]_vars PROVE Types'
  OBVIOUS
<1>1. CASE UNCHANGED vars
  BY <1>1 DEF vars, db, loop, caches, update, stakes, bound, Types, RowTypes,
     RunTypes, UpdateTypes, ListTypes
<1> QED
  BY <1>1, LoopTypes, EventTypes, CoinWorkerTypes, StakesTypes, DeathTypes DEF Next, Step

LEMMA InitTypes == Init => Types
<1> SUFFICES ASSUME Init PROVE Types
  OBVIOUS
<1>1. MaxHeight \in Nat /\ MaxFaults \in Nat /\ GenesisCoins \subseteq Coin
  BY ParametersAssumption
<1>2. 0 \in 0 .. MaxHeight /\ 1 \in 0 .. MaxHeight + 1 /\ 0 \in 0 .. MaxFaults
  BY <1>1
<1>3. /\ NoAnswers \in [Coin -> 0 .. MaxHeight]
      /\ NoEvent \in [Height -> {"none", "slashes", "balances", "coins", "send"}]
  BY <1>2 DEF NoAnswers, NoEvent
<1>4. /\ coin \in [Coin -> {"none", "live", "deleted"}]
      /\ staked \in [Stake -> 0 .. MaxHeight]
      /\ holding \in [step : {"idle", "ask", "write"}, at : 0 .. MaxHeight, coins : SUBSET Coin]
  BY <1>2 DEF Init
<1>5. RowTypes
  BY <1>2, <1>3, <1>4 DEF Init, RowTypes
<1>6. RunTypes
  BY <1>2, <1>3, <1>4 DEF Init, RunTypes
<1>7. UpdateTypes
  BY <1>2, <1>3 DEF Init, UpdateTypes
<1>8. <<>> \in Seq(Stake) /\ {} \subseteq Coin \X Height
  OBVIOUS
<1>9. ListTypes
  BY <1>2, <1>8 DEF Init, ListTypes
<1> QED
  BY <1>5, <1>6, <1>7, <1>9 DEF Types

\* Every variable has its type, the channels never hold more than one job and the
\* inverse cache never knows a coin that the cache does not.
THEOREM TypeCorrect == Spec => []TypeOK
<1>1. Types => TypeOK
  BY DEF Types, RowTypes, RunTypes, UpdateTypes, ListTypes, TypeOK
<1> QED
  BY <1>1, InitTypes, InitInv, StepInv, StepTypes, PTL DEF Spec

-----------------------------------------------------------------------------
\* Lists of stakes.

\* No list in hand or waiting is from a block that the loop has not reached.
Behind ==
  /\ listHeight <= height /\ (~Up => listHeight = 0)
  /\ list # <<>> => listHeight # 0
  /\ jobUpdateStakes # <<>> => Head(jobUpdateStakes) <= height

\* GetCoinFromNode has looked the coins up.
AnswersCached == Answered \subseteq cache

\* Why a list leaves a stake out: the list's own block created the coin, or the
\* coin was deleted and the cache does not know it.  It will not come back.
Skipped(s) ==
  /\ CoinOf[s] # BaseCoin
  /\ \/ CoinOf[s] \in CreatedIn[listHeight]
     \/ coin[CoinOf[s]] = "deleted" /\ CoinOf[s] \notin cache

Looked ==
  stakesAt # "look" /\ listHeight # 0 =>
    \A s \in (Answer \ missed) \ Elements(list) : Skipped(s)

\* The chunks before this one are written.
Written ==
  stakesAt = "save" =>
    /\ chunk <= ChunksCount(Len(list), StakeChunkSize)
    /\ \A i \in 0 .. chunk - 1 : \A s \in Chunk(list, StakeChunkSize, i) :
         staked[s] = listHeight

Settled ==
  stakesAt \in {"reset", "idle"} /\ list # <<>> =>
    \A s \in Stake : staked[s] = IF s \in Elements(list) THEN listHeight ELSE 0

ListInv == Behind /\ AnswersCached /\ Looked /\ Written /\ Settled

\* What can happen besides the steps of the stakes' worker, deaths and restarts.
Other ==
  \/ Run \/ BalanceService \/ (\E h \in Height : HandleEventResponse(h))
  \/ CoinsFromTxs \/ CoinsFromMap
  \/ (\E c \in Coin : SaveTxOutput(c) \/ GetCoinFails(c))
  \/ (\E c \in Coin, h \in Height : UpdateCoinDelegation(c, h))

LEMMA OtherSteps ==
  ASSUME Inv, Types, Other
  PROVE  /\ UNCHANGED <<listHeight, list, stakesAt, chunk, staked, missed>>
         /\ pc # "down" /\ pc' # "down" /\ height \in Nat /\ height' \in {height, height + 1}
         /\ jobUpdateStakes' \in {jobUpdateStakes, <<height>>}
<1> USE DEF db, loop, caches, update, stakes, bound
<1>1. height \in Nat /\ pc # "down"
  <2>1. ASSUME ~Up PROVE FALSE
    <3>1. /\ pc = "down" /\ outputs = {} /\ holding.step = "idle"
          /\ \A h \in Height : event[h] = "none"
          /\ jobUpdateCoins = <<>> /\ jobUpdateCoinsFromMap = <<>>
          /\ symbols = <<>> /\ asking = {} /\ Answered = {} /\ delegating = {}
      BY <2>1 DEF Inv, Typed, Places, Empty, Up
    <3> QED
      BY <3>1 DEF Other, Run, HandOff, SaveBlock, SendTransactions, SendStakesJob,
         CreateNewCoins, BalanceService, GetAddresses, UpdateBalances, HandleEventResponse,
         FindSlashedCoins, DeleteByCoinId, DeleteBySymbol, SendSlashedCoins, CoinsFromTxs,
         CollectSymbols, SendSymbols, CoinsFromMap, TakeSymbols, GetCoinFromNode, SaveCoins,
         SaveTxOutput, GetCoinFails, UpdateCoinDelegation
  <2> QED
    BY <2>1 DEF Up, Inv, Typed
<1>2. CASE Run
  BY <1>1, <1>2 DEF Run, HandOff, SaveBlock, SendTransactions, SendStakesJob, CreateNewCoins
<1>3. CASE BalanceService
  BY <1>1, <1>3 DEF BalanceService, GetAddresses, UpdateBalances
<1>4. CASE \E h \in Height : HandleEventResponse(h)
  BY <1>1, <1>4 DEF HandleEventResponse, FindSlashedCoins, DeleteByCoinId, DeleteBySymbol,
     SendSlashedCoins
<1>5. CASE CoinsFromTxs \/ CoinsFromMap
  BY <1>1, <1>5 DEF CoinsFromTxs, CollectSymbols, SendSymbols, CoinsFromMap, TakeSymbols,
     GetCoinFromNode, SaveCoins
<1>6. CASE \E c \in Coin : SaveTxOutput(c) \/ GetCoinFails(c)
  BY <1>1, <1>6 DEF SaveTxOutput, GetCoinFails
<1>7. CASE \E c \in Coin, h \in Height : UpdateCoinDelegation(c, h)
  BY <1>1, <1>7 DEF UpdateCoinDelegation
<1> QED
  BY <1>2, <1>3, <1>4, <1>5, <1>6, <1>7 DEF Other

\* Nothing but a crash brings a coin back that was deleted, that the cache does not
\* know and that is older than the list: CreateNewCoins stores coins of the loop's
\* block, SaveCoins those that GetCoinFromNode has found.
LEMMA GoneStays ==
  ASSUME Inv, Types, Behind, AnswersCached, Other, listHeight # 0,
         NEW c \in Coin, coin[c] = "deleted", c \notin cache,
         Alive(c, listHeight), c \notin CreatedIn[listHeight]
  PROVE  coin'[c] = "deleted" /\ c \notin cache'
<1> USE DEF db, loop, caches, update, stakes, bound
<1>1. c \notin Live
  BY DEF Live
<1>2. CASE CreateNewCoins
  <2>1. height \in Height /\ listHeight \in Height
    BY <1>2, ParametersAssumption DEF CreateNewCoins, Inv, Places, Types, ListTypes, Height
  <2>2. c \notin CreatedIn[height]
    <3> SUFFICES ASSUME c \in CreatedIn[height] PROVE FALSE
      OBVIOUS
    <3>1. c \notin GenesisCoins
      BY <2>1, ChainAssumption
    <3>2. PICK g \in 1 .. listHeight : c \in CreatedIn[g]
      BY <3>1 DEF Alive
    <3>3. g # height
      BY <2>1, <3>2 DEF Behind, Height
    <3>4. g \in 1 .. height - 1
      BY <2>1, <3>3 DEF Behind, Height
    <3> QED
      BY <2>1, <3>2, <3>4, ChainAssumption
  <2> QED
    BY <1>2, <2>2 DEF CreateNewCoins, SaveAllIfNotExist
<1>3. CASE HandOff \/ SaveBlock \/ SendTransactions \/ SendStakesJob
  BY <1>1, <1>3 DEF HandOff, SaveBlock, SendTransactions, SendStakesJob, FindIdBySymbol
<1>4. CASE BalanceService
  BY <1>1, <1>4 DEF BalanceService, GetAddresses, UpdateBalances, FindIdBySymbol
<1>5. CASE \E h \in Height : HandleEventResponse(h)
  BY <1>1, <1>5 DEF HandleEventResponse, FindSlashedCoins, DeleteByCoinId, DeleteBySymbol,
     SendSlashedCoins, FindIdBySymbol
<1>6. CASE CoinsFromTxs
  BY <1>1, <1>6 DEF CoinsFromTxs, CollectSymbols, SendSymbols
<1>7. CASE SaveCoins
  <2>1. c \notin Answered
    BY DEF AnswersCached
  <2> QED
    BY <1>7, <2>1 DEF SaveCoins, SaveAllIfNotExist
<1>8. CASE TakeSymbols \/ (\E d \in Coin : GetCoinFromNode(d) \/ SaveTxOutput(d) \/ GetCoinFails(d))
  BY <1>1, <1>8 DEF TakeSymbols, GetCoinFromNode, SaveTxOutput, GetCoinFails, FindIdBySymbol
<1>9. CASE \E d \in Coin, h \in Height : UpdateCoinDelegation(d, h)
  BY <1>9 DEF UpdateCoinDelegation
<1> QED
  BY <1>2, <1>3, <1>4, <1>5, <1>6, <1>7, <1>8, <1>9 DEF Other, Run, CoinsFromMap

\* A stake in a coin of the answer: what the chain says of it.
LEMMA ListedStake ==
  ASSUME Types, listHeight # 0, NEW s \in Answer
  PROVE  /\ listHeight \in Height /\ s \in Stake
         /\ CoinOf[s] # BaseCoin => CoinOf[s] \in Coin /\ Alive(CoinOf[s], listHeight)
<1>1. listHeight \in Height
  BY ParametersAssumption DEF Types, ListTypes, Height
<1>2. StakesOf[listHeight] \in Seq(Stake)
  BY <1>1, ParametersAssumption
<1>3. PICK n \in DOMAIN StakesOf[listHeight] : s = StakesOf[listHeight][n]
  BY <1>2 DEF Answer, Elements
<1>4. s \in Stake /\ CoinOf[s] \in Coin \cup {BaseCoin}
  BY <1>2, <1>3, ParametersAssumption
<1>5. CoinOf[s] # BaseCoin => Alive(CoinOf[s], listHeight)
  BY <1>1, <1>3, ChainAssumption
<1> QED
  BY <1>1, <1>4, <1>5

LEMMA OtherLists == Inv /\ Types /\ ListInv /\ Other => ListInv'
<1> SUFFICES ASSUME Inv, Types, ListInv, Other PROVE ListInv'
  OBVIOUS
<1>1. /\ UNCHANGED <<listHeight, list, stakesAt, chunk, staked, missed>>
      /\ pc # "down" /\ pc' # "down" /\ height \in Nat /\ height' \in {height, height + 1}
      /\ jobUpdateStakes' \in {jobUpdateStakes, <<height>>}
  BY OtherSteps
<1>2. Behind'
  <2>1. listHeight \in Nat /\ height' >= height
    BY <1>1, ParametersAssumption DEF Types, ListTypes
  <2>2. listHeight' <= height' /\ (list' # <<>> => listHeight' # 0) /\ Up'
    BY <1>1, <2>1 DEF ListInv, Behind, Up
  <2>3. jobUpdateStakes' # <<>> => Head(jobUpdateStakes') <= height'
    <3>1. CASE jobUpdateStakes' = jobUpdateStakes
      <4>1. jobUpdateStakes # <<>> => Head(jobUpdateStakes) \in Height
        BY DEF Types, UpdateTypes
      <4> QED
        BY <1>1, <2>1, <3>1, <4>1 DEF ListInv, Behind, Height
    <3>2. CASE jobUpdateStakes' = <<height>>
      BY <1>1, <2>1, <3>2
    <3> QED
      BY <1>1, <3>1, <3>2
  <2> QED
    BY <2>2, <2>3 DEF Behind
<1>3. AnswersCached'
  <2>1. AnswersCached /\ cache \in SUBSET Coin /\ BaseCoin \notin Coin
        /\ answers \in [Coin -> 0 .. MaxHeight]
    BY ParametersAssumption DEF ListInv, Types, RunTypes, UpdateTypes
  <2>2. cache \subseteq cache'
    BY DEF Other, Run, HandOff, SaveBlock, SendTransactions, SendStakesJob,
       CreateNewCoins, BalanceService, GetAddresses, UpdateBalances, HandleEventResponse,
       FindSlashedCoins, DeleteByCoinId, DeleteBySymbol, SendSlashedCoins, CoinsFromTxs,
       CollectSymbols, SendSymbols, CoinsFromMap, TakeSymbols, GetCoinFromNode, SaveCoins,
       SaveTxOutput, GetCoinFails, UpdateCoinDelegation, FindIdBySymbol,
       SaveAllIfNotExist, caches
  <2>3. CASE answers' = answers
    BY <2>1, <2>2, <2>3 DEF AnswersCached, Answered
  <2>4. CASE answers' = NoAnswers
    BY <2>4 DEF AnswersCached, Answered, NoAnswers
  <2>5. ASSUME NEW c \in Coin, GetCoinFromNode(c) PROVE AnswersCached'
    <3>1. PICK h \in tip .. MaxHeight :
            answers' = [answers EXCEPT ![c] = IF Alive(c, h) /\ c \in Known THEN h ELSE 0]
      BY <2>5 DEF GetCoinFromNode
    <3>2. cache' = cache \cup ({c} \cap Live)
      BY <2>5 DEF GetCoinFromNode, FindIdBySymbol
    <3>3. \A d \in Coin : answers'[d] # 0 => answers[d] # 0 \/ (d = c /\ c \in Known)
      BY <2>1, <3>1
    <3> QED
      BY <2>1, <3>2, <3>3 DEF AnswersCached, Answered, Known
  <2> QED
    BY <2>3, <2>4, <2>5 DEF Other, Run, HandOff, SaveBlock, SendTransactions, SendStakesJob,
       CreateNewCoins, BalanceService, GetAddresses, UpdateBalances, HandleEventResponse,
       FindSlashedCoins, DeleteByCoinId, DeleteBySymbol, SendSlashedCoins, CoinsFromTxs,
       CollectSymbols, SendSymbols, CoinsFromMap, TakeSymbols, SaveCoins,
       SaveTxOutput, GetCoinFails, UpdateCoinDelegation, update
<1>4. Looked'
  <2> SUFFICES ASSUME stakesAt # "look", listHeight # 0,
                      NEW s \in (Answer \ missed) \ Elements(list)
               PROVE  Skipped(s)'
    BY <1>1 DEF Looked, Answer, Elements
  <2>1. Skipped(s)
    BY DEF ListInv, Looked
  <2>2. CASE CoinOf[s] \in CreatedIn[listHeight]
    BY <1>1, <2>1, <2>2 DEF Skipped
  <2>3. CASE CoinOf[s] \notin CreatedIn[listHeight]
    <3>1. coin[CoinOf[s]] = "deleted" /\ CoinOf[s] \notin cache /\ CoinOf[s] # BaseCoin
      BY <2>1, <2>3 DEF Skipped
    <3>2. CoinOf[s] \in Coin /\ Alive(CoinOf[s], listHeight)
      BY <3>1, ListedStake
    <3>3. coin'[CoinOf[s]] = "deleted" /\ CoinOf[s] \notin cache'
      BY <2>3, <3>1, <3>2, GoneStays DEF ListInv
    <3> QED
      BY <1>1, <3>1, <3>3 DEF Skipped
  <2> QED
    BY <2>2, <2>3
<1>5. Written' /\ Settled'
  BY <1>1 DEF ListInv, Written, Settled, Chunk, Elements
<1> QED
  BY <1>2, <1>3, <1>4, <1>5 DEF ListInv

\* The worker looks the coins of a new list up.  A stake is left out if its coin has
\* no row, which only the loop's own block can explain, or one that is deleted.
LEMMA LookLists ==
  Inv /\ Types /\ ListInv /\ (FindStakedCoins \/ FindStakesFails) => ListInv'
<1> SUFFICES ASSUME Inv, Types, ListInv, FindStakedCoins \/ FindStakesFails PROVE ListInv'
  OBVIOUS
<1> DEFINE answer == StakesOf[listHeight]
<1>0. PICK M \in SUBSET Answer : ListStakes(M) /\ stakesAt = "look"
  BY DEF FindStakedCoins, FindStakesFails
<1> DEFINE S == {s \in Answer \ M : CoinOf[s] \in Known}
<1>1. /\ stakesAt = "look" /\ stakesAt' = "save" /\ chunk' = 0
      /\ list' = StakesIn(S, answer)
      /\ cache' = cache \cup ({CoinOf[s] : s \in Answer \ M} \cap Live)
      /\ UNCHANGED <<coin, staked, pc, height, answers, jobUpdateStakes, listHeight>>
      /\ missed' = M
  BY <1>0 DEF ListStakes, FindIdBySymbol, db, loop, update
<1>2. listHeight \in Height /\ listHeight # 0 /\ Up
  BY <1>1 DEF Types, ListTypes, Inv, Empty, Height
<1>3. answer \in Seq(Stake)
  BY <1>2, ParametersAssumption
<1>4. list' \in Seq(Stake) /\ Elements(list') = S
  BY <1>1, <1>3, StakesInIsFilter DEF Answer
<1>5. Behind' /\ AnswersCached'
  BY <1>1, <1>2 DEF ListInv, Behind, AnswersCached, Up, Answered
<1>6. Looked'
  <2>0. Answer' = Answer /\ Elements(list)' = Elements(list')
    BY <1>1 DEF Answer, Elements
  <2> SUFFICES ASSUME NEW s \in Answer \ M, CoinOf[s] \notin Known PROVE Skipped(s)'
    BY <1>1, <1>4, <2>0 DEF Looked
  <2>1. CoinOf[s] # BaseCoin /\ CoinOf[s] \notin cache /\ CoinOf[s] \notin Live
    BY DEF Known
  <2>2. CoinOf[s] \in Coin /\ Alive(CoinOf[s], listHeight)
    BY <1>2, <2>1, ListedStake
  <2>3. coin[CoinOf[s]] \in {"none", "deleted"}
    BY <2>1, <2>2 DEF Live, Inv, Typed
  <2>4. CASE coin[CoinOf[s]] = "none"
    <3>1. CoinOf[s] \notin GenesisCoins
      BY <2>4 DEF Inv, Rows
    <3>2. PICK g \in 1 .. listHeight : CoinOf[s] \in CreatedIn[g]
      BY <2>2, <3>1 DEF Alive
    <3>3. g \in Height /\ g <= height /\ height \in Nat
      BY <1>2, <3>2, ParametersAssumption DEF ListInv, Behind, Height, Inv, Typed
    <3>4. ~(g < height)
      BY <1>2, <2>4, <3>2, <3>3 DEF Inv, Rows, Past
    <3>5. g = listHeight
      BY <1>2, <3>2, <3>3, <3>4 DEF ListInv, Behind, Height
    <3> QED
      BY <1>1, <2>1, <3>2, <3>5 DEF Skipped
  <2>5. CASE coin[CoinOf[s]] = "deleted"
    BY <1>1, <2>1, <2>5 DEF Skipped
  <2> QED
    BY <2>3, <2>4, <2>5
<1>7. Written'
  <2>1. Len(list') \in Nat /\ StakeChunkSize \in Nat \ {0}
    BY <1>4, ParametersAssumption
  <2>2. ChunksCount(Len(list'), StakeChunkSize) \in Nat
    BY <2>1, CountIsExact
  <2>3. \A i \in 0 .. 0 - 1 : FALSE
    OBVIOUS
  <2> QED
    BY <1>1, <2>2, <2>3 DEF Written
<1>8. Settled'
  BY <1>1 DEF Settled
<1> QED
  BY <1>5, <1>6, <1>7, <1>8 DEF ListInv

LEMMA SaveLists == Inv /\ Types /\ ListInv /\ SaveAllStakes => ListInv'
<1> SUFFICES ASSUME Inv, Types, ListInv, SaveAllStakes PROVE ListInv'
  OBVIOUS
<1>1. /\ stakesAt = "save" /\ chunk < ChunksCount(Len(list), StakeChunkSize)
      /\ staked' = [s \in Stake |-> IF s \in Chunk(list, StakeChunkSize, chunk)
                                    THEN listHeight ELSE staked[s]]
      /\ chunk' = chunk + 1
      /\ UNCHANGED <<coin, cache, pc, height, answers, jobUpdateStakes, stakesAt, listHeight,
                     list, missed>>
  BY DEF SaveAllStakes, loop, caches, update, bound
<1>2. chunk \in Nat /\ list \in Seq(Stake) /\ StakeChunkSize \in Nat \ {0}
  BY ParametersAssumption DEF Types, ListTypes
<1>3. Behind' /\ AnswersCached' /\ Looked' /\ Settled'
  BY <1>1 DEF ListInv, Behind, AnswersCached, Answered, Up, Looked, Skipped,
     Answer, Elements, Settled
<1>4. ChunksCount(Len(list), StakeChunkSize) \in Nat
  BY <1>2, CountIsExact
<1>5. ASSUME NEW i \in 0 .. chunk, NEW s \in Chunk(list, StakeChunkSize, i)
      PROVE  staked'[s] = listHeight
  <2>1. i \in 0 .. ChunksCount(Len(list), StakeChunkSize) - 1
    BY <1>1, <1>2, <1>4
  <2>2. s \in Elements(list)
    BY <1>2, <2>1, ChunksCarryTheList
  <2>3. s \in Stake
    BY <1>2, <2>2 DEF Elements
  <2>4. i # chunk => staked[s] = listHeight
    BY <1>1, <1>2 DEF ListInv, Written
  <2> QED
    BY <1>1, <2>3, <2>4
<1>6. Written'
  <2>1. chunk + 1 <= ChunksCount(Len(list), StakeChunkSize) /\ 0 .. (chunk + 1) - 1 = 0 .. chunk
    BY <1>1, <1>2, <1>4
  <2>2. chunk' <= ChunksCount(Len(list'), StakeChunkSize) /\ 0 .. chunk' - 1 = 0 .. chunk
    BY <1>1, <2>1
  <2>3. \A i : Chunk(list', StakeChunkSize, i) = Chunk(list, StakeChunkSize, i)
    BY <1>1
  <2>4. \A i \in 0 .. chunk' - 1 : \A s \in Chunk(list', StakeChunkSize, i) :
          staked'[s] = listHeight'
    BY <1>1, <1>5, <2>2, <2>3
  <2> QED
    BY <2>2, <2>4 DEF Written, Chunk
<1> QED
  BY <1>3, <1>6 DEF ListInv

\* All chunks are written; the other stakes go.
LEMMA DeleteLists == Inv /\ Types /\ ListInv /\ DeleteStakesNotInListIds => ListInv'
<1> SUFFICES ASSUME Inv, Types, ListInv, DeleteStakesNotInListIds PROVE ListInv'
  OBVIOUS
<1>1. /\ stakesAt = "save" /\ chunk = ChunksCount(Len(list), StakeChunkSize)
      /\ staked' = [s \in Stake |-> IF list # <<>> /\ s \notin Elements(list)
                                    THEN 0 ELSE staked[s]]
      /\ stakesAt' = "reset"
      /\ UNCHANGED <<coin, cache, pc, height, answers, jobUpdateStakes, listHeight, list, missed>>
  BY DEF DeleteStakesNotInListIds, loop, caches, update
<1>2. list \in Seq(Stake) /\ StakeChunkSize \in Nat \ {0}
  BY ParametersAssumption DEF Types, ListTypes
<1>3. Behind' /\ AnswersCached' /\ Looked' /\ Written'
  BY <1>1 DEF ListInv, Behind, AnswersCached, Answered, Up, Looked, Skipped,
     Answer, Elements, Written
<1>4. ASSUME NEW s \in Elements(list) PROVE staked[s] = listHeight
  <2>1. PICK i \in 0 .. ChunksCount(Len(list), StakeChunkSize) - 1 :
          s \in Chunk(list, StakeChunkSize, i)
    BY <1>2, ChunksCarryTheList
  <2> QED
    BY <1>1, <2>1 DEF ListInv, Written
<1>5. Settled'
  BY <1>1, <1>4 DEF Settled, Elements
<1> QED
  BY <1>3, <1>5 DEF ListInv

LEMMA WorkerLists ==
  Inv /\ Types /\ ListInv /\ (UpdateStakes \/ GetCandidatesFails \/ FindStakesFails) => ListInv'
<1> SUFFICES ASSUME Inv, Types, ListInv,
                    UpdateStakes \/ GetCandidatesFails \/ FindStakesFails
             PROVE  ListInv'
  OBVIOUS
<1>1. CASE GetCandidates
  <2>1. /\ stakesAt' = "look" /\ jobUpdateStakes # <<>> /\ jobUpdateStakes' = <<>>
        /\ listHeight' = Head(jobUpdateStakes)
        /\ UNCHANGED <<coin, cache, pc, height, answers, list>>
    BY <1>1 DEF GetCandidates, db, loop, caches, update
  <2>2. Head(jobUpdateStakes) \in Height /\ Up
    BY <2>1 DEF Types, UpdateTypes, Inv, Empty
  <2>3. Behind'
    BY <2>1, <2>2 DEF ListInv, Behind, Up, Height
  <2> QED
    BY <2>1, <2>3 DEF ListInv, AnswersCached, Answered, Looked, Written, Settled
<1>2. CASE ResetCoinDelegationNotInListIds \/ GetCandidatesFails
  <2>1. /\ UNCHANGED <<coin, cache, pc, height, answers, staked, listHeight, list, missed>>
        /\ stakesAt' = "idle" /\ stakesAt \in {"idle", "reset"}
        /\ jobUpdateStakes' \in {jobUpdateStakes, <<>>}
    BY <1>2 DEF ResetCoinDelegationNotInListIds, GetCandidatesFails, db, loop, caches, update,
       bound
  <2> QED
    BY <2>1 DEF ListInv, Behind, Up, AnswersCached, Answered, Looked, Skipped, Answer, Elements,
       Written, Settled
<1> QED
  BY <1>1, <1>2, LookLists, SaveLists, DeleteLists DEF UpdateStakes

LEMMA DeathLists == Inv /\ Types /\ ListInv /\ (Crash \/ Panic \/ Restart) => ListInv'
<1> SUFFICES ASSUME Inv, Types, ListInv, Crash \/ Panic \/ Restart PROVE ListInv'
  OBVIOUS
<1>1. CASE Crash \/ Panic
  <2>1. /\ pc' = "down" /\ height' = 0 /\ jobUpdateStakes' = <<>> /\ answers' = NoAnswers
        /\ stakesAt' = "idle" /\ listHeight' = 0 /\ list' = <<>>
    BY <1>1 DEF Crash, Panic, Die
  <2> QED
    BY <2>1 DEF ListInv, Behind, Up, AnswersCached, Answered, NoAnswers, Looked, Written,
       Settled
<1>2. CASE Restart
  <2>1. /\ UNCHANGED <<coin, cache, staked, answers, jobUpdateStakes, stakesAt, listHeight,
                       list, chunk>>
        /\ ~Up /\ pc' = "addresses" /\ height' = saved' + 1
    BY <1>2 DEF Restart, caches, update, stakes
  <2>2. jobUpdateStakes = <<>> /\ listHeight = 0 /\ saved' \in Nat
    BY <1>2, <2>1 DEF ListInv, Behind, Inv, Empty, Typed, Restart
  <2>3. \A n \in Nat : 0 <= n + 1
    OBVIOUS
  <2>4. 0 <= height'
    BY <2>1, <2>2, <2>3
  <2>5. Up' /\ listHeight' = 0 /\ jobUpdateStakes' = <<>> /\ list' = list
    BY <2>1, <2>2 DEF Up
  <2>6. list # <<>> => listHeight # 0
    BY DEF ListInv, Behind
  <2>7. Behind'
    BY <2>2, <2>4, <2>5, <2>6 DEF Behind
  <2> QED
    BY <2>1, <2>2, <2>7 DEF ListInv, AnswersCached, Answered, Looked, Written, Settled, Chunk,
       Elements
<1> QED
  BY <1>1, <1>2

LEMMA StepLists == Inv /\ Types /\ ListInv /\ [Next]_vars => ListInv'
<1> SUFFICES ASSUME Inv, Types, ListInv, [Next]_vars PROVE ListInv'
  OBVIOUS
<1>1. CASE UNCHANGED vars
  BY <1>1 DEF vars, db, loop, caches, update, stakes, bound, ListInv, Behind, Up,
     AnswersCached, Answered, Looked, Skipped, Answer, Written, Chunk, Settled, Elements
<1> QED
  BY <1>1, OtherLists, WorkerLists, DeathLists DEF Next, Step, Other

LEMMA InitLists == Init => ListInv
BY ParametersAssumption DEF Init, NoAnswers, ListInv, Behind, Up, AnswersCached, Answered,
   Looked, Written, Settled

\* Between two lists of stakes the table holds those of the last list and no others,
\* whatever chunks they came in; a stake is missing only if its validator or owner was
\* not found, if its coin is deleted by then or was created by the list's own block.
THEOREM StakesAreCurrent == Spec => []StakesCurrent
<1>1. Types /\ ListInv => StakesCurrent
  <2> SUFFICES ASSUME Types, ListInv, stakesAt = "idle", list # <<>>, NEW s \in Stake
               PROVE  /\ staked[s] \in {0, listHeight}
                      /\ staked[s] = listHeight <=> s \in Elements(list)
                      /\ /\ s \in Answer \ missed
                         /\ CoinOf[s] \in (Live \cup {BaseCoin}) \ CreatedIn[listHeight]
                         => s \in Elements(list)
    BY DEF StakesCurrent
  <2>1. listHeight # 0 /\ staked[s] = IF s \in Elements(list) THEN listHeight ELSE 0
    BY DEF ListInv, Behind, Settled
  <2>2. s \in Answer \ missed /\ s \notin Elements(list) => Skipped(s)
    BY <2>1 DEF ListInv, Looked
  <2>3. Skipped(s) => CoinOf[s] \notin (Live \cup {BaseCoin}) \ CreatedIn[listHeight]
    BY DEF Skipped, Live
  <2> QED
    BY <2>1, <2>2, <2>3
<1> QED
  BY <1>1, InitInv, InitTypes, InitLists, StepInv, StepTypes, StepLists, PTL DEF Spec

-----------------------------------------------------------------------------
\* The age of a coin's columns.

\* The coin was there before the loop's block.
Older(c) == c \in GenesisCoins \/ \E g \in Height : g < height /\ c \in CreatedIn[g]

\* The node has reached what the loop works on, what the table holds and what it has
\* answered; what it has answered is not older than what the table holds.  Until
\* something fails the table has no coin of a block still to come.
AgeInv ==
  /\ pc \notin {"addresses", "down"} => height <= tip
  /\ \A c \in Coin :
       /\ asOf[c] <= tip /\ (asOf[c] # 0 => Alive(c, asOf[c]))
       /\ answers[c] # 0 =>
            asOf[c] <= answers[c] /\ answers[c] <= tip /\ Alive(c, answers[c])
       /\ coin[c] = "deleted" => \E h \in Height : c \in LiquidatedIn[h]
       /\ faults = 0 /\ (coin[c] # "none" \/ asOf[c] # 0) => Older(c)

\* A coin that its block has created is not there at an earlier height.
LEMMA CreatedOnce ==
  ASSUME NEW g \in Height, NEW c \in CreatedIn[g]
  PROVE  /\ Alive(c, g)
         /\ c \notin GenesisCoins /\ \A h \in Height : c \in CreatedIn[h] => h = g
         /\ \A h \in Height : Alive(c, h) => g <= h
<1>1. Alive(c, g) /\ c \notin GenesisCoins
  BY ChainAssumption
<1>2. ASSUME NEW h \in Height, c \in CreatedIn[h] PROVE h = g
  <2>1. h < g => h \in 1 .. g - 1
    BY ParametersAssumption DEF Height
  <2>2. g < h => g \in 1 .. h - 1
    BY ParametersAssumption DEF Height
  <2>3. h < g \/ g < h \/ h = g
    BY DEF Height
  <2> QED
    BY <1>2, <2>1, <2>2, <2>3, ChainAssumption
<1>3. ASSUME NEW h \in Height, Alive(c, h) PROVE g <= h
  <2>1. PICK k \in 1 .. h : c \in CreatedIn[k]
    BY <1>1, <1>3 DEF Alive
  <2>2. k \in Height /\ k <= h
    BY <2>1, ParametersAssumption DEF Height
  <2> QED
    BY <1>2, <2>1, <2>2
<1> QED
  BY <1>1, <1>2, <1>3

\* Steps that leave the columns, the answers and the node alone.
Still ==
  /\ UNCHANGED <<coin, asOf, answers, tip, height>> /\ (faults' = 0 => faults = 0)
  /\ pc' \notin {"addresses", "down"} => pc \notin {"addresses", "down"}

LEMMA StillAge == AgeInv /\ Still => AgeInv'
BY DEF AgeInv, Still, Older

LEMMA StillSteps ==
  ASSUME Inv, Types, [Next]_vars
  PROVE  \/ Still \/ HandOff \/ CreateNewCoins \/ (\E h \in Height : DeleteBySymbol(h))
         \/ (\E c \in Coin : GetCoinFromNode(c)) \/ SaveCoins
         \/ Crash \/ Panic \/ Restart
<1> USE DEF Still, db, loop, caches, update, stakes, bound
<1>0. faults \in Nat /\ (faults' = faults + 1 => faults' # 0)
  BY DEF Inv, Typed
<1>1. CASE SaveBlock \/ SendTransactions \/ SendStakesJob
  BY <1>1 DEF SaveBlock, SendTransactions, SendStakesJob
<1>2. CASE BalanceService
  BY <1>2 DEF BalanceService, GetAddresses, UpdateBalances
<1>3. ASSUME NEW h \in Height, FindSlashedCoins(h) \/ DeleteByCoinId(h) \/ SendSlashedCoins(h)
      PROVE  Still
  BY <1>3 DEF FindSlashedCoins, DeleteByCoinId, SendSlashedCoins
<1>4. CASE CoinsFromTxs \/ TakeSymbols
  BY <1>4 DEF CoinsFromTxs, CollectSymbols, SendSymbols, TakeSymbols
<1>5. CASE \E c \in Coin : SaveTxOutput(c) \/ GetCoinFails(c)
  BY <1>0, <1>5 DEF SaveTxOutput, GetCoinFails
<1>6. CASE UpdateStakes \/ GetCandidatesFails \/ FindStakesFails
  BY <1>0, <1>6 DEF UpdateStakes, GetCandidates, FindStakedCoins, SaveAllStakes,
     DeleteStakesNotInListIds, ResetCoinDelegationNotInListIds, GetCandidatesFails,
     FindStakesFails, ListStakes
<1>7. CASE \E c \in Coin, h \in Height : UpdateCoinDelegation(c, h)
  BY <1>7 DEF UpdateCoinDelegation
<1>8. CASE UNCHANGED vars
  BY <1>8 DEF vars
<1> QED
  BY <1>1, <1>2, <1>3, <1>4, <1>5, <1>6, <1>7, <1>8
  DEF Next, Step, Run, HandleEventResponse, CoinsFromMap

\* What a block that creates a coin finds of it.
LEMMA CreatedAge ==
  ASSUME Inv, Types, AgeInv, pc = "coins", NEW c \in CreatedIn[height]
  PROVE  /\ height \in Height /\ height <= tip /\ c \in Coin /\ Alive(c, height)
         /\ answers[c] # 0 => height <= answers[c]
         /\ faults = 0 => asOf[c] = 0 /\ coin[c] = "none"
<1>1. height \in Height /\ height <= tip
  BY DEF Inv, Places, AgeInv
<1>2. c \in Coin /\ Alive(c, height)
  BY <1>1, Chain, CreatedOnce
<1>3. ASSUME answers[c] # 0 PROVE height <= answers[c]
  <2>1. answers[c] \in Height /\ Alive(c, answers[c])
    BY <1>2, <1>3, ParametersAssumption DEF AgeInv, Types, UpdateTypes, Height
  <2> QED
    BY <1>1, <2>1, CreatedOnce
<1>4. ASSUME faults = 0 PROVE asOf[c] = 0 /\ coin[c] = "none"
  <2>1. ~Older(c)
    <3>1. \A g \in Height : c \in CreatedIn[g] => g = height
      BY <1>1, CreatedOnce
    <3>2. c \notin GenesisCoins
      BY <1>1, CreatedOnce
    <3>3. height \in Int
      BY <1>1 DEF Height
    <3> QED
      BY <3>1, <3>2, <3>3 DEF Older
  <2> QED
    BY <1>2, <1>4, <2>1 DEF AgeInv
<1> QED
  BY <1>1, <1>2, <1>3, <1>4

LEMMA CreateAge ==
  Inv /\ Types /\ AgeInv /\ CreateNewCoins => AgeInv'
<1> SUFFICES ASSUME Inv, Types, AgeInv, CreateNewCoins PROVE AgeInv'
  OBVIOUS
<1>1. /\ coin' = [c \in Coin |-> IF c \in CreatedIn[height] THEN "live" ELSE coin[c]]
      /\ asOf' = [c \in Coin |-> IF c \in CreatedIn[height] THEN height ELSE asOf[c]]
      /\ pc = "coins" /\ pc' = "addresses" /\ height' = height + 1
      /\ UNCHANGED <<answers, tip, faults>>
  BY DEF CreateNewCoins, SaveAllIfNotExist, update, bound
<1>2. height \in Height
  BY <1>1 DEF Inv, Places
<1>3. \A c \in Coin : Older(c) => Older(c)'
  <2>1. \A g \in Height : g < height => g < height + 1
    BY <1>2 DEF Height
  <2> QED
    BY <1>1, <2>1 DEF Older
<1>4. ASSUME NEW c \in Coin, c \in CreatedIn[height]
      PROVE  /\ asOf'[c] <= tip' /\ (asOf'[c] # 0 => Alive(c, asOf'[c]))
             /\ answers'[c] # 0 =>
                  asOf'[c] <= answers'[c] /\ answers'[c] <= tip' /\ Alive(c, answers'[c])
             /\ coin'[c] # "deleted" /\ Older(c)'
  <2>1. asOf'[c] = height /\ coin'[c] = "live"
    BY <1>1, <1>4
  <2>2. Older(c)'
    <3>1. height < height + 1
      BY <1>2 DEF Height
    <3> QED
      BY <1>1, <1>2, <1>4, <3>1 DEF Older
  <2>3. height <= tip /\ Alive(c, height) /\ (answers[c] # 0 => height <= answers[c])
    BY <1>1, <1>4, CreatedAge
  <2> QED
    BY <1>1, <2>1, <2>2, <2>3 DEF AgeInv
<1>5. ASSUME NEW c \in Coin, c \notin CreatedIn[height]
      PROVE  asOf'[c] = asOf[c] /\ coin'[c] = coin[c]
  BY <1>1, <1>5
<1> QED
  BY <1>1, <1>3, <1>4, <1>5 DEF AgeInv

LEMMA AnswerAge ==
  ASSUME Types, AgeInv, NEW c \in Coin, GetCoinFromNode(c)
  PROVE  AgeInv'
<1>1. PICK h \in tip .. MaxHeight :
        /\ tip' = h
        /\ answers' = [answers EXCEPT ![c] = IF Alive(c, h) /\ c \in Known THEN h ELSE 0]
  BY DEF GetCoinFromNode
<1>2. UNCHANGED <<coin, asOf, pc, height, faults>>
  BY DEF GetCoinFromNode, db, loop, bound
<1>3. /\ tip \in Nat /\ h \in Nat /\ tip <= h /\ height \in Nat
      /\ answers \in [Coin -> 0 .. MaxHeight] /\ asOf \in [Coin -> 0 .. MaxHeight]
  BY ParametersAssumption DEF Types, RowTypes, RunTypes, UpdateTypes
<1>4. height <= tip => height <= tip'
  BY <1>1, <1>3
<1>5. \A d \in Coin : (asOf[d] <= tip => asOf[d] <= h) /\ (answers[d] <= tip => answers[d] <= h)
  BY <1>3
<1>6. \A d \in Coin : answers'[d] # 0 =>
        asOf[d] <= answers'[d] /\ answers'[d] <= tip' /\ Alive(d, answers'[d])
  <2> SUFFICES ASSUME NEW d \in Coin, answers'[d] # 0
               PROVE  asOf[d] <= answers'[d] /\ answers'[d] <= tip' /\ Alive(d, answers'[d])
    OBVIOUS
  <2>1. CASE d = c
    <3>1. Alive(c, h) /\ answers'[c] = h
      BY <1>1, <1>3, <2>1
    <3> QED
      BY <1>1, <1>3, <1>5, <2>1, <3>1 DEF AgeInv
  <2>2. CASE d # c
    <3>1. answers'[d] = answers[d]
      BY <1>1, <1>3, <2>2
    <3> QED
      BY <1>1, <1>5, <3>1 DEF AgeInv
  <2> QED
    BY <2>1, <2>2
<1> QED
  BY <1>1, <1>2, <1>4, <1>5, <1>6 DEF AgeInv, Older

LEMMA SaveAge == Inv /\ Types /\ AnswersCached /\ AgeInv /\ SaveCoins => AgeInv'
<1> SUFFICES ASSUME Inv, Types, AnswersCached, AgeInv, SaveCoins PROVE AgeInv'
  OBVIOUS
<1>1. /\ coin' = [c \in Coin |-> IF c \in Answered THEN "live" ELSE coin[c]]
      /\ asOf' = [c \in Coin |-> IF c \in Answered THEN answers[c] ELSE asOf[c]]
      /\ answers' = NoAnswers
      /\ UNCHANGED <<tip, pc, height, faults>>
  BY DEF SaveCoins, SaveAllIfNotExist, loop
<1>2. \A c \in Answered : c \in Coin /\ answers[c] # 0 /\ coin[c] # "none"
  BY DEF Answered, AnswersCached, Inv, Rows
<1>3. \A c \in Coin : answers'[c] = 0
  BY <1>1 DEF NoAnswers
<1> QED
  BY <1>1, <1>2, <1>3 DEF AgeInv, Older

LEMMA StepAge == Inv /\ Types /\ ListInv /\ AgeInv /\ [Next]_vars => AgeInv'
<1> SUFFICES ASSUME Inv, Types, ListInv, AgeInv, [Next]_vars PROVE AgeInv'
  OBVIOUS
<1>1. CASE HandOff
  <2>1. /\ UNCHANGED <<coin, asOf, answers, height, faults>> /\ tip' = Later(height)
        /\ height <= MaxHeight
    BY <1>1 DEF HandOff, db, update, bound
  <2>2. /\ tip \in Int /\ height \in Int /\ asOf \in [Coin -> Int]
        /\ answers \in [Coin -> Int]
    BY ParametersAssumption DEF Types, RowTypes, RunTypes, UpdateTypes
  <2>3. tip <= tip' /\ height <= tip' /\ tip' \in Int
    BY <2>1, <2>2 DEF Later
  <2>4. \A c \in Coin : (asOf[c] <= tip => asOf[c] <= tip')
                        /\ (answers[c] <= tip => answers[c] <= tip')
    BY <2>2, <2>3
  <2> QED
    BY <2>1, <2>3, <2>4 DEF AgeInv, Older
<1>2. ASSUME NEW h \in Height, DeleteBySymbol(h) PROVE AgeInv'
  <2>1. /\ coin' = [c \in Coin |-> IF c \in LiquidatedIn[h] \cap Live THEN "deleted"
                                   ELSE coin[c]]
        /\ UNCHANGED <<asOf, answers, tip, pc, height, faults>>
    BY <1>2 DEF DeleteBySymbol, loop, update, bound
  <2>2. \A c \in Live : coin[c] # "none"
    BY DEF Live
  <2> QED
    BY <2>1, <2>2 DEF AgeInv, Older
<1>3. CASE Crash \/ Panic
  <2>1. /\ pc' = "down" /\ answers' = NoAnswers /\ UNCHANGED <<coin, asOf, tip>>
    BY <1>3 DEF Crash, Panic, Die, db
  <2>2. faults' # 0
    <3>1. CASE Crash
      BY <3>1 DEF Crash, Inv, Typed
    <3>2. CASE Panic
      <4>1. crashed
        BY <3>2, MissingDeleted DEF Panic, LookupsFailOnlyAfterCrash
      <4> QED
        BY <3>2, <4>1 DEF Panic, Inv, Typed
    <3> QED
      BY <1>3, <3>1, <3>2
  <2> QED
    BY <2>1, <2>2 DEF AgeInv, NoAnswers
<1>4. CASE Restart
  <2>1. /\ pc' = "addresses" /\ UNCHANGED <<coin, asOf, answers, tip, faults>> /\ ~Up
    BY <1>4 DEF Restart, update, bound
  <2>2. faults' # 0
    BY <2>1 DEF Inv, Typed, Empty
  <2> QED
    BY <2>1, <2>2 DEF AgeInv
<1> QED
  BY <1>1, <1>2, <1>3, <1>4, StillSteps, StillAge, CreateAge, AnswerAge, SaveAge DEF ListInv

\* Only the creation of coins and the coin workers' upsert touch columns.
LEMMA ColumnSteps ==
  ASSUME Inv, Types, [Next]_vars, NEW c \in Coin,
         asOf'[c] # asOf[c] \/ (coin[c] = "deleted" /\ coin'[c] # "deleted")
  PROVE  \/ CreateNewCoins /\ c \in CreatedIn[height]
         \/ SaveCoins /\ c \in Answered
<1>1. CASE Still \/ HandOff
  BY <1>1 DEF Still, HandOff, db
<1>2. ASSUME NEW h \in Height, DeleteBySymbol(h) PROVE FALSE
  BY <1>2 DEF DeleteBySymbol
<1>3. ASSUME NEW d \in Coin, GetCoinFromNode(d) PROVE FALSE
  BY <1>3 DEF GetCoinFromNode, db
<1>4. CASE Crash \/ Panic \/ Restart
  BY <1>4 DEF Crash, Panic, Die, Restart, db
<1>5. CASE CreateNewCoins \/ SaveCoins
  BY <1>5 DEF CreateNewCoins, SaveCoins, SaveAllIfNotExist
<1> QED
  BY <1>1, <1>2, <1>3, <1>4, <1>5, StillSteps

LEMMA ColumnsAdvance ==
  ASSUME Inv, Types, AgeInv, [Next]_vars, NEW c \in Coin
  PROVE  /\ asOf'[c] # asOf[c] =>
              /\ Alive(c, asOf'[c])
              /\ asOf'[c] < asOf[c] => faults > 0 /\ c \in CreatedIn[asOf'[c]]
         /\ coin[c] = "deleted" /\ coin'[c] # "deleted" =>
              /\ \E h \in Height : c \in LiquidatedIn[h] /\ asOf'[c] < h
              /\ faults = 0 => c \in late'
<1>1. ASSUME CreateNewCoins, c \in CreatedIn[height]
      PROVE  /\ asOf'[c] \in Height /\ Alive(c, asOf'[c])
             /\ asOf'[c] < asOf[c] => faults > 0 /\ c \in CreatedIn[asOf'[c]]
             /\ faults = 0 => coin[c] = "none"
  <2>1. asOf'[c] = height /\ pc = "coins"
    BY <1>1 DEF CreateNewCoins, SaveAllIfNotExist
  <2>2. height \in Height /\ Alive(c, height) /\ (faults = 0 => asOf[c] = 0 /\ coin[c] = "none")
    BY <1>1, <2>1, CreatedAge
  <2>3. faults \in Nat /\ ~(height < 0)
    BY <2>2 DEF Inv, Typed, Height
  <2> QED
    BY <1>1, <2>1, <2>2, <2>3
<1>2. ASSUME SaveCoins, c \in Answered
      PROVE  /\ asOf'[c] \in Height /\ Alive(c, asOf'[c])
             /\ ~(asOf'[c] < asOf[c])
             /\ coin[c] = "deleted" => c \in late'
  <2>1. asOf'[c] = answers[c] /\ answers[c] # 0 /\ late' = late \cup {d \in Answered : coin[d] = "deleted"}
    BY <1>2 DEF SaveCoins, SaveAllIfNotExist, Answered
  <2>2. answers[c] \in Height /\ asOf[c] \in Int
    BY <2>1, ParametersAssumption DEF Types, RowTypes, UpdateTypes, Height
  <2>3. asOf[c] <= answers[c] /\ Alive(c, answers[c])
    BY <2>1 DEF AgeInv
  <2>4. ~(answers[c] < asOf[c])
    BY <2>2, <2>3 DEF Height
  <2> QED
    BY <1>2, <2>1, <2>2, <2>3, <2>4
<1>3. ASSUME coin[c] = "deleted", asOf'[c] \in Height, Alive(c, asOf'[c])
      PROVE  \E h \in Height : c \in LiquidatedIn[h] /\ asOf'[c] < h
  <2>1. PICK h \in Height : c \in LiquidatedIn[h]
    BY <1>3 DEF AgeInv
  <2>2. ~(h <= asOf'[c])
    BY <1>3, <2>1, NotAlive DEF Height
  <2>3. asOf'[c] < h
    BY <1>3, <2>2 DEF Height
  <2> QED
    BY <2>1, <2>3
<1>4. \/ CreateNewCoins /\ c \in CreatedIn[height]
      \/ SaveCoins /\ c \in Answered
      \/ asOf'[c] = asOf[c] /\ ~(coin[c] = "deleted" /\ coin'[c] # "deleted")
  BY ColumnSteps
<1>5. CASE asOf'[c] = asOf[c] /\ ~(coin[c] = "deleted" /\ coin'[c] # "deleted")
  BY <1>5
<1>6. CASE CreateNewCoins /\ c \in CreatedIn[height]
  BY <1>1, <1>3, <1>6
<1>7. CASE SaveCoins /\ c \in Answered
  BY <1>2, <1>3, <1>7
<1> QED
  BY <1>4, <1>5, <1>6, <1>7

LEMMA InitAge == Init => AgeInv
<1> SUFFICES ASSUME Init PROVE AgeInv
  OBVIOUS
<1>1. \A c \in Coin : asOf[c] = 0 /\ answers[c] = 0
                      /\ coin[c] = IF c \in GenesisCoins THEN "live" ELSE "none"
  BY DEF Init, NoAnswers
<1> QED
  BY <1>1 DEF Init, AgeInv, Older

\* Whoever writes a coin's columns writes those of a height where the node has the
\* coin, and newer ones, but for a block of coins that is redone after a crash.
THEOREM ColumnsNeverOlder == Spec => NeverOlder
<1>1. Inv /\ Types /\ AgeInv /\ [Next]_vars =>
        [\A c \in Coin : asOf'[c] # asOf[c] =>
           /\ Alive(c, asOf'[c])
           /\ asOf'[c] < asOf[c] => faults > 0 /\ c \in CreatedIn[asOf'[c]]]_vars
  BY ColumnsAdvance
<1> QED
  BY <1>1, InitInv, InitTypes, InitLists, InitAge, StepInv, StepTypes, StepLists, StepAge, PTL
  DEF Spec, NeverOlder

\* A liquidated coin comes back only as it was before, and undisturbed only by an
\* answer that was under way when it was liquidated.
THEOREM RevivedOnlyLate == Spec => RevivedLate
<1>1. Inv /\ Types /\ AgeInv /\ [Next]_vars =>
        [\A c \in Coin : coin[c] = "deleted" /\ coin'[c] # "deleted" =>
           /\ \E h \in Height : c \in LiquidatedIn[h] /\ asOf'[c] < h
           /\ faults = 0 => c \in late']_vars
  BY ColumnsAdvance
<1> QED
  BY <1>1, InitInv, InitTypes, InitLists, InitAge, StepInv, StepTypes, StepLists, StepAge, PTL
  DEF Spec, RevivedLate
-----------------------------------------------------------------------------
\* The coins of an undisturbed process.

LEMMA Disturbed ==
  ASSUME Inv, Crash \/ Panic \/ Restart
  PROVE  faults' # 0
<1>1. CASE Crash
  BY <1>1 DEF Crash, Inv, Typed
<1>2. CASE Panic
  <2>1. crashed
    BY <1>2, MissingDeleted DEF Panic, LookupsFailOnlyAfterCrash
  <2> QED
    BY <1>2, <2>1 DEF Panic, Inv, Typed
<1>3. CASE Restart
  <2>1. crashed /\ faults' = faults
    BY <1>3 DEF Restart, Inv, Empty, bound
  <2> QED
    BY <2>1 DEF Inv, Typed
<1> QED
  BY <1>1, <1>2, <1>3

\* A coin that a block before this one liquidated is deleted, or its goroutine has
\* still to delete it, or a late answer has brought it back.
Mirror ==
  faults = 0 =>
    \A g \in Height : g < height => \A c \in LiquidatedIn[g] \ late :
      coin[c] = "deleted" \/ event[g] \in {"slashes", "balances", "coins"}

LEMMA MirrorSteps ==
  ASSUME Inv, [Next]_vars
  PROVE  \/ UNCHANGED <<coin, event, height, late>> /\ (faults' = 0 => faults = 0)
         \/ CreateNewCoins \/ (\E h \in Height : HandleEventResponse(h)) \/ SaveCoins
         \/ Crash \/ Panic \/ Restart
<1> USE DEF db, loop, caches, update, stakes, bound
<1>0. faults \in Nat /\ (faults' = faults + 1 => faults' # 0)
  BY DEF Inv, Typed
<1>1. CASE HandOff \/ SaveBlock \/ SendTransactions \/ SendStakesJob
  BY <1>1 DEF HandOff, SaveBlock, SendTransactions, SendStakesJob
<1>2. CASE BalanceService
  BY <1>2 DEF BalanceService, GetAddresses, UpdateBalances
<1>3. CASE CoinsFromTxs \/ TakeSymbols
  BY <1>3 DEF CoinsFromTxs, CollectSymbols, SendSymbols, TakeSymbols
<1>4. CASE \E c \in Coin : GetCoinFromNode(c) \/ SaveTxOutput(c) \/ GetCoinFails(c)
  BY <1>0, <1>4 DEF GetCoinFromNode, SaveTxOutput, GetCoinFails
<1>5. CASE UpdateStakes \/ GetCandidatesFails \/ FindStakesFails
  BY <1>0, <1>5 DEF UpdateStakes, GetCandidates, FindStakedCoins, SaveAllStakes,
     DeleteStakesNotInListIds, ResetCoinDelegationNotInListIds, GetCandidatesFails,
     FindStakesFails, ListStakes
<1>6. CASE \E c \in Coin, h \in Height : UpdateCoinDelegation(c, h)
  BY <1>6 DEF UpdateCoinDelegation
<1>7. CASE UNCHANGED vars
  BY <1>7 DEF vars
<1> QED
  BY <1>1, <1>2, <1>3, <1>4, <1>5, <1>6, <1>7 DEF Next, Step, Run, CoinsFromMap

LEMMA StepMirror == Inv /\ Mirror /\ [Next]_vars => Mirror'
<1> SUFFICES ASSUME Inv, Mirror, [Next]_vars, faults' = 0 PROVE Mirror'
  BY DEF Mirror
<1>1. CASE UNCHANGED <<coin, event, height, late>> /\ (faults' = 0 => faults = 0)
  BY <1>1 DEF Mirror
<1>2. CASE CreateNewCoins
  <2>1. /\ coin' = [c \in Coin |-> IF c \in CreatedIn[height] THEN "live" ELSE coin[c]]
        /\ event' = [event EXCEPT ![height] =
                       IF SlashedIn[height] \cup LiquidatedIn[height] = {} THEN "none"
                       ELSE "slashes"]
        /\ height' = height + 1 /\ faults' = faults /\ late' = late /\ pc = "coins"
    BY <1>2 DEF CreateNewCoins, SaveAllIfNotExist, bound
  <2>2. height \in Height
    BY <2>1 DEF Inv, Places
  <2> SUFFICES ASSUME NEW g \in Height, g < height + 1, NEW c \in LiquidatedIn[g] \ late
               PROVE  coin'[c] = "deleted" \/ event'[g] \in {"slashes", "balances", "coins"}
    BY <2>1 DEF Mirror
  <2>3. CASE g = height
    BY <2>1, <2>2, <2>3 DEF Inv, Typed
  <2>4. CASE g # height
    <3>1. g < height
      BY <2>2, <2>4 DEF Height
    <3>2. coin[c] = "deleted" \/ event[g] \in {"slashes", "balances", "coins"}
      BY <2>1, <3>1 DEF Mirror
    <3>3. event'[g] = event[g]
      BY <2>1, <2>4 DEF Inv, Typed
    <3>4. c \in Coin
      BY Chain
    <3>5. c \notin CreatedIn[height]
      <4>1. Alive(c, g - 1)
        BY ChainAssumption
      <4>2. ASSUME c \in CreatedIn[height] PROVE FALSE
        <5>1. c \notin GenesisCoins
          BY <2>2, <4>2, CreatedOnce
        <5>2. PICK k \in 1 .. g - 1 : c \in CreatedIn[k]
          BY <4>1, <5>1 DEF Alive
        <5>3. k \in Height /\ k # height
          BY <2>2, <3>1, <5>2, Chain DEF Height
        <5> QED
          BY <2>2, <4>2, <5>2, <5>3, CreatedOnce
      <4> QED
        BY <4>2
    <3> QED
      BY <2>1, <3>2, <3>3, <3>4, <3>5
  <2> QED
    BY <2>3, <2>4
<1>3. ASSUME NEW h \in Height, HandleEventResponse(h) PROVE Mirror'
  <2>1. UNCHANGED <<height, faults, late>> /\ event[h] # "none"
    BY <1>3 DEF HandleEventResponse, FindSlashedCoins, DeleteByCoinId, DeleteBySymbol,
       SendSlashedCoins, loop, bound
  <2>2. CASE DeleteBySymbol(h)
    <3>1. /\ coin' = [c \in Coin |-> IF c \in LiquidatedIn[h] \cap Live THEN "deleted"
                                     ELSE coin[c]]
          /\ \A g \in Height : g # h => event'[g] = event[g]
      BY <2>2 DEF DeleteBySymbol, Inv, Typed
    <3>2. Up /\ h < height /\ h <= height
      <4>1. Up /\ h < height
        BY <2>1 DEF Inv, Places
      <4> QED
        BY <4>1 DEF Inv, Typed, Height
    <3>3. \A c \in LiquidatedIn[h] : c \in Coin /\ coin[c] # "none"
      BY <3>2, Chain, ChainAssumption, HasRow
    <3>4. \A c \in LiquidatedIn[h] : coin'[c] = "deleted"
      BY <3>1, <3>3 DEF Live, Inv, Typed
    <3>5. \A c \in Coin : coin[c] = "deleted" => coin'[c] = "deleted"
      BY <3>1
    <3>6. \A g \in Height : LiquidatedIn[g] \subseteq Coin
      BY Chain
    <3> SUFFICES ASSUME NEW g \in Height, g < height, NEW c \in LiquidatedIn[g] \ late
                 PROVE  coin'[c] = "deleted" \/ event'[g] \in {"slashes", "balances", "coins"}
      BY <2>1 DEF Mirror
    <3>7. CASE g = h
      BY <3>4, <3>7
    <3>8. CASE g # h
      <4>1. coin[c] = "deleted" \/ event[g] \in {"slashes", "balances", "coins"}
        BY <2>1 DEF Mirror
      <4> QED
        BY <3>1, <3>5, <3>6, <3>8, <4>1
    <3> QED
      BY <3>7, <3>8
  <2>3. CASE FindSlashedCoins(h) \/ DeleteByCoinId(h) \/ SendSlashedCoins(h)
    <3>1. /\ coin' = coin
          /\ \A g \in Height : event[g] \in {"slashes", "balances", "coins"} =>
               event'[g] \in {"slashes", "balances", "coins"}
      BY <2>3 DEF FindSlashedCoins, DeleteByCoinId, SendSlashedCoins, db, Inv, Typed
    <3> QED
      BY <2>1, <3>1 DEF Mirror
  <2> QED
    BY <1>3, <2>2, <2>3 DEF HandleEventResponse
<1>4. CASE SaveCoins
  <2>1. /\ coin' = [c \in Coin |-> IF c \in Answered THEN "live" ELSE coin[c]]
        /\ late' = late \cup {c \in Answered : coin[c] = "deleted"}
        /\ UNCHANGED <<event, height, faults>>
    BY <1>4 DEF SaveCoins, SaveAllIfNotExist, loop
  <2>2. \A g \in Height : LiquidatedIn[g] \subseteq Coin
    BY Chain
  <2> QED
    BY <2>1, <2>2 DEF Mirror
<1> QED
  BY <1>1, <1>2, <1>3, <1>4, MirrorSteps, Disturbed

\* In a process that nothing has disturbed, and whose events are through, the table
\* has the coins of the node, but for those that a late answer brought back.
THEOREM CoinsAreMirrored == Spec => []CoinsMirrorTheNode
<1>1. Init => Mirror
  BY Chain DEF Init, Mirror, Height
<1>2. Inv /\ Types /\ AgeInv /\ Mirror => CoinsMirrorTheNode
  <2> SUFFICES ASSUME Inv, AgeInv, Mirror, faults = 0,
                      \A h \in Height : event[h] \in {"none", "send"}, NEW c \in Coin \ late
               PROVE  coin[c] = "live" <=> Alive(c, height - 1)
    BY DEF CoinsMirrorTheNode
  <2>1. Up /\ ~crashed /\ height \in 1 .. MaxHeight + 1
    BY DEF Inv, Typed, Places, Empty
  <2>2. \A g \in Height : g < height <=> g \in 1 .. height - 1
    BY <2>1, Chain DEF Height
  <2>3. 1 .. height - 1 \subseteq Height
    BY <2>1, Chain DEF Height
  <2>4. coin[c] # "none" <=> Older(c)
    BY <2>1 DEF AgeInv, Older, Inv, Rows, Past
  <2>5. coin[c] = "deleted" <=> \E g \in Height : g < height /\ c \in LiquidatedIn[g]
    BY <2>1 DEF Inv, Deleted, Mirror
  <2>6. coin[c] = "live" <=> coin[c] # "none" /\ coin[c] # "deleted"
    BY DEF Inv, Typed
  <2>7. Older(c) <=> c \in GenesisCoins \/ \E g \in 1 .. height - 1 : c \in CreatedIn[g]
    BY <2>2, <2>3 DEF Older
  <2>8. (\E g \in Height : g < height /\ c \in LiquidatedIn[g])
          <=> ~(\A g \in 1 .. height - 1 : c \notin LiquidatedIn[g])
    BY <2>2, <2>3
  <2> QED
    BY <2>4, <2>5, <2>6, <2>7, <2>8 DEF Alive
<1> QED
  BY <1>1, <1>2, InitInv, InitTypes, InitLists, InitAge, StepInv, StepTypes, StepLists, StepAge,
     StepMirror, PTL DEF Spec
-----------------------------------------------------------------------------
\* The updates of an undisturbed process.

\* The blocks whose transactions the coin workers have got.
Due(h) == h < height \/ (h = height /\ pc \in {"stakes", "coins"})

\* Where the update of a coin for a block can be: written, not needed any more, or in
\* the hands of a worker or a channel.
Pending(c, h) ==
  \/ asOf[c] >= h \/ ~Alive(c, tip) \/ answers[c] >= h \/ c \in asking
  \/ jobUpdateCoinsFromMap # <<>> /\ c \in Head(jobUpdateCoinsFromMap)
  \/ symbols # <<>> /\ c \in Head(symbols)
  \/ jobUpdateCoins # <<>> /\ h = Head(jobUpdateCoins)

UpdateInv ==
  faults = 0 => \A h \in Height : Due(h) =>
    h <= tip /\ \A c \in Refreshed(h) : Pending(c, h)

\* A coin to be refreshed was there a block ago; what a liquidation passes over grows.
LEMMA RefreshedCoins ==
  ASSUME NEW h \in Height, NEW c \in Refreshed(h)
  PROVE  c \in Coin /\ Alive(c, h - 1)
<1>1. PICK t \in TxsOf[h] : c \in {GasCoin[t]} \cup TradedBy[t] /\ c # BaseCoin
  BY DEF Refreshed
<1>2. t \in Tx
  BY DEF Tx
<1> QED
  BY <1>1, <1>2, ParametersAssumption, ChainAssumption

LEMMA RefreshedShrinks ==
  ASSUME height \in Int, height' \in Int, height <= height', NEW h \in Height
  PROVE  Refreshed(h)' \subseteq Refreshed(h)
<1>0. \A a, b \in Int : a <= b => h .. a - 1 \subseteq h .. b - 1
  BY Chain DEF Height
<1>1. h .. height - 1 \subseteq h .. height' - 1
  BY <1>0
<1>2. \A t : PassedOver(t, h) => PassedOver(t, h)'
  BY <1>1 DEF PassedOver
<1> QED
  BY <1>2 DEF Refreshed

\* A coin that the node has no more does not come back.
LEMMA DeadStays ==
  ASSUME NEW h \in Height, NEW c, Alive(c, h - 1), NEW t \in Nat, NEW u \in Nat,
         h <= t, t <= u, ~Alive(c, t)
  PROVE  ~Alive(c, u)
<1>1. 1 .. h - 1 \subseteq 1 .. t /\ 1 .. t \subseteq 1 .. u
  BY Chain DEF Height
<1>2. PICK g \in 1 .. t : c \in LiquidatedIn[g]
  BY <1>1 DEF Alive
<1> QED
  BY <1>1, <1>2 DEF Alive

\* What a step does that only brings the node forward.
LEMMA PendingKept ==
  ASSUME Types, UNCHANGED <<asOf, answers, asking, jobUpdateCoinsFromMap, symbols,
                            jobUpdateCoins>>,
         tip' \in Nat, tip <= tip', NEW h \in Height, h <= tip, NEW c \in Coin,
         Alive(c, h - 1), Pending(c, h)
  PROVE  Pending(c, h)'
<1>1. tip \in Nat
  BY Chain DEF Types, RunTypes
<1>2. ~Alive(c, tip) => ~Alive(c, tip')
  BY <1>1, DeadStays
<1> QED
  BY <1>2 DEF Pending

\* In an undisturbed process the symbol of a coin that is not passed over is found,
\* and the coin itself.
LEMMA StillKnown ==
  ASSUME Inv, AgeInv, faults = 0, NEW h \in Height, h <= height, NEW c \in Coin,
         Alive(c, h - 1)
  PROVE  /\ c \in Known
         /\ (\A g \in h .. height - 1 : c \notin LiquidatedIn[g]) => c \in Live
<1>1. Up /\ ~crashed /\ height \in Nat
  BY DEF Inv, Typed, Empty
<1>2. coin[c] # "none"
  BY <1>1, HasRow
<1>3. coin[c] = "deleted" => c \in cache /\ \E g \in Height : g < height /\ c \in LiquidatedIn[g]
  BY <1>1 DEF Inv, Deleted
<1>4. coin[c] \in {"live", "deleted"}
  BY <1>2 DEF Inv, Typed
<1>5. ASSUME NEW g \in Height, g < height, c \in LiquidatedIn[g] PROVE g \in h .. height - 1
  <2>1. ~(g <= h - 1)
    <3>1. h - 1 \in Int
      BY Chain DEF Height
    <3> QED
      BY <1>5, <3>1, NotAlive
  <2> QED
    BY <1>1, <1>5, <2>1, Chain DEF Height
<1> QED
  BY <1>3, <1>4, <1>5 DEF Known, Live

LEMMA UpdateSteps ==
  ASSUME Inv, [Next]_vars
  PROVE  \/ /\ UNCHANGED <<asOf, answers, asking, jobUpdateCoinsFromMap, symbols,
                           jobUpdateCoins, tip, height>>
            /\ (faults' = 0 => faults = 0)
            /\ pc' \in {"stakes", "coins"} => pc \in {"stakes", "coins"}
         \/ HandOff \/ SendTransactions \/ CreateNewCoins
         \/ (\E h \in Height : SendSlashedCoins(h))
         \/ CollectSymbols \/ SendSymbols \/ TakeSymbols
         \/ (\E c \in Coin : GetCoinFromNode(c)) \/ SaveCoins
         \/ Crash \/ Panic \/ Restart \/ faults' # 0
<1> USE DEF db, loop, caches, update, stakes, bound
<1>0. faults \in Nat /\ (faults' = faults + 1 => faults' # 0)
  BY DEF Inv, Typed
<1>1. CASE SaveBlock \/ SendStakesJob
  BY <1>1 DEF SaveBlock, SendStakesJob
<1>2. CASE BalanceService
  BY <1>2 DEF BalanceService, GetAddresses, UpdateBalances
<1>3. ASSUME NEW h \in Height, FindSlashedCoins(h) \/ DeleteByCoinId(h) \/ DeleteBySymbol(h)
      PROVE  /\ UNCHANGED <<asOf, answers, asking, jobUpdateCoinsFromMap, symbols,
                            jobUpdateCoins, tip, height, pc, faults>>
  BY <1>3 DEF FindSlashedCoins, DeleteByCoinId, DeleteBySymbol
<1>4. CASE \E c \in Coin : SaveTxOutput(c) \/ GetCoinFails(c)
  <2>1. CASE \E c \in Coin : SaveTxOutput(c)
    BY <2>1 DEF SaveTxOutput
  <2>2. CASE \E c \in Coin : GetCoinFails(c)
    BY <1>0, <2>2 DEF GetCoinFails
  <2> QED
    BY <1>4, <2>1, <2>2
<1>5. CASE UpdateStakes \/ GetCandidatesFails \/ FindStakesFails
  BY <1>0, <1>5 DEF UpdateStakes, GetCandidates, FindStakedCoins, SaveAllStakes,
     DeleteStakesNotInListIds, ResetCoinDelegationNotInListIds, GetCandidatesFails,
     FindStakesFails, ListStakes
<1>6. CASE \E c \in Coin, h \in Height : UpdateCoinDelegation(c, h)
  BY <1>6 DEF UpdateCoinDelegation
<1>7. CASE UNCHANGED vars
  BY <1>7 DEF vars
<1> QED
  BY <1>1, <1>2, <1>3, <1>4, <1>5, <1>6, <1>7
  DEF Next, Step, Run, HandleEventResponse, CoinsFromTxs, CoinsFromMap

\* The steps of the loop: its block becomes due when its transactions are sent, with
\* all of its coins in the channel.
LEMMA LoopUpdates ==
  ASSUME Inv, Types, AgeInv, UpdateInv, faults = 0,
         HandOff \/ SendTransactions \/ CreateNewCoins
  PROVE  UpdateInv'
<1> USE DEF db, loop, caches, update, stakes, bound
<1>1. height \in Nat /\ tip \in Nat /\ asOf \in [Coin -> Int]
  BY Chain DEF Types, RowTypes, RunTypes
<1>2. CASE HandOff
  <2>1. /\ UNCHANGED <<asOf, answers, asking, jobUpdateCoinsFromMap, symbols,
                       jobUpdateCoins, height>>
        /\ tip' = Later(height) /\ pc' = "save"
    BY <1>2 DEF HandOff
  <2>2. tip' \in Nat /\ tip <= tip'
    BY <1>1, <2>1 DEF Later
  <2> SUFFICES ASSUME NEW h \in Height, Due(h)'
               PROVE  h <= tip' /\ \A c \in Refreshed(h)' : Pending(c, h)'
    BY DEF UpdateInv
  <2>3. Due(h)
    BY <2>1 DEF Due
  <2>4. h <= tip
    BY <2>3 DEF UpdateInv
  <2>5. h <= tip'
    BY <1>1, <2>2, <2>4 DEF Height
  <2>6. Refreshed(h)' = Refreshed(h)
    BY <2>1 DEF Refreshed, PassedOver
  <2>7. ASSUME NEW c \in Refreshed(h) PROVE Pending(c, h)'
    <3>1. c \in Coin /\ Alive(c, h - 1) /\ Pending(c, h)
      BY <2>3, RefreshedCoins DEF UpdateInv
    <3> QED
      BY <2>1, <2>2, <2>4, <3>1, PendingKept
  <2> QED
    BY <2>5, <2>6, <2>7
<1>3. CASE SendTransactions
  <2>1. /\ UNCHANGED <<asOf, answers, asking, jobUpdateCoinsFromMap, symbols, tip, height>>
        /\ pc = "transactions" /\ pc' = "stakes"
        /\ \/ TxsOf[height] = {} /\ UNCHANGED jobUpdateCoins
           \/ jobUpdateCoins = <<>> /\ jobUpdateCoins' = <<height>>
    BY <1>3 DEF SendTransactions
  <2> SUFFICES ASSUME NEW h \in Height, Due(h)'
               PROVE  h <= tip' /\ \A c \in Refreshed(h)' : Pending(c, h)'
    BY DEF UpdateInv
  <2>2. Refreshed(h)' = Refreshed(h)
    BY <2>1 DEF Refreshed, PassedOver
  <2>3. CASE h = height
    <3>1. h <= tip'
      BY <2>1, <2>3 DEF AgeInv
    <3>2. TxsOf[h] = {} => Refreshed(h) = {}
      BY DEF Refreshed
    <3>3. jobUpdateCoins' = <<h>> => \A c : Pending(c, h)'
      BY DEF Pending
    <3> QED
      BY <2>1, <2>2, <2>3, <3>1, <3>2, <3>3
  <2>4. CASE h # height
    <3>1. Due(h)
      BY <2>1, <2>4 DEF Due
    <3>2. ASSUME NEW c \in Refreshed(h) PROVE Pending(c, h)'
      <4>1. Pending(c, h)
        BY <3>1 DEF UpdateInv
      <4> QED
        BY <2>1, <4>1 DEF Pending
    <3> QED
      BY <2>1, <2>2, <3>1, <3>2 DEF UpdateInv
  <2> QED
    BY <2>3, <2>4
<1>4. CASE CreateNewCoins
  <2>1. /\ UNCHANGED <<answers, asking, jobUpdateCoinsFromMap, symbols, jobUpdateCoins, tip>>
        /\ asOf' = [c \in Coin |-> IF c \in CreatedIn[height] THEN height ELSE asOf[c]]
        /\ pc = "coins" /\ pc' = "addresses" /\ height' = height + 1
    BY <1>4 DEF CreateNewCoins, SaveAllIfNotExist
  <2> SUFFICES ASSUME NEW h \in Height, Due(h)'
               PROVE  h <= tip' /\ \A c \in Refreshed(h)' : Pending(c, h)'
    BY DEF UpdateInv
  <2>2. Due(h) /\ h <= height
    BY <1>1, <2>1 DEF Due, Height
  <2>3. h <= tip'
    BY <2>1, <2>2 DEF UpdateInv
  <2>4. Refreshed(h)' \subseteq Refreshed(h)
    <3>1. height' \in Int /\ height <= height'
      BY <1>1, <2>1
    <3> QED
      BY <1>1, <3>1, RefreshedShrinks
  <2>5. ASSUME NEW c \in Refreshed(h) PROVE Pending(c, h)'
    <3>1. c \in Coin /\ Alive(c, h - 1) /\ Pending(c, h)
      BY <2>2, RefreshedCoins DEF UpdateInv
    <3>2. asOf'[c] = asOf[c] \/ asOf'[c] = height
      BY <2>1, <3>1
    <3>3. height >= h
      BY <1>1, <2>2 DEF Height
    <3>4. asOf[c] >= h => asOf'[c] >= h
      BY <3>2, <3>3
    <3> QED
      BY <2>1, <3>1, <3>4 DEF Pending
  <2> QED
    BY <2>3, <2>4, <2>5
<1> QED
  BY <1>2, <1>3, <1>4

\* The steps of the coin workers hand every coin on.
LEMMA WorkerUpdates ==
  ASSUME Inv, Types, AgeInv, UpdateInv, faults = 0,
         \/ \E h \in Height : SendSlashedCoins(h)
         \/ CollectSymbols \/ SendSymbols \/ TakeSymbols
         \/ (\E c \in Coin : GetCoinFromNode(c)) \/ SaveCoins
  PROVE  UpdateInv'
<1> USE DEF db, loop, caches, update, stakes, bound
<1>1. height \in Nat /\ tip \in Nat /\ asOf \in [Coin -> Int] /\ answers \in [Coin -> 0 .. MaxHeight]
  BY Chain DEF Types, RowTypes, RunTypes, UpdateTypes
<1>2. UNCHANGED <<height, pc>>
  BY DEF SendSlashedCoins, CollectSymbols, SendSymbols, TakeSymbols, GetCoinFromNode, SaveCoins
<1>3. tip' \in Nat /\ tip <= tip' /\ tip' \in tip .. tip'
  <2>1. CASE \E c \in Coin : GetCoinFromNode(c)
    <3>1. tip' \in tip .. MaxHeight
      BY <2>1 DEF GetCoinFromNode
    <3> QED
      BY <1>1, <3>1, Chain
  <2>2. CASE ~(\E c \in Coin : GetCoinFromNode(c))
    <3>1. tip' = tip
      BY <2>2 DEF SendSlashedCoins, CollectSymbols, SendSymbols, TakeSymbols, SaveCoins
    <3> QED
      BY <1>1, <3>1
  <2> QED
    BY <2>1, <2>2
<1>4. \A h : Due(h)' = Due(h) /\ Refreshed(h)' = Refreshed(h)
  BY <1>2 DEF Due, Refreshed, PassedOver
<1>5. \A h \in Height : Due(h) => h <= tip'
  <2>1. \A h \in Height : h <= tip => h <= tip'
    BY <1>1, <1>3 DEF Height
  <2> QED
    BY <2>1 DEF UpdateInv
<1> SUFFICES ASSUME NEW h \in Height, Due(h), NEW c \in Refreshed(h)
             PROVE  Pending(c, h)'
  BY <1>4, <1>5 DEF UpdateInv
<1>6. h <= tip /\ Pending(c, h) /\ c \in Coin /\ Alive(c, h - 1) /\ h <= height
  <2>1. h <= height
    BY <1>1 DEF Due, Height
  <2> QED
    BY <2>1, RefreshedCoins DEF UpdateInv
<1>7. h <= tip'
  BY <1>5
<1>8. ~Alive(c, tip) => ~Alive(c, tip')
  BY <1>1, <1>3, <1>6, DeadStays
<1>9. CASE (\E g \in Height : SendSlashedCoins(g)) \/ SendSymbols \/ TakeSymbols
  BY <1>6, <1>7, <1>8, <1>9 DEF SendSlashedCoins, SendSymbols, TakeSymbols, Pending
<1>10. CASE CollectSymbols
  <2>1. /\ UNCHANGED <<asOf, answers, asking, jobUpdateCoinsFromMap, tip>>
        /\ jobUpdateCoins # <<>> /\ symbols = <<>>
    BY <1>10 DEF CollectSymbols
  <2>2. CASE h # Head(jobUpdateCoins)
    BY <1>6, <1>7, <2>1, <2>2 DEF Pending
  <2>3. CASE h = Head(jobUpdateCoins)
    <3>1. PICK t \in TxsOf[h] : /\ ~PassedOver(t, h)
                                /\ c \in ({GasCoin[t]} \cup TradedBy[t]) \ {BaseCoin}
      BY DEF Refreshed
    <3>2. t \in Tx
      BY DEF Tx
    <3>3. GasCoin[t] \in Coin \cup {BaseCoin}
      BY <3>2, ParametersAssumption
    <3>4. GasCoin[t] \in Coin => Alive(GasCoin[t], h - 1)
      BY Chain, ChainAssumption
    <3>5. GasCoin[t] \in Named
      BY <1>6, <3>1, <3>3, <3>4, StillKnown DEF PassedOver, Named
    <3> DEFINE T == {u \in TxsOf[h] : GasCoin[u] \in Named}
    <3>6. symbols' = <<(UNION {{GasCoin[u]} \cup TradedBy[u] : u \in T}) \ {BaseCoin}>>
      BY <1>10, <2>3 DEF CollectSymbols
    <3>7. c \in (UNION {{GasCoin[u]} \cup TradedBy[u] : u \in T}) \ {BaseCoin}
      BY <3>1, <3>5
    <3> QED
      BY <1>7, <3>6, <3>7 DEF Pending
  <2> QED
    BY <2>2, <2>3
<1>11. ASSUME NEW d \in Coin, GetCoinFromNode(d) PROVE Pending(c, h)'
  <2>1. /\ UNCHANGED <<asOf, jobUpdateCoinsFromMap, symbols, jobUpdateCoins>>
        /\ asking' = asking \ {d}
        /\ answers' = [answers EXCEPT ![d] = IF Alive(d, tip') /\ d \in Known THEN tip' ELSE 0]
    BY <1>11 DEF GetCoinFromNode
  <2>2. CASE c # d
    <3>1. answers'[c] = answers[c] /\ (c \in asking => c \in asking')
      BY <1>1, <1>6, <2>1, <2>2
    <3> QED
      BY <1>6, <1>8, <2>1, <3>1 DEF Pending
  <2>3. CASE c = d
    <3>1. c \in Known
      BY <1>6, StillKnown
    <3>2. Alive(c, tip') => answers'[c] = tip'
      BY <1>1, <1>6, <2>1, <2>3, <3>1
    <3>3. Alive(c, tip') => answers'[c] >= h
      BY <1>3, <1>7, <3>2 DEF Height
    <3> QED
      BY <3>3 DEF Pending
  <2> QED
    BY <2>2, <2>3
<1>12. CASE SaveCoins
  <2>1. /\ UNCHANGED <<asking, jobUpdateCoinsFromMap, symbols, jobUpdateCoins, tip>>
        /\ asOf' = [b \in Coin |-> IF b \in Answered THEN answers[b] ELSE asOf[b]]
        /\ answers' = NoAnswers
    BY <1>12 DEF SaveCoins, SaveAllIfNotExist
  <2>2. CASE c \in Answered
    <3>1. asOf'[c] = answers[c] /\ answers[c] # 0
      BY <1>6, <2>1, <2>2 DEF Answered
    <3>2. asOf[c] <= answers[c]
      BY <1>6, <3>1 DEF AgeInv
    <3>3. asOf[c] >= h \/ answers[c] >= h => asOf'[c] >= h
      BY <1>1, <1>6, <3>1, <3>2 DEF Height
    <3> QED
      BY <1>6, <2>1, <3>3 DEF Pending
  <2>3. CASE c \notin Answered
    <3>1. asOf'[c] = asOf[c] /\ answers[c] = 0
      BY <1>6, <2>1, <2>3 DEF Answered
    <3>2. ~(answers[c] >= h)
      BY <3>1 DEF Height
    <3> QED
      BY <1>6, <2>1, <3>1, <3>2 DEF Pending
  <2> QED
    BY <2>2, <2>3
<1> QED
  BY <1>7, <1>9, <1>10, <1>11, <1>12

LEMMA StepUpdates == Inv /\ Types /\ AgeInv /\ UpdateInv /\ [Next]_vars => UpdateInv'
<1> SUFFICES ASSUME Inv, Types, AgeInv, UpdateInv, [Next]_vars, faults' = 0 PROVE UpdateInv'
  BY DEF UpdateInv
<1>1. ASSUME UNCHANGED <<asOf, answers, asking, jobUpdateCoinsFromMap, symbols,
                         jobUpdateCoins, tip, height>>,
             faults = 0, pc' \in {"stakes", "coins"} => pc \in {"stakes", "coins"}
      PROVE  UpdateInv'
  BY <1>1 DEF UpdateInv, Due, Refreshed, PassedOver, Pending
<1>2. ASSUME HandOff \/ SendTransactions \/ CreateNewCoins \/ SendSymbols \/ TakeSymbols
             \/ CollectSymbols \/ SaveCoins \/ (\E h \in Height : SendSlashedCoins(h))
             \/ (\E c \in Coin : GetCoinFromNode(c))
      PROVE  faults = 0
  BY <1>2 DEF HandOff, SendTransactions, CreateNewCoins, SendSymbols, TakeSymbols,
     CollectSymbols, SaveCoins, SendSlashedCoins, GetCoinFromNode, bound
<1> QED
  BY <1>1, <1>2, UpdateSteps, LoopUpdates, WorkerUpdates, Disturbed

\* No interleaving of the loop, the events and the two coin workers loses an update:
\* when the workers have nothing in hand, every coin of a transaction that was not
\* passed over is as the node had it then or later.
THEOREM UpdatesArrive == Spec => []NoUpdateIsLost
<1>1. Init => UpdateInv
  BY Chain DEF Init, UpdateInv, Due, Height
<1>2. Inv /\ UpdateInv => NoUpdateIsLost
  <2> SUFFICES ASSUME Inv, UpdateInv, faults = 0,
                      jobUpdateCoins = <<>>, symbols = <<>>, jobUpdateCoinsFromMap = <<>>,
                      asking = {}, Answered = {},
                      NEW h \in 1 .. height - 1, NEW c \in Refreshed(h)
               PROVE  asOf[c] >= h \/ ~Alive(c, tip)
    BY DEF NoUpdateIsLost
  <2>1. Up /\ height \in 1 .. MaxHeight + 1
    BY DEF Inv, Typed, Places, Empty
  <2>2. h \in Height /\ h < height
    BY <2>1, Chain DEF Height
  <2>3. Pending(c, h)
    BY <2>2 DEF UpdateInv, Due
  <2>4. c \in Coin
    BY <2>2, RefreshedCoins
  <2>5. answers[c] = 0
    BY <2>4 DEF Answered
  <2>6. ~(answers[c] >= h)
    BY <2>5
  <2> QED
    BY <2>3, <2>6 DEF Pending
<1> QED
  BY <1>1, <1>2, InitInv, InitTypes, InitLists, InitAge, StepInv, StepTypes, StepLists, StepAge,
     StepUpdates, PTL DEF Spec
=============================================================================
