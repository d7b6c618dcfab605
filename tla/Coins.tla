-------------------------------- MODULE Coins --------------------------------
(***************************************************************************)
(* The life of a coin in the database.  Run creates it, the coin workers   *)
(* refresh it from the node when transactions and events name it, the      *)
(* stakes' worker writes how much of it is delegated, and the goroutine of *)
(* a block's events deletes it and its balances when it is liquidated.     *)
(* Everybody looks coins up through two caches.                            *)
(*                                                                         *)
(* A deleted coin keeps its row, with deleted_at set, and its id: queries  *)
(* do not find it, an upsert brings it back.                               *)
(***************************************************************************)
EXTENDS Integers, Sequences, FiniteSets, Chunks

CONSTANTS
  MaxHeight,       \* bound: the node gets as far as block MaxHeight
  Coin,            \* the coins but the base coin, which always has a row
  BaseCoin,
  GenesisCoins,    \* the coins the genesis uploader has stored
  CreatedIn, LiquidatedIn, SlashedIn,   \* the coins of each block's events
  TxsOf,           \* the transactions of each block that went through
  GasCoin,         \* the coin a transaction pays its fee in
  TradedBy,        \* the coins it sells and buys
  SentBy,          \* the coins of its outputs
  Addressed,       \* the blocks that name an address, in a transaction or an event
  HeldIn,          \* the coins held by those addresses
  Stake, CoinOf,   \* stakes, one per validator, owner and coin
  StakesOf,        \* the stakes of each height, in the order of the answer
  StakeChunkSize,
  StakesEvery,     \* 12: stakes are updated at its multiples
  MaxFaults        \* bound on crashes, failed requests and lists with failed lookups

Height == 1 .. MaxHeight
Tx     == UNION {TxsOf[h] : h \in Height}

\* The node has the coin at height h.
Alive(c, h) ==
  /\ c \in GenesisCoins \/ \E g \in 1 .. h : c \in CreatedIn[g]
  /\ \A g \in 1 .. h : c \notin LiquidatedIn[g]

ASSUME ParametersAssumption ==
  /\ MaxHeight \in Nat /\ MaxFaults \in Nat
  /\ StakesEvery \in Nat \ {0} /\ StakeChunkSize \in Nat \ {0}
  /\ GenesisCoins \subseteq Coin /\ BaseCoin \notin Coin
  /\ CreatedIn \in [Height -> SUBSET Coin]
  /\ LiquidatedIn \in [Height -> SUBSET Coin]
  /\ SlashedIn \in [Height -> SUBSET Coin]
  /\ HeldIn \in [Height -> SUBSET Coin]
  /\ \A h \in Height \ Addressed : TxsOf[h] = {} /\ SlashedIn[h] = {} /\ HeldIn[h] = {}
  /\ GasCoin \in [Tx -> Coin \cup {BaseCoin}]
  /\ TradedBy \in [Tx -> SUBSET Coin] /\ SentBy \in [Tx -> SUBSET Coin]
  /\ CoinOf \in [Stake -> Coin \cup {BaseCoin}]
  /\ StakesOf \in [Height -> Seq(Stake)]

\* The node lets nobody use a coin it does not have, or had not one block ago, nor
\* create one it has had.
ASSUME ChainAssumption ==
  \A h \in Height :
    /\ \A c \in CreatedIn[h] : c \notin GenesisCoins /\ Alive(c, h)
    /\ \A g \in 1 .. h - 1 : CreatedIn[g] \cap CreatedIn[h] = {}
    /\ \A c \in LiquidatedIn[h] : Alive(c, h - 1)
    /\ \A c \in SlashedIn[h] : Alive(c, h - 1)
    /\ \A t \in TxsOf[h] :
         \A c \in ({GasCoin[t]} \cup TradedBy[t] \cup SentBy[t]) \ {BaseCoin} :
           Alive(c, h - 1)
    /\ \A n \in DOMAIN StakesOf[h] :
         LET c == CoinOf[StakesOf[h][n]] IN c # BaseCoin => Alive(c, h)

VARIABLES
  \* The database.
  saved,        \* the last block's height
  coin,         \* coins: "none", "live" or "deleted"
  asOf,         \* the height of the chain that a coin's columns are from
  delegated,    \* the height whose stakes gave coins.delegated, 0 for 0
  held,         \* the coins with rows in balances
  staked,       \* stakes: the height a stake's value is from, 0 without a row
  \* The loop, and the block of each goroutine handleEventResponse.
  pc, height, tip,   \* tip: a height that the node has reached
  event,        \* each block's events: their next step, or "none"
  cache, inverse,    \* the coins in Repository.cache and .invCache
  \* The channels and the workers of coins; those of outputs and balances.
  jobUpdateCoins, jobUpdateCoinsFromMap, jobUpdateStakes,
  symbols,      \* UpdateCoinsInfoFromTxsWorker: the symbols it has to send
  asking, answers,   \* UpdateCoinsInfo: symbols to ask for, heights of answers
  outputs,      \* coins that output workers have still to look up
  holding,      \* the balance service: its step, its block, the coins to write
  \* UpdateStakesWorker and its goroutines.
  stakesAt, listHeight, list, chunk,
  delegating,   \* <<coin, height>>: the goroutines that have not run yet
  \* The bound and the history.
  faults,
  crashed,      \* the process was killed at least once
  late,         \* coins brought back by an answer from before their liquidation
  overtaken,    \* a goroutine of an older list was left when the last one began
  missed        \* the stakes that the last list lost to failed lookups

db     == <<saved, coin, asOf, delegated, held, staked>>
loop   == <<pc, height>>
caches == <<cache, inverse>>
update == <<jobUpdateCoins, jobUpdateCoinsFromMap, symbols, asking, answers>>
stakes == <<jobUpdateStakes, stakesAt, listHeight, list, chunk, delegating>>
bound  == <<faults, crashed, late, overtaken, missed>>
vars   == <<db, loop, tip, event, caches, update, outputs, holding, stakes, bound>>

-----------------------------------------------------------------------------
\* Lookups.

Live == {c \in Coin : coin[c] = "live"}

\* FindIdBySymbol: the cache, else the table.
Known == cache \cup Live \cup {BaseCoin}

FindIdBySymbol(C) == cache' = cache \cup (C \cap Live)

\* FindSymbolById has a cache of its own and fills both.
Named == inverse \cup Live \cup {BaseCoin}

\* Repository.SaveAllIfNotExist: the upsert writes every column of the coins,
\* those the node does not give (delegated, deleted_at) as nothing.
SaveAllIfNotExist(C, at) ==
  /\ coin' = [c \in Coin |-> IF c \in C THEN "live" ELSE coin[c]]
  /\ asOf' = [c \in Coin |-> IF c \in C THEN at[c] ELSE asOf[c]]
  /\ delegated' = [c \in Coin |-> IF c \in C THEN 0 ELSE delegated[c]]
  /\ cache' = cache \cup C /\ inverse' = inverse \cup C

-----------------------------------------------------------------------------
\* The loop, and the balance service that it meets once per block.

Later(h) == IF tip < h THEN h ELSE tip

\* The block is fetched; its addresses, if it has any, go to the balance service,
\* which takes them when it is through with those it got before (module Balances).
HandOff ==
  /\ pc = "addresses" /\ height <= MaxHeight
  /\ tip' = Later(height)
  /\ IF height \in Addressed
     THEN /\ holding.step = "idle"
          /\ holding' = [step |-> "ask", at |-> height, coins |-> {}]
     ELSE UNCHANGED holding
  /\ pc' = "save"
  /\ UNCHANGED <<db, height, event, caches, update, outputs, stakes, bound>>

HeldAt(h, g) == {c \in HeldIn[h] : Alive(c, g)}

\* Mutant of GetAddresses: the balances are those of the block before.
GetAddressesBefore ==
  /\ holding.step = "ask"
  /\ LET C == HeldAt(holding.at, holding.at - 1) IN
     /\ holding' = [holding EXCEPT !.step = "write", !.coins = C \cap Known]
     /\ FindIdBySymbol(C)
  /\ UNCHANGED <<db, loop, tip, event, inverse, update, outputs, stakes, bound>>

\* The node answers for the block's height, not for its latest one; balances in
\* unknown coins are skipped.
GetAddresses ==
  /\ holding.step = "ask"
  /\ LET C == HeldAt(holding.at, holding.at) IN
     /\ holding' = [holding EXCEPT !.step = "write", !.coins = C \cap Known]
     /\ FindIdBySymbol(C)
  /\ UNCHANGED <<db, loop, tip, event, inverse, update, outputs, stakes, bound>>

UpdateBalances ==
  /\ holding.step = "write"
  /\ held' = (held \ HeldIn[holding.at]) \cup holding.coins
  /\ holding' = [holding EXCEPT !.step = "idle", !.at = 0, !.coins = {}]
  /\ UNCHANGED <<saved, coin, asOf, delegated, staked, loop, tip, event, caches,
                 update, outputs, stakes, bound>>

SaveBlock ==
  /\ pc = "save"
  /\ saved' = height
  /\ pc' = "transactions"
  /\ UNCHANGED <<coin, asOf, delegated, held, staked, height, tip, event,
                 caches, update, outputs, holding, stakes, bound>>

GasCoins(h) == {GasCoin[t] : t \in TxsOf[h]}

\* handleValidTransaction, then the transactions go to their workers and, as one
\* batch, to the coin updates.
SendTransactions ==
  /\ pc = "transactions" /\ GasCoins(height) \subseteq Known
  /\ FindIdBySymbol(GasCoins(height))
  /\ IF TxsOf[height] = {}
     THEN UNCHANGED jobUpdateCoins
     ELSE jobUpdateCoins = <<>> /\ jobUpdateCoins' = <<height>>
  /\ outputs' = outputs \cup UNION {SentBy[t] : t \in TxsOf[height]}
  /\ pc' = "stakes"
  /\ UNCHANGED <<db, height, tip, event, inverse, jobUpdateCoinsFromMap, symbols,
                 asking, answers, holding, stakes, bound>>

\* Mutant of SendStakesJob: the send does not wait for room.
SendStakesJobWithoutRoom ==
  /\ pc = "stakes"
  /\ jobUpdateStakes' = IF height % StakesEvery = 0 THEN Append(jobUpdateStakes, height)
                        ELSE jobUpdateStakes
  /\ pc' = "coins"
  /\ UNCHANGED <<db, height, tip, event, caches, update, outputs, holding, stakesAt,
                 listHeight, list, chunk, delegating, bound>>

SendStakesJob ==
  /\ pc = "stakes"
  /\ IF height % StakesEvery = 0
     THEN jobUpdateStakes = <<>> /\ jobUpdateStakes' = <<height>>
     ELSE UNCHANGED jobUpdateStakes
  /\ pc' = "coins"
  /\ UNCHANGED <<db, height, tip, event, caches, update, outputs, holding, stakesAt,
                 listHeight, list, chunk, delegating, bound>>

\* CreateNewCoins, and the goroutine of the block's events is started.
CreateNewCoins ==
  /\ pc = "coins"
  /\ SaveAllIfNotExist(CreatedIn[height], [c \in Coin |-> height])
  /\ event' = [event EXCEPT ![height] =
                 IF SlashedIn[height] \cup LiquidatedIn[height] = {} THEN "none"
                 ELSE "slashes"]
  /\ pc' = "addresses" /\ height' = height + 1
  /\ UNCHANGED <<saved, held, staked, tip, update, outputs, holding, stakes, bound>>

-----------------------------------------------------------------------------
\* HandleEventResponse: slashed coins are looked up, liquidated coins deleted,
\* then the slashed ones handed to the coin updates.

FindSlashedCoins(h) ==
  /\ event[h] = "slashes" /\ SlashedIn[h] \subseteq Known
  /\ FindIdBySymbol(SlashedIn[h])
  /\ event' = [event EXCEPT ![h] = "balances"]
  /\ UNCHANGED <<db, loop, tip, inverse, update, outputs, holding, stakes, bound>>

\* The error of the lookup is overwritten: an unknown coin counts as id 0.
DeleteByCoinId(h) ==
  /\ event[h] = "balances"
  /\ held' = held \ (LiquidatedIn[h] \cap Known)
  /\ FindIdBySymbol(LiquidatedIn[h])
  /\ event' = [event EXCEPT ![h] = "coins"]
  /\ UNCHANGED <<saved, coin, asOf, delegated, staked, loop, tip, inverse,
                 update, outputs, holding, stakes, bound>>

\* Mutants of DeleteBySymbol: a coin without balances is kept; the caches are
\* told of the deletion.
DeleteUnlessEmpty(h) ==
  /\ event[h] = "coins"
  /\ coin' = [c \in Coin |-> IF c \in LiquidatedIn[h] \cap held THEN "deleted"
                             ELSE coin[c]]
  /\ event' = [event EXCEPT ![h] = IF SlashedIn[h] = {} THEN "none" ELSE "send"]
  /\ UNCHANGED <<saved, asOf, delegated, held, staked, loop, tip, caches,
                 update, outputs, holding, stakes, bound>>

DeleteAndForget(h) ==
  /\ event[h] = "coins"
  /\ coin' = [c \in Coin |-> IF c \in LiquidatedIn[h] \cap Live THEN "deleted"
                             ELSE coin[c]]
  /\ cache' = cache \ LiquidatedIn[h] /\ inverse' = inverse \ LiquidatedIn[h]
  /\ event' = [event EXCEPT ![h] = IF SlashedIn[h] = {} THEN "none" ELSE "send"]
  /\ UNCHANGED <<saved, asOf, delegated, held, staked, loop, tip,
                 update, outputs, holding, stakes, bound>>

DeleteBySymbol(h) ==
  /\ event[h] = "coins"
  /\ coin' = [c \in Coin |-> IF c \in LiquidatedIn[h] \cap Live THEN "deleted"
                             ELSE coin[c]]
  /\ event' = [event EXCEPT ![h] = IF SlashedIn[h] = {} THEN "none" ELSE "send"]
  /\ UNCHANGED <<saved, asOf, delegated, held, staked, loop, tip, caches,
                 update, outputs, holding, stakes, bound>>

SendSlashedCoins(h) ==
  /\ event[h] = "send" /\ jobUpdateCoinsFromMap = <<>>
  /\ jobUpdateCoinsFromMap' = <<SlashedIn[h]>>
  /\ event' = [event EXCEPT ![h] = "none"]
  /\ UNCHANGED <<db, loop, tip, caches, jobUpdateCoins, symbols, asking, answers,
                 outputs, holding, stakes, bound>>

-----------------------------------------------------------------------------
\* The coin workers.

\* Mutant of CollectSymbols: the symbols of the fees are left out.
CollectTradedSymbols ==
  /\ jobUpdateCoins # <<>> /\ symbols = <<>>
  /\ LET T == {t \in TxsOf[Head(jobUpdateCoins)] : GasCoin[t] \in Named}
         C == {GasCoin[t] : t \in T} \cap Live
     IN  /\ symbols' = <<(UNION {TradedBy[t] : t \in T}) \ {BaseCoin}>>
         /\ cache' = cache \cup (C \ inverse) /\ inverse' = inverse \cup C
  /\ jobUpdateCoins' = <<>>
  /\ UNCHANGED <<db, loop, tip, event, jobUpdateCoinsFromMap, asking, answers, outputs,
                 holding, stakes, bound>>

\* UpdateCoinsInfoFromTxsWorker: a transaction whose gas coin has no symbol any
\* more is passed over, with the coins it trades.
CollectSymbols ==
  /\ jobUpdateCoins # <<>> /\ symbols = <<>>
  /\ LET T == {t \in TxsOf[Head(jobUpdateCoins)] : GasCoin[t] \in Named}
         C == {GasCoin[t] : t \in T} \cap Live
     IN  /\ symbols' = <<(UNION {{GasCoin[t]} \cup TradedBy[t] : t \in T}) \ {BaseCoin}>>
         /\ cache' = cache \cup (C \ inverse) /\ inverse' = inverse \cup C
  /\ jobUpdateCoins' = <<>>
  /\ UNCHANGED <<db, loop, tip, event, jobUpdateCoinsFromMap, asking, answers, outputs,
                 holding, stakes, bound>>

SendSymbols ==
  /\ symbols # <<>> /\ jobUpdateCoinsFromMap = <<>>
  /\ jobUpdateCoinsFromMap' = symbols
  /\ symbols' = <<>>
  /\ UNCHANGED <<db, loop, tip, event, caches, jobUpdateCoins, asking, answers, outputs,
                 holding, stakes, bound>>

NoAnswers == [c \in Coin |-> 0]

Answered == {c \in Coin : answers[c] # 0}

\* UpdateCoinsInfoFromCoinsMap takes the next symbols, in no order.
TakeSymbols ==
  /\ jobUpdateCoinsFromMap # <<>> /\ asking = {} /\ Answered = {}
  /\ asking' = Head(jobUpdateCoinsFromMap)
  /\ jobUpdateCoinsFromMap' = <<>>
  /\ UNCHANGED <<db, loop, tip, event, caches, jobUpdateCoins, symbols, answers, outputs,
                 holding, stakes, bound>>

\* Mutants of GetCoinFromNode: a height that is past is asked for; the node's error
\* is passed over.
GetPastCoinFromNode(c) ==
  /\ c \in asking
  /\ \E h \in 0 .. tip :
       answers' = [answers EXCEPT ![c] = IF Alive(c, h) /\ c \in Known THEN h ELSE 0]
  /\ FindIdBySymbol({c})
  /\ asking' = asking \ {c}
  /\ UNCHANGED <<db, loop, tip, event, inverse, jobUpdateCoins, jobUpdateCoinsFromMap,
                 symbols, outputs, holding, stakes, bound>>

GetCoinWithoutError(c) ==
  /\ c \in asking
  /\ \E h \in tip .. MaxHeight :
       /\ tip' = h
       /\ answers' = [answers EXCEPT ![c] = IF c \in Known THEN h ELSE 0]
  /\ FindIdBySymbol({c})
  /\ asking' = asking \ {c}
  /\ UNCHANGED <<db, loop, event, inverse, jobUpdateCoins, jobUpdateCoinsFromMap,
                 symbols, outputs, holding, stakes, bound>>

\* GetCoinFromNode: the node answers from the height it has reached, with an
\* error when it does not have the coin there; an unknown coin is skipped.
GetCoinFromNode(c) ==
  /\ c \in asking
  /\ \E h \in tip .. MaxHeight :
       /\ tip' = h
       /\ answers' = [answers EXCEPT ![c] = IF Alive(c, h) /\ c \in Known THEN h ELSE 0]
  /\ FindIdBySymbol({c})
  /\ asking' = asking \ {c}
  /\ UNCHANGED <<db, loop, event, inverse, jobUpdateCoins, jobUpdateCoinsFromMap,
                 symbols, outputs, holding, stakes, bound>>

GetCoinFails(c) ==
  /\ c \in asking /\ faults < MaxFaults
  /\ faults' = faults + 1
  /\ asking' = asking \ {c}
  /\ UNCHANGED <<db, loop, tip, event, caches, jobUpdateCoins, jobUpdateCoinsFromMap,
                 symbols, answers, outputs, holding, stakes, crashed, late, overtaken,
                 missed>>

SaveCoins ==
  /\ asking = {} /\ Answered # {}
  /\ SaveAllIfNotExist(Answered, answers)
  /\ late' = late \cup {c \in Answered : coin[c] = "deleted"}
  /\ answers' = NoAnswers
  /\ UNCHANGED <<saved, held, staked, loop, tip, event, jobUpdateCoins,
                 jobUpdateCoinsFromMap, symbols, asking, outputs, holding, stakes,
                 faults, crashed, overtaken, missed>>

\* SaveAllTxOutputs looks up the coin of an output.
SaveTxOutput(c) ==
  /\ c \in outputs /\ c \in Known
  /\ FindIdBySymbol({c})
  /\ outputs' = outputs \ {c}
  /\ UNCHANGED <<db, loop, tip, event, inverse, update, holding, stakes, bound>>

-----------------------------------------------------------------------------
\* UpdateStakesWorker, once the validators of its list are there (module
\* Validators).

GetCandidates ==
  /\ stakesAt = "idle" /\ jobUpdateStakes # <<>>
  /\ listHeight' = Head(jobUpdateStakes)
  /\ jobUpdateStakes' = <<>>
  /\ stakesAt' = "look"
  /\ UNCHANGED <<db, loop, tip, event, caches, update, outputs, holding, list, chunk,
                 delegating, bound>>

GetCandidatesFails ==
  /\ stakesAt = "idle" /\ jobUpdateStakes # <<>> /\ faults < MaxFaults
  /\ faults' = faults + 1
  /\ jobUpdateStakes' = <<>>
  /\ UNCHANGED <<db, loop, tip, event, caches, update, outputs, holding, stakesAt,
                 listHeight, list, chunk, delegating, crashed, late, overtaken, missed>>

\* The stakes of an answer that are in a set, appended one by one.
StakesIn(S, answer) ==
  LET found[n \in 0 .. Len(answer)] ==
        IF n = 0 THEN <<>>
        ELSE IF answer[n] \in S THEN Append(found[n - 1], answer[n])
        ELSE found[n - 1]
  IN  found[Len(answer)]

Answer == Elements(StakesOf[listHeight])

\* The list is made of the stakes that were not missed, without those in unknown
\* coins.
ListStakes(M) ==
  /\ list' = StakesIn({s \in Answer \ M : CoinOf[s] \in Known}, StakesOf[listHeight])
  /\ FindIdBySymbol({CoinOf[s] : s \in Answer \ M})
  /\ missed' = M
  /\ chunk' = 0
  /\ stakesAt' = "save"
  /\ UNCHANGED <<db, loop, tip, event, inverse, update, outputs, holding,
                 jobUpdateStakes, listHeight, delegating, crashed, late, overtaken>>

FindStakedCoins ==
  /\ stakesAt = "look"
  /\ ListStakes({})
  /\ UNCHANGED faults

\* FindIdByPkOrCreate or FindIdOrCreate fails, for good or since somebody else creates
\* the same key (module Validators): the validator's stakes, or the owner's, are
\* skipped, and the list goes on without them.
FindStakesFails ==
  /\ stakesAt = "look" /\ faults < MaxFaults
  /\ faults' = faults + 1
  /\ \E M \in (SUBSET Answer) \ {{}} : ListStakes(M)

SaveAllStakes ==
  /\ stakesAt = "save" /\ chunk < ChunksCount(Len(list), StakeChunkSize)
  /\ staked' = [s \in Stake |-> IF s \in Chunk(list, StakeChunkSize, chunk)
                                THEN listHeight ELSE staked[s]]
  /\ chunk' = chunk + 1
  /\ UNCHANGED <<saved, coin, asOf, delegated, held, loop, tip, event, caches,
                 update, outputs, holding, jobUpdateStakes, stakesAt, listHeight,
                 list, delegating, bound>>

StakesInCoin == {CoinOf[s] : s \in Elements(list)} \ {BaseCoin}

\* DeleteStakesNotInListIds, which an empty list makes do nothing; then one
\* goroutine for each coin is started.
DeleteStakesNotInListIds ==
  /\ stakesAt = "save" /\ chunk = ChunksCount(Len(list), StakeChunkSize)
  /\ staked' = [s \in Stake |-> IF list # <<>> /\ s \notin Elements(list)
                                THEN 0 ELSE staked[s]]
  /\ overtaken' = (delegating # {})
  /\ delegating' = delegating \cup {<<c, listHeight>> : c \in StakesInCoin}
  /\ stakesAt' = "reset"
  /\ UNCHANGED <<saved, coin, asOf, delegated, held, loop, tip, event, caches,
                 update, outputs, holding, jobUpdateStakes, listHeight, list, chunk,
                 faults, crashed, late, missed>>

\* Mutant of ResetCoinDelegationNotInListIds: nothing is reset.
ResetNoDelegation ==
  /\ stakesAt = "reset"
  /\ stakesAt' = "idle"
  /\ UNCHANGED <<db, loop, tip, event, caches, update, outputs, holding,
                 jobUpdateStakes, listHeight, list, chunk, delegating, bound>>

\* Without stakes in coins nothing is reset.
ResetCoinDelegationNotInListIds ==
  /\ stakesAt = "reset"
  /\ delegated' = [c \in Coin |-> IF StakesInCoin # {} /\ c \notin StakesInCoin
                                  THEN 0 ELSE delegated[c]]
  /\ stakesAt' = "idle"
  /\ UNCHANGED <<saved, coin, asOf, held, staked, loop, tip, event, caches,
                 update, outputs, holding, jobUpdateStakes, listHeight, list, chunk,
                 delegating, bound>>

\* FindCoinByID and UpdateCoinDelegation pass a deleted coin over.
UpdateCoinDelegation(c, h) ==
  /\ <<c, h>> \in delegating
  /\ delegated' = [delegated EXCEPT ![c] = IF c \in Live THEN h ELSE @]
  /\ delegating' = delegating \ {<<c, h>>}
  /\ UNCHANGED <<saved, coin, asOf, held, staked, loop, tip, event, caches,
                 update, outputs, holding, jobUpdateStakes, stakesAt, listHeight,
                 list, chunk, bound>>

-----------------------------------------------------------------------------
\* Death and restart.

Up == pc # "down"

NoEvent == [h \in Height |-> "none"]

Die ==
  /\ pc' = "down" /\ height' = 0 /\ event' = NoEvent
  /\ cache' = {} /\ inverse' = {}
  /\ jobUpdateCoins' = <<>> /\ jobUpdateCoinsFromMap' = <<>> /\ jobUpdateStakes' = <<>>
  /\ symbols' = <<>> /\ asking' = {} /\ answers' = NoAnswers /\ outputs' = {}
  /\ holding' = [step |-> "idle", at |-> 0, coins |-> {}]
  /\ stakesAt' = "idle" /\ listHeight' = 0 /\ list' = <<>> /\ chunk' = 0
  /\ delegating' = {} /\ overtaken' = FALSE /\ missed' = {}
  /\ UNCHANGED <<db, tip, late>>

Crash ==
  /\ Up /\ faults < MaxFaults
  /\ faults' = faults + 1 /\ crashed' = TRUE
  /\ Die

\* The coins whose failing lookup kills the process: a fee's, a slash's or an
\* output's.
Missing ==
  (IF pc = "transactions" THEN GasCoins(height) \ Known ELSE {})
  \cup (UNION {SlashedIn[h] \ Known : h \in {g \in Height : event[g] = "slashes"}})
  \cup (outputs \ Known)

Panic == Missing # {} /\ Die /\ UNCHANGED <<faults, crashed>>

\* DeleteLastBlockData, which a foreign key may keep from deleting a block that
\* has gone through the loop (module Pipeline).
Restart ==
  /\ ~Up
  /\ \/ saved = 0 /\ UNCHANGED saved
     \/ saved > 0 /\ saved' = saved - 1
     \/ /\ saved > 0 /\ \A c \in CreatedIn[saved] : coin[c] # "none"
        /\ UNCHANGED saved
  /\ pc' = "addresses" /\ height' = saved' + 1
  /\ UNCHANGED <<coin, asOf, delegated, held, staked, tip, event, caches, update,
                 outputs, holding, stakes, bound>>

-----------------------------------------------------------------------------
Init ==
  /\ saved = 0
  /\ coin = [c \in Coin |-> IF c \in GenesisCoins THEN "live" ELSE "none"]
  /\ asOf = NoAnswers /\ delegated = NoAnswers
  /\ held = {} /\ staked = [s \in Stake |-> 0]
  /\ pc = "addresses" /\ height = 1 /\ tip = 0 /\ event = NoEvent
  /\ cache = {} /\ inverse = {}
  /\ jobUpdateCoins = <<>> /\ jobUpdateCoinsFromMap = <<>> /\ jobUpdateStakes = <<>>
  /\ symbols = <<>> /\ asking = {} /\ answers = NoAnswers /\ outputs = {}
  /\ holding = [step |-> "idle", at |-> 0, coins |-> {}]
  /\ stakesAt = "idle" /\ listHeight = 0 /\ list = <<>> /\ chunk = 0
  /\ delegating = {}
  /\ faults = 0 /\ crashed = FALSE /\ late = {} /\ overtaken = FALSE /\ missed = {}

Run ==
  HandOff \/ SaveBlock \/ SendTransactions \/ SendStakesJob \/ CreateNewCoins

BalanceService == GetAddresses \/ UpdateBalances

HandleEventResponse(h) ==
  \/ FindSlashedCoins(h) \/ DeleteByCoinId(h) \/ DeleteBySymbol(h)
  \/ SendSlashedCoins(h)

CoinsFromTxs == CollectSymbols \/ SendSymbols

CoinsFromMap == TakeSymbols \/ (\E c \in Coin : GetCoinFromNode(c)) \/ SaveCoins

UpdateStakes ==
  \/ GetCandidates \/ FindStakedCoins \/ SaveAllStakes \/ DeleteStakesNotInListIds
  \/ ResetCoinDelegationNotInListIds

\* What the goroutines do, and the container.
Step ==
  \/ Run \/ BalanceService
  \/ \E h \in Height : HandleEventResponse(h)
  \/ CoinsFromTxs \/ CoinsFromMap
  \/ \E c \in Coin : SaveTxOutput(c)
  \/ UpdateStakes
  \/ \E c \in Coin, h \in Height : UpdateCoinDelegation(c, h)
  \/ Panic \/ Restart

Next ==
  \/ Step
  \/ \E c \in Coin : GetCoinFails(c)
  \/ GetCandidatesFails \/ FindStakesFails
  \/ Crash

Spec == Init /\ [][Next]_vars

\* Go runs every goroutine that can proceed; the container is restarted.
Fairness ==
  /\ WF_vars(Run) /\ WF_vars(BalanceService)
  /\ \A h \in Height : WF_vars(HandleEventResponse(h))
  /\ WF_vars(CoinsFromTxs) /\ WF_vars(CoinsFromMap) /\ WF_vars(UpdateStakes)
  /\ \A c \in Coin : WF_vars(SaveTxOutput(c))
  /\ \A c \in Coin, h \in Height : WF_vars(UpdateCoinDelegation(c, h))
  /\ WF_vars(Panic) /\ WF_vars(Restart)

FairSpec == Spec /\ Fairness

-----------------------------------------------------------------------------
\* Properties.

TypeOK ==
  /\ saved \in 0 .. MaxHeight
  /\ coin \in [Coin -> {"none", "live", "deleted"}]
  /\ asOf \in [Coin -> 0 .. MaxHeight] /\ delegated \in [Coin -> 0 .. MaxHeight]
  /\ held \subseteq Coin /\ staked \in [Stake -> 0 .. MaxHeight]
  /\ pc \in {"addresses", "save", "transactions", "stakes", "coins", "down"}
  /\ height \in 0 .. MaxHeight + 1 /\ tip \in 0 .. MaxHeight
  /\ event \in [Height -> {"none", "slashes", "balances", "coins", "send"}]
  /\ cache \subseteq Coin /\ inverse \subseteq cache
  /\ jobUpdateCoins \in {<<>>} \cup {<<h>> : h \in Height}
  /\ jobUpdateStakes \in {<<>>} \cup {<<h>> : h \in Height}
  /\ jobUpdateCoinsFromMap \in {<<>>} \cup {<<C>> : C \in SUBSET Coin}
  /\ symbols \in {<<>>} \cup {<<C>> : C \in SUBSET Coin}
  /\ asking \subseteq Coin /\ answers \in [Coin -> 0 .. MaxHeight]
  /\ outputs \subseteq Coin
  /\ holding \in [step : {"idle", "ask", "write"}, at : 0 .. MaxHeight,
                  coins : SUBSET Coin]
  /\ stakesAt \in {"idle", "look", "save", "reset"}
  /\ listHeight \in 0 .. MaxHeight /\ list \in Seq(Stake) /\ chunk \in Nat
  /\ delegating \subseteq Coin \X Height
  /\ faults \in 0 .. MaxFaults /\ crashed \in BOOLEAN
  /\ late \subseteq Coin /\ overtaken \in BOOLEAN /\ missed \subseteq Stake

\* A lookup that kills the process is never one too early: the coin was there,
\* and it was deleted for a block that is now being redone after a crash.  While
\* a process lives its caches know the coins it has deleted.
LookupsFailOnlyAfterCrash ==
  \A c \in Missing : coin[c] = "deleted" /\ crashed

\* A balance outlives its coin only if the block that liquidates the coin names no
\* address: the loop passes such a block without meeting the balance service, which
\* may write the rows of an earlier block after the deletion.  Other blocks wait, and
\* whatever the service had in hand, no row of the deleted coin is left.
NoBalanceOfDeletedCoin ==
  \A c \in held : coin[c] = "deleted" =>
    \E h \in Height \ Addressed : c \in LiquidatedIn[h]

\* Between two lists the stakes are those of the last one: no chunk is missing, no
\* old stake is left.  Left out are stakes whose validator or owner could not be
\* found, stakes in coins that are deleted by then, and stakes in coins that the
\* list's own block created: the loop asks for the list before it stores them, so
\* the worker may look them up too early, and skips them.
StakesCurrent ==
  stakesAt = "idle" /\ list # <<>> =>
    \A s \in Stake :
      /\ staked[s] \in {0, listHeight}
      /\ staked[s] = listHeight <=> s \in Elements(list)
      /\ /\ s \in Answer \ missed
         /\ CoinOf[s] \in (Live \cup {BaseCoin}) \ CreatedIn[listHeight]
         => s \in Elements(list)

\* When a list with stakes in coins is through with its goroutines, no live coin
\* has a delegation from an older list, unless an older goroutine was overtaken.
NoOldDelegation ==
  stakesAt = "idle" /\ StakesInCoin # {} /\ delegating = {} /\ ~overtaken =>
    \A c \in Live : delegated[c] \in {0, listHeight}

\* A coin's columns are of a height where the node had the coin and are never
\* replaced by older ones, whichever of the loop and the coin workers is ahead; but
\* after a crash a block that created coins may be redone, which takes them back.
NeverOlder ==
  [][\A c \in Coin : asOf'[c] # asOf[c] =>
       /\ Alive(c, asOf'[c])
       /\ asOf'[c] < asOf[c] => faults > 0 /\ c \in CreatedIn[asOf'[c]]]_vars

\* A deleted coin comes back only as it was before its liquidation, and in a process
\* that nothing disturbs only by a late answer to the coin workers.
RevivedLate ==
  [][\A c \in Coin : coin[c] = "deleted" /\ coin'[c] # "deleted" =>
       /\ \E h \in Height : c \in LiquidatedIn[h] /\ asOf'[c] < h
       /\ faults = 0 => c \in late']_vars

\* Whenever the events of the blocks so far are through, an undisturbed process has
\* the coins of the node: those that were liquidated are deleted, the others are
\* there, unless an answer of the node from before the liquidation was written after
\* it, which brings the coin back for good.
CoinsMirrorTheNode ==
  faults = 0 /\ (\A h \in Height : event[h] \in {"none", "send"}) =>
    \A c \in Coin \ late : coin[c] = "live" <=> Alive(c, height - 1)

\* CollectSymbols passes a transaction over whose gas coin has no symbol any more
\* when the worker gets to it: its own block or a later one has liquidated the coin.
PassedOver(t, h) == \E g \in h .. height - 1 : GasCoin[t] \in LiquidatedIn[g]

Refreshed(h) ==
  (UNION {{GasCoin[t]} \cup TradedBy[t] : t \in {u \in TxsOf[h] : ~PassedOver(u, h)}})
    \ {BaseCoin}

\* Whenever the coin workers have nothing in hand, each coin is as the node had it at
\* the coin's last trade or fee or later, unless the node has it no more: between the
\* two channels no update is lost.
NoUpdateIsLost ==
  /\ jobUpdateCoins = <<>> /\ symbols = <<>> /\ jobUpdateCoinsFromMap = <<>>
  /\ asking = {} /\ Answered = {}
  /\ faults = 0
  => \A h \in 1 .. height - 1 : \A c \in Refreshed(h) : asOf[c] >= h \/ ~Alive(c, tip)

\* Crashes do not stop the service for good: all blocks are saved in the end.
EventuallyFollowed == <>[](saved = MaxHeight)
=============================================================================
