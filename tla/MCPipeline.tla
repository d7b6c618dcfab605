----------------------------- MODULE MCPipeline -----------------------------
(***************************************************************************)
(* Small chains for the pipeline.  Each run takes one of them: the path of *)
(* transactions, the path of events, coins that are created and used.      *)
(***************************************************************************)
EXTENDS Pipeline

None == <<>>
NoneOf(H) == [h \in H |-> None]

\* Transactions.  Block 1 has no validators; block 2 makes two chunks, the first
\* with a failed transaction.
TxTx       == {"a", "b", "c", "d"}
TxTxsOf    == <<None, <<"a", "b", "c">>, <<"d">>>>
TxNone     == NoneOf(1 .. 3)
TxOutCoins == [t \in TxTx |-> IF t \in {"a", "d"} THEN {"NOAH"} ELSE {}]
TxGasCoin  == [t \in TxTx |-> "NOAH"]
TxCreates  == [t \in TxTx |-> "NoCoin"]
TxTimeOf   == <<1, 1, 1>>
NoSlashCoin == [s \in {} |-> "NOAH"]
NoneLiquidated == <<{}, {}, {}>>
NoRecipient == [r \in {} |-> "v"]

\* Coins.  Block 2 creates A; block 3 pays its fees in A, sends it and creates B.
CoTx       == {"a", "b", "c"}
CoTxsOf    == <<None, <<"a">>, <<"b", "c">>>>
CoOutCoins == [t \in CoTx |-> IF t = "b" THEN {"A"} ELSE {}]
CoGasCoin  == [t \in CoTx |-> IF t = "a" THEN "NOAH" ELSE "A"]
CoCreates  == [t \in CoTx |-> CASE t = "a" -> "A" [] t = "c" -> "B" [] OTHER -> "NoCoin"]

\* Events and coins together.  A reward in each of the first two blocks; block 3
\* pays its fee in a coin of block 2, sends it and liquidates it.
MixTx          == {"a", "b"}
MixTxsOf       == <<None, <<"a">>, <<"b">>>>
MixOutCoins    == [t \in MixTx |-> IF t = "b" THEN {"A"} ELSE {}]
MixGasCoin     == [t \in MixTx |-> IF t = "b" THEN "A" ELSE "NOAH"]
MixCreates     == [t \in MixTx |-> IF t = "a" THEN "A" ELSE "NoCoin"]
MixReward      == {"r1", "r2"}
MixRewardsOf   == <<<<"r1">>, <<"r2">>, None>>
MixLiquidatedIn == <<{}, {}, {"A"}>>
MixRecipientOf == [r \in MixReward |-> "v"]

\* Everything together, for liveness.  Block 1 creates A, block 2 sends it, slashes
\* a stake in it and liquidates it.
AllTx         == {"a", "b"}
AllTxsOf      == <<<<"a">>, <<"b">>>>
AllOutCoins   == [t \in AllTx |-> IF t = "b" THEN {"A"} ELSE {}]
AllCreates    == [t \in AllTx |-> IF t = "a" THEN "A" ELSE "NoCoin"]
AllGasCoin    == [t \in AllTx |-> "NOAH"]
AllRewardsOf  == <<None, <<"r1", "r2">>>>
AllReward     == {"r1", "r2"}
AllSlashesOf  == <<None, <<"s1">>>>
AllSlashCoin  == [s \in {"s1"} |-> "A"]
AllLiquidatedIn == <<{}, {"A"}>>
AllTimeOf     == <<1, 1>>
AllRecipientOf == [r \in AllReward |-> "v"]

OneWorker  == [s \in Stage |-> 1]
TwoWorkers == [s \in Stage |-> 2]
=============================================================================
