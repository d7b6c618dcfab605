------------------------------- MODULE MCCoins -------------------------------
(***************************************************************************)
(* Two chains of four blocks.                                              *)
(*                                                                         *)
(* The first (MC...) is that of the run updates.  Block 2 creates C;       *)
(* block 3 liquidates A while addresses it names hold A, and block 4,      *)
(* which names no address, liquidates C: the loop does not wait there, so  *)
(* rows in C may be written late, and t2 of block 3, which pays its fee in *)
(* C, may be passed over with the coin B that it trades.  Stakes are asked *)
(* for in blocks 2 and 4.                                                  *)
(*                                                                         *)
(* The second (Stuck...) is that of the run stuck: t2 pays its fee in A,   *)
(* which its own block 3 liquidates.                                       *)
(***************************************************************************)
EXTENDS Coins

MCCreatedIn    == <<{}, {"C"}, {}, {}>>
MCLiquidatedIn == <<{}, {}, {"A"}, {"C"}>>
MCSlashedIn    == <<{}, {}, {"A"}, {}>>
MCTxsOf        == <<{}, {"t1"}, {"t2"}, {}>>
MCGasCoin      == [t \in Tx |-> CASE t = "t1" -> "B" [] t = "t2" -> "C"]
MCTradedBy     == [t \in Tx |-> IF t = "t2" THEN {"B"} ELSE {}]
MCSentBy       == [t \in Tx |-> IF t = "t2" THEN {"A"} ELSE {}]
MCHeldIn       == <<{}, {}, {"A", "C"}, {}>>
MCCoinOf       == [s \in Stake |-> CASE s = "s1" -> "B" [] s = "s3" -> "C" [] OTHER -> "NOAH"]
MCStakesOf     == <<<<>>, <<"s3">>, <<>>, <<"s1", "s2">>>>

StuckCreatedIn    == <<{"B"}, {}, {}, {"C"}>>
StuckLiquidatedIn == <<{}, {}, {"A"}, {}>>
StuckSlashedIn    == <<{}, {}, {"A"}, {}>>
StuckTxsOf        == <<{}, {"t1"}, {"t2"}, {"t3"}>>
StuckGasCoin      == [t \in Tx |-> CASE t = "t1" -> "NOAH" [] t = "t2" -> "A" [] t = "t3" -> "B"]
StuckTradedBy     == [t \in Tx |-> IF t = "t1" THEN {"A"} ELSE {}]
StuckSentBy       == [t \in Tx |-> IF t = "t2" THEN {"A"} ELSE {}]
StuckHeldIn       == <<{}, {"A"}, {"A"}, {"B"}>>
StuckCoinOf       == [s \in Stake |-> CASE s = "s1" -> "A" [] s = "s4" -> "C" [] OTHER -> "NOAH"]
StuckStakesOf     == <<<<>>, <<"s1", "s2">>, <<>>, <<"s4", "s2", "s3">>>>
=============================================================================
