----------------------------- MODULE MCBalances -----------------------------
(***************************************************************************)
(* Three addresses, the first in all blocks: jobs of two addresses and of  *)
(* one; balances that appear, change and go away; a coin that the second   *)
(* block creates.                                                          *)
(***************************************************************************)
EXTENDS Balances

MCAddressesOf == <<{"a", "b", "c"}, {"a"}, {"a", "b", "c"}>>
MCCoinsOf     == <<{}, {"A"}, {}>>

Holds(noah, a) == [NOAH |-> noah, A |-> a]

MCBalanceAt ==
  <<[a |-> Holds(1, 0), b |-> Holds(2, 0), c |-> Holds(0, 0)],
    [a |-> Holds(2, 1), b |-> Holds(2, 0), c |-> Holds(0, 0)],
    [a |-> Holds(0, 1), b |-> Holds(1, 1), c |-> Holds(1, 0)]>>
=============================================================================
