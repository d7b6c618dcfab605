------------------------------- MODULE Seeding -------------------------------
(***************************************************************************)
(* What the Extender promises to the readers of its database, without      *)
(* workers, channels or processes: the blocks of the chain are there       *)
(* without gaps, each row that a block gives appears at most once and only *)
(* while its block is there, rows arrive in any order and in groups, and   *)
(* nothing is ever taken back but the last block with everything it gave.  *)
(***************************************************************************)
EXTENDS Integers

CONSTANTS MaxHeight, Table, Item,
          Due(_, _)   \* Due(s, h): the items block h gives to table s

VARIABLES last,       \* the blocks 1 .. last are in the database
          rows        \* rows[s][i]: how often item i is in table s

Given(s, i, n) == \E h \in 1 .. n : i \in Due(s, h)

Init == last = 0 /\ rows = [s \in Table |-> [i \in Item |-> 0]]

AppendBlock == last < MaxHeight /\ last' = last + 1 /\ UNCHANGED rows

StoreRows ==
  /\ rows' \in [Table -> [Item -> {0, 1}]]
  /\ \A s \in Table : \A i \in Item :
       \/ rows'[s][i] = rows[s][i]
       \/ rows[s][i] = 0 /\ rows'[s][i] = 1 /\ Given(s, i, last)
  /\ UNCHANGED last

DropLastBlock ==
  /\ last > 0 /\ last' = last - 1
  /\ rows' = [s \in Table |->
                [i \in Item |-> IF i \in Due(s, last) THEN 0 ELSE rows[s][i]]]

Next == AppendBlock \/ StoreRows \/ DropLastBlock

Spec == Init /\ [][Next]_<<last, rows>>
=============================================================================
