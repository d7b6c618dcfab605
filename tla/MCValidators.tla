---------------------------- MODULE MCValidators ----------------------------
(***************************************************************************)
(* "b" becomes a candidate at height 2, "c" at height 3, and both are      *)
(* validators of block 4, when "a" is no longer a candidate.  Height 3     *)
(* updates stakes, the others validators, so that Run and both workers can *)
(* be at work on "b" and "c" at once.  "b" declares itself in block 2, and *)
(* block 3 has a delegation to it, so that two workers of transactions can *)
(* be at work on it too.                                                   *)
(***************************************************************************)
EXTENDS Validators

MCValidatorsOf == <<{}, {"a"}, {"a"}, {"b", "c"}>>
MCCandidatesOf == <<<<>>, <<"a", "b">>, <<"a", "b", "c">>, <<"c", "b">>>>
MCTxsOf        == <<{}, {"t1"}, {"t2"}, {}>>
MCNames        == [t \in {"t1", "t2"} |-> "b"]
MCReadyOf      == <<{}, {"a"}, {"a", "b"}, {"b", "c"}>>
=============================================================================
