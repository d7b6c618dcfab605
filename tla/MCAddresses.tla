---------------------------- MODULE MCAddresses ----------------------------
(***************************************************************************)
(* Two blocks that share an address, candidates that share addresses with  *)
(* both, chunks of one address and two workers.                            *)
(***************************************************************************)
EXTENDS Addresses

MCAddressesOf   == <<{"a", "b"}, {"b", "c"}>>
MCCandidateSets == {{"a", "c"}}
=============================================================================
