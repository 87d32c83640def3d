---------------------------- MODULE MCRfidHandler ----------------------------
(***************************************************************************)
(* RfidHandler for model checking: calls are alike, and so are cards.      *)
(***************************************************************************)
EXTENDS RfidHandler, TLC

Symmetry == Permutations(Calls) \cup Permutations(Cards)
=============================================================================
