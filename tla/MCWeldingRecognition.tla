------------------------- MODULE MCWeldingRecognition -------------------------
(***************************************************************************)
(* WeldingRecognition for TLC: the calls of Handle are interchangeable.    *)
(* The run checks safety only, for which the reduction is sound.           *)
(***************************************************************************)
EXTENDS WeldingRecognition, TLC

Symmetry == Permutations(Calls)
=============================================================================
