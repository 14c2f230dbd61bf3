-------------------------- MODULE MCHedgedRequest --------------------------
(***************************************************************************)
(* Instances of HedgedRequest for TLC.                                     *)
(***************************************************************************)
EXTENDS HedgedRequest, TLC

RequestSymmetry == Permutations(Requests)
=============================================================================
