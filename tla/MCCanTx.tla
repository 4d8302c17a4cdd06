-------------------------------- MODULE MCCanTx --------------------------------
(***************************************************************************)
(* Instances of CanTx for TLC.                                              *)
(***************************************************************************)
EXTENDS CanTx, TLC

ThreadSymmetry == Permutations(Threads \ MayBlock)
===============================================================================
