------------------------------ MODULE MCCanFilter ------------------------------
(***************************************************************************)
(* Instances of CanFilter for TLC.                                          *)
(***************************************************************************)
EXTENDS CanFilter, TLC

ClientSymmetry == Permutations(Clients)
DataFrames == {FALSE}
AllFrames == BOOLEAN
Overlapping == {{ZeroId}, Ids}
===============================================================================
