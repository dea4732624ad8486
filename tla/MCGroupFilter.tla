---------------------------- MODULE MCGroupFilter ----------------------------
(***************************************************************************)
(* The generation loop for TLC.  The rows of the dataset are told apart    *)
(* only by equality.                                                       *)
(***************************************************************************)
EXTENDS GroupFilter, TLC

Symmetry == Permutations(Rows)
=============================================================================
