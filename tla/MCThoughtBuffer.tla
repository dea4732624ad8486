--------------------------- MODULE MCThoughtBuffer ---------------------------
(***************************************************************************)
(* The thought buffer for TLC.  Prompts, thoughts, actions and funcs are   *)
(* told apart only by equality, so TLC may take them up to renaming;       *)
(* Unhashable stays out of the renaming.                                   *)
(***************************************************************************)
EXTENDS ThoughtBuffer, TLC

Symmetry == Permutations(Uids) \cup Permutations(Thoughts)
                \cup Permutations(Actions \ Unhashable)
=============================================================================
