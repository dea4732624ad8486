----------------------------- MODULE MCRewardLoop -----------------------------
(***************************************************************************)
(* The reward loop for TLC: two requests a second and no limit of tokens,  *)
(* or one request a second, each for the tokens of a second and a half.    *)
(***************************************************************************)
EXTENDS RewardLoop

Configured ==
    { [rpm |-> 1, tpm |-> 0], [rpm |-> 2, tpm |-> 3] }
=============================================================================
