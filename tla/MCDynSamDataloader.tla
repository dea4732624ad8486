------------------------- MODULE MCDynSamDataloader -------------------------
(***************************************************************************)
(* Model-checking instances of the dynamic-sampling dataloader: each       *)
(* strategy, with and without shuffling and the reset of the queue.        *)
(***************************************************************************)
EXTENDS DynSamDataloader

EachStrategy ==
    {[strategy |-> "replay", shuffle |-> TRUE,  reset_queue |-> FALSE],
     [strategy |-> "filter", shuffle |-> FALSE, reset_queue |-> TRUE],
     [strategy |-> "none",   shuffle |-> FALSE, reset_queue |-> FALSE]}

FilterOnly == {[strategy |-> "filter", shuffle |-> FALSE, reset_queue |-> FALSE]}
=============================================================================
