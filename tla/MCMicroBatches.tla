---------------------------- MODULE MCMicroBatches ----------------------------
(***************************************************************************)
(* The micro-batches for TLC: two ranks with three rows each, of every     *)
(* combination of lengths, and a last mini-batch of one row.               *)
(***************************************************************************)
EXTENDS MicroBatches
=============================================================================
