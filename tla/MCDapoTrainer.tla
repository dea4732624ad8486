---------------------------- MODULE MCDapoTrainer ----------------------------
(***************************************************************************)
(* The trainer's checkpoints and resumes for TLC: the configurations of a  *)
(* job, chosen in the .cfg by CONSTANT Configs <- ...                      *)
(***************************************************************************)
EXTENDS DapoTrainer

Config(backend, async_save, save_freq, max_to_keep) ==
    [backend |-> backend, async_save |-> async_save,
     save_freq |-> save_freq, max_to_keep |-> max_to_keep]

\* Megatron saving at every step, FSDP at every second, and Megatron saving the last
\* step in the background.
KeepingTwo ==
    {Config("megatron", FALSE, 1, 2), Config("fsdp", FALSE, 2, 2),
     Config("megatron", TRUE, 3, 2)}

KeepingOne == {Config("megatron", FALSE, 1, 1)}

SavingSeldom == {Config("megatron", FALSE, 2, 2)}
=============================================================================
