--------------------------- MODULE DurableTraining ---------------------------
(***************************************************************************)
(* What a resumable training run promises, whatever its files look like:   *)
(* progress made in memory becomes durable all at once, and a restart      *)
(* continues from the progress that became durable last.                   *)
(*                                                                         *)
(* Progress has two sides that belong together: the updates of the model   *)
(* and the batches drawn from the data.  The name of the durable progress  *)
(* is rewritten in place: a process that dies in the middle leaves nothing *)
(* to continue from.                                                       *)
(***************************************************************************)
EXTENDS Integers

VARIABLES
    live,       \* the progress of the running process
    durable     \* the progress a restart finds

vars == << live, durable >>

Progress == [updates : Nat, drawn : Nat]
NoProgress == [updates |-> 0, drawn |-> 0]
Nothing == [updates |-> -1, drawn |-> -1]

Init == live = NoProgress /\ durable = NoProgress

Draw ==
    /\ live \in Progress
    /\ live' = [live EXCEPT !.drawn = @ + 1]
    /\ UNCHANGED durable

Update ==
    /\ live \in Progress
    /\ live' = [live EXCEPT !.updates = @ + 1]
    /\ UNCHANGED durable

BeginCommit ==
    /\ live \in Progress
    /\ durable' = Nothing
    /\ UNCHANGED live

Commit ==
    /\ live \in Progress
    /\ durable = Nothing
    /\ durable' = live
    /\ UNCHANGED live

Recover ==
    /\ live' = durable
    /\ UNCHANGED durable

Next == Draw \/ Update \/ BeginCommit \/ Commit \/ Recover

Spec == Init /\ [][Next]_vars

=============================================================================
