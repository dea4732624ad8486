---------------------------- MODULE EpochSampler ----------------------------
(***************************************************************************)
(* What a sampler over a dataset promises: it goes through the dataset in  *)
(* passes, and every pass offers every row exactly once, in any order.     *)
(* Whether an offered row is used is the caller's affair.  A checkpoint    *)
(* keeps the place in the pass.                                            *)
(***************************************************************************)
CONSTANTS Rows, NoRow

VARIABLES
    due,     \* the rows this pass has not offered yet
    offer,   \* the row on offer, if any
    kept     \* due at the last checkpoint

vars == << due, offer, kept >>

Init ==
    /\ due = {}
    /\ offer = NoRow
    /\ kept = {}

NewPass ==
    /\ due = {}
    /\ due' = Rows
    /\ UNCHANGED << offer, kept >>

Offer(r) ==
    /\ r \in due
    /\ due' = due \ {r}
    /\ offer' = r
    /\ UNCHANGED kept

Withdraw ==
    /\ offer' = NoRow
    /\ UNCHANGED << due, kept >>

\* The caller may give up the rest of a pass between two offers.
Abandon ==
    /\ offer = NoRow
    /\ due' = {}
    /\ UNCHANGED << offer, kept >>

Checkpoint ==
    /\ kept' = due
    /\ UNCHANGED << due, offer >>

Resume ==
    /\ due' = kept
    /\ offer' = NoRow
    /\ UNCHANGED kept

Next ==
    \/ NewPass
    \/ \E r \in Rows : Offer(r)
    \/ Withdraw
    \/ Abandon
    \/ Checkpoint
    \/ Resume

Spec == Init /\ [][Next]_vars

=============================================================================
