---------------------------- MODULE MicroBatches ----------------------------
(***************************************************************************)
(* A training step across the data-parallel ranks with balance_batch and   *)
(* use_dynamic_bsz: the driver reorders the batch so that the ranks get    *)
(* nearly the same work (_balance_batch of verl/trainer/ppo/ray_trainer.py,*)
(* called by the DAPO trainer), and every rank cuts what it gets into      *)
(* micro-batches (compute_log_prob and update_policy of                    *)
(* verl/workers/actor/dp_actor.py on verl/utils/seqlen_balancing.py).      *)
(*                                                                         *)
(* The forward pass of a sharded model is a collective operation, and so   *)
(* are the all-reduce of the number of micro-batches and the optimizer     *)
(* step: a rank that comes to one waits until every rank has come to the   *)
(* same one.  A rank's output for a row is represented by the row.         *)
(*                                                                         *)
(* A definition called a variant is a wrong version of the one after it.   *)
(***************************************************************************)
EXTENDS SequenceBalancing

CONSTANTS
    Ranks,
    RowsPerRank,
    Lengths,                \* the lengths that a row may have
    max_token_len,
    ppo_mini_batch_size     \* of a rank

Rows == 1 .. Cardinality(Ranks) * RowsPerRank

ASSUME MicroBatchesAssumption ==
    /\ IsFiniteSet(Ranks) /\ Ranks # {}
    /\ RowsPerRank \in Nat \ {0}
    /\ Lengths \subseteq 1 .. max_token_len
    /\ max_token_len \in Nat
    /\ ppo_mini_batch_size \in Nat \ {0}

VARIABLES
    seqlen,            \* of each row
    phase,             \* what the driver has asked the ranks for
    rows,              \* the rows dispatched to each rank, in order
    pc, tasks,         \* of each rank: where it is, the batches it has still to work on
    num_micro_batches, \* of each rank, for its current batch
    batch_idx_list,    \* its micro-batches, each a list of positions in the batch
    next,              \* the number of the one that comes next
    outputs,           \* the outputs for the batch so far
    log_probs          \* what the ranks have returned to the driver

batchVars == << num_micro_batches, batch_idx_list, next, outputs >>
vars == << seqlen, phase, rows, pc, tasks, batchVars, log_probs >>

workload == [row \in Rows |-> calculate_workload(seqlen[row])]

Init ==
    /\ seqlen \in [Rows -> Lengths]
    /\ phase = "balance"
    /\ rows = [r \in Ranks |-> << >>]
    /\ pc = [r \in Ranks |-> "idle"]
    /\ tasks = [r \in Ranks |-> << >>]
    /\ num_micro_batches = [r \in Ranks |-> 0]
    /\ batch_idx_list = [r \in Ranks |-> << >>]
    /\ next = [r \in Ranks |-> 1]
    /\ outputs = [r \in Ranks |-> << >>]
    /\ log_probs = [r \in Ranks |-> << >>]

-----------------------------------------------------------------------------
(* The driver.                                                             *)

RankSeq == SetToSeq(Ranks)

\* _balance_batch, and compute_log_prob dispatches the reordered batch in equal parts.
BalanceBatch ==
    /\ phase = "balance"
    /\ phase' = "log_prob"
    /\ \E w \in {workload} : \E partitions \in {BalancedPartitions(w, Rows, Len(RankSeq), TRUE)} :
         rows' = [r \in Ranks |->
                    OrderedPartition(w, partitions[CHOOSE i \in DOMAIN RankSeq : RankSeq[i] = r])]
    /\ tasks' = [r \in Ranks |-> << rows'[r] >>]
    /\ UNCHANGED << seqlen, pc, batchVars, log_probs >>

\* data.split(ppo_mini_batch_size); the last one may be smaller.
MiniBatches(batch) ==
    [i \in 1 .. ceildiv(Len(batch), ppo_mini_batch_size) |->
        SubSeq(batch, (i - 1) * ppo_mini_batch_size + 1,
               IF i * ppo_mini_batch_size < Len(batch) THEN i * ppo_mini_batch_size ELSE Len(batch))]

AllReturned == \A r \in Ranks : pc[r] = "idle" /\ tasks[r] = << >>

\* The log probabilities are there: update_policy.
UpdateActor ==
    /\ phase = "log_prob" /\ AllReturned
    /\ phase' = "update"
    /\ tasks' = [r \in Ranks |-> MiniBatches(rows[r])]
    /\ UNCHANGED << seqlen, rows, pc, batchVars, log_probs >>

Finish ==
    /\ phase = "update" /\ AllReturned
    /\ phase' = "done"
    /\ UNCHANGED << seqlen, rows, pc, tasks, batchVars, log_probs >>

-----------------------------------------------------------------------------
(* rearrange_micro_batches                                                 *)

Goes(r, to) == pc' = [pc EXCEPT ![r] = to]
AllWaitFor(collective) == \A r \in Ranks : pc[r] = collective
AllGo(to) == pc' = [r \in Ranks |-> to]

Tokens(batch) == SumOf(seqlen, batch)

\* Variant: rounds up what needs no rounding, with nothing to stop it.
NumRoundedUp(batch) == Tokens(batch) \div max_token_len + 1

\* As many micro-batches as the tokens need, and not more than there are rows.
NumMicroBatches(batch) ==
    LET needed == ceildiv(Tokens(batch), max_token_len)
    IN  IF needed < Len(batch) THEN needed ELSE Len(batch)

CountMicroBatches(r) ==
    /\ pc[r] = "idle" /\ tasks[r] # << >>
    /\ num_micro_batches' = [num_micro_batches EXCEPT ![r] = NumMicroBatches(Head(tasks[r]))]
    /\ outputs' = [outputs EXCEPT ![r] = << >>]
    /\ Goes(r, "all_reduce")
    /\ UNCHANGED << seqlen, phase, rows, tasks, batch_idx_list, next, log_probs >>

\* The heaviest micro-batch first, of positions with the workloads w.  Position 1 is the
\* code's 0, its key for one that is empty.
HeaviestFirst(w, partitions) ==
    Descending(partitions,
               [i \in DOMAIN partitions |-> SumOf(w, partitions[i])],
               [i \in DOMAIN partitions |-> IF partitions[i] = << >> THEN 1 ELSE partitions[i][1]])

\* The positions of a batch in num micro-batches, sorted by their workload.
Partitioned(batch, num) ==
    LET w == [i \in DOMAIN batch |-> workload[batch[i]]] IN
    CHOOSE list \in { LightAtBothEnds(HeaviestFirst(w, partitions)) :
                        partitions \in {BalancedPartitions(w, DOMAIN batch, num, FALSE)} } : TRUE

\* Variant: every rank goes on with its own number.
OwnNumber(r) == num_micro_batches[r]

\* all_reduce with MAX.
AgreedNumber(r) == Max({num_micro_batches[other] : other \in Ranks})

AllReduce ==
    /\ AllWaitFor("all_reduce")
    /\ num_micro_batches' = [r \in Ranks |-> AgreedNumber(r)]
    /\ batch_idx_list' = [r \in Ranks |-> Partitioned(Head(tasks[r]), AgreedNumber(r))]
    /\ next' = [r \in Ranks |-> 1]
    /\ AllGo("gather")
    /\ UNCHANGED << seqlen, phase, rows, tasks, outputs, log_probs >>

-----------------------------------------------------------------------------
(* The loop over the micro-batches.                                        *)

GatherParameters ==
    /\ AllWaitFor("gather")
    /\ AllGo("forward")
    /\ UNCHANGED << seqlen, phase, rows, tasks, batchVars, log_probs >>

\* index_select_tensor_dict
MicroBatch(r, i) == [j \in DOMAIN batch_idx_list[r][i] |-> Head(tasks[r])[batch_idx_list[r][i][j]]]

\* Variant: the loop leaves the last micro-batch out.
LastButOne(r) == next[r] >= num_micro_batches[r] - 1

LastMicroBatch(r) == next[r] = num_micro_batches[r]

\* _forward_micro_batch, and the backward pass in update_policy.
Forward(r) ==
    /\ pc[r] = "forward"
    /\ outputs' = [outputs EXCEPT ![r] = @ \o MicroBatch(r, next[r])]
    /\ next' = [next EXCEPT ![r] = @ + 1]
    /\ Goes(r, IF ~LastMicroBatch(r) THEN "gather"
               ELSE IF phase = "log_prob" THEN "restore" ELSE "step")
    /\ UNCHANGED << seqlen, phase, rows, tasks, num_micro_batches, batch_idx_list, log_probs >>

\* compute_log_prob returns the outputs in the order of the rows.
RestoreOrder(r) ==
    /\ pc[r] = "restore"
    /\ log_probs' = [log_probs EXCEPT ![r] = Restored(outputs[r], batch_idx_list[r])]
    /\ tasks' = [tasks EXCEPT ![r] = Tail(@)]
    /\ Goes(r, "idle")
    /\ UNCHANGED << seqlen, phase, rows, batchVars >>

OptimizerStep ==
    /\ AllWaitFor("step")
    /\ tasks' = [r \in Ranks |-> Tail(tasks[r])]
    /\ AllGo("idle")
    /\ UNCHANGED << seqlen, phase, rows, batchVars, log_probs >>

Next ==
    \/ BalanceBatch
    \/ UpdateActor
    \/ Finish
    \/ AllReduce
    \/ GatherParameters
    \/ OptimizerStep
    \/ \E r \in Ranks : CountMicroBatches(r) \/ Forward(r) \/ RestoreOrder(r)

Spec == Init /\ [][Next]_vars

\* Every rank runs on, and a collective operation that all ranks have come to completes.
FairSpec == Spec /\ WF_vars(Next)

-----------------------------------------------------------------------------
(* Type invariant.                                                         *)

\* Every variable has its type.
TypeOK ==
    /\ seqlen \in [Rows -> Lengths]
    /\ phase \in {"balance", "log_prob", "update", "done"}
    /\ rows \in [Ranks -> Seq(Rows)]
    /\ pc \in [Ranks -> {"idle", "all_reduce", "gather", "forward", "restore", "step"}]
    /\ tasks \in [Ranks -> Seq(Seq(Rows))]
    /\ num_micro_batches \in [Ranks -> 0 .. RowsPerRank]
    /\ batch_idx_list \in [Ranks -> Seq(Seq(1 .. RowsPerRank))]
    /\ next \in [Ranks -> 1 .. RowsPerRank + 1]
    /\ outputs \in [Ranks -> Seq(Rows)]
    /\ log_probs \in [Ranks -> Seq(Rows)]

(* Safety.                                                                 *)

WorkOf(list) == SumOf(workload, list)

Heaviest(items) == Max({workload[row] : row \in items})
Lightest(items) == Min({workload[row] : row \in items})

InLoop(r) == pc[r] \in {"gather", "forward", "restore", "step"}

\* The work of two ranks differs by no more than that of two rows, and the work of two
\* micro-batches of a rank by no more than that of its longest row.
WorkIsBalanced ==
    /\ phase # "balance" =>
         \A r1, r2 \in Ranks :
            /\ Len(rows[r1]) = Len(rows[r2])
            /\ WorkOf(rows[r1]) - WorkOf(rows[r2]) <= Heaviest(Rows) - Lightest(Rows)
    /\ \A r \in Ranks : InLoop(r) =>
         \A i, j \in DOMAIN batch_idx_list[r] :
            WorkOf(MicroBatch(r, i)) - WorkOf(MicroBatch(r, j))
                <= Heaviest(ToSet(Head(tasks[r])))

\* What a rank has computed and what it has still to compute are the rows of its batch,
\* each of them once, in micro-batches that are not empty.
EveryRowOnce ==
    \A r \in Ranks : InLoop(r) =>
        LET left == [i \in 1 .. Len(batch_idx_list[r]) + 1 - next[r] |->
                        MicroBatch(r, next[r] + i - 1)]
            all == outputs[r] \o FlattenSeq(left)
        IN  /\ \A i \in DOMAIN left : left[i] # << >>
            /\ Len(all) = Len(Head(tasks[r]))
            /\ ToSet(all) = ToSet(Head(tasks[r]))
            /\ pc[r] \in {"restore", "step"} => left = << >>

\* The driver gets for every row of its batch the log probability of that row.
LogProbsInOrder == phase \in {"update", "done"} => log_probs = rows

(* Liveness.                                                               *)

\* No rank waits in a collective operation that another has left out: the step ends.
StepEnds == <>(phase = "done")
=============================================================================
