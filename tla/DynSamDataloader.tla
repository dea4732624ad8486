-------------------------- MODULE DynSamDataloader --------------------------
(***************************************************************************)
(* The dynamic-sampling dataloader of the UI-MOPD trainer                  *)
(* (verl/ui_mopd/dataset/dynsam_dataloader.py).                            *)
(*                                                                         *)
(* The trainer calls sample(batch_size), rolls every sampled prompt out    *)
(* and reports with feedback() the pass rate of each prompt.  The loader   *)
(* serves the dataset from a queue of row indices which it refills with    *)
(* all rows when it runs empty; rows that were solved completely are       *)
(* served again only with a decaying probability ("replay") or never       *)
(* ("filter").  Its whole state is written to data.pt by the trainer and   *)
(* read back by a restarted process.                                       *)
(*                                                                         *)
(* sample() is one loop in the code; here every turn of the loop is a      *)
(* step, so that its termination can be stated.  A pass rate is the number *)
(* of correct rollouts out of Rollouts.  index2replay_ratio[i] is          *)
(* replay_decay_factor ^ k, floored at replay_min_ratio: the model keeps   *)
(* the exponent k, capped at MaxDecay, the exponent of the floor.          *)
(*                                                                         *)
(* A definition called a variant is a wrong version of the one after it:   *)
(* it shows which property would notice the fault.                         *)
(***************************************************************************)
EXTENDS Integers, Sequences, FiniteSets, Functions

CONSTANTS
    DatasetLen,   \* len(self.dataset)
    BatchSize,    \* data.gen_batch_size, the argument of sample
    Configs,      \* the settings a job may be started with
    Rollouts,     \* rollouts per prompt, the denominator of a pass rate
    MaxDecay,     \* replay_decay_factor ^ MaxDecay = replay_min_ratio
    HistoryKept,  \* bound: how many of the latest pass rates are kept, but three for "filter"
    ZeroCap,      \* bound: the count of all-wrong samples stops here
    MaxStep,      \* bound: add_step is called at most so often
    MaxRestarts   \* bound: the process restarts at most so often

ASSUME LoaderAssumption ==
    /\ DatasetLen \in Nat \ {0}
    /\ BatchSize \in Nat \ {0}
    /\ Configs \subseteq [strategy : {"replay", "filter", "none"},
                         shuffle : BOOLEAN, reset_queue : BOOLEAN]
    /\ Rollouts \in Nat \ {0}
    /\ MaxDecay \in Nat \ {0}
    /\ HistoryKept \in Nat \ {0}
    /\ ZeroCap \in Nat \ {0}
    /\ MaxStep \in Nat
    /\ MaxRestarts \in Nat

Indices == 0 .. DatasetLen - 1
NoIndex == -1
Passrates == 0 .. Rollouts

VARIABLES
    config,              \* the settings of this job, the same after every restart
    index2passrate,      \* the latest pass rates of each row, oldest first
    queue,               \* the rows still to be offered
    step,
    passrate1_set,       \* rows solved completely when last sampled
    passrate0_set,       \* how often in a row each row was all wrong, 0 if absent
    index2replay_ratio,  \* the exponent of the replay ratio
    phase,               \* where the caller is: idle, in sample, holding a batch
    filter_set,          \* local of sample
    data_index,          \* local of sample: the rows accepted so far
    index,               \* local of sample: the row taken in this turn
    saved,               \* data.pt: the state dict of the last save, if any
    restarts

persisted == << index2passrate, queue, step, passrate1_set, passrate0_set,
                index2replay_ratio >>
locals == << phase, filter_set, data_index, index >>
vars == << config, persisted, locals, saved, restarts >>

Strategy == config.strategy         \* passrate1_strategy
Shuffle == config.shuffle           \* data.shuffle
ResetQueue == config.reset_queue    \* dynamic_sampling.reset_queue

-----------------------------------------------------------------------------
(* The state of the constructor, and the state dict made of it.            *)

InitialState ==
    [index2passrate     |-> [i \in Indices |-> << >>],
     queue              |-> << >>,
     step               |-> 0,
     passrate1_set      |-> {},
     passrate0_set      |-> [i \in Indices |-> 0],
     index2replay_ratio |-> [i \in Indices |-> 0]]

NoCheckpoint == [present |-> FALSE, state |-> InitialState]

state_dict ==
    [index2passrate     |-> index2passrate,
     queue              |-> queue,
     step               |-> step,
     passrate1_set      |-> passrate1_set,
     passrate0_set      |-> passrate0_set,
     index2replay_ratio |-> index2replay_ratio]

Init ==
    /\ config \in Configs
    /\ index2passrate = InitialState.index2passrate
    /\ queue = << >>
    /\ step = 0
    /\ passrate1_set = {}
    /\ passrate0_set = InitialState.passrate0_set
    /\ index2replay_ratio = InitialState.index2replay_ratio
    /\ phase = "idle"
    /\ filter_set = {}
    /\ data_index = << >>
    /\ index = NoIndex
    /\ saved = NoCheckpoint
    /\ restarts = 0

-----------------------------------------------------------------------------
(* Helpers.                                                                *)

\* list(range(len(dataset))), shuffled or not
NewQueues ==
    IF Shuffle THEN Bijection(1 .. DatasetLen, Indices)
    ELSE {[p \in 1 .. DatasetLen |-> p - 1]}

\* the last (up to) three pass rates average above 46.9999/48
TooEasy(h) ==
    /\ Len(h) >= 2
    /\ LET total == h[1] + h[2] + (IF Len(h) = 3 THEN h[3] ELSE 0)
       IN 480000 * total > 469999 * Len(h) * Rollouts

_build_sample_filter == {i \in Indices : TooEasy(index2passrate[i])}

\* list.append, keeping the latest entries: the filter reads three, nobody else any
Recorded(h, p) ==
    IF Len(h) < (IF Strategy = "filter" THEN 3 ELSE HistoryKept)
    THEN Append(h, p) ELSE Append(Tail(h), p)

AtMost(cap, n) == IF n > cap THEN cap ELSE n

-----------------------------------------------------------------------------
(* Operations.                                                             *)

add_step ==
    /\ phase = "idle"
    /\ step < MaxStep
    /\ step' = step + 1
    /\ UNCHANGED << index2passrate, queue, passrate1_set, passrate0_set,
                    index2replay_ratio, locals, saved, restarts, config >>

\* Variant: forgets to build the filter.
StartSampleUnfiltered ==
    /\ phase = "idle"
    /\ phase' = "sampling"
    /\ filter_set' = {}
    /\ data_index' = << >>
    /\ UNCHANGED << persisted, index, saved, restarts, config >>

StartSample ==
    /\ phase = "idle"
    /\ phase' = "sampling"
    /\ filter_set' = IF Strategy = "filter" THEN _build_sample_filter ELSE {}
    /\ data_index' = << >>
    /\ UNCHANGED << persisted, index, saved, restarts, config >>

\* Variant: refills at any time, behind the rows still queued.
RefillAlways ==
    /\ phase = "sampling"
    /\ Len(data_index) < BatchSize
    /\ Len(queue) <= DatasetLen
    /\ \E q \in NewQueues : queue' = queue \o q
    /\ UNCHANGED << index2passrate, step, passrate1_set, passrate0_set,
                    index2replay_ratio, locals, saved, restarts, config >>

\* The turn of the loop found the queue empty.
RefillQueue ==
    /\ phase = "sampling"
    /\ Len(data_index) < BatchSize
    /\ queue = << >>
    /\ queue' \in NewQueues
    /\ UNCHANGED << index2passrate, step, passrate1_set, passrate0_set,
                    index2replay_ratio, locals, saved, restarts, config >>

\* Variant: takes from the end of the queue that TakeIndex does not shorten.
NextIndexWrongEnd == IF Strategy = "replay" THEN queue[Len(queue)] ELSE Head(queue)

\* "replay" takes from the front of the queue, the others from its end.
NextIndex == IF Strategy = "replay" THEN Head(queue) ELSE queue[Len(queue)]

TakeIndex ==
    /\ phase = "sampling"
    /\ Len(data_index) < BatchSize
    /\ queue # << >>
    /\ index' = NextIndex
    /\ queue' = IF Strategy = "replay" THEN Tail(queue)
                ELSE SubSeq(queue, 1, Len(queue) - 1)
    /\ UNCHANGED << index2passrate, step, passrate1_set, passrate0_set,
                    index2replay_ratio, phase, filter_set, saved, restarts, config >>

\* random.random() < ratio can go either way exactly when the ratio is not 1.
Replayed(i) == i \in passrate1_set /\ index2replay_ratio[i] > 0

\* Variant: never takes a solved row again.
AcceptUnsolved ==
    /\ TakeIndex
    /\ NextIndex \notin filter_set
    /\ ~ Replayed(NextIndex)
    /\ data_index' = Append(data_index, NextIndex)

AcceptIndex ==
    /\ TakeIndex
    /\ NextIndex \notin filter_set
    /\ data_index' = Append(data_index, NextIndex)

SkipIndex ==
    /\ TakeIndex
    /\ \/ Strategy = "filter" /\ NextIndex \in filter_set
       \/ Strategy = "replay" /\ Replayed(NextIndex)
    /\ UNCHANGED data_index

\* Variant: the loop condition is off by one.
ReturnBatchTooLate ==
    /\ phase = "sampling"
    /\ Len(data_index) > BatchSize
    /\ phase' = "sampled"
    /\ filter_set' = {}
    /\ index' = NoIndex
    /\ UNCHANGED << persisted, data_index, saved, restarts, config >>

\* sample returns the batch to the trainer.
ReturnBatch ==
    /\ phase = "sampling"
    /\ Len(data_index) = BatchSize
    /\ phase' = "sampled"
    /\ filter_set' = {}
    /\ index' = NoIndex
    /\ UNCHANGED << persisted, data_index, saved, restarts, config >>

\* Variant: a row that is no longer solved keeps its decayed ratio.
RatioKept(i, p) ==
    IF p = Rollouts THEN AtMost(MaxDecay, index2replay_ratio[i] + 1)
    ELSE index2replay_ratio[i]

\* The decay goes on while the row is solved, and starts over when it is not.
RatioAfter(i, p) ==
    IF p = Rollouts THEN AtMost(MaxDecay, index2replay_ratio[i] + 1) ELSE 0

\* feedback: one pass rate for each distinct row of the batch.
feedback(passrate_list) ==
    LET rated == DOMAIN passrate_list
        Solved(i) == passrate_list[i] = Rollouts
    IN
    /\ phase = "sampled"
    /\ index2passrate' = [i \in Indices |->
           IF i \in rated THEN Recorded(index2passrate[i], passrate_list[i])
           ELSE index2passrate[i]]
    /\ passrate1_set' = (passrate1_set \ rated) \cup {i \in rated : Solved(i)}
    /\ index2replay_ratio' = [i \in Indices |->
           IF i \in rated THEN RatioAfter(i, passrate_list[i])
           ELSE index2replay_ratio[i]]
    /\ passrate0_set' = [i \in Indices |->
           IF i \notin rated THEN passrate0_set[i]
           ELSE IF passrate_list[i] = 0 THEN AtMost(ZeroCap, passrate0_set[i] + 1)
           ELSE 0]
    /\ queue' = IF ResetQueue THEN << >> ELSE queue
    /\ phase' = "idle"
    /\ data_index' = << >>
    /\ UNCHANGED << step, filter_set, index, saved, restarts, config >>

Feedback == \E passrate_list \in [Range(data_index) -> Passrates] :
                feedback(passrate_list)

\* With group filtering off the trainer reports nothing.
NoFeedback ==
    /\ phase = "sampled"
    /\ phase' = "idle"
    /\ data_index' = << >>
    /\ UNCHANGED << persisted, filter_set, index, saved, restarts, config >>

\* The trainer writes state_dict() to data.pt between two samples.
Save ==
    /\ phase = "idle"
    /\ MaxRestarts > 0
    /\ saved' = [present |-> TRUE, state |-> state_dict]
    /\ UNCHANGED << persisted, locals, restarts, config >>

\* The process dies at any point; a new one constructs the loader and, when
\* there is a data.pt, loads it.
Restart ==
    /\ restarts < MaxRestarts
    /\ restarts' = restarts + 1
    /\ LET s == saved.state IN
       /\ index2passrate' = s.index2passrate
       /\ queue' = s.queue
       /\ step' = s.step
       /\ passrate1_set' = s.passrate1_set
       /\ passrate0_set' = s.passrate0_set
       /\ index2replay_ratio' = s.index2replay_ratio
    /\ phase' = "idle"
    /\ filter_set' = {}
    /\ data_index' = << >>
    /\ index' = NoIndex
    /\ UNCHANGED << saved, config >>

Next ==
    \/ add_step
    \/ StartSample
    \/ RefillQueue
    \/ AcceptIndex
    \/ SkipIndex
    \/ ReturnBatch
    \/ Feedback
    \/ NoFeedback
    \/ Save
    \/ Restart

Spec == Init /\ [][Next]_vars

-----------------------------------------------------------------------------
(* Type invariant.                                                         *)

Histories == {h \in Seq(Passrates) : Len(h) <= HistoryKept \/ Len(h) <= 3}
Queues == {q \in Seq(Indices) : Len(q) <= DatasetLen}

StateDicts ==
    [index2passrate     : [Indices -> Histories],
     queue              : Queues,
     step               : 0 .. MaxStep,
     passrate1_set      : SUBSET Indices,
     passrate0_set      : [Indices -> 0 .. ZeroCap],
     index2replay_ratio : [Indices -> 0 .. MaxDecay]]

\* Every variable has its type: rows are row indices of the dataset and no
\* list, in memory or in data.pt, grows over its bound.
TypeOK ==
    /\ config \in Configs
    /\ state_dict \in StateDicts
    /\ phase \in {"idle", "sampling", "sampled"}
    /\ filter_set \subseteq Indices
    /\ data_index \in Seq(Indices) /\ Len(data_index) <= BatchSize
    /\ index \in Indices \cup {NoIndex}
    /\ saved \in [present : BOOLEAN, state : StateDicts]
    /\ restarts \in 0 .. MaxRestarts

(* Safety.                                                                 *)

\* The queue never holds a row twice, in memory or in a saved data.pt: the
\* refill of sample() only ever meets an empty queue, so within one pass no
\* row can be offered twice at the cost of another.
QueueHasNoDuplicates == IsInjective(queue) /\ IsInjective(saved.state.queue)

\* What one state dict says of a row's past agrees: ratio is the length of the
\* run of complete solves the row's pass rates end with (capped), the row is in
\* passrate1_set exactly during such a run, and passrate0_set counts only rows
\* whose last sample was all wrong.
RowAgrees(h, solved, zeros, ratio) ==
    LET n == Len(h)
        Run(k) == \A j \in 1 .. n : j > n - k => h[j] = Rollouts
    IN
    /\ solved <=> n > 0 /\ h[n] = Rollouts
    /\ solved <=> ratio > 0
    /\ zeros > 0 <=> n > 0 /\ h[n] = 0
    /\ Run(ratio)
    /\ ratio < MaxDecay /\ ratio < n => h[n - ratio] # Rollouts

RatiosAgree(s) ==
    \A i \in Indices :
        RowAgrees(s.index2passrate[i], i \in s.passrate1_set,
                  s.passrate0_set[i], s.index2replay_ratio[i])

\* passrate1_set, passrate0_set, index2replay_ratio and the history are updated
\* by different branches of feedback() and restored key by key by
\* load_state_dict(); they always tell the same story of every row.
RatiosFollowHistory == RatiosAgree(state_dict) /\ RatiosAgree(saved.state)

\* "Once a row is filtered out it is never sampled again": a row that
\* _build_sample_filter() returns stays filtered for the life of the process,
\* because sample() refuses it and no feedback can therefore change its history.
FilteredForever ==
    [][Strategy = "filter" /\ restarts' = restarts =>
          _build_sample_filter \subseteq _build_sample_filter']_vars

-----------------------------------------------------------------------------
(* Refinement: whatever the strategy does, the queue offers every row once *)
(* per pass.                                                               *)

Epochs == INSTANCE EpochSampler WITH
              Rows  <- Indices,
              NoRow <- NoIndex,
              due   <- Range(queue),
              offer <- index,
              kept  <- Range(saved.state.queue)

\* The loader implements the epoch sampler: each pass offers every row exactly
\* once, and a restart resumes the pass where data.pt left it.
ImplementsEpochs == Epochs!Spec

-----------------------------------------------------------------------------
(* Liveness.                                                               *)

\* The trainer keeps calling sample and feedback, sample is a plain loop, and
\* every acceptance of a solved row is an independent draw with probability at
\* least replay_min_ratio > 0, so no row loses all of infinitely many draws.
Fairness ==
    /\ WF_vars(StartSample)
    /\ WF_vars(RefillQueue)
    /\ WF_vars(AcceptIndex \/ SkipIndex)
    /\ WF_vars(ReturnBatch)
    /\ WF_vars(Feedback \/ NoFeedback)
    /\ \A i \in Indices : SF_vars(AcceptIndex /\ NextIndex = i)

FairSpec == Spec /\ Fairness

\* Every call of sample() returns a batch, with "replay" and with no strategy.
SampleReturns == Strategy # "filter" /\ phase = "sampling" ~> phase = "sampled"

\* Every call of sample() returns a batch, with "filter" too.
EverySampleReturns == phase = "sampling" ~> phase = "sampled"

\* No row starves: whatever pass rates come back, every row is put into a batch
\* again and again, the fully solved ones too, unless rows are filtered or the queue is
\* thrown away after every batch.
NoRowStarves ==
    \A i \in Indices : Strategy # "filter" /\ ~ ResetQueue ~> i \in Range(data_index)

=============================================================================
