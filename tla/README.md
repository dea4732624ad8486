# UI-MOPD in TLA+

This directory holds a TLA+ model of the parts of UI-MOPD in which state, order and
failure decide whether training is correct: the dynamic-sampling dataloader, the
thought buffer, the generation loop with its group filter, the training loop with
its checkpoints and restarts, the rate-limited reward loop, the micro-batches of the actor
workers, and the scripts that annotate the trajectories trained on. TLC checks every module
on small instances; TLAPS proves, for every value of the constants, all safety properties the passing
runs check, and three refinements. `PROJECT.json` lists
components, runs, mutants, the source lines of every definition, findings, hazards and
theorems.

Paths below are relative to `src/`. `D` stands for `verl/ui_mopd/dataset/dynsam_dataloader.py`,
`T` for `verl/ui_mopd/dataset/thought_buffer.py`, `F` for `verl/ui_mopd/dapo_trainer.py`,
`L` for `verl/verl/experimental/reward_loop/reward_manager/limited.py`, `S` for
`verl/verl/utils/seqlen_balancing.py`.

## 1. The system

UI-MOPD trains a GUI agent by reinforcement learning (DAPO) with distillation from
teachers, on top of a vendored copy of verl. One driver process, `RayDAPOTrainer.fit`,
runs the loop; groups of Ray workers (one per GPU, "ranks") hold the model.

| component | state it keeps | operations | talks to |
|---|---|---|---|
| dynamic-sampling dataloader (`D`) | queue of row indices; per row: pass-rate history, set of solved rows, count of all-wrong samples, replay ratio; a step counter | `sample`, `feedback`, `add_step`, `state_dict`, `load_state_dict` | called by the trainer; its state dict is `data.pt` |
| thought buffer (`T`) | per prompt: two bounded queues (thoughts, actions), each mirrored by a set | `add_batch`, `add`, `contains`; saved and loaded inside `data.pt` | filled by the trainer after scoring, read by the RL dataset |
| generation loop and group filter (`F` 337-538) | accumulated trajectories, counts of prompts and of generation batches | sample, roll out, score, feedback, filter, accumulate, cut | dataloader, rollout workers, reward |
| thought-action consistency check (`verl/ui_mopd/reward/gui_agent_thought_verify.py`) | none | asks a model about each correct trajectory and overturns scores | an HTTP service, called by the trainer |
| training loop (`F` 260-879) | step number, best accuracy; files on disk | update, validate, save, export, resume | all of the others |
| checkpoint managers (`verl/verl/utils/checkpoint/`) | list of saved paths of this process; files on disk | `save_checkpoint`, `load_checkpoint`, rotation | called by the driver on every rank at once |
| GUI agent reward (`verl/ui_mopd/reward/gui_agent.py`) | none | scores a response | called per trajectory |
| RL dataset (`verl/verl/utils/dataset/rl_dataset.py`) | none but the buffer it reads | builds a prompt with a drawn history | dataloader |
| reward loop with rate limiter (`verl/verl/experimental/reward_loop/`, `L`) | two token buckets, a semaphore, the thread pool of the event loop | `compute_rm_score`, `run_single`, `acquire` | called per batch by verl's `RayPPOTrainer`; calls a score function, often a remote API |
| balancing and micro-batches (`S`, `verl/verl/trainer/ppo/ray_trainer.py`, `verl/verl/workers/actor/dp_actor.py`) | none between batches | `_balance_batch`, `compute_log_prob`, `update_policy`, `rearrange_micro_batches` | driver and ranks; the ranks with each other, by collectives |
| annotation scripts (`uni_gui/computer`, `uni_gui/mobile`, stage 4) | `task.json` of every trajectory, a progress file | `fix_bbox.py`, `fix_grounding.py`, `regenerate_thought.py`, with and without `--resume` | the files, a model service; started, interrupted and killed by an operator |
| SFT trainer, rejected sampling, agent loop, rest of the data protocol, other pipeline stages, evaluation, viewer | see `PROJECT.json` | | |

What is hard about it, and what each part must get right:

* **Dataloader.** Four records of each row are changed by different branches of
  `feedback` and restored key by key; they must agree. The queue must serve each row
  once per pass, whatever is skipped, across saves and kills. `sample` is a loop that
  must end; solved rows are replayed by chance and must not vanish from training.
* **Thought buffer.** Queue and set are updated one after the other, entries are evicted,
  and an add can raise between its two halves. Queue and set must stay mirrors; the cap
  on adds per batch must fit the size of the queues.
* **Group filter.** Prompts are counted but trajectories are cut; a row can be drawn twice
  into one generation batch where two passes meet; scores are overturned after the filter
  has used them. The batch must have its size, whole groups, and groups with an advantage.
* **Training loop and checkpoints.** A save is many files by many processes, and the job may
  be killed between any two of them. What the tracker names must be loadable; a restart
  must resume model and dataloader of one moment; rotation must not delete what a restart
  needs; the end of the job must be saved; barriers must not deadlock.
* **Reward loop.** Coroutines sleep for tokens that were computed from a bucket others take from
  meanwhile; a timeout gives up a call that goes on running in a thread, and threads are shared with
  decoding. The rate must hold, nobody may wait for what is there, nothing may be called
  for an answer nobody wants, and every batch must be answered although calls hang.
* **Micro-batches.** Each rank computes the number of its micro-batches from its own rows, and each forward pass
  is a collective. The ranks must agree on the number, no micro-batch may be empty, work must be balanced
  and outputs must come back in the order of the rows after being reordered twice.
* **Annotation scripts.** Many threads rewrite whole files from copies in memory; mobile has several threads per
  file in one phase. Progress is noted in another file, at another time. No annotation may be
  lost, no step silently left out, an original thought must survive any number of restarts with `--resume`.

## 2. Modules

| module | models | role |
|---|---|---|
| `EpochSampler` | (abstract) | passes over a set of rows: each pass offers every row once, in any order; the due rows can be kept and recovered |
| `DynSamDataloader` | `D` | the loader; shown to implement `EpochSampler` |
| `DynSamDataloaderProofs` | | theorems about it |
| `ThoughtBuffer` | `T` | the buffer |
| `ThoughtBufferProofs` | | theorems about it |
| `GroupFilter` | `F` 337-538 and the consistency check | one training batch after the other |
| `GroupFilterProofs` | | theorems about it |
| `DurableTraining` | (abstract) | progress becomes durable all at once; a restart continues from the durable progress |
| `DapoTrainer` | `F` 100-212, 255-281, 324-365, 769-879, the checkpoint managers | shown to implement `DurableTraining` |
| `DapoTrainerProofs` | | theorems about it |
| `TokenBucket` | `AsyncTokenBucket` of `L` | the arithmetic of a limiter |
| `RewardLoop` | `RewardLoopWorker`, `run_single` of `L`, the tabulation in `compute_rm_score` | one worker, batch after batch |
| `RewardLoopProofs` | | theorems about its types, its limiters, and its calls and their timeouts |
| `SequenceBalancing` | `S` | the Karmarkar-Karp partition, orders and their inverse, as functions |
| `SequenceBalancingProofs` | | theorems about these functions, and the lemmas about naturals, lists and finite sets they need |
| `MicroBatches` | `_balance_batch`, `compute_log_prob`, `update_policy` | the ranks in a training step, on `SequenceBalancing` |
| `MicroBatchesProofs` | | theorems about it |
| `TaskFiles` | `task.json`, sessions | the state the two scripts share |
| `FixGrounding` | `fix_bbox.py`, `fix_grounding.py` | bounding boxes, both platforms |
| `RegenerateThought` | both `regenerate_thought.py` | new thoughts, both platforms |
| `AnnotatedTrajectories` | (abstract) | an annotation stays, whoever writes the file, unless a session was started to replace its sort |
| `TrajectoryTools` | | composition of the two scripts; shown to implement `AnnotatedTrajectories` |
| `TrajectoryToolsProofs` | | theorems about it |
| `MC...` | | instances for TLC: symmetry sets and record-valued constants |

How they meet: the trainer's `GenerateBatch` is one turn of the loop that `GroupFilter`
details (a batch fills the training batch or does not); `GroupFilter` uses of the
dataloader only what `EpochSampler` promises and `DynSamDataloader` is shown to implement;
`data.pt`, whose content `DapoTrainer` reduces to how many batches had been drawn, is the
variable `saved` of `DynSamDataloader` and of `ThoughtBuffer`. `MicroBatches` is what FSDP workers with `use_dynamic_bsz` do with
a batch that the trainer's update hands them; `run_mopd.sh` starts Megatron workers, and with `use_dynamic_bsz` only if
`DYNAMIC_BSZ` is set. `RewardLoop` is how verl's `RayPPOTrainer` has a batch scored (`ray_trainer.py` 1489, 1528) with the manager
`rate_limited`. `RayDAPOTrainer` never calls `compute_rm_score`: in UI-MOPD's runs the agent loop has each trajectory scored by itself
(`agent_loop.py` 627), with the manager `dapo`, which has no limiters. Both modules are thus about verl configurations that are at hand in this tree and
that `run_mopd.sh` does not start as it stands. The annotation scripts run
long before training; they meet each other only in the files, which is what `TrajectoryTools` composes.

Some modules hold definitions whose comment begins with "Variant": a wrong version of the
definition after it, the way a plausible slip would have it. Each property of each passing
run is violated when one of them takes the place of the right one (`mutants` in `PROJECT.json`).

### DynSamDataloader

Variables carry the names of the Python attributes: `index2passrate`, `queue`, `step`,
`passrate1_set`, `passrate0_set`, `index2replay_ratio`. `sample()` is one call in the code; here
each turn of its `while` loop is a step (`RefillQueue`, then `AcceptIndex` or `SkipIndex`,
finally `ReturnBatch`), with the locals `filter_set`, `data_index` and `index` as variables, so
that its termination can be stated. `Feedback` is one atomic call of `feedback()` for any pass
rates of the distinct rows of the batch; `NoFeedback` is the trainer with group filtering off.
`Save` is the `torch.save` of `state_dict()`, `Restart` the death of the process at any point and the
construction of the next, which loads `data.pt` when there is one. `config`, chosen once from the constant `Configs`, holds the
constructor's settings `passrate1_strategy`, `shuffle` and `reset_queue`; a restarted process has the same.

Abstractions: a pass rate is the number of correct rollouts; the replay ratio is kept as its
exponent, capped at `MaxDecay`, where `replay_min_ratio` is reached; the random draw is a free
choice whenever the ratio is not 1. Histories keep their latest entries: three with `filter`, which looks at three, and `HistoryKept`
with the other strategies, which look at none.
`sample_step` never changes, and `clear_state` and `is_valid_passrate0` are called by nobody.

### ThoughtBuffer

`buffer` is a function on the uids recorded so far, to items with the four fields of the class.
One turn of `add_batch`'s loop is a step: `AddNewUid`, `AddKnownUid`, `AddFailsHalfway`, or nothing for
a response that is not fully correct or not complete. The action is any JSON value of the
answer, hence possibly a list or a dict (`Unhashable`), for which the membership test in a set raises
a `TypeError` that `add_batch` catches. For a new uid nothing has happened by then; for a known uid
whose thought is new, the thought has been queued and not been counted. `fresh` is a history
variable: what this batch has appended to each uid, and whether an add has failed halfway.

### GroupFilter

`Sample` is one row from the loader, `GenerateBatch` everything from the rollout to the cut, with any
verdicts on the `gen_batch_size * n` rollouts, `CheckConsistency` the overturning of scores with its
exemption for uids whose correct rollouts are all rejected, `UpdateActor` the update and the reset of
the counters. The service's verdicts are a free choice, which includes a service that fails (it rejects
nothing). `twice` is a history variable: the rows of the current batch that one generation
batch has drawn more than once. The metric is `acc`, of which only 0, 1 and what lies between matter.

### DapoTrainer

Files are variables: `made` (directories), `shards[N][rank]`, `data[N]`, `tracker`, `final`. A file's content is
the progress it was written at: updates of the model, batches drawn, and the run of the job; `Torn`
is a file that is open and not completely written. The driver's program counter is `phase`; each
worker's place in `save_checkpoint` is `worker[r]`. A save goes: every rank removes what rotation
dooms (FSDP: rank 0 only; file by file), makes the directory, writes its shard (after a barrier with FSDP), all
return; the driver writes `data.pt`, empties and writes the tracker, and copies the
model to `final/`. The three files of a rank are one shard. With `async_save` the shards are written by background
processes and the driver leaves the tracker alone. `StartAgain` kills the job anywhere, or starts a finished
one again, at most `MaxRuns - 1` times; everything in memory is new. `config`, chosen once, is the configuration
of the job: backend, `async_save`, `save_freq`, `max_actor_ckpt_to_keep`.

Assumed of the environment: a file system that does not lose or reorder completed writes, and ranks that
die with the job. `resume_mode` is `auto`, there is no critic and no HDFS, as in the repository's `run_mopd.sh`.

### RewardLoop

One `RewardLoopWorker`: `BatchSize` coroutines on one event loop, for `Batches` batches. What lies between two awaits is one
action, hence a locked section of `acquire` is (`TakeTokens`, `SleepForTokens`, and `PayInAdvance` for
requests of more than a full bucket). The unit of time is the time in which one token comes back, `Second` tokens
a second; fractions of a token are thus not modelled. `need` is what a request needs of the request limiter and of the token limiter;
0 means that the limiter is not configured. `Tick` waits for what is due: the event loop is never a whole tick
late, and a coroutine that could enter the semaphore does. The thread pool is not bound to that: a job waits in `queue`
for any time, runs for any time, and at most `MaxHung` synchronous score calls never return. `passes`
is a history variable: when each request was let through. `EndBatch` includes the tabulation of the
dict results by `compute_rm_score`, which looks the keys of the first sample up in every sample.

Assumed: fewer calls hang than the pool has threads. Without that, the pool fills up, decoding waits for ever, and
so does the batch; nothing in the code prevents it. One worker is modelled: the limiters are class attributes, and each
worker is a process (observation 9).

### MicroBatches

`BalanceBatch` is `_balance_batch` on the driver. A rank works through `tasks`: its whole batch for the log probabilities, then
mini-batches for the update. `CountMicroBatches` computes its own number, `AllReduce` takes the maximum and partitions, and
the forward pass of a micro-batch starts with a collective (`GatherParameters`), as in FSDP, and so does the optimizer
step. Outputs are represented by the rows they belong to. The partitions are computed by `SequenceBalancing` with the real
workload function; Python breaks ties by comparing lists and the module takes any, which nothing relies on.

### TrajectoryTools

A step of a trajectory has a bounding box (`none`, a dict of pixels, a list, and for a swipe on mobile two of them), a thought and
a raw thought. A rewrite is two actions: `open(..., "w")`, after which the file is `Torn`, and the dump.
A job of phase A is a thread on a trajectory (`BeginJob`, `StepAnswered`, `OpenTaskJson`, `DumpTaskJson`); its result is noted by
the main thread later (`NoteResult`), and the progress file is written later still. Phase B retries steps: on the
computer those in `all_errors`, one at a time, on mobile those that a new scan finds, in parallel under a lock for each file (`ApplyResult`).
`KillFix` and `KillRegenerate` lose memory at any point; `InterruptGenerate` and `InterruptRetry` are Ctrl-C as the handlers
treat it. `asked` is a history variable: the steps the model has answered for, also with a failure. `NoteResult` hands any part of the steps
without a box to phase B, since a call that raises is recorded without its step (`fix_bbox.py` 310). `StartRegenerate` and `StartFix` have both values of
`--resume`: `StepJobsOf` takes the steps without a raw thought, or without the flag, which is how `regenerate_thought.sh` starts the script, every
step. `redoing` says how the session under way was started, `redone` (a history variable) which steps such sessions have taken a second time.
`AnnotatedTrajectories`, the specification above them, has sessions that only add facts and sessions that may also replace facts of one
sort; here the sort is raw thoughts, and the sessions are those of `regenerate_thought.py` without `--resume`. The operator
runs one script at a time, as the documentation of the pipelines lists them one after the other.

## 3. Runs

Deadlock is checked except where the system does stop: the trainer ends (`finished`, `failed`), the
generation loop raises at `max_num_gen_batches`, and the batches, the training step and the sessions of the runs `reward_loop`,
`micro_batches` and `trajectory_tools` come to an end.

| run | instance | shows |
|---|---|---|
| `dynsam` | 2 rows, batches of 2, 1 kill; replay shuffled with decay to 2, filter with `reset_queue`, and none | passes, agreement of the records, restart, filtered rows stay filtered, return of `sample`, no starvation |
| `dynsam_filter_hang` | 2 rows, filter | violation: `sample` need not return |
| `thought_buffer` | 2 uids, 3 thoughts, 2 hashable actions and 1 that is not, size 2 | mirrors, evictions, halfway failures, saves and kills |
| `trainer` | 2 ranks, 3 configurations, 3 steps, 4 batches, 3 runs | everything about saves, kills and resumes |
| `trainer_keep_one` | keep 1 | violation: the tracked checkpoint is removed first |
| `trainer_closing_cut` | save every 2 of 4 steps, 3 batches | violation: a cut closing save is never repeated |
| `group_filter` | 3 rows, generation batches of 3, training batches of 2, n = 2, 3 tries, replay | size, wholeness, advantage |
| `reward_loop` | 3 samples, 2 batches, 2 threads of which 1 may hang, semaphore of 2, timeout 1, two configurations | rate, no needless sleep, no late calls, every batch answered |
| `micro_batches` | 2 ranks with 3 rows of lengths 1, 2 or 5, mini-batches of 2, 5 tokens per micro-batch | balance, every row once, order restored, collectives met |
| `trajectory_tools` | 2 trajectories of 2 steps, both platforms, 2 workers, 2 sessions with or without `--resume` | no box lost, no step left out but swipes that came with one box, originals kept with `--resume`, sessions end |
| `regenerate_again` | the same on the computer | violation: a second session without `--resume` loses the original thoughts |
| `group_filter_twice` | training batches of 1, generation batches of 2 | violation: half of a group of 2n |

The properties, and why the bounds let the interesting cases happen:

* `QueueHasNoDuplicates`, `RatiosFollowHistory`, `ImplementsEpochs`: skipping a solved row makes batches and passes
  drift apart, so that with 2 rows a batch ends inside a pass and meets the refill; a history of 2 holds a
  run of solves that is broken and starts over, and the cap of the decay is reached. A kill can
  come in the middle of `sample`, and before the first `data.pt`.
  The histories of `filter` hold the three pass rates it reads, those of the others two, as nothing reads them.
* `FilteredForever` (a statement about `filter`): needs two rows with different pass rates, of which one is never filtered.
* `SampleReturns` is about `replay` and `none`, `NoRowStarves` about those two without `reset_queue` (which the
  instances of both have off), under the fairness below. `EverySampleReturns` says the same of `filter`, and fails in `dynsam_filter_hang`.
* `SetsMirrorQueues`, `BatchKeepsWhatItAdds`: three thoughts and queues of 2, so that evictions happen, both of entries
  of this batch's and of an earlier one. Without the exception for uids with a halfway failure the second
  property is false: uncounted thoughts push out counted ones.
* `BatchIsWhole`, `SingleDrawsAreMixed`: three rows in generation batches of 3 with skips: a pass can end anywhere in
  a batch, a row can be drawn twice (next to itself or around another row), and the cut falls at any place.
* `TrackedIsComplete`, `SomethingToResume`, `TrackedIsFrozen`: keeping 2 of the 3 saves makes rotation happen while the other
  rank already writes; three runs allow a kill, a resume, another kill in the same step's save and a
  third start, also of a finished job.
* `AtMostMaxToKeep` counts the checkpoints this run has written to (see observation 3).
* `FinalIsDurable`: the exported model is never ahead of the checkpoint of the tracker.
* `FirstRunIsSaved`: the first run of a job, when it ends by itself, has tracked its last update, whether it
  ended by reaching the last step or by running out of batches.
* `ImplementsDurableTraining`: through all of this a restart continues from the last durable progress, with
  the model and the dataloader of one moment.
* `JobEnds`: no barrier waits for a rank that waits for it.
* `RateKept`, `NoIdleTokens`: the two configurations have a request that needs less than a full bucket and one that needs more, which
  takes its tokens in advance. Three requests meet at each limiter, so that one sleeps while another takes, and the
  second batch finds buckets the first has drained.
* `NoCallAfterTimeout`: timeout 1 with a semaphore as large as the pool. The synchronous job of a sample can wait in the pool past its timeout, behind a hung
  call or behind decoding, and a job of the first batch can still run in the second.
* `AllAnswered`: both batches, with a hung call in the pool from the first.
* `WorkIsBalanced`, `EveryRowOnce`, `LogProbsInOrder`: three rows for each rank in every combination of three lengths, so
  that ranks differ in the number they compute, a micro-batch gets one, two or three rows, and the second mini-batch has one
  row only, for which the maximum over the ranks must not exceed the rows.
* `StepEnds`: no rank waits in a collective that another leaves out.
* `ImplementsAnnotated`: the second trajectory's click may come as a dict, the first's swipe may be missing or half there, both platforms
  share the run; two threads retry two steps of one file; the scripts follow each other in any order, also after a kill. A box once written
  stays whatever comes; a session of `regenerate_thought.py` without `--resume` may replace raw thoughts, and nothing else may.
* `AskedBeforeFixed`, `ProgressIsEarned`: on mobile both directories have one name, so that one is hidden behind the other in the
  progress file; phase B has to find it. Progress is written after each result, and Ctrl-C comes in between. A step lacks a box here
  when it has fewer boxes than its action needs, two for a swipe. `AskedBeforeFixed` excepts by name (`CameWithOne`) the swipes that have been found with one
  box, as a list or as a dict, and says of all other steps that they have been asked for; the exception is what the code leaves out (observation 17).
  Both say "asked": whether the model has an answer is not the script's.
* `FlushedIsFinal`: mobile flushes after each trajectory, while steps of the other are under way.
* `RawIsOriginal`: two sessions, with and without `--resume`, so that the second works over what the first has written. The exception for steps
  that came without a thought is needed (observation 14), and so is that for `redone`, the steps that a session without `--resume` has taken although they had
  a raw thought. Without the latter it is `OriginalIsPreserved`, what the script's header says, which `regenerate_again` refutes.
* `SessionsEnd`: also with Ctrl-C at any moment.

Two sessions of the scripts, two batches of the reward loop and two mini-batches per rank are the least that let one leave
something behind for the next; a third would meet nothing that the second does not.

### Fairness

The loader: its caller alternates `sample` and `feedback`, and `sample` is sequential code, so each step has weak
fairness. Strong fairness of accepting row `i` stands for the random draw: each offer of a solved row is an independent
draw that succeeds with probability at least `replay_min_ratio > 0`, so infinitely many offers are not all refused,
with probability 1. Nothing is assumed about pass rates, saves or kills. With `filter` there is no draw and
the assumption gives a filtered row nothing, which is why `dynsam_filter_hang` stands under the same fairness.

The trainer: weak fairness of the driver, of each worker, and of the background writes together:
sequential code and processes that run by themselves. Kills have no fairness; their number is bounded by `MaxRuns`.

The reward loop and the ranks: weak fairness of the whole next-state relation, no more than that the system does not stop while
something can happen. In `RewardLoop` every behaviour then comes to its end, since time is bound to what is due; a call that hangs is an action
of its own after which its thread is lost.

The annotation scripts: weak fairness of the steps of each script, its threads and the model service, whose calls
have timeouts. Starts, interrupts and kills have none.

## 4. Theorems

All are checked by `tlapm` to the last leaf, for every value of the constants that satisfies the
named assumption of the module (`LoaderAssumption`, `BufferAssumption`, `FilterAssumption`, `TrainerAssumption`, `SecondAssumption` and `RewardAssumption`,
`MicroBatchesAssumption`, `TaskFilesAssumption`, `FixAssumption` and `RegenerateAssumption`). TLC evaluates these assumptions in the runs.

`DynSamDataloaderProofs`:

* `TypeCorrect`, `NoDuplicates`: the type invariant and injectivity of the queue are preserved by each
  action. The latter rests on lemmas about taking from either end of an injective sequence, and on the
  guard of the refill (the queue is empty).
* `EpochRefinement`: `Spec => Epochs!Spec`, for each strategy, with shuffling, resets and restarts. A refill maps to a
  stutter, because an empty set of due rows already means that the next offer begins a new pass; a take maps to the offer of one due row, and it needs
  `NoDuplicates`: only because the queue is injective does removing one entry remove the row from the due set.
* `RatiosFollow`: `RatiosFollowHistory` is inductive together with the type invariant because it
  speaks of the saved state as well: a restart installs the saved state, so it must have been consistent. The step
  lemma shows for one row what `Recorded` and `RatioAfter` do to the run of solves at the end of a history, with and
  without the oldest entry dropping out.
* `FilterIsForever`: the inductive invariant says that with `filter` no filtered row is in the batch being built or held; then no
  `feedback` can touch its history. The strategy is a part of the state that no step changes.

`ThoughtBufferProofs`:

* `TypeCorrect`, `SetsAreMirrors`: from two lemmas about one push (`PushFacts`, `PushMirrors`) and what each way of
  adding does to an item.
* `BatchKeeps`: `BatchKeepsWhatItAdds` is not inductive, since an add that evicts must know that it evicts something
  older. The strengthening `FreshIsRecent` says that what the batch has added to a uid is among as many last entries of its queue
  as the batch has counted adds; with the cap on the count, nothing of it has reached the front.

`RewardLoopProofs`:

* `TypeCorrect`: with the bound on the threads, by the cardinality of a set with one element more or less.
* `RateIsKept`: `RateKept` speaks of two moments in the past, so the induction needs an account of what happened between any
  of them and now. `Covered` says, for each request let through: all that has been let through from it on, plus what is left in the
  bucket, is at most the capacity plus the time since. A refill adds no more than the time gives, a request moves
  tokens from the bucket into the account, and a request in advance empties the bucket into the future (`AtRate` orders the moments).
  Lemmas about one bucket are proved without the coroutines, those about products of the requirement apart from the rest.
* `NobodySleepsIdle`: for a sleeper, what was in the bucket when it computed its wait, plus the time until it wakes, was exactly what it
  needs; others only take (`NeedsIt`). Hence until it wakes there is not enough.

* `NobodyCallsLate`: `NoCallAfterTimeout` is about a job that a thread takes up: somebody still waits for it. The invariant `CallsInv` ties
  each job to the stage of its coroutine: one in the queue is wanted, since the timeout takes it out there, one that runs may have been
  given up, but only if it scores, nobody is in the queue, in a thread and in the semaphore's line twice.

`GroupFilterProofs`, for any dataset, sizes and limits:

* `TypeCorrect`, `BatchesAreWhole`, `SingleDrawsStayMixed`, from `GroupInvariant`. That a training batch is whole cannot be seen from the batch:
  `WholeGroups` says of all that has been accumulated that it consists of whole groups, n rollouts of a prompt side by side, and that there
  are at least as many as prompts are counted; so the cut at `train_batch_size * n` finds enough and falls
  between groups. Of each accumulated group it says in addition that it has a correct and a wrong rollout, unless its prompt
  was drawn twice (`HaveBoth`). `StillFilling` bounds the counters while more is generated. The filter is a loop over
  trajectories; `AllKept` and `NoneKept` say what n turns of it do to a group that is kept or not.

`SequenceBalancingProofs`, about functions, for any number of items and sets and any weights:

* `PartitionsAreBalanced`: `get_seqlen_balanced_partitions` returns k lists that have every item once and, with `equal_size`,
  equally many; the work of two of them differs by at most the spread of the weights, or by the heaviest item without
  `equal_size`; none is empty if there are items enough. The Python code asserts all but the bounds at run time
  (`S` 135, 190, 194, 198). The invariant of the merging loop: the sets of each state are disjoint, in falling order, and within the bound
  of each other (`IsState`), the states have disjoint items and lose none (`Frontier`). Merging the
  lightest set of one state with the heaviest of the other keeps the bound: that is the method.
* `RestoredInOrder`: reordering what was computed by the inverse of the order it was computed in gives the order
  of the batch (`get_reverse_idx`, `restore_dynamic_batch`).

`MicroBatchesProofs`, for any number of ranks and rows, any lengths and limits:

* `TypeCorrect`, `WorkStaysBalanced`, `RowsAreComputedOnce`, `LogProbsReturnInOrder`, from `StepInvariant`: a rank in its loop has a partition of its batch
  into as many lists as the ranks agreed on, and its outputs are those of the lists before the next one
  (`RanksAreRight`); what it still has to do are mini-batches of its share (`BatchesAreSmall`, `RowsAreDealt`). The number agreed on never exceeds the rows of
  a rank, because all ranks have as many: without that a micro-batch could be empty.
* `RowsGoToOneRank`: `EveryRowToOneRank`, the same of the ranks together.
* `RanksMeet`: `NobodyWaitsInVain`, the part of `StepEnds` that is about safety: when every rank waits in a collective or has nothing to
  do, all are at the same one. Its invariant `RanksInStep` compares two ranks: both have still to agree on
  the number of micro-batches or neither has, and two ranks in their loops have agreed on the same number and have gathered the parameters for equally
  many forward passes; where one has left the loop the other has gathered for all.

`DapoTrainerProofs`, for any number of ranks, steps and runs. What is about saving is proved under the hypothesis `KeepsTwo`: no
configuration saves synchronously and keeps exactly one checkpoint. The run `trainer_keep_one` shows that it is needed.

* `TypeCorrect`: with `CountInv`, which bounds steps, tracker and updates by each other and by the number of the run: only with these
  bounds is every directory a step can name among those a job of `MaxRuns` runs can make.
* `TrackedCanBeLoaded`, `AlwaysSomethingToResume`, `TrackedStaysFrozen`: the invariant `IInv` says how far a save has come. The tracker is
  behind the step under way until that is saved (`TrackerInv`), all paths of the list but the last are older than the tracker
  (`PathInv`), hence rotation with room for two dooms nothing the tracker names (`DoomedIsOld`); a worker that has written has written
  the present progress, when all have returned all shards have it, and before the tracker is touched `data.pt` has
  it as well (`ProgressInv`). A save in the background leaves the tracker alone (`AsyncInv`).
* `DurableRefinement`: `Spec => Durable training`. Writing the tracker is the commit, emptying it the step before; a start is a stutter
  because a whole checkpoint holds one progress, so that the shards of any rank and `data.pt` agree with what is durable.
* `ExportIsDurable`, `FirstRunLosesNothing`: what has been exported is behind both the process and the checkpoint
  (`FinalInv`); the first run makes its directories in order, so the closing save finds none of its own name (`FirstInv`).
* `KeepsNoMore`: what this run has written is in the list or under way, and once rank 0 is past its removals nothing is left
  of what leaves the list (`KeepInv`); a list names no more directories than it has entries.

`TrajectoryToolsProofs`, for any trajectories, threads, sessions and both platforms:

* `TypeCorrect`, and `IInv`: who may hold a file. `PhaseInv` says which jobs exist in each phase, `LockInv` that two retries of one file are
  excluded by its lock, `LoneInv` that nobody else holds a file one job works on, `CopyInv` that what a job is about to dump is what the file held when it was
  read, with annotations added.
* `TrajectoriesAnnotated`: `Spec => ImplementsAnnotated`. `Latest` is what a file holds or, while it is torn, what is about to be
  dumped; by `CopyInv` it only grows (`Grows`), in boxes in every session (`BoxesKept`) and in raw thoughts in all but those
  without `--resume` (`KeptBySession`).
* `RawThoughtIsOriginal`, `FlushIsFinal`: from invariants about the thought script alone (`RawInv`, `ThoughtInv`, `FlushInv`). `RawInv` says of
  files and copies that a step which came with a thought and is not in `redone` has no regenerated raw thought, and its first thought as long as it has no raw
  thought (`CleanThoughts`); `ThoughtInv` that each step still pending has no raw thought or is in `redone`.
* `ProgressFileIsEarned`, `AskedBeforeTheEnd`: `AskedInv` adds what an id in a progress list, in memory or on disk, has behind it
  (`EarnedInv`) and what is left to phase B (`LeftInv`). The scans look for `Missing`, the properties speak of `Incomplete`: `WellBoxed` says that a box
  with a start only belongs to a swipe that came with one, so that all other incomplete steps are missing (`IncompleteIsMissing`).

Loops over data (the filter, the partition, joins of lists) are recursive functions in the models. The library's induction theorems
take an operator as a parameter, which the provers cannot instantiate. The proofs about these loops use
instead that a set of naturals that is not empty has a smallest element (`SmallestOf`, from `WFMin`), and that a set of naturals with 0 and each
successor reaches every number (`Reaches`); that a function defined by recursion exists and is the only one is the lemma `Recursion`.

Only model-checked: liveness (`SampleReturns`, `NoRowStarves`, `JobEnds`, `AllAnswered`, `StepEnds`, `SessionsEnd`), which is beyond
the prover, and the five violations of section 5, which are traces.

## 5. What was found

Five runs show a disagreement with what the repository says (details and quotes in `PROJECT.json`):

1. `dynsam_filter_hang`: once every row is filtered, `sample()` never returns (`D` 104).
2. `trainer_keep_one`: with one checkpoint to keep, the tracked checkpoint is removed before the next is written.
3. `trainer_closing_cut`: the save after the loop looks for a directory only; one left by a kill suppresses it (`F` 873).
4. `group_filter_twice`: the cut at `traj_bsz` can halve a group of 2n (`F` 536).
5. `regenerate_again`: a second session of `regenerate_thought.py` without `--resume` takes every step again and stores the first session's
   thought as `raw_thought` (`computer/regenerate_thought.py` 234 and 286, likewise `mobile/regenerate_thought.py` 275 and 338), although the
   header says that the original is preserved there.

Seen while modelling, and part of the models' behaviour:

1. The tracker is truncated and then written (`F` 162). After a kill in between, `int("")` raises at every later start
   (`checkpoint_manager.py` 190). `SomethingToResume` says what remains: a whole checkpoint to name by hand.
2. With `async_save` nothing ever writes the tracker: the driver leaves it to the finalize function of the Megatron
   manager, and `RayDAPOTrainer.fit`, unlike `RayPPOTrainer.fit` (`ray_trainer.py` 1431), never has it run.
   A restart begins from scratch. The properties about saving therefore speak of synchronous saves.
3. `previous_saved_paths` starts empty in each process: checkpoints of earlier runs are never rotated out.
4. A finished job that is started again makes one more step than `total_training_steps`.
5. When the dataloader runs out, `global_steps` names a step that has not taken place; the closing save stores the
   model of the last step under that number, also when it has been saved under its own.
6. A thought whose action cannot be hashed is queued without being counted (`T` 52).
7. `best_acc.json` is read at a key that is never written (`F` 286), so a restarted job starts from 0.0.
8. With `filter_groups` off, `F` 540 reads a `kl_loss_mask` that nobody has set. A deterministic error.
9. The limiters and the semaphore are class attributes, "shared across all instances" (`L` 195). Each `RewardLoopWorker` is a
   process, so n workers send n times the configured rate. The model and its theorem are about one worker.
10. The semaphore bounds the calls that are awaited. A synchronous call that times out gives the semaphore back and goes
   on in its thread, so more calls than `max_concurrent` can run; only the thread pool bounds them.
11. A sample that timed out has other keys than one that was scored. When the score function returns a dict, the
   tabulation raises a `KeyError` and the job ends (`reward_loop.py` 299); `batch = "KeyError"` is that end.
12. `NaiveRouter` releases a worker only after a success (`naive_router.py` 156): each failed request leaves a count behind.
   Not modelled.
13. `max_token_len` is not a limit for a micro-batch, as the comment at `S` 275 has it: the number of micro-batches is what the tokens need, and
   the partition balances work. Three rows of 2 tokens with a limit of 3 give a micro-batch of 4.
14. A step whose thought is empty gets an empty `raw_thought`, is therefore asked for again with `--resume`, and then has the first regenerated
   thought as its raw thought. `RawIsOriginal` excepts these steps (`Bare`).
15. A kill between opening and dumping leaves a torn `task.json`. The grounding scripts skip it without a word, the
   thought script does not start until somebody removes it. A torn progress file counts as none.
16. An id is noted as done although steps have failed; on the computer the errors are in memory only, so that a kill
   before phase B hides them from the next `--resume`. On mobile phase B scans the files and finds them.
17. On mobile the progress file knows directories by their base name (`fix_grounding.py` 547): two of one name hide each other in
   phase A. A swipe that comes as a dict is converted to a list with a start only (424-429), and the pre-scan (586) and phase B (805) take any list
   for complete: such a swipe, or one that came with one box, gets its second box only if its trajectory is otherwise worked on and the
   box was a list. This disagrees with the header (`fix_grounding.py` 8) and with `fix_grounding.sh` 6, by which a swipe gets `bbox` and `bbox2`;
   `AskedBeforeFixed` names it as its exception.

## 6. Not modelled

Numerics (log-probabilities, advantages, losses, distillation), tokenisation, images, Ray resource pools, profiling and
metrics, HDFS, critics, ESI. The vendored recipes, which no UI-MOPD script starts. Evaluation and the data
viewer (sequential scoring, read-only I/O). The reader of the thought buffer in the RL dataset draws at random from
an item: its result is data. Of the reward loop: the other managers and the retries of `_post_request`. Of the micro-batches:
Megatron's pipeline, sequence parallelism, fixed micro-batch sizes. Of the annotation scripts: `--overwrite`,
`--dry-run`, `--skip-retry`, errors of writing, and jobs of a whole trajectory that raise, as on malformed data (their ids are noted as done
and nothing is asked); of the pipelines, the stages that convert one directory into another.

The map covers a small share of the repository's lines because most of them are a vendored copy of verl: model definitions,
kernels, recipes, adapters to inference engines and trackers of metrics, whose behaviour is arithmetic or
input and output, or which belong to configurations no UI-MOPD script uses. What is UI-MOPD's own and keeps state
(the dataloader, the thought buffer, the trainer's loop, the checks and the scripts on shared files), and what it takes from verl
that is concurrent (checkpoints, reward loop, ranks in collectives), is in the models.

## 7. Plan

Done, in this order, as their faults cost most and are seen latest: dataloader, thought buffer, training loop, group
filter; then the reward loop, the micro-batches and the annotation scripts.

What a continuation would take up:

1. `AgentLoop`: least-loaded routing with sticky requests in `agent_loop.py`, and the router of the reward loop with its
   counts.
2. `GuiReward`: the rules of `gui_agent.py` as operators over abstract actions, with a reference definition.
3. Padding and chunking in `protocol.py`, by functions over bounded inputs.
4. The safety halves of `JobEnds` and `AllAnswered`, as `RanksMeet` is that of `StepEnds`: that no barrier of a save is left out by a rank
   and that a token, a place in the semaphore and a thread that are free have a taker.
