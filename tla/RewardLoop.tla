------------------------------ MODULE RewardLoop ------------------------------
(***************************************************************************)
(* One RewardLoopWorker of verl/experimental/reward_loop/reward_loop.py    *)
(* with the rate_limited reward manager (reward_manager/limited.py): a     *)
(* batch of samples, a coroutine for each, on one event loop.  A coroutine *)
(* decodes its response in the thread pool of the loop, passes the request *)
(* and the token limiter, waits for the semaphore and calls the score      *)
(* function under a timeout, a coroutine of the loop or, when the function *)
(* is synchronous, a job of the same pool.                                 *)
(*                                                                         *)
(* Between two awaits nothing else runs on the loop, so that a locked      *)
(* section of a limiter is one step, and the loop is never a whole tick    *)
(* late: Tick waits for what is due.  The threads are not bound to that.   *)
(*                                                                         *)
(* A definition called a variant is a wrong version of the one after it.   *)
(***************************************************************************)
EXTENDS TokenBucket, FiniteSets, SequencesExt

CONSTANTS
    BatchSize,       \* the samples of a batch
    Batches,         \* bound: calls of compute_rm_score
    Requirements,    \* what a request needs of each limiter, 0 where there is none
    max_concurrent,
    timeout,
    Threads,         \* of the executor of the loop
    MaxHung,         \* bound: calls of a synchronous function that never return
    ResultKeys       \* the keys of a dict that the score function returns

Samples == 1 .. BatchSize
Limiters == {"rpm", "tpm"}
Jobs == (1 .. Batches) \X Samples \X {"decode", "score"}

ASSUME RewardAssumption ==
    /\ BatchSize \in Nat \ {0} /\ Batches \in Nat \ {0}
    /\ Requirements \subseteq [Limiters -> Nat]
    /\ max_concurrent \in Nat \ {0} /\ timeout \in Nat \ {0}
    /\ Threads \in Nat \ {0} /\ MaxHung \in 0 .. Threads - 1

VARIABLES
    need, is_async_reward_score,    \* the configuration
    now,                            \* loop.time()
    bucket,                         \* _rpm_limiter and _tpm_limiter
    passes,                         \* ghost: when each limiter let its requests through
    stage, paid, wake,              \* of each coroutine: where it is, whether it is debited
                                    \* already, when its timer fires
    line,                           \* the coroutines at the semaphore, in their order
    queue, running, hung,           \* the jobs of the thread pool
    round, batch                    \* the batches and how they ended

limiterVars == << bucket, passes >>
poolVars == << queue, running, hung >>
batchVars == << round, batch >>
config == << need, is_async_reward_score >>
vars == << config, now, limiterVars, stage, paid, wake, line, poolVars, batchVars >>

Answers == {"score", "timeout", "error"}

DecodeJobs(r) == [s \in Samples |-> << r, s, "decode" >>]

Init ==
    /\ need \in Requirements
    /\ is_async_reward_score \in BOOLEAN
    /\ now = 0
    /\ bucket = [lim \in Limiters |-> NewBucket]
    /\ passes = [lim \in Limiters |-> << >>]
    /\ stage = [s \in Samples |-> "decode"]
    /\ paid = [s \in Samples |-> FALSE]
    /\ wake = [s \in Samples |-> 0]
    /\ line = << >>
    /\ queue = DecodeJobs(1) /\ running = {} /\ hung = {}
    /\ round = 1 /\ batch = "running"

-----------------------------------------------------------------------------
(* The thread pool.                                                        *)

\* Variant: a thread more than there are.
BeginOneMore ==
    /\ queue # << >>
    /\ Cardinality(running) <= Threads
    /\ running' = running \cup {Head(queue)}
    /\ queue' = Tail(queue)
    /\ UNCHANGED << config, now, limiterVars, stage, paid, wake, line, hung, batchVars >>

BeginJob ==
    /\ queue # << >>
    /\ Cardinality(running) < Threads
    /\ running' = running \cup {Head(queue)}
    /\ queue' = Tail(queue)
    /\ UNCHANGED << config, now, limiterVars, stage, paid, wake, line, hung, batchVars >>

\* A synchronous call that never returns keeps its thread.
Hang(job) ==
    /\ job \in running \ hung
    /\ job[3] = "score"
    /\ Cardinality(hung) < MaxHung
    /\ hung' = hung \cup {job}
    /\ UNCHANGED << config, now, limiterVars, stage, paid, wake, line, queue, running, batchVars >>

\* A thread is through with its job.
EndJob(job) ==
    /\ job \in running \ hung
    /\ running' = running \ {job}
    /\ UNCHANGED << config, now, queue, hung, batchVars >>

-----------------------------------------------------------------------------
(* run_single                                                              *)

\* Where a coroutine comes to after a stage: the limiters that are configured, then the
\* semaphore, at which it lines up.
Following(at) ==
    IF at = "decode" /\ need["rpm"] > 0 THEN "rpm"
    ELSE IF at # "tpm" /\ need["tpm"] > 0 THEN "tpm"
    ELSE "semaphore"

GoesOn(s) ==
    /\ stage' = [stage EXCEPT ![s] = Following(@)]
    /\ line' = IF Following(stage[s]) = "semaphore" THEN Append(line, s) ELSE line

Decoded(s) ==
    /\ EndJob(<< round, s, "decode" >>)
    /\ GoesOn(s)
    /\ wake' = [wake EXCEPT ![s] = now]
    /\ UNCHANGED << limiterVars, paid >>

Due(s) == wake[s] <= now

\* acquire(): the bucket has enough and the coroutine does not wait.
TakeTokens(s, lim) ==
    LET b == Refilled(bucket[lim], now) IN
    /\ stage[s] = lim /\ Due(s) /\ ~paid[s]
    /\ ~ExceedsBucket(need[lim])
    /\ b.tokens >= need[lim]
    /\ bucket' = [bucket EXCEPT ![lim] = Debited(b, need[lim])]
    /\ passes' = [passes EXCEPT ![lim] = Append(@, now)]
    /\ GoesOn(s)
    /\ UNCHANGED << config, now, paid, wake, poolVars, batchVars >>

\* It has not: the coroutine sleeps until it would have, and asks again.
SleepForTokens(s, lim) ==
    LET b == Refilled(bucket[lim], now) IN
    /\ stage[s] = lim /\ Due(s) /\ ~paid[s]
    /\ ~ExceedsBucket(need[lim])
    /\ b.tokens < need[lim]
    /\ bucket' = [bucket EXCEPT ![lim] = b]
    /\ wake' = [wake EXCEPT ![s] = now + tokens_needed(b, need[lim])]
    /\ UNCHANGED << config, now, passes, stage, paid, line, poolVars, batchVars >>

\* A request for more than the bucket holds takes its tokens at once, and sleeps until
\* they would have been there.
PayInAdvance(s, lim) ==
    LET b == Refilled(bucket[lim], now)
        until == now + tokens_needed(b, need[lim])
    IN
    /\ stage[s] = lim /\ Due(s) /\ ~paid[s]
    /\ ExceedsBucket(need[lim])
    /\ bucket' = [bucket EXCEPT ![lim] = Debited(b, need[lim])]
    /\ passes' = [passes EXCEPT ![lim] = Append(@, until)]
    /\ wake' = [wake EXCEPT ![s] = until]
    /\ paid' = [paid EXCEPT ![s] = TRUE]
    /\ UNCHANGED << config, now, stage, line, poolVars, batchVars >>

Paid(s) ==
    /\ stage[s] \in Limiters /\ Due(s) /\ paid[s]
    /\ paid' = [paid EXCEPT ![s] = FALSE]
    /\ GoesOn(s)
    /\ UNCHANGED << config, now, limiterVars, wake, poolVars, batchVars >>

Holders == {s \in Samples : stage[s] = "call"}

\* The first in line enters the semaphore and calls the score function: a coroutine
\* starts at once, a synchronous function is queued for a thread.
StartCall ==
    /\ line # << >>
    /\ Cardinality(Holders) < max_concurrent
    /\ LET s == Head(line) IN
       /\ stage' = [stage EXCEPT ![s] = "call"]
       /\ wake' = [wake EXCEPT ![s] = now + timeout]
       /\ queue' = IF is_async_reward_score THEN queue
                   ELSE Append(queue, << round, s, "score" >>)
    /\ line' = Tail(line)
    /\ UNCHANGED << config, now, limiterVars, paid, running, hung, batchVars >>

\* The call returns a score or raises; the semaphore is released.
Returned(s) ==
    \E outcome \in {"score", "error"} : stage' = [stage EXCEPT ![s] = outcome]

AsyncCallReturns(s) ==
    /\ is_async_reward_score
    /\ stage[s] = "call"
    /\ Returned(s)
    /\ UNCHANGED << config, now, limiterVars, paid, wake, line, poolVars, batchVars >>

Awaited(job) == job[1] = round /\ stage[job[2]] = "call"

SyncCallReturns(job) ==
    /\ job[3] = "score"
    /\ EndJob(job)
    /\ IF Awaited(job) THEN Returned(job[2]) ELSE UNCHANGED stage
    /\ UNCHANGED << limiterVars, paid, wake, line >>

\* Variant: the job stays in the pool.
NotCancelled(jobs, s) == jobs

\* A job that no thread has begun is cancelled, one that runs is left alone.
Cancelled(jobs, s) ==
    LET places == {i \in DOMAIN jobs : jobs[i] = << round, s, "score" >>}
    IN  IF places = {} THEN jobs ELSE RemoveAt(jobs, CHOOSE i \in places : TRUE)

\* Variant: without wait_for a synchronous call is awaited as long as it runs.
TimeOutAsync(s) ==
    /\ is_async_reward_score
    /\ stage[s] = "call" /\ Due(s)
    /\ stage' = [stage EXCEPT ![s] = "timeout"]
    /\ UNCHANGED << config, now, limiterVars, paid, wake, line, poolVars, batchVars >>

\* wait_for gives the call up and run_single answers 0; the semaphore is released.
TimeOut(s) ==
    /\ stage[s] = "call" /\ Due(s)
    /\ stage' = [stage EXCEPT ![s] = "timeout"]
    /\ queue' = Cancelled(queue, s)
    /\ UNCHANGED << config, now, limiterVars, paid, wake, line, running, hung, batchVars >>

-----------------------------------------------------------------------------
(* compute_rm_score                                                        *)

\* The keys of reward_extra_info.
InfoKeys(answer) ==
    CASE answer = "score" -> ResultKeys
      [] answer = "timeout" -> {"timeout", "acc"}
      [] OTHER -> {"error", "acc"}

\* The keys of the first sample are looked up in every sample.
Tabulated == \A s \in Samples : InfoKeys(stage[1]) \subseteq InfoKeys(stage[s])

\* gather() and ray.get() return with the answers of the whole batch: the scores are
\* tabulated and the trainer comes back with the next batch, or a KeyError ends the job.
EndBatch ==
    /\ batch = "running"
    /\ \A s \in Samples : stage[s] \in Answers
    /\ IF Tabulated /\ round < Batches
       THEN /\ round' = round + 1
            /\ stage' = [s \in Samples |-> "decode"]
            /\ queue' = queue \o DecodeJobs(round + 1)
            /\ UNCHANGED batch
       ELSE /\ batch' = IF Tabulated THEN "scored" ELSE "KeyError"
            /\ UNCHANGED << round, stage, queue >>
    /\ UNCHANGED << config, now, limiterVars, paid, wake, line, running, hung >>

-----------------------------------------------------------------------------
(* Time.                                                                   *)

HasTimer(s) == stage[s] \in Limiters \cup {"call"}

Tick ==
    /\ \E s \in Samples : HasTimer(s)
    /\ \A s \in Samples : HasTimer(s) => ~Due(s)
    /\ line = << >> \/ Cardinality(Holders) = max_concurrent
    /\ now' = now + 1
    /\ UNCHANGED << config, limiterVars, stage, paid, wake, line, poolVars, batchVars >>

Next ==
    \/ BeginJob
    \/ \E job \in Jobs : Hang(job) \/ SyncCallReturns(job)
    \/ \E s \in Samples : \/ Decoded(s)
                          \/ Paid(s)
                          \/ AsyncCallReturns(s)
                          \/ TimeOut(s)
    \/ \E s \in Samples, lim \in Limiters :
            TakeTokens(s, lim) \/ SleepForTokens(s, lim) \/ PayInAdvance(s, lim)
    \/ StartCall
    \/ EndBatch
    \/ Tick

Spec == Init /\ [][Next]_vars

\* The event loop, its threads and the clock go on; of the calls only those return that do
\* not hang.
FairSpec == Spec /\ WF_vars(Next)
-----------------------------------------------------------------------------
(* Type invariant.                                                         *)

Stages == {"decode", "rpm", "tpm", "semaphore", "call"} \cup Answers

\* Every variable has its type.
TypeOK ==
    /\ need \in Requirements
    /\ is_async_reward_score \in BOOLEAN
    /\ now \in Nat
    /\ bucket \in [Limiters -> BucketType]
    /\ passes \in [Limiters -> Seq(Nat)]
    /\ stage \in [Samples -> Stages]
    /\ paid \in [Samples -> BOOLEAN]
    /\ wake \in [Samples -> Nat]
    /\ line \in Seq(Samples)
    /\ queue \in Seq(Jobs)
    /\ running \subseteq Jobs /\ Cardinality(running) <= Threads
    /\ hung \subseteq running
    /\ round \in 1 .. Batches
    /\ batch \in {"running", "scored", "KeyError"}

(* Safety.                                                                 *)

\* However the coroutines sleep and wake, what a limiter lets through between two requests,
\* both included, is at most what a full bucket holds, or what one request needs if that
\* is more, and what comes back in between.
RateKept ==
    \A lim \in Limiters : \A i, j \in DOMAIN passes[lim] :
        i <= j =>
            (j - i + 1) * need[lim] <= (IF ExceedsBucket(need[lim]) THEN need[lim] ELSE Second)
                                        + passes[lim][j] - passes[lim][i]

\* No coroutine sleeps at a limiter that has enough for it: it has computed its wait
\* from a bucket that only the others' requests have changed since.
NoIdleTokens ==
    \A s \in Samples, lim \in Limiters :
        stage[s] = lim /\ ~paid[s] /\ wake[s] > now =>
            Refilled(bucket[lim], now).tokens < need[lim]

(* Action properties.                                                      *)

Begun == {job \in running' \ running : job[3] = "score"}

\* The score function is not called, on behalf of the API that the limits protect, for a
\* sample that has its answer already: its job has waited too long in the pool.
NoCallAfterTimeout == [][\A job \in Begun : Awaited(job)]_vars

(* Liveness.                                                               *)

\* Every batch is answered, also when calls hang, as long as fewer of them do than the
\* pool has threads.
AllAnswered == <>(batch # "running")
=============================================================================
