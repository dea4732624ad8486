--------------------------- MODULE RewardLoopProofs ---------------------------
(***************************************************************************)
(* Proofs about the reward loop, for every batch, every limit and any      *)
(* number of threads: its types, the rate that the limiters keep, that     *)
(* nobody sleeps without need, and that the score function is never called *)
(* for a sample that has its answer already.                               *)
(***************************************************************************)
EXTENDS RewardLoop, SequenceTheorems, FiniteSetTheorems, TLAPS

-----------------------------------------------------------------------------
(* Facts about buckets and sequences.                                      *)

\* A refill adds what has come back since last_update and no more than fits.
LEMMA RefilledFacts ==
    ASSUME NEW b \in BucketType, NEW t \in Nat, b.last_update <= t
    PROVE  /\ Refilled(b, t) \in BucketType
           /\ Refilled(b, t).last_update = t
           /\ Refilled(b, t).tokens \in Int
           /\ Refilled(b, t).tokens <= Second
           /\ b.tokens <= Refilled(b, t).tokens
           /\ Refilled(b, t).tokens <=
                 b.tokens + (IF b.last_update = Never THEN 0 ELSE t - b.last_update)
<1> DEFINE elapsed == IF b.last_update = Never THEN 0 ELSE t - b.last_update
           tokens == Least(Second, b.tokens + elapsed)
<1>1. Second \in Nat /\ Never = -1
  BY SecondAssumption DEF Never
<1>2. b.tokens \in Int /\ b.tokens <= Second /\ b.last_update \in {Never} \cup Nat
  BY DEF BucketType
<1>3. elapsed \in Nat
  BY <1>1, <1>2
<1>4. Refilled(b, t) = [tokens |-> tokens, last_update |-> t]
  BY DEF Refilled
<1> HIDE DEF elapsed
<1>5. tokens \in Int /\ tokens <= Second /\ b.tokens <= tokens /\ tokens <= b.tokens + elapsed
  BY <1>1, <1>2, <1>3 DEF Least
<1> HIDE DEF tokens
<1>6. Refilled(b, t) \in BucketType
  BY <1>4, <1>5 DEF BucketType
<1> QED BY <1>4, <1>5, <1>6 DEF elapsed

\* A debit takes the tokens and leaves the time.
LEMMA DebitedFacts ==
    ASSUME NEW b \in BucketType, NEW k \in Nat
    PROVE  /\ Debited(b, k) \in BucketType
           /\ Debited(b, k).last_update = b.last_update
           /\ Debited(b, k).tokens = b.tokens - k
<1>1. b.tokens \in Int /\ b.tokens <= Second /\ Second \in Nat
  BY SecondAssumption DEF BucketType
<1>2. /\ Debited(b, k) = [tokens |-> b.tokens - k, last_update |-> b.last_update]
  BY DEF Debited, BucketType
<1>3. b.tokens - k \in Int /\ b.tokens - k <= Second
  BY <1>1
<1> QED BY <1>2, <1>3 DEF BucketType

\* Without one of its elements a sequence holds the others.
LEMMA RemoveAtFacts ==
    ASSUME NEW S, NEW q \in Seq(S), NEW i \in 1 .. Len(q)
    PROVE  /\ RemoveAt(q, i) \in Seq(S)
           /\ Len(RemoveAt(q, i)) = Len(q) - 1
           /\ \A k \in 1 .. Len(q) - 1 :
                 RemoveAt(q, i)[k] = IF k < i THEN q[k] ELSE q[k + 1]
<1> DEFINE a == SubSeq(q, 1, i - 1)
           b == SubSeq(q, i + 1, Len(q))
<1>1. Len(q) \in Nat /\ \A k \in 1 .. Len(q) : q[k] \in S
  BY LenProperties, ElementOfSeq
<1>2. /\ a \in Seq(S) /\ Len(a) = i - 1
      /\ \A k \in 1 .. i - 1 : a[k] = q[k]
  <2>1. 1 \in Int /\ i - 1 \in Int /\ \A k \in 1 .. i - 1 : q[k] \in S
    BY <1>1
  <2>2. /\ a \in Seq(S)
        /\ Len(a) = IF 1 <= i - 1 THEN (i - 1) - 1 + 1 ELSE 0
        /\ \A k \in 1 .. (i - 1) - 1 + 1 : a[k] = q[1 + k - 1]
    BY <2>1, SubSeqProperties
  <2> HIDE DEF a
  <2> QED BY <2>2, <1>1
<1>3. /\ b \in Seq(S) /\ Len(b) = Len(q) - i
      /\ \A k \in 1 .. Len(q) - i : b[k] = q[i + k]
  <2>1. i + 1 \in Int /\ Len(q) \in Int /\ \A k \in i + 1 .. Len(q) : q[k] \in S
    BY <1>1
  <2>2. /\ b \in Seq(S)
        /\ Len(b) = IF i + 1 <= Len(q) THEN Len(q) - (i + 1) + 1 ELSE 0
        /\ \A k \in 1 .. Len(q) - (i + 1) + 1 : b[k] = q[(i + 1) + k - 1]
    BY <2>1, SubSeqProperties
  <2> HIDE DEF b
  <2> QED BY <2>2, <1>1
<1>4. RemoveAt(q, i) = a \o b
  BY DEF RemoveAt
<1> HIDE DEF a, b
<1>5. /\ a \o b \in Seq(S)
      /\ Len(a \o b) = Len(a) + Len(b)
      /\ \A k \in 1 .. Len(a) + Len(b) :
            (a \o b)[k] = IF k <= Len(a) THEN a[k] ELSE b[k - Len(a)]
  BY <1>2, <1>3, ConcatProperties
<1>6. Len(a) + Len(b) = Len(q) - 1
  BY <1>1, <1>2, <1>3
<1>7. ASSUME NEW k \in 1 .. Len(q) - 1
      PROVE  (a \o b)[k] = IF k < i THEN q[k] ELSE q[k + 1]
  <2>1. CASE k < i
    BY <2>1, <1>1, <1>2, <1>5, <1>6
  <2>2. CASE ~ k < i
    <3>1. k - (i - 1) \in 1 .. Len(q) - i /\ ~ k <= i - 1 /\ i + (k - (i - 1)) = k + 1
      BY <2>2, <1>1
    <3>2. (a \o b)[k] = b[k - (i - 1)]
      BY <3>1, <1>2, <1>5, <1>6
    <3> QED BY <3>1, <3>2, <1>3, <2>2
  <2> QED BY <2>1, <2>2
<1> QED BY <1>4, <1>5, <1>6, <1>7
-----------------------------------------------------------------------------
(* Type correctness.                                                       *)

\* The places of a batch, its jobs and the constants are what they should be.
LEMMA Constants ==
    /\ BatchSize \in Nat \ {0} /\ Batches \in Nat \ {0}
    /\ Requirements \subseteq [Limiters -> Nat]
    /\ timeout \in Nat \ {0} /\ Threads \in Nat \ {0}
    /\ Second \in Nat \ {0} /\ Never = -1
BY RewardAssumption, SecondAssumption DEF Never

\* The decode jobs of a round are a sequence of jobs, one for each sample.
LEMMA DecodeJobsType ==
    ASSUME NEW r \in 1 .. Batches
    PROVE  /\ DecodeJobs(r) \in Seq(Jobs)
           /\ Len(DecodeJobs(r)) = BatchSize
           /\ \A i \in 1 .. BatchSize : DecodeJobs(r)[i] = << r, i, "decode" >>
<1>1. \A s \in 1 .. BatchSize : << r, s, "decode" >> \in Jobs
  BY DEF Jobs, Samples
<1>2. [s \in 1 .. BatchSize |-> << r, s, "decode" >>] \in Seq(Jobs)
  BY <1>1, Constants, IsASeq
<1>3. DecodeJobs(r) = [s \in 1 .. BatchSize |-> << r, s, "decode" >>]
  BY DEF DecodeJobs, Samples
<1>4. DecodeJobs(r) \in Seq(Jobs) /\ DOMAIN DecodeJobs(r) = 1 .. BatchSize
  BY <1>2, <1>3
<1>5. Len(DecodeJobs(r)) \in Nat /\ DOMAIN DecodeJobs(r) = 1 .. Len(DecodeJobs(r))
  BY <1>4, LenProperties
<1>6. Len(DecodeJobs(r)) = BatchSize
  BY <1>4, <1>5, Constants
<1> QED BY <1>3, <1>4, <1>6


\* One element more or less changes the size of a set by at most one.
LEMMA OneMoreOrLess ==
    ASSUME NEW S, IsFiniteSet(S), NEW x, NEW k \in Nat, Cardinality(S) <= k
    PROVE  /\ IsFiniteSet(S \cup {x}) /\ Cardinality(S \cup {x}) <= k + 1
           /\ Cardinality(S) < k => Cardinality(S \cup {x}) <= k
           /\ IsFiniteSet(S \ {x}) /\ Cardinality(S \ {x}) <= k
<1>1. Cardinality(S) \in Nat
  BY FS_CardinalityType
<1>2. /\ IsFiniteSet(S \cup {x})
      /\ Cardinality(S \cup {x}) \in {Cardinality(S), Cardinality(S) + 1}
  BY FS_AddElement
<1>3. /\ IsFiniteSet(S \ {x})
      /\ Cardinality(S \ {x}) \in {Cardinality(S), Cardinality(S) - 1}
  BY FS_RemoveElement
<1> QED BY <1>1, <1>2, <1>3

\* What a coroutine comes to is a stage, and the line stays one of samples.
LEMMA GoesOnType ==
    ASSUME stage \in [Samples -> Stages], line \in Seq(Samples), NEW s \in Samples, GoesOn(s)
    PROVE  /\ Following(stage[s]) \in {"rpm", "tpm", "semaphore"}
           /\ stage' \in [Samples -> Stages]
           /\ line' \in Seq(Samples)
<1>1. Following(stage[s]) \in {"rpm", "tpm", "semaphore"}
  BY DEF Following
<1>2. Append(line, s) \in Seq(Samples)
  BY AppendProperties
<1> QED BY <1>1, <1>2 DEF GoesOn, Stages

\* The number of jobs that run can be counted.
TypeInv == TypeOK /\ IsFiniteSet(running)

LEMMA TypeInit == Init => TypeInv
<1> SUFFICES ASSUME Init PROVE TypeInv
  OBVIOUS
<1> USE DEF Init
<1>1. need \in Requirements /\ is_async_reward_score \in BOOLEAN /\ now \in Nat
  OBVIOUS
<1>2. bucket \in [Limiters -> BucketType]
  BY Constants DEF BucketType, NewBucket
<1>3. passes \in [Limiters -> Seq(Nat)]
  OBVIOUS
<1>4. /\ stage \in [Samples -> Stages] /\ paid \in [Samples -> BOOLEAN]
      /\ wake \in [Samples -> Nat]
  BY DEF Stages
<1>5. line \in Seq(Samples) /\ hung \subseteq running /\ running \subseteq Jobs
  OBVIOUS
<1>6. queue \in Seq(Jobs) /\ round \in 1 .. Batches
  BY Constants, DecodeJobsType
<1>7. IsFiniteSet(running) /\ Cardinality(running) <= Threads
  BY FS_EmptySet, Constants
<1> QED BY <1>1, <1>2, <1>3, <1>4, <1>5, <1>6, <1>7 DEF TypeOK, TypeInv

LEMMA TypeStep == TypeInv /\ [Next]_vars => TypeInv'
<1> SUFFICES ASSUME TypeOK, IsFiniteSet(running), [Next]_vars PROVE TypeInv'
  BY DEF TypeInv
<1> USE DEF TypeOK, TypeInv
<1>1. CASE BeginJob
  <2>1. Head(queue) \in Jobs /\ Tail(queue) \in Seq(Jobs)
    BY <1>1, HeadTailProperties DEF BeginJob
  <2>2. /\ IsFiniteSet(running \cup {Head(queue)})
        /\ Cardinality(running \cup {Head(queue)}) <= Threads
    <3>1. Cardinality(running) < Threads /\ Threads \in Nat
      BY <1>1, Constants DEF BeginJob
    <3> QED BY <3>1, OneMoreOrLess
  <2> QED BY <1>1, <2>1, <2>2 DEF BeginJob, config, limiterVars, batchVars
<1>2. ASSUME NEW job \in Jobs, Hang(job) PROVE TypeInv'
  BY <1>2 DEF Hang, config, limiterVars, batchVars
<1>3. ASSUME NEW job, running' = running \ {job}, job \notin hung, hung' = hung
      PROVE  /\ running' \subseteq Jobs /\ hung' \subseteq running' /\ IsFiniteSet(running')
             /\ Cardinality(running') <= Threads
  <2>1. IsFiniteSet(running \ {job}) /\ Cardinality(running \ {job}) <= Threads
    BY OneMoreOrLess, Constants
  <2> QED BY <1>3, <2>1
<1>4. ASSUME NEW s \in Samples, Decoded(s) PROVE TypeInv'
  <2>1. /\ running' \subseteq Jobs /\ hung' \subseteq running' /\ IsFiniteSet(running')
        /\ Cardinality(running') <= Threads
    BY <1>3, <1>4 DEF Decoded, EndJob
  <2>2. stage' \in [Samples -> Stages] /\ line' \in Seq(Samples)
    BY <1>4, GoesOnType DEF Decoded
  <2>3. wake' \in [Samples -> Nat]
    BY <1>4 DEF Decoded
  <2> QED BY <1>4, <2>1, <2>2, <2>3 DEF Decoded, EndJob, config, limiterVars, batchVars
<1>5. ASSUME NEW job \in Jobs, SyncCallReturns(job) PROVE TypeInv'
  <2>1. /\ running' \subseteq Jobs /\ hung' \subseteq running' /\ IsFiniteSet(running')
        /\ Cardinality(running') <= Threads
    BY <1>3, <1>5 DEF SyncCallReturns, EndJob
  <2>2. stage' \in [Samples -> Stages]
    BY <1>5 DEF SyncCallReturns, Returned, Stages, Answers
  <2> QED BY <1>5, <2>1, <2>2 DEF SyncCallReturns, EndJob, config, limiterVars, batchVars
<1>6. ASSUME NEW s \in Samples, Paid(s) PROVE TypeInv'
  <2>1. stage' \in [Samples -> Stages] /\ line' \in Seq(Samples)
    BY <1>6, GoesOnType DEF Paid
  <2> QED BY <1>6, <2>1 DEF Paid, config, limiterVars, poolVars, batchVars
<1>7. ASSUME NEW s \in Samples, AsyncCallReturns(s) PROVE TypeInv'
  <2>1. stage' \in [Samples -> Stages]
    BY <1>7 DEF AsyncCallReturns, Returned, Stages, Answers
  <2> QED BY <1>7, <2>1 DEF AsyncCallReturns, config, limiterVars, poolVars, batchVars
<1>8. ASSUME NEW s \in Samples, TimeOut(s) PROVE TypeInv'
  <2>1. stage' \in [Samples -> Stages]
    BY <1>8 DEF TimeOut, Stages, Answers
  <2>2. Cancelled(queue, s) \in Seq(Jobs)
    <3> DEFINE places == {i \in DOMAIN queue : queue[i] = << round, s, "score" >>}
    <3>1. CASE places = {}
      BY <3>1 DEF Cancelled
    <3>2. CASE places # {}
      <4>1. DOMAIN queue = 1 .. Len(queue)
        BY LenProperties
      <4>2. (CHOOSE i \in places : TRUE) \in 1 .. Len(queue)
        BY <3>2, <4>1
      <4> QED BY <3>2, <4>2, RemoveAtFacts DEF Cancelled
    <3> QED BY <3>1, <3>2
  <2> QED BY <1>8, <2>1, <2>2 DEF TimeOut, config, limiterVars, batchVars
<1>9. ASSUME NEW lim \in Limiters
      PROVE  /\ Refilled(bucket[lim], now) \in BucketType
             /\ need[lim] \in Nat
             /\ Debited(Refilled(bucket[lim], now), need[lim]) \in BucketType
             /\ \A k \in Nat : Append(passes[lim], k) \in Seq(Nat)
             /\ need[lim] - Refilled(bucket[lim], now).tokens \in Int
  <2>1. need[lim] \in Nat /\ bucket[lim] \in BucketType
    BY Constants
  <2>2. Refilled(bucket[lim], now) \in BucketType
    <3> DEFINE b == bucket[lim]
               elapsed == IF b.last_update = Never THEN 0 ELSE now - b.last_update
    <3>1. b.tokens \in Int /\ b.last_update \in Int /\ elapsed \in Int /\ Second \in Nat
      BY <2>1, Constants DEF BucketType
    <3> HIDE DEF elapsed
    <3>2. Least(Second, b.tokens + elapsed) \in Int /\ Least(Second, b.tokens + elapsed) <= Second
      BY <3>1 DEF Least
    <3> QED BY <3>2 DEF Refilled, BucketType, elapsed
  <2>3. need[lim] - Refilled(bucket[lim], now).tokens \in Int
    BY <2>1, <2>2 DEF BucketType
  <2> QED BY <2>1, <2>2, <2>3, DebitedFacts, AppendProperties
<1>10. ASSUME NEW s \in Samples, NEW lim \in Limiters, TakeTokens(s, lim) PROVE TypeInv'
  <2>1. stage' \in [Samples -> Stages] /\ line' \in Seq(Samples)
    BY <1>10, GoesOnType DEF TakeTokens
  <2>2. bucket' \in [Limiters -> BucketType] /\ passes' \in [Limiters -> Seq(Nat)]
    BY <1>9, <1>10 DEF TakeTokens
  <2> QED BY <1>10, <2>1, <2>2 DEF TakeTokens, config, poolVars, batchVars
<1>11. ASSUME NEW s \in Samples, NEW lim \in Limiters, SleepForTokens(s, lim) PROVE TypeInv'
  <2> DEFINE b == Refilled(bucket[lim], now)
  <2>1. bucket' \in [Limiters -> BucketType]
    BY <1>9, <1>11 DEF SleepForTokens
  <2>2. now + tokens_needed(b, need[lim]) \in Nat
    <3>1. need[lim] - b.tokens \in Int /\ b.tokens \in Int /\ need[lim] \in Int
      BY <1>9, Constants DEF BucketType
    <3>2. b.tokens < need[lim]
      BY <1>11 DEF SleepForTokens
    <3> HIDE DEF b
    <3> QED BY <3>1, <3>2 DEF tokens_needed
  <2>3. wake' \in [Samples -> Nat]
    BY <1>11, <2>2 DEF SleepForTokens
  <2> QED BY <1>11, <2>1, <2>3 DEF SleepForTokens, config, poolVars, batchVars
<1>12. ASSUME NEW s \in Samples, NEW lim \in Limiters, PayInAdvance(s, lim) PROVE TypeInv'
  <2> DEFINE b == Refilled(bucket[lim], now)
             until == now + tokens_needed(b, need[lim])
  <2>1. until \in Nat
    <3>1. b.tokens \in Int /\ need[lim] \in Int /\ b.tokens <= Second /\ Second \in Nat
      BY <1>9, Constants DEF BucketType
    <3>2. need[lim] > Second
      BY <1>12 DEF PayInAdvance, ExceedsBucket
    <3> HIDE DEF b
    <3> QED BY <3>1, <3>2 DEF tokens_needed
  <2>2. bucket' \in [Limiters -> BucketType]
    BY <1>9, <1>12 DEF PayInAdvance
  <2>3. passes' \in [Limiters -> Seq(Nat)]
    BY <1>9, <1>12, <2>1 DEF PayInAdvance
  <2>4. wake' \in [Samples -> Nat] /\ paid' \in [Samples -> BOOLEAN]
    BY <1>12, <2>1 DEF PayInAdvance
  <2> QED BY <1>12, <2>2, <2>3, <2>4 DEF PayInAdvance, config, poolVars, batchVars
<1>13. CASE StartCall
  <2>1. Head(line) \in Samples /\ Tail(line) \in Seq(Samples)
    BY <1>13, HeadTailProperties DEF StartCall
  <2>2. stage' \in [Samples -> Stages] /\ wake' \in [Samples -> Nat]
    BY <1>13, <2>1, Constants DEF StartCall, Stages
  <2>3. << round, Head(line), "score" >> \in Jobs
    BY <2>1 DEF Jobs
  <2>4. queue' \in Seq(Jobs)
    BY <1>13, <2>3, AppendProperties DEF StartCall
  <2> QED BY <1>13, <2>1, <2>2, <2>4 DEF StartCall, config, limiterVars, batchVars
<1>14. CASE EndBatch
  <2>1. CASE Tabulated /\ round < Batches
    <3>1. round + 1 \in 1 .. Batches
      BY <2>1, Constants
    <3>2. queue \o DecodeJobs(round + 1) \in Seq(Jobs)
      BY <3>1, DecodeJobsType, ConcatProperties
    <3>3. stage' \in [Samples -> Stages]
      BY <1>14, <2>1 DEF EndBatch, Stages
    <3> QED BY <1>14, <2>1, <3>1, <3>2, <3>3 DEF EndBatch, config, limiterVars
  <2>2. CASE ~ (Tabulated /\ round < Batches)
    BY <1>14, <2>2 DEF EndBatch, config, limiterVars
  <2> QED BY <2>1, <2>2
<1>15. CASE Tick
  BY <1>15 DEF Tick, config, limiterVars, poolVars, batchVars
<1>16. CASE UNCHANGED vars
  BY <1>16 DEF vars, config, limiterVars, poolVars, batchVars
<1> QED BY <1>1, <1>2, <1>4, <1>5, <1>6, <1>7, <1>8, <1>10, <1>11, <1>12, <1>13, <1>14,
           <1>15, <1>16 DEF Next

\* Every variable has its type: no more jobs run than there are threads.
THEOREM TypeCorrect == Spec => []TypeOK
<1>1. TypeInv => TypeOK
  BY DEF TypeInv
<1> QED BY <1>1, TypeInit, TypeStep, PTL DEF Spec
-----------------------------------------------------------------------------
(* The rate of the limiters.                                               *)

Capacity(lim) == IF ExceedsBucket(need[lim]) THEN need[lim] ELSE Second

\* What was let through since request i, and what is left at t, is covered by the capacity
\* c and what has come back since.
Covered(P, n, tok, c, t) ==
    \A i \in DOMAIN P : (Len(P) - i + 1) * n + tok <= c + t - P[i]

\* The rate between any two requests.
AtRate(P, n, c) ==
    \A i, j \in DOMAIN P : i <= j => (j - i + 1) * n <= c + P[j] - P[i]

BucketInv(lim) ==
    /\ bucket[lim].last_update <= now
    /\ passes[lim] # << >> => bucket[lim].last_update # Never
    /\ ~ExceedsBucket(need[lim]) => bucket[lim].tokens >= 0
    /\ Covered(passes[lim], need[lim], bucket[lim].tokens, Capacity(lim),
               bucket[lim].last_update)
    /\ AtRate(passes[lim], need[lim], Capacity(lim))

RateInv == \A lim \in Limiters : BucketInv(lim)

\* Multiplication as the provers need it.
LEMMA OneMore == \A a, n \in Int : a * n \in Int /\ (a + 1) * n = a * n + n /\ 1 * n = n
OBVIOUS

\* One more request of n tokens, let through at g while the bucket held tok at t, keeps the
\* account and the rate.
LEMMA LetThrough ==
    ASSUME NEW P \in Seq(Nat), NEW g \in Nat, NEW n \in Nat,
           NEW c \in Int, NEW tok \in Int, NEW t \in Int,
           Covered(P, n, tok, c, t), AtRate(P, n, c),
           tok <= c + t - g, t - tok + n <= g, n <= c,
           NEW Q, Q = Append(P, g)
    PROVE  /\ Q \in Seq(Nat) /\ Q # << >>
           /\ Covered(Q, n, tok - n, c, t)
           /\ AtRate(Q, n, c)
<1>1. Len(P) \in Nat /\ DOMAIN P = 1 .. Len(P) /\ \A i \in 1 .. Len(P) : P[i] \in Nat
  BY LenProperties, ElementOfSeq
<1>2. /\ Q \in Seq(Nat) /\ Q # << >> /\ Len(Q) = Len(P) + 1
      /\ \A i \in 1 .. Len(P) : Q[i] = P[i]
      /\ Q[Len(P) + 1] = g
  BY AppendProperties
<1>3. DOMAIN Q = 1 .. Len(P) + 1
  BY <1>2, LenProperties
<1>4. ASSUME NEW i \in 1 .. Len(P)
      PROVE  /\ Q[i] = P[i] /\ P[i] \in Nat
             /\ Len(P) - i + 1 \in Int
             /\ Len(Q) - i + 1 = (Len(P) - i + 1) + 1
             /\ (Len(P) + 1) - i + 1 = (Len(P) - i + 1) + 1
  BY <1>1, <1>2
<1>5. ASSUME NEW i \in 1 .. Len(P), NEW x, x = (Len(P) - i + 1) * n
      PROVE  /\ (Len(Q) - i + 1) * n + (tok - n) <= c + t - Q[i]
             /\ ((Len(P) + 1) - i + 1) * n <= c + g - Q[i]
  <2>1. x \in Int /\ (Len(Q) - i + 1) * n = x + n /\ ((Len(P) + 1) - i + 1) * n = x + n
    BY <1>4, <1>5, OneMore
  <2>2. x + tok <= c + t - P[i]
    BY <1>1, <1>5 DEF Covered
  <2>3. x + n + (tok - n) <= c + t - P[i] /\ x + n <= c + g - P[i]
    <3>1. ASSUME NEW y \in Int, NEW p \in Nat, y + tok <= c + t - p
          PROVE  y + n + (tok - n) <= c + t - p /\ y + n <= c + g - p
      BY <3>1
    <3>2. x \in Int /\ P[i] \in Nat
      BY <1>4, <2>1
    <3> QED BY <2>2, <3>1, <3>2
  <2> QED BY <1>4, <2>1, <2>3
<1>6. 1 * n = n /\ Len(Q) - (Len(P) + 1) + 1 = 1 /\ (Len(P) + 1) - (Len(P) + 1) + 1 = 1
  BY <1>1, <1>2, OneMore
<1>7. Covered(Q, n, tok - n, c, t)
  <2> SUFFICES ASSUME NEW i \in DOMAIN Q
               PROVE  (Len(Q) - i + 1) * n + (tok - n) <= c + t - Q[i]
    BY DEF Covered
  <2>1. CASE i \in 1 .. Len(P)
    BY <2>1, <1>5
  <2>2. CASE i = Len(P) + 1
    <3>1. n + (tok - n) <= c + t - g
      OBVIOUS
    <3> QED BY <3>1, <2>2, <1>2, <1>6
  <2> QED BY <2>1, <2>2, <1>1, <1>3
<1>8. AtRate(Q, n, c)
  <2> SUFFICES ASSUME NEW i \in DOMAIN Q, NEW j \in DOMAIN Q, i <= j
               PROVE  (j - i + 1) * n <= c + Q[j] - Q[i]
    BY DEF AtRate
  <2>1. CASE j \in 1 .. Len(P)
    <3>1. i \in 1 .. Len(P)
      BY <2>1, <1>1, <1>3
    <3> QED BY <2>1, <3>1, <1>1, <1>2 DEF AtRate
  <2>2. CASE j = Len(P) + 1 /\ i = Len(P) + 1
    <3>1. n <= c + g - g
      OBVIOUS
    <3> QED BY <3>1, <2>2, <1>2, <1>6
  <2>3. CASE j = Len(P) + 1 /\ i \in 1 .. Len(P)
    BY <2>3, <1>2, <1>5
  <2> QED BY <2>1, <2>2, <2>3, <1>1, <1>3
<1> QED BY <1>2, <1>7, <1>8

\* A refill keeps the account.
LEMMA Refills ==
    ASSUME NEW P \in Seq(Nat), NEW n \in Nat, NEW c \in Int,
           NEW tok \in Int, NEW last \in Int, NEW tok2 \in Int, NEW t \in Int,
           Covered(P, n, tok, c, last),
           P # << >> => tok2 - tok <= t - last
    PROVE  Covered(P, n, tok2, c, t)
<1> SUFFICES ASSUME NEW i \in DOMAIN P PROVE (Len(P) - i + 1) * n + tok2 <= c + t - P[i]
  BY DEF Covered
<1>1. Len(P) \in Nat /\ i \in 1 .. Len(P) /\ P[i] \in Nat /\ P # << >>
  BY LenProperties, ElementOfSeq, EmptySeq
<1>2. (Len(P) - i + 1) * n + tok <= c + last - P[i]
  BY DEF Covered
<1>3. ASSUME NEW x \in Int, x + tok <= c + last - P[i] PROVE x + tok2 <= c + t - P[i]
  BY <1>1, <1>3
<1>4. (Len(P) - i + 1) * n \in Int
  <2>1. Len(P) - i + 1 \in Int
    BY <1>1
  <2> QED BY <2>1, OneMore
<1> QED BY <1>2, <1>3, <1>4
\* A section of acquire() that lets a request through, at once or at a time ahead.
LEMMA LetsThrough ==
    ASSUME TypeOK, NEW lim \in Limiters, BucketInv(lim), NEW g \in Nat,
           NEW tok, tok = Refilled(bucket[lim], now).tokens,
           tok <= Capacity(lim) + now - g, now - tok + need[lim] <= g,
           need[lim] <= Capacity(lim),
           ~ExceedsBucket(need[lim]) => tok >= need[lim],
           need' = need, now' = now,
           bucket'[lim] = Debited(Refilled(bucket[lim], now), need[lim]),
           passes'[lim] = Append(passes[lim], g)
    PROVE  BucketInv(lim)'
<1> DEFINE b == bucket[lim]
           b2 == Refilled(b, now)
           n == need[lim]
           P == passes[lim]
           c == Capacity(lim)
<1>1. b \in BucketType /\ n \in Nat /\ P \in Seq(Nat) /\ now \in Nat
  BY Constants DEF TypeOK
<1>2. b.last_update <= now /\ b.tokens \in Int /\ b.last_update \in Int /\ c \in Int
  BY <1>1, Constants DEF BucketInv, BucketType, Capacity
<1>3. /\ b2 \in BucketType /\ b2.last_update = now /\ tok \in Int
      /\ P # << >> => tok - b.tokens <= now - b.last_update
  <2>1. /\ b2 \in BucketType /\ b2.last_update = now /\ tok \in Int
        /\ tok <= b.tokens + (IF b.last_update = Never THEN 0 ELSE now - b.last_update)
    BY <1>1, <1>2, RefilledFacts
  <2>2. P # << >> => b.last_update # Never
    BY DEF BucketInv
  <2> HIDE DEF b, P
  <2> QED BY <1>1, <1>2, <2>1, <2>2
<1>4. bucket'[lim].tokens = tok - n /\ bucket'[lim].last_update = now
  <2>1. bucket'[lim] = Debited(b2, n) /\ tok = b2.tokens
    OBVIOUS
  <2> HIDE DEF b, b2, n, P, c
  <2>2. Debited(b2, n).last_update = b2.last_update /\ Debited(b2, n).tokens = b2.tokens - n
    BY <1>1, <1>3, DebitedFacts
  <2> QED BY <1>3, <2>1, <2>2
<1>5. Covered(P, n, tok, c, now)
  <2>1. Covered(P, n, b.tokens, c, b.last_update)
    BY DEF BucketInv
  <2> HIDE DEF b, P, n, c
  <2> QED BY <1>1, <1>2, <1>3, <2>1, Refills
<1>6. /\ passes'[lim] \in Seq(Nat) /\ passes'[lim] # << >>
      /\ Covered(passes'[lim], n, tok - n, c, now)
      /\ AtRate(passes'[lim], n, c)
  <2>1. AtRate(P, n, c)
    BY DEF BucketInv
  <2>2. tok <= c + now - g /\ now - tok + n <= g /\ n <= c /\ passes'[lim] = Append(P, g)
    OBVIOUS
  <2> HIDE DEF b, P, n, c
  <2>3. /\ passes'[lim] \in Seq(Nat) /\ passes'[lim] # << >>
        /\ Covered(passes'[lim], n, tok - n, c, now)
        /\ AtRate(passes'[lim], n, c)
    <3>1. ASSUME NEW PP \in Seq(Nat), NEW nn \in Nat, NEW cc \in Int, NEW tt \in Int,
                 NEW u \in Int, Covered(PP, nn, tt, cc, u), AtRate(PP, nn, cc),
                 tt <= cc + u - g, u - tt + nn <= g, nn <= cc, NEW Q, Q = Append(PP, g)
          PROVE  /\ Q \in Seq(Nat) /\ Q # << >> /\ Covered(Q, nn, tt - nn, cc, u)
                 /\ AtRate(Q, nn, cc)
      BY <3>1, LetThrough
    <3>2. now \in Int
      BY <1>1
    <3> QED BY <1>1, <1>2, <1>3, <1>5, <2>1, <2>2, <3>1, <3>2
  <2> QED BY <2>3
<1>7. Capacity(lim)' = c /\ need'[lim] = n
  BY DEF Capacity
<1>8. ~ExceedsBucket(n) => tok - n >= 0
  <2>1. ~ExceedsBucket(n) => tok >= n
    OBVIOUS
  <2> HIDE DEF n
  <2> QED BY <1>1, <1>3, <2>1
<1>9. now <= now /\ now # Never
  BY <1>1, Constants
<1> QED BY <1>4, <1>6, <1>7, <1>8, <1>9 DEF BucketInv

\* A limiter that nobody asks keeps its account while time goes on.
LEMMA Untouched ==
    ASSUME NEW lim \in Limiters, BucketInv(lim), TypeOK,
           need' = need, now' \in Nat, now <= now',
           bucket'[lim] = bucket[lim], passes'[lim] = passes[lim]
    PROVE  BucketInv(lim)'
<1>1. Capacity(lim)' = Capacity(lim)
  BY DEF Capacity
<1>2. bucket[lim].last_update <= now'
  <2>1. bucket[lim].last_update \in Int /\ now \in Nat /\ bucket[lim].last_update <= now
    BY Constants DEF TypeOK, BucketType, BucketInv
  <2> QED BY <2>1
<1> QED BY <1>1, <1>2 DEF BucketInv

\* A request that has to wait leaves the bucket refilled.
LEMMA SleepsOn ==
    ASSUME TypeOK, NEW lim \in Limiters, BucketInv(lim),
           need' = need, now' = now, passes' = passes,
           bucket'[lim] = Refilled(bucket[lim], now)
    PROVE  BucketInv(lim)'
<1> DEFINE b == bucket[lim]
           b2 == Refilled(b, now)
           n == need[lim]
           P == passes[lim]
           c == Capacity(lim)
<1>1. b \in BucketType /\ n \in Nat /\ P \in Seq(Nat) /\ now \in Nat
  BY Constants DEF TypeOK
<1>2. b.last_update <= now /\ b.tokens \in Int /\ b.last_update \in Int /\ c \in Int
  BY <1>1, Constants DEF BucketInv, BucketType, Capacity
<1>3. /\ b2.last_update = now /\ b2.tokens \in Int /\ b.tokens <= b2.tokens
      /\ P # << >> => b2.tokens - b.tokens <= now - b.last_update
  <2>1. /\ b2.last_update = now /\ b2.tokens \in Int /\ b.tokens <= b2.tokens
        /\ b2.tokens <= b.tokens + (IF b.last_update = Never THEN 0 ELSE now - b.last_update)
    BY <1>1, <1>2, RefilledFacts
  <2>2. P # << >> => b.last_update # Never
    BY DEF BucketInv
  <2> HIDE DEF b, P, b2
  <2> QED BY <1>1, <1>2, <2>1, <2>2
<1>4. Covered(P, n, b2.tokens, c, now)
  <2>1. Covered(P, n, b.tokens, c, b.last_update)
    BY DEF BucketInv
  <2> HIDE DEF b, P, n, c, b2
  <2> QED BY <1>1, <1>2, <1>3, <2>1, Refills
<1>5. ~ExceedsBucket(n) => b2.tokens >= 0
  <2>1. ~ExceedsBucket(n) => b.tokens >= 0
    BY DEF BucketInv
  <2> HIDE DEF b, b2
  <2> QED BY <1>2, <1>3, <2>1
<1>6. now <= now /\ now # Never
  BY <1>1, Constants
<1>7. Capacity(lim)' = c /\ need'[lim] = n
  BY DEF Capacity
<1> QED BY <1>3, <1>4, <1>5, <1>6, <1>7 DEF BucketInv
\* A step asks a limiter, or leaves all of them alone.
LEMMA LimiterSteps ==
    ASSUME TypeOK, [Next]_vars
    PROVE  /\ need' = need /\ now' \in Nat /\ now <= now'
           /\ \/ UNCHANGED limiterVars
              \/ \E s \in Samples, lim \in Limiters :
                    TakeTokens(s, lim) \/ SleepForTokens(s, lim) \/ PayInAdvance(s, lim)
<1> USE DEF config, limiterVars
<1>1. now \in Nat
  BY DEF TypeOK
<1>2. CASE Tick
  BY <1>1, <1>2 DEF Tick
<1>3. CASE UNCHANGED vars
  BY <1>1, <1>3 DEF vars
<1>4. ASSUME NEW s \in Samples, NEW lim \in Limiters,
             TakeTokens(s, lim) \/ SleepForTokens(s, lim) \/ PayInAdvance(s, lim)
      PROVE  need' = need /\ now' = now
  BY <1>4 DEF TakeTokens, SleepForTokens, PayInAdvance
<1>5. CASE BeginJob \/ StartCall \/ EndBatch
  BY <1>1, <1>5 DEF BeginJob, StartCall, EndBatch
<1>6. ASSUME NEW job \in Jobs, Hang(job) \/ SyncCallReturns(job)
      PROVE  need' = need /\ now' = now /\ UNCHANGED limiterVars
  BY <1>6 DEF Hang, SyncCallReturns, EndJob
<1>7. ASSUME NEW s \in Samples, Decoded(s) \/ Paid(s) \/ AsyncCallReturns(s) \/ TimeOut(s)
      PROVE  need' = need /\ now' = now /\ UNCHANGED limiterVars
  BY <1>7 DEF Decoded, EndJob, Paid, AsyncCallReturns, TimeOut
<1> QED BY <1>1, <1>2, <1>3, <1>4, <1>5, <1>6, <1>7 DEF Next

LEMMA RateInit == Init => RateInv
<1> SUFFICES ASSUME Init, NEW lim \in Limiters PROVE BucketInv(lim)
  BY DEF RateInv
<1>1. /\ bucket[lim].last_update = -1 /\ bucket[lim].tokens = Second
      /\ passes[lim] = << >> /\ now = 0
  BY DEF Init, NewBucket, Never
<1>2. DOMAIN passes[lim] = {}
  BY <1>1
<1> QED BY <1>1, <1>2, Constants DEF BucketInv, Covered, AtRate

LEMMA RateStep ==
    ASSUME TypeOK, RateInv, [Next]_vars
    PROVE  RateInv'
<1> SUFFICES ASSUME NEW l \in Limiters PROVE BucketInv(l)'
  BY DEF RateInv
<1>1. /\ need' = need /\ now' \in Nat /\ now <= now' /\ BucketInv(l)
      /\ need[l] \in Nat /\ Second \in Nat /\ now \in Nat /\ bucket[l] \in BucketType
  BY LimiterSteps, Constants DEF RateInv, TypeOK
<1>2. ASSUME bucket'[l] = bucket[l], passes'[l] = passes[l] PROVE BucketInv(l)'
  BY <1>1, <1>2, Untouched
<1>3. CASE UNCHANGED limiterVars
  BY <1>2, <1>3 DEF limiterVars
<1> DEFINE b2 == Refilled(bucket[l], now)
<1>4. b2.tokens \in Int /\ b2.tokens <= Second
  <2>1. bucket[l].last_update <= now
    BY <1>1 DEF BucketInv
  <2> QED BY <1>1, <2>1, RefilledFacts
<1>5. ASSUME NEW s \in Samples, NEW lim \in Limiters, TakeTokens(s, lim) PROVE BucketInv(l)'
  <2>1. CASE lim # l
    BY <2>1, <1>2, <1>5 DEF TakeTokens, TypeOK
  <2>2. CASE lim = l
    <3>1. /\ b2.tokens >= need[l] /\ Capacity(l) = Second /\ now' = now
          /\ ~ need[l] > Second
          /\ bucket'[l] = Debited(b2, need[l]) /\ passes'[l] = Append(passes[l], now)
      BY <2>2, <1>5 DEF TakeTokens, TypeOK, Capacity, ExceedsBucket
    <3> HIDE DEF b2
    <3>2. /\ b2.tokens <= Capacity(l) + now - now /\ now - b2.tokens + need[l] <= now
          /\ need[l] <= Capacity(l)
      BY <1>1, <1>4, <3>1
    <3> QED BY <1>1, <3>1, <3>2, LetsThrough DEF b2
  <2> QED BY <2>1, <2>2
<1>6. ASSUME NEW s \in Samples, NEW lim \in Limiters, PayInAdvance(s, lim) PROVE BucketInv(l)'
  <2>1. CASE lim # l
    BY <2>1, <1>2, <1>6 DEF PayInAdvance, TypeOK
  <2>2. CASE lim = l
    <3> DEFINE until == now + (need[l] - b2.tokens)
    <3>1. /\ Capacity(l) = need[l] /\ now' = now /\ ExceedsBucket(need[l])
          /\ bucket'[l] = Debited(b2, need[l]) /\ passes'[l] = Append(passes[l], until)
      BY <2>2, <1>6 DEF PayInAdvance, TypeOK, Capacity, tokens_needed
    <3>2. need[l] > Second
      BY <3>1 DEF ExceedsBucket
    <3> HIDE DEF b2
    <3>3. /\ until \in Nat
          /\ b2.tokens <= Capacity(l) + now - until /\ now - b2.tokens + need[l] <= until
          /\ need[l] <= Capacity(l)
      BY <1>1, <1>4, <3>1, <3>2
    <3> HIDE DEF until
    <3> QED BY <1>1, <3>1, <3>3, LetsThrough DEF b2
  <2> QED BY <2>1, <2>2
<1>7. ASSUME NEW s \in Samples, NEW lim \in Limiters, SleepForTokens(s, lim) PROVE BucketInv(l)'
  <2>1. CASE lim # l
    BY <2>1, <1>2, <1>7 DEF SleepForTokens, TypeOK
  <2>2. CASE lim = l
    <3>1. now' = now /\ passes' = passes /\ bucket'[l] = b2
      BY <2>2, <1>7 DEF SleepForTokens, TypeOK
    <3> QED BY <1>1, <3>1, SleepsOn
  <2> QED BY <2>1, <2>2
<1> QED BY <1>3, <1>5, <1>6, <1>7, LimiterSteps

\* However the coroutines sleep and wake, no limiter lets more through than its rate.
THEOREM RateIsKept == Spec => []RateKept
<1>1. RateInv => RateKept
  BY DEF RateInv, BucketInv, AtRate, RateKept, Capacity
<1>2. Init => TypeInv /\ RateInv
  BY TypeInit, RateInit
<1>3. TypeInv /\ RateInv /\ [Next]_vars => (TypeInv /\ RateInv)'
  BY TypeStep, RateStep DEF TypeInv
<1> QED BY <1>1, <1>2, <1>3, PTL DEF Spec
-----------------------------------------------------------------------------
(* Nobody sleeps without need.                                             *)

Asleep(s, lim) == stage[s] = lim /\ ~paid[s] /\ wake[s] > now

NeedsIt(s, lim) ==
    /\ bucket[lim].last_update # Never
    /\ bucket[lim].tokens + wake[s] - bucket[lim].last_update <= need[lim]

\* Who sleeps at a limiter has slept since the last refill or longer, and no longer than
\* the bucket needs.
SleepInv == \A s \in Samples, lim \in Limiters : Asleep(s, lim) => NeedsIt(s, lim)

\* Who asks a limiter and takes nothing away from it but tokens leaves the sleepers asleep.
LEMMA StillNeedsIt ==
    ASSUME TypeOK, RateInv, NEW s \in Samples, NEW lim \in Limiters, NeedsIt(s, lim),
           NEW k \in Nat, need' = need, wake'[s] = wake[s],
           \/ bucket'[lim] = Refilled(bucket[lim], now)
           \/ bucket'[lim] = Debited(Refilled(bucket[lim], now), k)
    PROVE  NeedsIt(s, lim)'
<1> DEFINE b == bucket[lim]
           b2 == Refilled(b, now)
<1>1. /\ b \in BucketType /\ now \in Nat /\ wake[s] \in Nat /\ need[lim] \in Nat
      /\ b.last_update <= now /\ b.last_update # Never
      /\ b.tokens + wake[s] - b.last_update <= need[lim]
  BY Constants DEF TypeOK, RateInv, BucketInv, NeedsIt
<1>2. b.tokens \in Int /\ b.last_update \in Nat
  BY <1>1 DEF BucketType
<1>3. /\ b2 \in BucketType /\ b2.last_update = now /\ b2.tokens \in Int
      /\ b2.tokens <= b.tokens + (now - b.last_update)
  <2> HIDE DEF b
  <2> QED BY <1>1, RefilledFacts
<1>4. /\ bucket'[lim].last_update = now /\ bucket'[lim].tokens \in Int
      /\ bucket'[lim].tokens <= b2.tokens
  <2>1. bucket'[lim] \in {b2, Debited(b2, k)}
    OBVIOUS
  <2> HIDE DEF b, b2
  <2>2. Debited(b2, k).last_update = b2.last_update /\ Debited(b2, k).tokens = b2.tokens - k
    BY <1>3, DebitedFacts
  <2>3. b2.tokens - k \in Int /\ b2.tokens - k <= b2.tokens
    BY <1>3
  <2> QED BY <1>3, <2>1, <2>2, <2>3
<1>5. now # Never
  BY <1>1, Constants
<1>6. bucket'[lim].tokens + wake[s] - now <= need[lim]
  <2> HIDE DEF b, b2
  <2> QED BY <1>1, <1>2, <1>3, <1>4
<1> QED BY <1>4, <1>5, <1>6 DEF NeedsIt
LEMMA SleepInit == Init => SleepInv
<1> SUFFICES ASSUME Init, NEW s \in Samples, NEW lim \in Limiters, Asleep(s, lim)
             PROVE  FALSE
  BY DEF SleepInv
<1> QED BY DEF Init, Asleep, Limiters

\* Only a request that asks falls asleep at a limiter.
LEMMA FallsAsleep ==
    ASSUME TypeOK, [Next]_vars, NEW s \in Samples, NEW lim \in Limiters, Asleep(s, lim)'
    PROVE  \/ SleepForTokens(s, lim)
           \/ Asleep(s, lim) /\ wake'[s] = wake[s]
<1>1. /\ stage'[s] = lim /\ ~paid'[s] /\ wake'[s] > now' /\ lim \notin Answers
      /\ lim \notin {"decode", "call"} /\ wake[s] \in Nat /\ now \in Nat
  BY DEF Asleep, Answers, Limiters, TypeOK
<1> DEFINE Kept == Asleep(s, lim) /\ wake'[s] = wake[s]
<1>2. ASSUME stage' = stage, paid' = paid, wake' = wake, now' = now PROVE Kept
  BY <1>1, <1>2 DEF Asleep
<1>3. ASSUME NEW t \in Samples, GoesOn(t), Due(t), wake' = wake, now' = now,
             \/ paid' = paid
             \/ paid' = [paid EXCEPT ![t] = FALSE]
      PROVE  Kept
  <2>1. CASE s = t
    BY <1>1, <1>3, <2>1 DEF Due
  <2>2. CASE s # t
    BY <1>1, <1>3, <2>2 DEF GoesOn, Asleep, TypeOK
  <2> QED BY <2>1, <2>2
<1>4. ASSUME NEW t \in Samples, NEW w, w \in Answers \cup {"call"},
             stage' = [stage EXCEPT ![t] = w], paid' = paid, now' = now,
             \A u \in Samples : u # t => wake'[u] = wake[u]
      PROVE  Kept
  <2>1. CASE s = t
    BY <1>1, <1>4, <2>1 DEF TypeOK
  <2>2. CASE s # t
    BY <1>1, <1>4, <2>2 DEF Asleep, TypeOK
  <2> QED BY <2>1, <2>2
<1>5. CASE BeginJob \/ \E job \in Jobs : Hang(job)
  BY <1>2, <1>5 DEF BeginJob, Hang
<1>6. ASSUME NEW job \in Jobs, SyncCallReturns(job) PROVE Kept
  <2>1. CASE Awaited(job)
    <3>1. job[2] \in Samples
      BY DEF Jobs
    <3> QED BY <1>4, <1>6, <2>1, <3>1 DEF SyncCallReturns, EndJob, Returned, Answers
  <2>2. CASE ~Awaited(job)
    BY <1>2, <1>6, <2>2 DEF SyncCallReturns, EndJob
  <2> QED BY <2>1, <2>2
<1>7. ASSUME NEW t \in Samples, Decoded(t) PROVE Kept
  <2>1. CASE s = t
    <3>1. wake'[s] = now /\ now' = now
      BY <1>7, <2>1 DEF Decoded, EndJob, TypeOK
    <3> QED BY <1>1, <3>1
  <2>2. CASE s # t
    BY <1>1, <1>7, <2>2 DEF Decoded, EndJob, GoesOn, Asleep, TypeOK
  <2> QED BY <2>1, <2>2
<1>8. ASSUME NEW t \in Samples, Paid(t) PROVE Kept
  BY <1>3, <1>8 DEF Paid
<1>9. ASSUME NEW t \in Samples, AsyncCallReturns(t) \/ TimeOut(t) PROVE Kept
  BY <1>4, <1>9 DEF AsyncCallReturns, TimeOut, Returned, Answers
<1>10. ASSUME NEW t \in Samples, NEW l \in Limiters, TakeTokens(t, l) PROVE Kept
  BY <1>3, <1>10 DEF TakeTokens
<1>11. ASSUME NEW t \in Samples, NEW l \in Limiters, PayInAdvance(t, l) PROVE Kept
  <2>1. CASE s = t
    BY <1>1, <1>11, <2>1 DEF PayInAdvance, TypeOK
  <2>2. CASE s # t
    BY <1>1, <1>11, <2>2 DEF PayInAdvance, Asleep, TypeOK
  <2> QED BY <2>1, <2>2
<1>12. ASSUME NEW t \in Samples, NEW l \in Limiters, SleepForTokens(t, l)
       PROVE  Kept \/ SleepForTokens(s, lim)
  <2>1. CASE s = t
    BY <1>1, <1>12, <2>1 DEF SleepForTokens
  <2>2. CASE s # t
    BY <1>1, <1>12, <2>2 DEF SleepForTokens, Asleep, TypeOK
  <2> QED BY <2>1, <2>2
<1>13. CASE StartCall
  <2>1. Head(line) \in Samples
    BY <1>13, HeadTailProperties DEF StartCall, TypeOK
  <2>2. /\ stage' = [stage EXCEPT ![Head(line)] = "call"] /\ paid' = paid /\ now' = now
        /\ \A u \in Samples : u # Head(line) => wake'[u] = wake[u]
    BY <1>13, <2>1 DEF StartCall, config, limiterVars, batchVars, TypeOK
  <2> QED BY <1>4, <2>1, <2>2
<1>14. CASE EndBatch
  <2>1. stage' = stage \/ stage' = [t \in Samples |-> "decode"]
    BY <1>14 DEF EndBatch
  <2>2. stage' = stage
    BY <1>1, <2>1
  <2> QED BY <1>2, <1>14, <2>2 DEF EndBatch
<1>15. CASE Tick
  <2>1. stage' = stage /\ paid' = paid /\ wake' = wake /\ now' = now + 1
    BY <1>15 DEF Tick
  <2> QED BY <1>1, <2>1 DEF Asleep
<1>16. CASE UNCHANGED vars
  BY <1>2, <1>16 DEF vars
<1> QED BY <1>5, <1>6, <1>7, <1>8, <1>9, <1>10, <1>11, <1>12, <1>13, <1>14, <1>15, <1>16
        DEF Next

LEMMA SleepStep ==
    ASSUME TypeOK, RateInv, SleepInv, [Next]_vars
    PROVE  SleepInv'
<1> SUFFICES ASSUME NEW s \in Samples, NEW lim \in Limiters, Asleep(s, lim)'
             PROVE  NeedsIt(s, lim)'
  BY DEF SleepInv
<1>1. CASE SleepForTokens(s, lim)
  <2> DEFINE b2 == Refilled(bucket[lim], now)
  <2>1. /\ bucket'[lim] = b2 /\ wake'[s] = now + (need[lim] - b2.tokens) /\ need' = need
    BY <1>1 DEF SleepForTokens, tokens_needed, TypeOK, config
  <2>2. /\ bucket[lim] \in BucketType /\ now \in Nat /\ need[lim] \in Nat
        /\ bucket[lim].last_update <= now
    BY Constants DEF TypeOK, RateInv, BucketInv
  <2>3. b2.last_update = now /\ b2.tokens \in Int
    BY <2>2, RefilledFacts
  <2> HIDE DEF b2
  <2>4. b2.tokens + (now + (need[lim] - b2.tokens)) - now <= need[lim] /\ now # Never
    BY <2>2, <2>3, Constants
  <2> QED BY <2>1, <2>3, <2>4 DEF NeedsIt
<1>2. CASE Asleep(s, lim) /\ wake'[s] = wake[s]
  <2>1. NeedsIt(s, lim) /\ need' = need
    BY <1>2, LimiterSteps DEF SleepInv
  <2>2. CASE UNCHANGED limiterVars
    BY <1>2, <2>1, <2>2 DEF NeedsIt, limiterVars
  <2>3. ASSUME NEW t \in Samples, NEW l \in Limiters,
               TakeTokens(t, l) \/ SleepForTokens(t, l) \/ PayInAdvance(t, l)
        PROVE  NeedsIt(s, lim)'
    <3>1. CASE lim # l
      <4>1. bucket'[lim] = bucket[lim]
        BY <2>3, <3>1 DEF TakeTokens, SleepForTokens, PayInAdvance, TypeOK
      <4> QED BY <1>2, <2>1, <4>1 DEF NeedsIt
    <3>2. CASE lim = l
      <4>1. \/ bucket'[lim] = Refilled(bucket[lim], now)
            \/ bucket'[lim] = Debited(Refilled(bucket[lim], now), need[lim])
        BY <2>3, <3>2 DEF TakeTokens, SleepForTokens, PayInAdvance, TypeOK
      <4>2. need[lim] \in Nat
        BY Constants DEF TypeOK
      <4> QED BY <1>2, <2>1, <4>1, <4>2, StillNeedsIt
    <3> QED BY <3>1, <3>2
  <2> QED BY <2>2, <2>3, LimiterSteps
<1> QED BY <1>1, <1>2, FallsAsleep

\* No coroutine sleeps at a limiter that has enough for it.
THEOREM NobodySleepsIdle == Spec => []NoIdleTokens
<1>1. TypeInv /\ RateInv /\ SleepInv => NoIdleTokens
  <2> SUFFICES ASSUME TypeOK, RateInv, SleepInv, NEW s \in Samples, NEW lim \in Limiters,
                      Asleep(s, lim)
               PROVE  Refilled(bucket[lim], now).tokens < need[lim]
    BY DEF NoIdleTokens, Asleep, TypeInv
  <2> DEFINE b == bucket[lim]
             b2 == Refilled(b, now)
  <2>1. /\ b \in BucketType /\ now \in Nat /\ wake[s] \in Nat /\ wake[s] > now
        /\ need[lim] \in Nat /\ b.last_update <= now /\ b.last_update # Never
        /\ b.tokens + wake[s] - b.last_update <= need[lim]
    BY Constants DEF TypeOK, RateInv, BucketInv, SleepInv, NeedsIt, Asleep
  <2>2. b.tokens \in Int /\ b.last_update \in Nat
    BY <2>1 DEF BucketType
  <2>3. b2.tokens \in Int /\ b2.tokens <= b.tokens + (now - b.last_update)
    <3> HIDE DEF b
    <3> QED BY <2>1, RefilledFacts
  <2> HIDE DEF b, b2
  <2>4. b2.tokens < need[lim]
    BY <2>1, <2>2, <2>3
  <2> QED BY <2>4 DEF b, b2
<1>2. Init => TypeInv /\ RateInv /\ SleepInv
  BY TypeInit, RateInit, SleepInit
<1>3. TypeInv /\ RateInv /\ SleepInv /\ [Next]_vars => (TypeInv /\ RateInv /\ SleepInv)'
  BY TypeStep, RateStep, SleepStep DEF TypeInv
<1> QED BY <1>1, <1>2, <1>3, PTL DEF Spec

-----------------------------------------------------------------------------
(* Facts about sequences without duplicates.                               *)

\* Taking the first element leaves the others.
LEMMA TailFacts ==
    ASSUME NEW S, NEW q \in Seq(S), q # << >>, IsInjective(q)
    PROVE  /\ Head(q) \in ToSet(q)
           /\ IsInjective(Tail(q))
           /\ ToSet(Tail(q)) = ToSet(q) \ {Head(q)}
<1> DEFINE n == Len(q)
           t == Tail(q)
<1>1. n \in Nat \ {0} /\ DOMAIN q = 1 .. n
  BY EmptySeq, LenProperties
<1>2. /\ DOMAIN t = 1 .. n - 1 /\ Head(q) = q[1]
      /\ \A k \in 1 .. n - 1 : t[k] = q[k + 1]
  BY <1>1, HeadTailProperties, LenProperties
<1>3. \A a, b \in 1 .. n : q[a] = q[b] => a = b
  BY <1>1 DEF IsInjective
<1> HIDE DEF n, t
<1>4. Head(q) \in ToSet(q)
  BY <1>1, <1>2 DEF ToSet
<1>5. IsInjective(t)
  <2> SUFFICES ASSUME NEW a \in 1 .. n - 1, NEW b \in 1 .. n - 1, t[a] = t[b] PROVE a = b
    BY <1>2 DEF IsInjective
  <2>1. a + 1 \in 1 .. n /\ b + 1 \in 1 .. n /\ q[a + 1] = q[b + 1]
    BY <1>1, <1>2
  <2>2. a + 1 = b + 1
    BY <1>3, <2>1
  <2> QED BY <1>1, <2>2
<1>6. ASSUME NEW x \in ToSet(t) PROVE x \in ToSet(q) \ {Head(q)}
  <2>1. PICK k \in 1 .. n - 1 : x = t[k]
    BY <1>2 DEF ToSet
  <2>2. k + 1 \in 1 .. n /\ k + 1 # 1 /\ x = q[k + 1] /\ 1 \in 1 .. n
    BY <2>1, <1>1, <1>2
  <2> QED BY <2>2, <1>1, <1>2, <1>3 DEF ToSet
<1>7. ASSUME NEW x \in ToSet(q) \ {Head(q)} PROVE x \in ToSet(t)
  <2>1. PICK k \in 1 .. n : x = q[k]
    BY <1>1 DEF ToSet
  <2>2. k - 1 \in 1 .. n - 1 /\ t[k - 1] = q[k]
    BY <2>1, <1>1, <1>2
  <2> QED BY <2>1, <2>2, <1>2 DEF ToSet
<1> QED BY <1>4, <1>5, <1>6, <1>7 DEF t

\* Appending a new element adds it.
LEMMA AppendFacts ==
    ASSUME NEW S, NEW q \in Seq(S), NEW x \in S, IsInjective(q), x \notin ToSet(q)
    PROVE  /\ IsInjective(Append(q, x))
           /\ ToSet(Append(q, x)) = ToSet(q) \cup {x}
<1> DEFINE n == Len(q)
           r == Append(q, x)
<1>1. n \in Nat /\ DOMAIN q = 1 .. n
  BY LenProperties
<1>2. /\ DOMAIN r = 1 .. n + 1 /\ r[n + 1] = x
      /\ \A k \in 1 .. n : r[k] = q[k]
  BY <1>1, AppendProperties, LenProperties
<1>3. /\ \A a, b \in 1 .. n : q[a] = q[b] => a = b
      /\ \A a \in 1 .. n : q[a] # x
  BY <1>1 DEF IsInjective, ToSet
<1> HIDE DEF n, r
<1>4. \A k \in 1 .. n + 1 : k \in 1 .. n \/ k = n + 1
  BY <1>1
<1>5. n + 1 \in 1 .. n + 1 /\ 1 .. n \subseteq 1 .. n + 1
  BY <1>1
<1>6. IsInjective(r)
  BY <1>2, <1>3, <1>4 DEF IsInjective
<1>7. ToSet(r) = ToSet(q) \cup {x}
  BY <1>1, <1>2, <1>4, <1>5 DEF ToSet
<1> QED BY <1>6, <1>7 DEF r

\* Removing an element leaves the others.
LEMMA RemoveFacts ==
    ASSUME NEW S, NEW q \in Seq(S), NEW i \in 1 .. Len(q), IsInjective(q)
    PROVE  /\ IsInjective(RemoveAt(q, i))
           /\ ToSet(RemoveAt(q, i)) = ToSet(q) \ {q[i]}
<1> DEFINE n == Len(q)
           r == RemoveAt(q, i)
<1>1. n \in Nat \ {0} /\ DOMAIN q = 1 .. n /\ i \in 1 .. n
  BY LenProperties
<1>2. /\ DOMAIN r = 1 .. n - 1
      /\ \A k \in 1 .. n - 1 : r[k] = IF k < i THEN q[k] ELSE q[k + 1]
  BY <1>1, RemoveAtFacts, LenProperties
<1>3. \A a, b \in 1 .. n : q[a] = q[b] => a = b
  BY <1>1 DEF IsInjective
<1> HIDE DEF n, r
<1> DEFINE place(k) == IF k < i THEN k ELSE k + 1
<1>4. \A k \in 1 .. n - 1 : place(k) \in 1 .. n /\ place(k) # i /\ r[k] = q[place(k)]
  BY <1>1, <1>2
<1>5. \A a, b \in 1 .. n - 1 : place(a) = place(b) => a = b
  BY <1>1
<1>6. \A k \in 1 .. n : k # i => \E j \in 1 .. n - 1 : place(j) = k
  <2> SUFFICES ASSUME NEW k \in 1 .. n, k # i PROVE \E j \in 1 .. n - 1 : place(j) = k
    OBVIOUS
  <2>1. CASE k < i
    <3>1. k \in 1 .. n - 1 /\ place(k) = k
      BY <1>1, <2>1
    <3> QED BY <3>1
  <2>2. CASE k > i
    <3>1. k - 1 \in 1 .. n - 1 /\ place(k - 1) = k
      BY <1>1, <2>2
    <3> QED BY <3>1
  <2> QED BY <1>1, <2>1, <2>2
<1> HIDE DEF place
<1>7. IsInjective(r)
  BY <1>2, <1>3, <1>4, <1>5 DEF IsInjective
<1>8. ASSUME NEW x \in ToSet(r) PROVE x \in ToSet(q) \ {q[i]}
  <2>1. PICK k \in 1 .. n - 1 : x = r[k]
    BY <1>2, <1>8 DEF ToSet
  <2> QED BY <2>1, <1>1, <1>3, <1>4 DEF ToSet
<1>9. ASSUME NEW x \in ToSet(q) \ {q[i]} PROVE x \in ToSet(r)
  <2>1. PICK k \in 1 .. n : x = q[k] /\ k # i
    BY <1>1 DEF ToSet
  <2>2. PICK j \in 1 .. n - 1 : place(j) = k
    BY <1>6, <2>1
  <2> QED BY <2>1, <2>2, <1>2, <1>4 DEF ToSet
<1> QED BY <1>7, <1>8, <1>9 DEF r
-----------------------------------------------------------------------------
(* The jobs and the stages they belong to.                                 *)

\* A job that waits for a thread is of this batch, and its coroutine waits for it.
Wanted(job) ==
    /\ job[1] = round
    /\ job[3] = "decode" => stage[job[2]] = "decode"
    /\ job[3] = "score" => stage[job[2]] = "call" /\ ~is_async_reward_score

\* A job that runs may have been given up, but only if it scores.
Known(job) ==
    /\ job[1] <= round
    /\ job[3] = "decode" => job[1] = round /\ stage[job[2]] = "decode"
    /\ job[3] = "score" /\ job[1] = round => stage[job[2]] \in {"call"} \cup Answers

CallsInv ==
    /\ IsInjective(queue)
    /\ IsInjective(line)
    /\ ToSet(queue) \cap running = {}
    /\ \A job \in ToSet(queue) : Wanted(job)
    /\ \A job \in running : Known(job)
    /\ \A s \in ToSet(line) : stage[s] = "semaphore"

LEMMA ToSetType == ASSUME NEW S, NEW q \in Seq(S) PROVE ToSet(q) \subseteq S
BY LenProperties, ElementOfSeq DEF ToSet

LEMMA JobParts ==
    ASSUME NEW job \in Jobs
    PROVE  /\ job = << job[1], job[2], job[3] >>
           /\ job[1] \in 1 .. Batches /\ job[2] \in Samples /\ job[3] \in {"decode", "score"}
BY DEF Jobs

\* A coroutine that moves takes no job with it, if the jobs for it are gone by then.
LEMMA Moves ==
    ASSUME TypeOK, CallsInv, NEW s \in Samples, NEW w \in Stages,
           stage' = [stage EXCEPT ![s] = w], round' = round,
           is_async_reward_score' = is_async_reward_score,
           NEW Q, Q \subseteq ToSet(queue), NEW R, R \subseteq running,
           << round, s, "decode" >> \notin Q \cup R,
           << round, s, "score" >> \notin Q,
           << round, s, "score" >> \in R => w \in {"call"} \cup Answers
    PROVE  /\ \A job \in Q : Wanted(job)'
           /\ \A job \in R : Known(job)'
<1>1. ASSUME NEW job \in Jobs, job[1] = round, job[2] = s
      PROVE  job \in {<< round, s, "decode" >>, << round, s, "score" >>}
  BY <1>1, JobParts
<1>2. \A job \in ToSet(queue) \cup running : job \in Jobs
  BY ToSetType DEF TypeOK
<1>3. \A t \in Samples : t # s => stage'[t] = stage[t]
  BY DEF TypeOK
<1>4. stage'[s] = w
  BY DEF TypeOK
<1>5. ASSUME NEW job \in Q PROVE Wanted(job)'
  <2>1. job \in Jobs /\ Wanted(job) /\ job[2] \in Samples
    BY <1>2, JobParts DEF CallsInv
  <2>2. job[2] # s
    BY <1>1, <2>1 DEF Wanted
  <2> QED BY <1>3, <2>1, <2>2 DEF Wanted
<1>6. ASSUME NEW job \in R PROVE Known(job)'
  <2>1. job \in Jobs /\ Known(job) /\ job[2] \in Samples
    BY <1>2, JobParts DEF CallsInv
  <2>2. CASE job[2] # s
    BY <1>3, <2>1, <2>2 DEF Known
  <2>3. CASE job[2] = s
    <3>1. job[3] # "decode"
      BY <1>1, <2>1, <2>3, JobParts DEF Known
    <3>2. job[1] = round => job = << round, s, "score" >>
      BY <1>1, <2>1, <2>3, <3>1
    <3> QED BY <1>4, <2>1, <2>3, <3>1, <3>2 DEF Known
  <2> QED BY <2>2, <2>3
<1> QED BY <1>5, <1>6

\* Which jobs there can be for a coroutine, by where it is.
LEMMA JobsOf ==
    ASSUME TypeOK, CallsInv, NEW s \in Samples
    PROVE  /\ stage[s] # "decode" => << round, s, "decode" >> \notin ToSet(queue) \cup running
           /\ stage[s] # "call" => << round, s, "score" >> \notin ToSet(queue)
           /\ stage[s] \notin {"call"} \cup Answers => << round, s, "score" >> \notin running
           /\ stage[s] # "semaphore" => s \notin ToSet(line)
BY DEF CallsInv, Wanted, Known

\* The line when a coroutine goes on to the semaphore or to a limiter before it.
LEMMA LineGoesOn ==
    ASSUME TypeOK, CallsInv, NEW s \in Samples, stage[s] # "semaphore", GoesOn(s)
    PROVE  /\ IsInjective(line')
           /\ \A t \in ToSet(line') : stage'[t] = "semaphore"
<1>1. s \notin ToSet(line) /\ ToSet(line) \subseteq Samples
  BY JobsOf, ToSetType DEF TypeOK
<1>2. \A t \in Samples : stage'[t] = IF t = s THEN Following(stage[s]) ELSE stage[t]
  BY DEF GoesOn, TypeOK
<1>3. CASE Following(stage[s]) = "semaphore"
  <2>1. line' = Append(line, s)
    BY <1>3 DEF GoesOn
  <2>2. IsInjective(line') /\ ToSet(line') = ToSet(line) \cup {s}
    BY <1>1, <2>1, AppendFacts DEF TypeOK, CallsInv
  <2> QED BY <1>1, <1>2, <1>3, <2>2 DEF CallsInv
<1>4. CASE Following(stage[s]) # "semaphore"
  <2>1. line' = line
    BY <1>4 DEF GoesOn
  <2> QED BY <1>1, <1>2, <2>1 DEF CallsInv
<1> QED BY <1>3, <1>4

LEMMA CallsInit == Init => CallsInv
<1> SUFFICES ASSUME Init PROVE CallsInv
  OBVIOUS
<1>1. /\ queue = DecodeJobs(1) /\ line = << >> /\ running = {} /\ round = 1
      /\ stage = [s \in Samples |-> "decode"]
  BY DEF Init
<1>2. queue = [s \in Samples |-> << 1, s, "decode" >>]
  BY <1>1 DEF DecodeJobs
<1>3. IsInjective(queue) /\ ToSet(queue) = {<< 1, s, "decode" >> : s \in Samples}
  BY <1>2 DEF IsInjective, ToSet
<1>4. IsInjective(line) /\ ToSet(line) = {}
  BY <1>1 DEF IsInjective, ToSet
<1> QED BY <1>1, <1>3, <1>4 DEF CallsInv, Wanted

\* What remains to be shown of the actions that leave the pool and the line alone.
LEMMA Answered ==
    ASSUME TypeOK, CallsInv, NEW s \in Samples, stage[s] = "call", NEW w \in Answers,
           stage' = [stage EXCEPT ![s] = w], round' = round,
           is_async_reward_score' = is_async_reward_score,
           line' = line, running' \subseteq running,
           IsInjective(queue'), ToSet(queue') \subseteq ToSet(queue),
           << round, s, "score" >> \notin ToSet(queue')
    PROVE  CallsInv'
<1>1. w \in Stages
  BY DEF Stages
<1>2. << round, s, "decode" >> \notin ToSet(queue') \cup running'
  BY JobsOf
<1>3. /\ \A job \in ToSet(queue') : Wanted(job)'
      /\ \A job \in running' : Known(job)'
  BY <1>1, <1>2, Moves
<1>4. \A t \in ToSet(line) : stage'[t] = "semaphore"
  BY JobsOf, ToSetType DEF CallsInv, TypeOK
<1> QED BY <1>3, <1>4 DEF CallsInv

\* A cancelled job has left the queue, and no other.
LEMMA CancelledFacts ==
    ASSUME TypeOK, CallsInv, NEW s \in Samples
    PROVE  /\ IsInjective(Cancelled(queue, s))
           /\ ToSet(Cancelled(queue, s)) = ToSet(queue) \ {<< round, s, "score" >>}
<1> DEFINE places == {i \in DOMAIN queue : queue[i] = << round, s, "score" >>}
<1>1. CASE places = {}
  <2>1. Cancelled(queue, s) = queue
    BY <1>1 DEF Cancelled
  <2>2. << round, s, "score" >> \notin ToSet(queue)
    BY <1>1 DEF ToSet
  <2> QED BY <2>1, <2>2 DEF CallsInv
<1>2. CASE places # {}
  <2> DEFINE i == CHOOSE i \in places : TRUE
  <2>1. i \in DOMAIN queue /\ queue[i] = << round, s, "score" >>
    BY <1>2
  <2>2. Cancelled(queue, s) = RemoveAt(queue, i)
    BY <1>2 DEF Cancelled
  <2> HIDE DEF i
  <2>3. i \in 1 .. Len(queue)
    BY <2>1, LenProperties DEF TypeOK
  <2> QED BY <2>1, <2>2, <2>3, RemoveFacts DEF TypeOK, CallsInv
<1> QED BY <1>1, <1>2

LEMMA CallsStep ==
    ASSUME TypeOK, CallsInv, [Next]_vars
    PROVE  CallsInv'
<1>1. ToSet(queue) \subseteq Jobs /\ running \subseteq Jobs /\ ToSet(line) \subseteq Samples
  BY ToSetType DEF TypeOK
<1>2. ASSUME UNCHANGED << round, is_async_reward_score, stage, line, queue >>,
             running' \subseteq running
      PROVE  CallsInv'
  BY <1>2 DEF CallsInv, Wanted, Known
<1>3. CASE BeginJob
  <2> DEFINE job == Head(queue)
  <2>1. /\ job \in ToSet(queue) /\ IsInjective(queue')
        /\ ToSet(queue') = ToSet(queue) \ {job} /\ running' = running \cup {job}
    BY <1>3, TailFacts DEF BeginJob, TypeOK, CallsInv
  <2>2. /\ UNCHANGED << round, is_async_reward_score, stage, line >>
    BY <1>3 DEF BeginJob, config, batchVars
  <2> HIDE DEF job
  <2>3. Known(job)
    <3>1. Wanted(job) /\ round \in Nat
      BY <2>1, Constants DEF CallsInv, TypeOK
    <3> QED BY <3>1 DEF Wanted, Known
  <2>4. \A j : Wanted(j)' <=> Wanted(j)
    BY <2>2 DEF Wanted
  <2>5. \A j : Known(j)' <=> Known(j)
    BY <2>2 DEF Known
  <2>6. \A t \in ToSet(line') : stage'[t] = "semaphore"
    BY <2>2 DEF CallsInv
  <2>7. IsInjective(line')
    BY <2>2 DEF CallsInv
  <2> QED BY <2>1, <2>3, <2>4, <2>5, <2>6, <2>7 DEF CallsInv
<1>4. ASSUME NEW job \in Jobs, Hang(job) PROVE CallsInv'
  BY <1>2, <1>4 DEF Hang, config, batchVars
<1>5. ASSUME NEW job \in Jobs, SyncCallReturns(job) PROVE CallsInv'
  <2>1. /\ job \in running /\ running' \subseteq running /\ job[3] = "score"
        /\ UNCHANGED << round, is_async_reward_score, line, queue >>
    BY <1>5 DEF SyncCallReturns, EndJob, config, batchVars
  <2>2. CASE ~ Awaited(job)
    BY <1>2, <1>5, <2>1, <2>2 DEF SyncCallReturns
  <2>3. CASE Awaited(job)
    <3>1. PICK w \in Answers : stage' = [stage EXCEPT ![job[2]] = w]
      BY <1>5, <2>3 DEF SyncCallReturns, Returned, Answers
    <3>2. job[2] \in Samples /\ stage[job[2]] = "call" /\ job = << round, job[2], "score" >>
      BY <2>1, <2>3, JobParts DEF Awaited
    <3>3. << round, job[2], "score" >> \notin ToSet(queue')
      BY <2>1, <3>2 DEF CallsInv
    <3>4. IsInjective(queue')
      BY <2>1 DEF CallsInv
    <3> QED BY <2>1, <3>1, <3>2, <3>3, <3>4, Answered
  <2> QED BY <2>2, <2>3
<1>6. ASSUME NEW s \in Samples, AsyncCallReturns(s) PROVE CallsInv'
  <2>1. PICK w \in Answers : stage' = [stage EXCEPT ![s] = w]
    BY <1>6 DEF AsyncCallReturns, Returned, Answers
  <2>2. /\ UNCHANGED << round, is_async_reward_score, line, queue, running >>
        /\ stage[s] = "call" /\ is_async_reward_score
    BY <1>6 DEF AsyncCallReturns, config, poolVars, batchVars
  <2>3. << round, s, "score" >> \notin ToSet(queue') /\ IsInjective(queue')
    BY <2>2 DEF CallsInv, Wanted
  <2> QED BY <2>1, <2>2, <2>3, Answered
<1>7. ASSUME NEW s \in Samples, TimeOut(s) PROVE CallsInv'
  <2>1. /\ UNCHANGED << round, is_async_reward_score, line, running >>
        /\ stage' = [stage EXCEPT ![s] = "timeout"] /\ stage[s] = "call"
        /\ queue' = Cancelled(queue, s)
    BY <1>7 DEF TimeOut, config, batchVars
  <2>2. /\ IsInjective(queue') /\ ToSet(queue') \subseteq ToSet(queue)
        /\ << round, s, "score" >> \notin ToSet(queue')
    BY <2>1, CancelledFacts
  <2> QED BY <2>1, <2>2, Answered DEF Answers
<1>8. ASSUME NEW s \in Samples, stage[s] \in {"decode", "rpm", "tpm"}, GoesOn(s),
             UNCHANGED << round, is_async_reward_score, queue >>, running' \subseteq running,
             << round, s, "decode" >> \notin ToSet(queue) \cup running'
      PROVE  CallsInv'
  <2>1. Following(stage[s]) \in Stages /\ stage' = [stage EXCEPT ![s] = Following(stage[s])]
    BY <1>8 DEF Following, Stages, GoesOn, TypeOK
  <2>2. << round, s, "score" >> \notin ToSet(queue) \cup running
    BY <1>8, JobsOf DEF Answers
  <2>3. (\A job \in ToSet(queue) : Wanted(job)') /\ (\A job \in running' : Known(job)')
    BY <1>8, <2>1, <2>2, Moves
  <2>4. IsInjective(line') /\ \A t \in ToSet(line') : stage'[t] = "semaphore"
    BY <1>8, LineGoesOn
  <2> QED BY <1>8, <2>3, <2>4 DEF CallsInv
<1>9. ASSUME NEW s \in Samples, Decoded(s) PROVE CallsInv'
  <2> DEFINE job == << round, s, "decode" >>
  <2>1. /\ job \in running /\ running' = running \ {job}
        /\ UNCHANGED << round, is_async_reward_score, queue >> /\ GoesOn(s)
    BY <1>9 DEF Decoded, EndJob, config, batchVars
  <2>2. stage[s] = "decode" /\ job \notin ToSet(queue)
    BY <2>1 DEF CallsInv, Known
  <2> QED BY <1>8, <2>1, <2>2
<1>10. ASSUME NEW s \in Samples, stage[s] \in Limiters, GoesOn(s),
              UNCHANGED << round, is_async_reward_score, queue, running >>
       PROVE  CallsInv'
  <2>1. stage[s] \in {"decode", "rpm", "tpm"} /\ stage[s] # "decode"
    BY <1>10 DEF Limiters
  <2> QED BY <1>8, <1>10, <2>1, JobsOf
<1>11. ASSUME NEW s \in Samples, Paid(s) PROVE CallsInv'
  BY <1>10, <1>11 DEF Paid, config, poolVars, batchVars
<1>12. ASSUME NEW s \in Samples, NEW lim \in Limiters,
              TakeTokens(s, lim) \/ SleepForTokens(s, lim) \/ PayInAdvance(s, lim)
       PROVE  CallsInv'
  <2>1. CASE TakeTokens(s, lim)
    BY <1>10, <2>1 DEF TakeTokens, config, poolVars, batchVars
  <2>2. CASE SleepForTokens(s, lim)
    BY <1>2, <2>2 DEF SleepForTokens, config, poolVars, batchVars
  <2>3. CASE PayInAdvance(s, lim)
    BY <1>2, <2>3 DEF PayInAdvance, config, poolVars, batchVars
  <2> QED BY <1>12, <2>1, <2>2, <2>3
<1>13. CASE StartCall
  <2>. PICK s : s = Head(line)
    OBVIOUS
  <2>. PICK job : job = << round, s, "score" >>
    OBVIOUS
  <2>1. s \in ToSet(line) /\ IsInjective(line') /\ ToSet(line') = ToSet(line) \ {s}
    BY <1>13, TailFacts DEF StartCall, TypeOK, CallsInv
  <2>2. /\ UNCHANGED << round, is_async_reward_score, running >>
        /\ stage' = [stage EXCEPT ![s] = "call"]
        /\ queue' = IF is_async_reward_score THEN queue ELSE Append(queue, job)
    BY <1>13 DEF StartCall, config, batchVars
  <2>3. s \in Samples /\ stage[s] = "semaphore"
    BY <1>1, <2>1 DEF CallsInv
  <2>4. << round, s, "decode" >> \notin ToSet(queue) \cup running
    BY <2>3, JobsOf
  <2>5. job \notin ToSet(queue) \cup running
    BY <2>3, JobsOf DEF Answers
  <2>6. "call" \in Stages
    BY DEF Stages
  <2>7. (\A j \in ToSet(queue) : Wanted(j)') /\ (\A j \in running : Known(j)')
    BY <2>2, <2>3, <2>4, <2>5, <2>6, Moves
  <2>8. \A t \in ToSet(line') : stage'[t] = "semaphore"
    BY <1>1, <2>1, <2>2 DEF CallsInv, TypeOK
  <2>9. CASE is_async_reward_score
    BY <2>1, <2>2, <2>7, <2>8, <2>9 DEF CallsInv
  <2>10. CASE ~ is_async_reward_score
    <3>1. job \in Jobs
      BY <2>3 DEF Jobs, TypeOK
    <3>2. IsInjective(queue') /\ ToSet(queue') = ToSet(queue) \cup {job}
      <4>1. queue' = Append(queue, job)
        BY <2>2, <2>10
      <4>2. queue \in Seq(Jobs) /\ IsInjective(queue) /\ job \notin ToSet(queue)
        BY <2>5 DEF TypeOK, CallsInv
      <4>3. IsInjective(Append(queue, job)) /\ ToSet(Append(queue, job)) = ToSet(queue) \cup {job}
        BY <3>1, <4>2, AppendFacts
      <4> QED BY <4>1, <4>3
    <3>3. stage'[s] = "call"
      BY <2>2, <2>3 DEF TypeOK
    <3>4. Wanted(job)'
      BY <2>2, <2>10, <3>3 DEF Wanted
    <3>5. ToSet(queue') \cap running' = {}
      BY <2>2, <2>5, <3>2 DEF CallsInv
    <3> QED BY <2>1, <2>2, <2>7, <2>8, <3>2, <3>4, <3>5 DEF CallsInv
  <2> QED BY <2>9, <2>10
<1>14. CASE EndBatch
  <2>1. CASE ~ (Tabulated /\ round < Batches)
    BY <1>2, <1>14, <2>1 DEF EndBatch, config
  <2>2. CASE Tabulated /\ round < Batches
    <3>1. /\ \A s \in Samples : stage[s] \in Answers
          /\ round' = round + 1 /\ stage' = [s \in Samples |-> "decode"]
          /\ queue' = queue \o DecodeJobs(round + 1)
          /\ UNCHANGED << is_async_reward_score, line, running >>
      BY <1>14, <2>2 DEF EndBatch, config
    <3>2. ToSet(queue) = {} /\ ToSet(line) = {}
      BY <1>1, <3>1, JobParts DEF CallsInv, Wanted, Answers
    <3>3. queue = << >>
      <4>1. DOMAIN queue = 1 .. Len(queue) /\ Len(queue) \in Nat
        BY LenProperties DEF TypeOK
      <4>2. DOMAIN queue = {}
        BY <3>2 DEF ToSet
      <4>3. Len(queue) = 0
        BY <4>1, <4>2
      <4> QED BY <4>3, EmptySeq DEF TypeOK
    <3>4. round + 1 \in 1 .. Batches /\ round \in Nat
      BY <2>2, Constants DEF TypeOK
    <3>5. queue' = DecodeJobs(round + 1)
      BY <3>1, <3>3, <3>4, DecodeJobsType, ConcatEmptySeq
    <3> DEFINE r == round + 1
    <3>6. queue' = [s \in Samples |-> << r, s, "decode" >>]
      BY <3>5 DEF DecodeJobs
    <3> HIDE DEF r
    <3>7. IsInjective(queue') /\ ToSet(queue') = {<< r, s, "decode" >> : s \in Samples}
      BY <3>6 DEF IsInjective, ToSet
    <3>8. \A job \in ToSet(queue') : Wanted(job)'
      BY <3>1, <3>7 DEF Wanted, r
    <3>9. ASSUME NEW job \in running PROVE Known(job)' /\ job \notin ToSet(queue')
      <4>1. job[1] <= round /\ job[3] # "decode" /\ job[1] \in Nat
        BY <1>1, <3>1, Constants, JobParts DEF CallsInv, Known, Answers
      <4>2. job[1] <= r /\ job[1] # r
        BY <3>4, <4>1 DEF r
      <4> QED BY <3>1, <3>7, <4>1, <4>2 DEF Known, r
    <3> QED BY <3>1, <3>2, <3>7, <3>8, <3>9 DEF CallsInv
  <2> QED BY <2>1, <2>2
<1>15. CASE Tick
  BY <1>2, <1>15 DEF Tick, config, poolVars, batchVars
<1>16. CASE UNCHANGED vars
  BY <1>2, <1>16 DEF vars, config, poolVars, batchVars
<1> QED BY <1>3, <1>4, <1>5, <1>6, <1>7, <1>9, <1>11, <1>12, <1>13, <1>14, <1>15, <1>16
        DEF Next

\* A call that nobody waits for any more is never begun.
THEOREM NobodyCallsLate == Spec => NoCallAfterTimeout
<1>1. Init => TypeInv /\ CallsInv
  BY TypeInit, CallsInit
<1>2. TypeInv /\ CallsInv /\ [Next]_vars => (TypeInv /\ CallsInv)'
  BY TypeStep, CallsStep DEF TypeInv
<1>3. TypeInv /\ CallsInv /\ [Next]_vars => [\A job \in Begun : Awaited(job)]_vars
  <2> SUFFICES ASSUME TypeOK, CallsInv, Next, NEW job \in Begun PROVE Awaited(job)
    BY DEF TypeInv
  <2>1. job \in running' /\ job \notin running /\ job[3] = "score"
    BY DEF Begun
  <2>2. CASE BeginJob
    <3>1. job = Head(queue)
      BY <2>1, <2>2 DEF BeginJob
    <3>2. job \in ToSet(queue)
      BY <2>2, <3>1, TailFacts DEF BeginJob, TypeOK, CallsInv
    <3> QED BY <2>1, <3>2 DEF CallsInv, Wanted, Awaited
  <2>3. CASE ~ BeginJob
    <3>1. running' \subseteq running
      <4>1. ASSUME NEW j \in Jobs, Hang(j) \/ SyncCallReturns(j) PROVE running' \subseteq running
        BY <4>1 DEF Hang, SyncCallReturns, EndJob
      <4>2. ASSUME NEW s \in Samples,
                   Decoded(s) \/ Paid(s) \/ AsyncCallReturns(s) \/ TimeOut(s)
            PROVE  running' \subseteq running
        BY <4>2 DEF Decoded, EndJob, Paid, AsyncCallReturns, TimeOut, poolVars
      <4>3. ASSUME NEW s \in Samples, NEW lim \in Limiters,
                   TakeTokens(s, lim) \/ SleepForTokens(s, lim) \/ PayInAdvance(s, lim)
            PROVE  running' \subseteq running
        BY <4>3 DEF TakeTokens, SleepForTokens, PayInAdvance, poolVars
      <4>4. CASE StartCall \/ EndBatch \/ Tick
        BY <4>4 DEF StartCall, EndBatch, Tick, poolVars
      <4> QED BY <2>3, <4>1, <4>2, <4>3, <4>4 DEF Next
    <3> QED BY <2>1, <3>1
  <2> QED BY <2>2, <2>3
<1> QED BY <1>1, <1>2, <1>3, PTL DEF Spec, NoCallAfterTimeout
=============================================================================
