----------------------- MODULE DynSamDataloaderProofs -----------------------
(***************************************************************************)
(* Proofs about the dynamic-sampling dataloader, for every dataset size,   *)
(* strategy, batch size and number of rollouts.                            *)
(***************************************************************************)
EXTENDS DynSamDataloader, SequenceTheorems, TLAPS

-----------------------------------------------------------------------------
(* Facts about the operators of the specification.                         *)

\* A refilled queue is a sequence of rows without duplicates that holds them all.
LEMMA NewQueueFacts ==
    ASSUME NEW q \in NewQueues
    PROVE  /\ q \in Seq(Indices)
           /\ Len(q) = DatasetLen
           /\ IsInjective(q)
           /\ Range(q) = Indices
<1>1. DatasetLen \in Nat
  BY LoaderAssumption
<1>2. q \in [1 .. DatasetLen -> Indices]
  BY <1>1 DEF NewQueues, Bijection, Injection, Surjection, Indices
<1>3. q \in Seq(Indices) /\ Len(q) = DatasetLen
  BY <1>1, <1>2, IsASeq, LenProperties
<1>4. IsInjective(q) /\ Range(q) = Indices
  <2>1. CASE Shuffle
    BY <2>1, <1>2 DEF NewQueues, Bijection, Injection, Surjection, Range
  <2>2. CASE ~ Shuffle
    <3>1. q = [p \in 1 .. DatasetLen |-> p - 1]
      BY <2>2 DEF NewQueues
    <3>2. IsInjective(q)
      BY <3>1, <1>1 DEF IsInjective
    <3>3. Indices \subseteq Range(q)
      <4> SUFFICES ASSUME NEW i \in Indices PROVE i \in Range(q)
        OBVIOUS
      <4>1. i + 1 \in 1 .. DatasetLen /\ q[i + 1] = i
        BY <3>1, <1>1 DEF Indices
      <4> QED BY <4>1, <1>2 DEF Range
    <3> QED BY <3>2, <3>3, <1>2 DEF Range
  <2> QED BY <2>1, <2>2
<1> QED BY <1>3, <1>4

\* Taking a row from either end of a duplicate-free queue removes just that row.
LEMMA TakeFacts ==
    ASSUME NEW q \in Seq(Indices), q # << >>, IsInjective(q)
    PROVE  /\ Head(q) \in Range(q) /\ Tail(q) \in Seq(Indices)
           /\ Len(Tail(q)) = Len(q) - 1
           /\ IsInjective(Tail(q))
           /\ Range(Tail(q)) = Range(q) \ {Head(q)}
           /\ q[Len(q)] \in Range(q) /\ SubSeq(q, 1, Len(q) - 1) \in Seq(Indices)
           /\ Len(SubSeq(q, 1, Len(q) - 1)) = Len(q) - 1
           /\ IsInjective(SubSeq(q, 1, Len(q) - 1))
           /\ Range(SubSeq(q, 1, Len(q) - 1)) = Range(q) \ {q[Len(q)]}
<1> DEFINE n == Len(q)
           t == Tail(q)
           f == SubSeq(q, 1, n - 1)
<1>1. n \in Nat \ {0} /\ DOMAIN q = 1 .. n
  BY EmptySeq, LenProperties
<1>2. /\ t \in Seq(Indices) /\ Len(t) = n - 1 /\ DOMAIN t = 1 .. n - 1
      /\ Head(q) = q[1]
      /\ \A k \in 1 .. n - 1 : t[k] = q[k + 1]
  BY <1>1, HeadTailProperties, LenProperties
<1>3. /\ f \in Seq(Indices) /\ Len(f) = n - 1 /\ DOMAIN f = 1 .. n - 1
      /\ \A k \in 1 .. n - 1 : f[k] = q[k]
  <2>1. \A k \in 1 .. n - 1 : q[k] \in Indices
    BY <1>1, ElementOfSeq
  <2>2. n - 1 \in Int /\ 1 \in Int
    BY <1>1
  <2>3. /\ f \in Seq(Indices)
        /\ Len(f) = IF 1 <= n - 1 THEN (n - 1) - 1 + 1 ELSE 0
        /\ \A k \in 1 .. (n - 1) - 1 + 1 : f[k] = q[1 + k - 1]
    BY <2>1, <2>2, SubSeqProperties
  <2>4. Len(f) = n - 1 /\ \A k \in 1 .. n - 1 : f[k] = q[k]
    BY <2>3, <1>1
  <2> QED BY <2>3, <2>4, LenProperties
<1> HIDE DEF n, t, f
<1>4. Head(q) \in Range(q) /\ q[n] \in Range(q)
  BY <1>1, <1>2 DEF Range
<1>5. IsInjective(t) /\ IsInjective(f)
  <2>1. \A a, b \in 1 .. n : q[a] = q[b] => a = b
    BY <1>1 DEF IsInjective
  <2>2. IsInjective(t)
    BY <1>1, <1>2, <2>1 DEF IsInjective
  <2>3. 1 .. n - 1 \subseteq 1 .. n
    BY <1>1
  <2>4. IsInjective(f)
    BY <1>3, <2>1, <2>3 DEF IsInjective
  <2> QED BY <2>2, <2>4
<1>6. Range(t) = Range(q) \ {Head(q)}
  <2>1. ASSUME NEW i \in Range(t) PROVE i \in Range(q) \ {Head(q)}
    <3>1. PICK k \in 1 .. n - 1 : i = t[k]
      BY <1>2 DEF Range
    <3>2. k + 1 \in 1 .. n /\ k + 1 # 1 /\ i = q[k + 1] /\ 1 \in 1 .. n
      BY <3>1, <1>1, <1>2
    <3> QED BY <3>2, <1>1, <1>2 DEF Range, IsInjective
  <2>2. ASSUME NEW i \in Range(q) \ {Head(q)} PROVE i \in Range(t)
    <3>1. PICK k \in 1 .. n : i = q[k]
      BY <1>1 DEF Range
    <3>2. k - 1 \in 1 .. n - 1 /\ t[k - 1] = q[k]
      BY <3>1, <1>1, <1>2
    <3> QED BY <3>1, <3>2, <1>2 DEF Range
  <2> QED BY <2>1, <2>2
<1>7. Range(f) = Range(q) \ {q[n]}
  <2>1. ASSUME NEW i \in Range(f) PROVE i \in Range(q) \ {q[n]}
    <3>1. PICK k \in 1 .. n - 1 : i = f[k]
      BY <1>3 DEF Range
    <3>2. k \in 1 .. n /\ k # n /\ n \in 1 .. n
      BY <1>1, <3>1
    <3>3. i = q[k]
      BY <3>1, <1>3
    <3> QED BY <3>2, <3>3, <1>1 DEF Range, IsInjective
  <2>2. ASSUME NEW i \in Range(q) \ {q[n]} PROVE i \in Range(f)
    <3>1. PICK k \in 1 .. n : i = q[k]
      BY <1>1 DEF Range
    <3>2. k \in 1 .. n - 1 /\ f[k] = q[k]
      BY <3>1, <1>1, <1>3
    <3> QED BY <3>1, <3>2, <1>3 DEF Range
  <2> QED BY <2>1, <2>2
<1> QED BY <1>2, <1>3, <1>4, <1>5, <1>6, <1>7 DEF n, t, f

\* Recording a pass rate appends it and keeps the order of the earlier ones.
LEMMA RecordedFacts ==
    ASSUME NEW h \in Histories, NEW p \in Passrates
    PROVE  /\ Recorded(h, p) \in Histories
           /\ Len(Recorded(h, p)) \in {Len(h), Len(h) + 1} \ {0}
           /\ Recorded(h, p)[Len(Recorded(h, p))] = p
           /\ \A k \in 1 .. Len(Recorded(h, p)) - 1 :
                 Recorded(h, p)[Len(Recorded(h, p)) - k] = h[Len(h) + 1 - k]
<1> DEFINE kept == IF Strategy = "filter" THEN 3 ELSE HistoryKept
<1>1. /\ h \in Seq(Passrates) /\ Len(h) \in Nat
      /\ Len(h) <= HistoryKept \/ Len(h) <= 3
      /\ HistoryKept \in Nat \ {0}
      /\ kept \in Nat \ {0} /\ (kept <= HistoryKept \/ kept <= 3)
  BY LoaderAssumption, LenProperties DEF Histories
<1>4. Recorded(h, p) = IF Len(h) < kept THEN Append(h, p) ELSE Append(Tail(h), p)
  BY DEF Recorded
<1> HIDE DEF kept
<1>2. CASE Len(h) < kept
  <2>1. Recorded(h, p) = Append(h, p)
    BY <1>2, <1>4
  <2>2. /\ Append(h, p) \in Seq(Passrates)
        /\ Len(Append(h, p)) = Len(h) + 1
        /\ \A j \in 1 .. Len(h) : Append(h, p)[j] = h[j]
        /\ Append(h, p)[Len(h) + 1] = p
    BY <1>1, AppendProperties
  <2>3. \A k \in 1 .. Len(h) : Append(h, p)[Len(h) + 1 - k] = h[Len(h) + 1 - k]
    BY <1>1, <2>2
  <2> QED BY <1>1, <1>2, <2>1, <2>2, <2>3 DEF Histories
<1>3. CASE ~ Len(h) < kept
  <2>1. Recorded(h, p) = Append(Tail(h), p) /\ Len(h) >= 1
    BY <1>1, <1>3, <1>4
  <2>2. /\ Tail(h) \in Seq(Passrates)
        /\ Len(Tail(h)) = Len(h) - 1
        /\ \A j \in 1 .. Len(Tail(h)) : Tail(h)[j] = h[j + 1]
    BY <1>1, <2>1, HeadTailProperties, EmptySeq
  <2>3. /\ Append(Tail(h), p) \in Seq(Passrates)
        /\ Len(Append(Tail(h), p)) = Len(h)
        /\ \A j \in 1 .. Len(h) - 1 : Append(Tail(h), p)[j] = Tail(h)[j]
        /\ Append(Tail(h), p)[Len(h)] = p
    BY <1>1, <2>2, AppendProperties
  <2>4. \A k \in 1 .. Len(h) - 1 :
            Append(Tail(h), p)[Len(h) - k] = h[Len(h) + 1 - k]
    <3> SUFFICES ASSUME NEW k \in 1 .. Len(h) - 1
                 PROVE  Append(Tail(h), p)[Len(h) - k] = h[Len(h) + 1 - k]
      OBVIOUS
    <3>1. Len(h) - k \in 1 .. Len(h) - 1 /\ Len(h) - k + 1 = Len(h) + 1 - k
      BY <1>1
    <3> QED BY <2>2, <2>3, <3>1
  <2>5. Append(Tail(h), p) \in Histories
    BY <1>1, <2>3 DEF Histories
  <2>6. /\ Len(Recorded(h, p)) = Len(h) /\ Len(h) \in Nat \ {0}
        /\ Recorded(h, p)[Len(h)] = p
    BY <1>1, <2>1, <2>3
  <2> QED BY <2>1, <2>4, <2>5, <2>6
<1> QED BY <1>2, <1>3

-----------------------------------------------------------------------------
(* Type correctness.                                                       *)

\* The constructor's state dict is well typed.
LEMMA InitialStateType == InitialState \in StateDicts
<1>1. << >> \in Histories /\ << >> \in Queues
  BY LoaderAssumption, EmptySeq DEF Histories, Queues
<1> QED BY <1>1, LoaderAssumption DEF InitialState, StateDicts, Indices

\* TypeOK, unfolded into one conjunct per variable.
LEMMA TypeUnfolded ==
    TypeOK <=>
    /\ config \in Configs
    /\ index2passrate \in [Indices -> Histories]
    /\ queue \in Queues
    /\ step \in 0 .. MaxStep
    /\ passrate1_set \in SUBSET Indices
    /\ passrate0_set \in [Indices -> 0 .. ZeroCap]
    /\ index2replay_ratio \in [Indices -> 0 .. MaxDecay]
    /\ phase \in {"idle", "sampling", "sampled"}
    /\ filter_set \subseteq Indices
    /\ data_index \in Seq(Indices) /\ Len(data_index) <= BatchSize
    /\ index \in Indices \cup {NoIndex}
    /\ saved \in [present : BOOLEAN, state : StateDicts]
    /\ restarts \in 0 .. MaxRestarts
BY DEF TypeOK, StateDicts, state_dict

\* A pass-rate report for the batch keeps the types of the per-row records.
LEMMA FeedbackType ==
    ASSUME TypeOK, NEW passrate_list \in [Range(data_index) -> Passrates],
           feedback(passrate_list)
    PROVE  TypeOK'
<1> USE TypeUnfolded
<1>1. Range(data_index) \subseteq Indices
  BY LenProperties DEF Range
<1>2. DOMAIN passrate_list = Range(data_index)
  OBVIOUS
<1>3. index2passrate' \in [Indices -> Histories]
  <2>1. ASSUME NEW i \in Indices, i \in DOMAIN passrate_list
        PROVE  Recorded(index2passrate[i], passrate_list[i]) \in Histories
    BY <2>1, <1>2, RecordedFacts
  <2> QED BY <2>1 DEF feedback
<1>4. passrate1_set' \in SUBSET Indices
  BY <1>1, <1>2 DEF feedback
<1>5. index2replay_ratio' \in [Indices -> 0 .. MaxDecay]
  <2>1. \A n \in 0 .. MaxDecay : AtMost(MaxDecay, n + 1) \in 0 .. MaxDecay
    BY LoaderAssumption DEF AtMost
  <2>2. 0 \in 0 .. MaxDecay
    BY LoaderAssumption
  <2> QED BY <2>1, <2>2 DEF feedback, RatioAfter
<1>6. passrate0_set' \in [Indices -> 0 .. ZeroCap]
  <2>1. \A n \in 0 .. ZeroCap : AtMost(ZeroCap, n + 1) \in 0 .. ZeroCap
    BY LoaderAssumption DEF AtMost
  <2>2. 0 \in 0 .. ZeroCap
    BY LoaderAssumption
  <2> QED BY <2>1, <2>2 DEF feedback
<1>7. queue' \in Queues
  BY LoaderAssumption, EmptySeq DEF feedback, Queues
<1>8. /\ phase' = "idle" /\ data_index' = << >>
      /\ UNCHANGED << step, filter_set, index, saved, restarts, config >>
  BY DEF feedback
<1>9. data_index' \in Seq(Indices) /\ Len(data_index') <= BatchSize
  BY <1>8, LoaderAssumption, EmptySeq
<1> QED BY <1>3, <1>4, <1>5, <1>6, <1>7, <1>8, <1>9
      DEF TypeOK, StateDicts, state_dict

\* What taking a row does to the queue, for the types.
LEMMA TakeType ==
    ASSUME TypeOK, TakeIndex
    PROVE  queue' \in Queues /\ index' \in Indices /\ NextIndex \in Indices
<1> USE TypeUnfolded
<1>1. queue \in Seq(Indices) /\ Len(queue) <= DatasetLen /\ queue # << >>
  BY DEF Queues, TakeIndex
<1>2. Len(queue) \in Nat \ {0}
  BY <1>1, EmptySeq
<1>3. Tail(queue) \in Seq(Indices) /\ Len(Tail(queue)) = Len(queue) - 1
      /\ Head(queue) \in Indices
  BY <1>1, HeadTailProperties
<1>4. /\ \A k \in 1 .. Len(queue) : queue[k] \in Indices
      /\ queue[Len(queue)] \in Indices
  BY <1>1, <1>2, ElementOfSeq
<1>5. SubSeq(queue, 1, Len(queue) - 1) \in Seq(Indices)
      /\ Len(SubSeq(queue, 1, Len(queue) - 1)) = Len(queue) - 1
  <2>1. /\ 1 \in Int /\ Len(queue) - 1 \in Int
        /\ \A k \in 1 .. Len(queue) - 1 : queue[k] \in Indices
    BY <1>2, <1>4
  <2>2. /\ SubSeq(queue, 1, Len(queue) - 1) \in Seq(Indices)
        /\ Len(SubSeq(queue, 1, Len(queue) - 1)) =
              IF 1 <= Len(queue) - 1 THEN Len(queue) - 1 - 1 + 1 ELSE 0
    BY <2>1, SubSeqProperties
  <2>3. \A n \in Nat \ {0} : (IF 1 <= n - 1 THEN n - 1 - 1 + 1 ELSE 0) = n - 1
    OBVIOUS
  <2>4. (IF 1 <= Len(queue) - 1 THEN Len(queue) - 1 - 1 + 1 ELSE 0) = Len(queue) - 1
    BY <1>2, <2>3
  <2> QED BY ONLY <2>2, <2>4
<1>6. DatasetLen \in Nat
  BY LoaderAssumption
<1> QED BY <1>1, <1>2, <1>3, <1>4, <1>5, <1>6 DEF TakeIndex, NextIndex, Queues

\* Every variable keeps its type: the types of the lists and counters that the
\* constructor, sample(), feedback() and load_state_dict() share.
THEOREM TypeCorrect == Spec => []TypeOK
<1>1. Init => TypeOK
  <2> SUFFICES ASSUME Init PROVE TypeOK
    OBVIOUS
  <2>1. state_dict = InitialState
    BY DEF Init, state_dict, InitialState
  <2>2. saved \in [present : BOOLEAN, state : StateDicts]
    BY InitialStateType DEF Init, NoCheckpoint
  <2> QED BY <2>1, <2>2, InitialStateType, LoaderAssumption, EmptySeq
          DEF Init, TypeOK
<1>2. TypeOK /\ [Next]_vars => TypeOK'
  <2> SUFFICES ASSUME TypeOK, [Next]_vars PROVE TypeOK'
    OBVIOUS
  <2> USE TypeUnfolded DEF vars, persisted, locals
  <2>1. CASE add_step
    <3>1. step' \in 0 .. MaxStep
      BY <2>1, LoaderAssumption DEF add_step
    <3> QED BY <3>1, <2>1 DEF add_step, TypeOK, state_dict, StateDicts
  <2>2. CASE StartSample
    <3>1. filter_set' \subseteq Indices
      BY <2>2 DEF StartSample, _build_sample_filter
    <3>2. data_index' \in Seq(Indices) /\ Len(data_index') <= BatchSize
      BY <2>2, LoaderAssumption, EmptySeq DEF StartSample
    <3> QED BY <3>1, <3>2, <2>2 DEF StartSample, TypeOK, state_dict
  <2>3. CASE RefillQueue
    <3>1. queue' \in Queues
      BY <2>3, NewQueueFacts, LoaderAssumption DEF RefillQueue, Queues
    <3> QED BY <3>1, <2>3 DEF RefillQueue, TypeOK, state_dict, StateDicts
  <2>4. CASE AcceptIndex
    <3>1. TakeIndex /\ data_index' = Append(data_index, NextIndex)
      BY <2>4 DEF AcceptIndex
    <3>2. queue' \in Queues /\ index' \in Indices /\ NextIndex \in Indices
      BY <3>1, TakeType
    <3>3. data_index' \in Seq(Indices) /\ Len(data_index') <= BatchSize
      BY <3>1, <3>2, AppendProperties, LenProperties, LoaderAssumption DEF TakeIndex
    <3> QED BY <3>1, <3>2, <3>3 DEF TakeIndex, TypeOK, state_dict, StateDicts
  <2>5. CASE SkipIndex
    <3>1. TakeIndex /\ UNCHANGED data_index
      BY <2>5 DEF SkipIndex
    <3>2. queue' \in Queues /\ index' \in Indices
      BY <3>1, TakeType
    <3> QED BY <3>1, <3>2 DEF TakeIndex, TypeOK, state_dict, StateDicts
  <2>6. CASE ReturnBatch
    BY <2>6 DEF ReturnBatch, TypeOK, state_dict
  <2>7. CASE Feedback
    BY <2>7, FeedbackType DEF Feedback
  <2>8. CASE NoFeedback
    <3>1. data_index' \in Seq(Indices) /\ Len(data_index') <= BatchSize
      BY <2>8, LoaderAssumption, EmptySeq DEF NoFeedback
    <3> QED BY <3>1, <2>8 DEF NoFeedback, TypeOK, state_dict
  <2>9. CASE Save
    <3>1. saved' \in [present : BOOLEAN, state : StateDicts]
      BY <2>9 DEF Save, TypeOK
    <3> QED BY <3>1, <2>9 DEF Save, TypeOK, state_dict
  <2>10. CASE Restart
    <3>1. state_dict' = saved.state
      BY <2>10 DEF Restart, state_dict, StateDicts
    <3>2. restarts' \in 0 .. MaxRestarts
      BY <2>10, LoaderAssumption DEF Restart
    <3>3. data_index' \in Seq(Indices) /\ Len(data_index') <= BatchSize
      BY <2>10, LoaderAssumption, EmptySeq DEF Restart
    <3> QED BY <3>1, <3>2, <3>3, <2>10 DEF Restart, TypeOK
  <2>11. CASE UNCHANGED vars
    BY <2>11 DEF TypeOK, state_dict
  <2> QED BY <2>1, <2>2, <2>3, <2>4, <2>5, <2>6, <2>7, <2>8, <2>9, <2>10, <2>11
          DEF Next
<1> QED BY <1>1, <1>2, PTL DEF Spec

-----------------------------------------------------------------------------
(* The queue holds no row twice.                                           *)

\* A row taken off a duplicate-free queue is the only one that leaves it.
LEMMA TakeFromQueue ==
    ASSUME TypeOK, IsInjective(queue), TakeIndex
    PROVE  /\ IsInjective(queue')
           /\ NextIndex \in Range(queue)
           /\ Range(queue') = Range(queue) \ {NextIndex}
<1>1. queue \in Seq(Indices) /\ queue # << >>
  BY TypeUnfolded DEF Queues, TakeIndex
<1> QED BY <1>1, TakeFacts DEF TakeIndex, NextIndex

\* The refill of sample() meets only empty queues, so no row is ever queued
\* twice, in memory or in data.pt, whatever the strategy.
THEOREM NoDuplicates == Spec => []QueueHasNoDuplicates
<1>0. IsInjective(<< >>)
  BY DEF IsInjective
<1>1. Init => QueueHasNoDuplicates
  BY <1>0 DEF Init, NoCheckpoint, InitialState, QueueHasNoDuplicates
<1>2. TypeOK /\ QueueHasNoDuplicates /\ [Next]_vars => QueueHasNoDuplicates'
  <2> SUFFICES ASSUME TypeOK, QueueHasNoDuplicates, [Next]_vars
               PROVE  QueueHasNoDuplicates'
    OBVIOUS
  <2> USE DEF QueueHasNoDuplicates
  <2>1. ASSUME TakeIndex PROVE QueueHasNoDuplicates'
    BY <2>1, TakeFromQueue DEF TakeIndex
  <2>2. CASE RefillQueue
    BY <2>2, NewQueueFacts DEF RefillQueue
  <2>3. CASE Feedback
    BY <2>3, <1>0 DEF Feedback, feedback
  <2>4. CASE Save
    BY <2>4 DEF Save, state_dict, persisted
  <2>5. CASE Restart
    BY <2>5 DEF Restart
  <2>6. CASE add_step \/ StartSample \/ ReturnBatch \/ NoFeedback \/ UNCHANGED vars
    BY <2>6 DEF add_step, StartSample, ReturnBatch, NoFeedback, vars, persisted
  <2> QED BY <2>1, <2>2, <2>3, <2>4, <2>5, <2>6 DEF Next, AcceptIndex, SkipIndex
<1> QED BY <1>1, <1>2, TypeCorrect, PTL DEF Spec

\* A row is on offer only inside sample().
OfferOnlyInSample == phase # "sampling" => index = NoIndex

LEMMA OffersEnd == Spec => []OfferOnlyInSample
<1>1. Init => OfferOnlyInSample
  BY DEF Init, OfferOnlyInSample
<1>2. OfferOnlyInSample /\ [Next]_vars => OfferOnlyInSample'
  BY DEF OfferOnlyInSample, Next, vars, locals, add_step, StartSample, RefillQueue,
         TakeIndex, AcceptIndex, SkipIndex, ReturnBatch, Feedback, feedback,
         NoFeedback, Save, Restart
<1> QED BY <1>1, <1>2, PTL DEF Spec

\* The loader implements the epoch sampler: whichever rows are accepted or
\* skipped, every pass offers every row exactly once, and a restarted process
\* resumes the pass data.pt holds.
THEOREM EpochRefinement == Spec => ImplementsEpochs
<1>0. Range(<< >>) = {}
  BY DEF Range
<1>1. Init => Epochs!Init
  BY <1>0 DEF Init, Epochs!Init, NoCheckpoint, InitialState
<1>2. TypeOK /\ QueueHasNoDuplicates /\ OfferOnlyInSample /\ [Next]_vars
      => [Epochs!Next]_Epochs!vars
  <2> SUFFICES ASSUME TypeOK, QueueHasNoDuplicates, OfferOnlyInSample, [Next]_vars
               PROVE  [Epochs!Next]_Epochs!vars
    OBVIOUS
  <2> USE DEF Epochs!Next, Epochs!vars
  <2>1. ASSUME TakeIndex PROVE [Epochs!Next]_Epochs!vars
    <3>1. IsInjective(queue) /\ NextIndex \in Indices
      BY <2>1, TakeType DEF QueueHasNoDuplicates
    <3>2. Epochs!Offer(NextIndex)
      BY <2>1, <3>1, TakeFromQueue DEF TakeIndex, Epochs!Offer
    <3> QED BY <3>1, <3>2
  <2>2. CASE RefillQueue
    <3>1. Epochs!NewPass
      BY <2>2, <1>0, NewQueueFacts DEF RefillQueue, locals, Epochs!NewPass
    <3> QED BY <3>1
  <2>3. CASE Feedback
    BY <2>3, <1>0 DEF Feedback, feedback, OfferOnlyInSample, Epochs!Abandon
  <2>4. CASE Save
    BY <2>4 DEF Save, state_dict, persisted, locals, Epochs!Checkpoint
  <2>5. CASE Restart
    BY <2>5 DEF Restart, Epochs!Resume
  <2>6. CASE ReturnBatch
    BY <2>6 DEF ReturnBatch, persisted, Epochs!Withdraw
  <2>7. CASE add_step \/ StartSample \/ NoFeedback \/ UNCHANGED vars
    BY <2>7 DEF add_step, StartSample, NoFeedback, vars, persisted, locals
  <2> QED BY <2>1, <2>2, <2>3, <2>4, <2>5, <2>6, <2>7 DEF Next, AcceptIndex, SkipIndex
<1> QED BY <1>1, <1>2, TypeCorrect, NoDuplicates, OffersEnd, PTL
        DEF Spec, ImplementsEpochs, Epochs!Spec

-----------------------------------------------------------------------------
(* The per-row records agree.                                              *)

\* One pass rate, recorded by every branch of feedback(), keeps a row's records
\* in agreement.
LEMMA RowStaysInAgreement ==
    ASSUME NEW h \in Histories, NEW p \in Passrates,
           NEW solved, NEW zeros \in 0 .. ZeroCap, NEW ratio \in 0 .. MaxDecay,
           RowAgrees(h, solved, zeros, ratio),
           NEW solved2, NEW zeros2, NEW ratio2,
           solved2 <=> p = Rollouts,
           zeros2 = IF p = 0 THEN AtMost(ZeroCap, zeros + 1) ELSE 0,
           ratio2 = IF p = Rollouts THEN AtMost(MaxDecay, ratio + 1) ELSE 0
    PROVE  RowAgrees(Recorded(h, p), solved2, zeros2, ratio2)
<1> DEFINE r == Recorded(h, p)
           n == Len(h)
           m == Len(r)
           up == AtMost(MaxDecay, ratio + 1)
           zup == AtMost(ZeroCap, zeros + 1)
<1>1. /\ n \in Nat /\ m \in Nat \ {0} /\ m \in {n, n + 1} /\ r[m] = p
      /\ \A k \in 1 .. m - 1 : r[m - k] = h[n + 1 - k]
  <2>1. n \in Nat
    BY LenProperties DEF Histories
  <2> QED BY <2>1, RecordedFacts
<1>2. /\ \A j \in 1 .. n : j > n - ratio => h[j] = Rollouts
      /\ ratio < MaxDecay /\ ratio < n => h[n - ratio] # Rollouts
  BY DEF RowAgrees
<1>3. /\ Rollouts \in Nat \ {0} /\ p \in 0 .. Rollouts
      /\ MaxDecay \in Nat \ {0} /\ ZeroCap \in Nat \ {0}
  BY LoaderAssumption DEF Passrates
<1>4. /\ zup \in 1 .. ZeroCap /\ up \in 1 .. MaxDecay /\ up <= ratio + 1
      /\ up < MaxDecay => up = ratio + 1
  BY <1>3 DEF AtMost
<1> HIDE DEF r, n, m, up, zup
<1>5. CASE p = Rollouts
  <2>1. ASSUME NEW j \in 1 .. m, j > m - up PROVE r[j] = Rollouts
    <3>1. CASE j = m
      BY <3>1, <1>1, <1>5
    <3>2. CASE j # m
      <4>1. /\ m - j \in 1 .. m - 1 /\ m - (m - j) = j
            /\ n + 1 - (m - j) \in 1 .. n /\ n + 1 - (m - j) > n - ratio
        BY <3>2, <2>1, <1>1, <1>4, <1>3
      <4>2. r[m - (m - j)] = h[n + 1 - (m - j)]
        BY <4>1, <1>1
      <4> QED BY <4>1, <4>2, <1>2
    <3> QED BY <3>1, <3>2
  <2>2. ASSUME up < MaxDecay, up < m PROVE r[m - up] # Rollouts
    <3>1. up \in 1 .. m - 1 /\ up = ratio + 1 /\ n + 1 - up = n - ratio
          /\ ratio < n /\ ratio < MaxDecay
      BY <2>2, <1>1, <1>3, <1>4
    <3> QED BY <3>1, <1>1, <1>2
  <2>3. solved2 /\ zeros2 = 0 /\ ratio2 = up
    BY <1>3, <1>5 DEF up
  <2>4. RowAgrees(r, solved2, zeros2, ratio2)
    BY <2>1, <2>2, <2>3, <1>1, <1>3, <1>4, <1>5 DEF RowAgrees, m
  <2> QED BY <2>4 DEF r
<1>6. CASE p # Rollouts
  <2>1. ~solved2 /\ ratio2 = 0 /\ zeros2 \in Nat /\ (zeros2 > 0 <=> p = 0)
    BY <1>3, <1>4, <1>6 DEF zup
  <2>2. RowAgrees(r, solved2, zeros2, ratio2)
    BY <2>1, <1>1, <1>3, <1>6 DEF RowAgrees, m
  <2> QED BY <2>2 DEF r
<1> QED BY <1>5, <1>6

\* Set, count, ratio and history of a row never contradict each other, in memory
\* or in data.pt.
THEOREM RatiosFollow == Spec => []RatiosFollowHistory
<1>1. RatiosAgree(InitialState)
  BY LoaderAssumption, EmptySeq DEF RatiosAgree, RowAgrees, InitialState
<1>2. Init => RatiosFollowHistory
  BY <1>1 DEF Init, RatiosFollowHistory, state_dict, InitialState, NoCheckpoint
<1>3. TypeOK /\ RatiosFollowHistory /\ [Next]_vars => RatiosFollowHistory'
  <2> SUFFICES ASSUME TypeOK, RatiosFollowHistory, [Next]_vars
               PROVE  RatiosFollowHistory'
    OBVIOUS
  <2> USE DEF RatiosFollowHistory
  <2>1. ASSUME UNCHANGED << index2passrate, passrate1_set, passrate0_set,
                            index2replay_ratio, saved >>
        PROVE  RatiosFollowHistory'
    BY <2>1 DEF RatiosAgree, state_dict
  <2>2. CASE Feedback
    <3>1. PICK rates \in [Range(data_index) -> Passrates] : feedback(rates)
      BY <2>2 DEF Feedback
    <3>2. ASSUME NEW i \in Indices
          PROVE  RowAgrees(index2passrate'[i], i \in passrate1_set',
                           passrate0_set'[i], index2replay_ratio'[i])
      <4>1. RowAgrees(index2passrate[i], i \in passrate1_set,
                      passrate0_set[i], index2replay_ratio[i])
        BY DEF RatiosAgree, state_dict
      <4>2. CASE i \notin DOMAIN rates
        <5>1. /\ index2passrate'[i] = index2passrate[i]
              /\ (i \in passrate1_set') <=> (i \in passrate1_set)
              /\ passrate0_set'[i] = passrate0_set[i]
              /\ index2replay_ratio'[i] = index2replay_ratio[i]
          BY <3>1, <4>2 DEF feedback
        <5> QED BY <4>1, <5>1 DEF RowAgrees
      <4>3. CASE i \in DOMAIN rates
        <5>1. /\ index2passrate[i] \in Histories /\ rates[i] \in Passrates
              /\ passrate0_set[i] \in 0 .. ZeroCap
              /\ index2replay_ratio[i] \in 0 .. MaxDecay
          BY <4>3, TypeUnfolded
        <5>2. /\ index2passrate'[i] = Recorded(index2passrate[i], rates[i])
              /\ (i \in passrate1_set') <=> (rates[i] = Rollouts)
              /\ passrate0_set'[i] =
                    IF rates[i] = 0 THEN AtMost(ZeroCap, passrate0_set[i] + 1) ELSE 0
              /\ index2replay_ratio'[i] =
                    IF rates[i] = Rollouts
                    THEN AtMost(MaxDecay, index2replay_ratio[i] + 1) ELSE 0
          BY <3>1, <4>3 DEF feedback, RatioAfter
        <5>3. RowAgrees(Recorded(index2passrate[i], rates[i]), i \in passrate1_set',
                        passrate0_set'[i], index2replay_ratio'[i])
          BY <4>1, <5>1, <5>2, RowStaysInAgreement
        <5> QED BY <5>2, <5>3
      <4> QED BY <4>2, <4>3
    <3>3. saved' = saved
      BY <3>1 DEF feedback
    <3> QED BY <3>2, <3>3 DEF RatiosAgree, state_dict
  <2>3. CASE Save
    <3>1. state_dict' = state_dict /\ saved'.state = state_dict
      BY <2>3 DEF Save, state_dict, persisted
    <3> QED BY <3>1 DEF RatiosAgree
  <2>4. CASE Restart
    <3>1. state_dict' = saved.state /\ saved' = saved
      BY <2>4, TypeUnfolded DEF Restart, state_dict, StateDicts
    <3> QED BY <3>1 DEF RatiosAgree
  <2> QED BY <2>1, <2>2, <2>3, <2>4
          DEF Next, vars, persisted, add_step, StartSample, RefillQueue, TakeIndex,
              AcceptIndex, SkipIndex, ReturnBatch, NoFeedback
<1> QED BY <1>2, <1>3, TypeCorrect, PTL DEF Spec

-----------------------------------------------------------------------------
(* Filtered rows.                                                          *)

\* While a sample is under way its filter_set is up to date, and no filtered row
\* is in the batch the trainer is about to rate.
BatchAvoidsFilter ==
    Strategy = "filter" =>
    /\ phase = "sampling" => filter_set = _build_sample_filter
    /\ phase # "idle" => \A i \in Range(data_index) : i \notin _build_sample_filter

LEMMA BatchStaysClear ==
    TypeOK /\ BatchAvoidsFilter /\ [Next]_vars => BatchAvoidsFilter'
<1>0. [Next]_vars => Strategy' = Strategy
  BY DEF Strategy, Next, vars, add_step, StartSample, RefillQueue, TakeIndex,
         AcceptIndex, SkipIndex, ReturnBatch, Feedback, feedback, NoFeedback, Save,
         Restart
<1> SUFFICES ASSUME TypeOK, BatchAvoidsFilter, [Next]_vars, Strategy = "filter",
                    Strategy' = "filter"
             PROVE  BatchAvoidsFilter'
  BY <1>0 DEF BatchAvoidsFilter
<1> DEFINE F == _build_sample_filter
<1>1. UNCHANGED index2passrate => F' = F
  BY DEF _build_sample_filter
<1>2. data_index \in Seq(Indices)
  BY DEF TypeOK
<1> HIDE DEF F
<1>3. ASSUME F' = F, UNCHANGED << phase, filter_set, data_index >>
      PROVE  BatchAvoidsFilter'
  BY <1>3 DEF BatchAvoidsFilter, F
<1>4. CASE StartSample
  <2>1. Range(data_index') = {}
    BY <1>4, EmptySeq DEF StartSample, Range
  <2> QED BY <2>1, <1>4, <1>1 DEF StartSample, persisted, BatchAvoidsFilter, F
<1>5. CASE AcceptIndex
  <2>1. /\ NextIndex \in Indices /\ data_index' = Append(data_index, NextIndex)
        /\ NextIndex \notin filter_set
        /\ phase = "sampling" /\ phase' = phase /\ filter_set' = filter_set /\ F' = F
    BY <1>5, <1>1, TakeType DEF AcceptIndex, TakeIndex
  <2>2. \A i \in Range(data_index') : i \in Range(data_index) \/ i = NextIndex
    BY <2>1, <1>2, AppendProperties DEF Range
  <2> QED BY <2>1, <2>2 DEF BatchAvoidsFilter, F
<1>6. CASE SkipIndex
  BY <1>6, <1>1, <1>3 DEF SkipIndex, TakeIndex
<1>7. CASE ReturnBatch
  BY <1>7, <1>1 DEF ReturnBatch, persisted, BatchAvoidsFilter, F
<1>8. CASE Feedback \/ NoFeedback \/ Restart
  BY <1>8 DEF Feedback, feedback, NoFeedback, Restart, BatchAvoidsFilter
<1> QED BY <1>1, <1>3, <1>4, <1>5, <1>6, <1>7, <1>8
        DEF Next, vars, persisted, locals, add_step, RefillQueue, Save

\* With the filter strategy, a row once filtered stays filtered until the process
\* restarts: the loader never samples it again.
THEOREM FilterIsForever == Spec => FilteredForever
<1>1. Init => BatchAvoidsFilter
  BY DEF Init, BatchAvoidsFilter
<1>2. TypeOK /\ BatchAvoidsFilter /\ [Next]_vars
      => [Strategy = "filter" /\ restarts' = restarts =>
             _build_sample_filter \subseteq _build_sample_filter']_vars
  <2> SUFFICES ASSUME TypeOK, BatchAvoidsFilter, Next, Strategy = "filter",
                      restarts' = restarts
               PROVE  _build_sample_filter \subseteq _build_sample_filter'
    BY DEF vars
  <2>1. CASE Feedback
    <3>1. PICK rates \in [Range(data_index) -> Passrates] : feedback(rates)
      BY <2>1 DEF Feedback
    <3>2. \A i \in _build_sample_filter : i \in Indices /\ i \notin DOMAIN rates
      BY <3>1 DEF feedback, BatchAvoidsFilter, _build_sample_filter
    <3>3. \A i \in _build_sample_filter : index2passrate'[i] = index2passrate[i]
      BY <3>1, <3>2 DEF feedback
    <3> QED BY <3>2, <3>3 DEF _build_sample_filter
  <2>2. CASE UNCHANGED index2passrate
    BY <2>2 DEF _build_sample_filter
  <2>3. CASE Restart
    BY <2>3, LoaderAssumption DEF Restart, TypeOK
  <2> QED BY <2>1, <2>2, <2>3
          DEF Next, persisted, add_step, StartSample, RefillQueue, TakeIndex,
              AcceptIndex, SkipIndex, ReturnBatch, NoFeedback, Save
<1> QED BY <1>1, <1>2, BatchStaysClear, TypeCorrect, PTL DEF Spec, FilteredForever

=============================================================================
