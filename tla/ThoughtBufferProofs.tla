------------------------- MODULE ThoughtBufferProofs -------------------------
(***************************************************************************)
(* Proofs about the thought buffer, for every buffer size, every set of    *)
(* prompts and every content of the responses.                             *)
(***************************************************************************)
EXTENDS ThoughtBuffer, SequenceTheorems, TLAPS

-----------------------------------------------------------------------------
(* One queue and its set.                                                  *)

\* Pushing keeps the size bound; the new entry is the last and the others keep
\* their distance to the front or move up by one.
LEMMA PushFacts ==
    ASSUME NEW S, NEW q \in QueuesOf(S), NEW x \in S, thought_buffer_size > 0
    PROVE  LET n == Len(q)
               p == Pushed(q, x)
               s == thought_buffer_size
           IN
           /\ p \in QueuesOf(S)
           /\ n < s => Len(p) = n + 1 /\ \A j \in 1 .. n : p[j] = q[j]
           /\ n >= s => /\ n = s /\ Len(p) = n /\ Head(q) = q[1] /\ q # << >>
                        /\ \A j \in 1 .. n - 1 : p[j] = q[j + 1]
           /\ p[Len(p)] = x
<1> DEFINE n == Len(q)
           s == thought_buffer_size
<1>1. s \in Nat \ {0} /\ q \in Seq(S) /\ n \in Nat /\ n <= s
  BY BufferAssumption, LenProperties DEF QueuesOf
<1>2. CASE n < s
  <2>1. Pushed(q, x) = Append(q, x)
    BY <1>2 DEF Pushed
  <2>2. /\ Append(q, x) \in Seq(S) /\ Len(Append(q, x)) = n + 1
        /\ \A j \in 1 .. n : Append(q, x)[j] = q[j]
        /\ Append(q, x)[n + 1] = x
    BY <1>1, AppendProperties
  <2> HIDE DEF n, s
  <2> QED BY <1>1, <1>2, <2>1, <2>2 DEF QueuesOf, n, s
<1>3. CASE ~(n < s)
  <2> DEFINE t == Tail(q)
  <2>1. Pushed(q, x) = Append(t, x)
    BY <1>3 DEF Pushed
  <2>2. n = s /\ q # << >>
    BY <1>1, <1>3, EmptySeq
  <2>3. /\ t \in Seq(S) /\ Len(t) = n - 1 /\ Head(q) = q[1]
        /\ \A j \in 1 .. n - 1 : t[j] = q[j + 1]
    BY <1>1, <2>2, HeadTailProperties
  <2> HIDE DEF t
  <2>4. /\ Append(t, x) \in Seq(S) /\ Len(Append(t, x)) = n - 1 + 1
        /\ \A j \in 1 .. n - 1 : Append(t, x)[j] = t[j]
        /\ Append(t, x)[n - 1 + 1] = x
    BY <2>3, AppendProperties
  <2>5. n - 1 + 1 = n
    BY <1>1
  <2> HIDE DEF n, s
  <2> QED BY <1>1, <2>1, <2>2, <2>3, <2>4, <2>5 DEF QueuesOf, n, s
<1> QED BY <1>2, <1>3

\* Pushing a new entry and updating the set keeps them mirrors of each other.
LEMMA PushMirrors ==
    ASSUME NEW S, NEW q \in QueuesOf(S), NEW set, NEW x \in S, x \notin set,
           thought_buffer_size > 0, Mirrors(q, set)
    PROVE  Mirrors(Pushed(q, x), Noted(q, set, x))
<1> DEFINE n == Len(q)
           p == Pushed(q, x)
           m == Len(p)
           s == thought_buffer_size
           out == Noted(q, set, x)
<1>1. /\ p \in QueuesOf(S) /\ p[m] = x
      /\ n < s => m = n + 1 /\ \A j \in 1 .. n : p[j] = q[j]
      /\ n >= s => /\ n = s /\ m = n /\ Head(q) = q[1]
                   /\ \A j \in 1 .. n - 1 : p[j] = q[j + 1]
  BY PushFacts
<1>2. /\ s \in Nat \ {0} /\ n \in Nat /\ m \in Nat
      /\ DOMAIN q = 1 .. n /\ DOMAIN p = 1 .. m
  BY <1>1, BufferAssumption, LenProperties DEF QueuesOf
<1>3. /\ \A a, b \in 1 .. n : q[a] = q[b] => a = b
      /\ \A y : y \in set <=> \E j \in 1 .. n : q[j] = y
  BY <1>2 DEF Mirrors, IsInjective, Range
<1>4. /\ n < s => out = set \cup {x}
      /\ n >= s => out = (set \ {Head(q)}) \cup {x}
  BY <1>2 DEF Noted
<1> HIDE DEF n, p, m, s, out
<1>5. ASSUME NEW a \in 1 .. m, NEW b \in 1 .. m, p[a] = p[b] PROVE a = b
  <2>1. CASE n < s
    BY <2>1, <1>1, <1>2, <1>3, <1>5
  <2>2. CASE n >= s
    <3>1. \A j \in 1 .. m - 1 : j + 1 \in 1 .. n /\ p[j] = q[j + 1]
      BY <2>2, <1>1, <1>2
    <3> QED BY <3>1, <1>1, <1>2, <1>3, <1>5
  <2> QED BY <2>1, <2>2, <1>2
<1>6. ASSUME NEW y PROVE y \in out <=> \E j \in 1 .. m : p[j] = y
  <2>1. CASE n < s
    <3>1. m = n + 1 /\ \A j \in 1 .. n : p[j] = q[j]
      BY <2>1, <1>1
    <3>2. \A j \in 1 .. m : j = m \/ j \in 1 .. n
      BY <3>1, <1>2
    <3>3. \A j \in 1 .. n : j \in 1 .. m
      BY <3>1, <1>2
    <3>4. m \in 1 .. m
      BY <3>1, <1>2
    <3> QED BY <2>1, <3>1, <3>2, <3>3, <3>4, <1>1, <1>3, <1>4
  <2>2. CASE n >= s
    <3>1. m = n /\ Head(q) = q[1] /\ \A j \in 1 .. n - 1 : p[j] = q[j + 1]
      BY <2>2, <1>1
    <3>2. \A j \in 1 .. m : j = m \/ (j \in 1 .. n - 1 /\ j + 1 \in 1 .. n /\ j + 1 # 1)
      BY <3>1, <1>2
    <3>3. \A j \in 1 .. n : j = 1 \/ (j - 1 \in 1 .. n - 1 /\ j - 1 \in 1 .. m
                                      /\ p[j - 1] = q[j])
      BY <3>1, <1>2
    <3>4. m \in 1 .. m /\ 1 \in 1 .. n
      BY <2>2, <3>1, <1>2
    <3>5. ASSUME y \in out PROVE \E j \in 1 .. m : p[j] = y
      <4>1. CASE y = x
        BY <4>1, <3>4, <1>1
      <4>2. CASE y # x
        <5>1. PICK j \in 1 .. n : q[j] = y
          BY <4>2, <3>5, <2>2, <1>3, <1>4
        <5>2. j # 1
          BY <5>1, <4>2, <3>5, <2>2, <3>1, <1>4
        <5> QED BY <5>1, <5>2, <3>3
      <4> QED BY <4>1, <4>2
    <3>6. ASSUME NEW j \in 1 .. m PROVE p[j] \in out
      <4>1. CASE j = m
        BY <4>1, <2>2, <1>1, <1>4
      <4>2. CASE j # m
        <5>1. /\ p[j] = q[j + 1] /\ j + 1 \in 1 .. n /\ j + 1 # 1
          BY <4>2, <3>1, <3>2
        <5>2. p[j] \in set /\ p[j] # Head(q)
          BY <5>1, <3>1, <3>4, <1>3
        <5> QED BY <5>2, <2>2, <1>4
      <4> QED BY <4>1, <4>2
    <3> QED BY <3>5, <3>6
  <2> QED BY <2>1, <2>2, <1>2
<1>7. Mirrors(p, out)
  BY <1>2, <1>5, <1>6 DEF Mirrors, IsInjective, Range
<1> QED BY <1>7 DEF p, out

-----------------------------------------------------------------------------
(* Items.                                                                  *)

ItemMirrors(item) ==
    /\ Mirrors(item.response_thoughts, item.response_thoughts_set)
    /\ Mirrors(item.response_actions, item.response_actions_set)

\* Queueing a thought keeps an item an item and its set a mirror.
LEMMA ThoughtFacts ==
    ASSUME NEW item \in Items, NEW thought \in Thoughts, thought_buffer_size > 0
    PROVE  /\ WithThought(item, thought) \in Items
           /\ ItemMirrors(item) => ItemMirrors(WithThought(item, thought))
<1> DEFINE q == item.response_thoughts
<1>1. q \in QueuesOf(Thoughts) /\ item.response_thoughts_set \subseteq Thoughts
  BY DEF Items
<1>2. CASE thought \in item.response_thoughts_set
  BY <1>2 DEF WithThought
<1>3. CASE thought \notin item.response_thoughts_set
  <2>1. Pushed(q, thought) \in QueuesOf(Thoughts)
    BY <1>1, PushFacts
  <2>2. Noted(q, item.response_thoughts_set, thought) \subseteq Thoughts
    BY <1>1 DEF Noted
  <2>3. WithThought(item, thought) =
           [item EXCEPT !.response_thoughts = Pushed(q, thought),
              !.response_thoughts_set = Noted(q, item.response_thoughts_set, thought)]
    BY <1>3 DEF WithThought, Items
  <2>4. Mirrors(q, item.response_thoughts_set) =>
           Mirrors(Pushed(q, thought), Noted(q, item.response_thoughts_set, thought))
    BY <1>1, <1>3, PushMirrors
  <2> QED BY <2>1, <2>2, <2>3, <2>4 DEF Items, ItemMirrors
<1> QED BY <1>2, <1>3

\* The same of an action.
LEMMA ActionFacts ==
    ASSUME NEW item \in Items, NEW action \in Actions, thought_buffer_size > 0
    PROVE  /\ WithAction(item, action) \in Items
           /\ ItemMirrors(item) => ItemMirrors(WithAction(item, action))
<1> DEFINE q == item.response_actions
<1>1. q \in QueuesOf(Actions) /\ item.response_actions_set \subseteq Actions
  BY DEF Items
<1>2. CASE action \in item.response_actions_set
  BY <1>2 DEF WithAction
<1>3. CASE action \notin item.response_actions_set
  <2>1. Pushed(q, action) \in QueuesOf(Actions)
    BY <1>1, PushFacts
  <2>2. Noted(q, item.response_actions_set, action) \subseteq Actions
    BY <1>1 DEF Noted
  <2>3. WithAction(item, action) =
           [item EXCEPT !.response_actions = Pushed(q, action),
              !.response_actions_set = Noted(q, item.response_actions_set, action)]
    BY <1>3 DEF WithAction, Items
  <2>4. Mirrors(q, item.response_actions_set) =>
           Mirrors(Pushed(q, action), Noted(q, item.response_actions_set, action))
    BY <1>1, <1>3, PushMirrors
  <2> QED BY <2>1, <2>2, <2>3, <2>4 DEF Items, ItemMirrors
<1> QED BY <1>2, <1>3

\* The first item of a uid.
LEMMA FirstItemFacts ==
    ASSUME NEW thought \in Thoughts, NEW action \in Actions, NEW func \in Funcs,
           thought_buffer_size > 0
    PROVE  /\ ThoughtBufferItem(thought, action, func) \in Items
           /\ ItemMirrors(ThoughtBufferItem(thought, action, func))
<1>1. /\ << thought >> \in Seq(Thoughts) /\ Len(<< thought >>) = 1
      /\ << action >> \in Seq(Actions) /\ Len(<< action >>) = 1
  OBVIOUS
<1>2. 1 <= thought_buffer_size
  BY BufferAssumption
<1>3. /\ Mirrors(<< thought >>, {thought})
      /\ Mirrors(<< action >>, {action})
  BY DEF Mirrors, IsInjective, Range
<1> QED BY <1>1, <1>2, <1>3 DEF ThoughtBufferItem, Items, QueuesOf, ItemMirrors

-----------------------------------------------------------------------------
(* Type correctness and the sets.                                          *)

\* What a stored item does to the buffer.
LEMMA StoredFacts ==
    ASSUME NEW uid \in Uids, NEW item \in Items, Stored(uid, item), IsBuffer(buffer)
    PROVE  /\ IsBuffer(buffer)'
           /\ ItemMirrors(item) /\ ItemsMirror(buffer) => ItemsMirror(buffer)'
           /\ DOMAIN buffer' = DOMAIN buffer \cup {uid} /\ buffer'[uid] = item
           /\ \A u \in DOMAIN buffer : u # uid => buffer'[u] = buffer[u]
<1>1. /\ DOMAIN buffer' = DOMAIN buffer \cup {uid} /\ buffer'[uid] = item
      /\ \A u \in DOMAIN buffer' : u # uid => u \in DOMAIN buffer /\ buffer'[u] = buffer[u]
  BY DEF Stored
<1>2. IsBuffer(buffer)'
  BY <1>1 DEF IsBuffer, Stored
<1>3. ASSUME ItemMirrors(item), ItemsMirror(buffer) PROVE ItemsMirror(buffer)'
  BY <1>1, <1>3 DEF ItemsMirror, ItemMirrors
<1> QED BY <1>1, <1>2, <1>3

\* What each way of adding does to the buffer.
LEMMA AddFacts ==
    ASSUME TypeOK, NEW uid \in Uids, NEW thought \in Thoughts, NEW action \in Actions,
           \/ \E func \in Funcs : AddNewUid(uid, thought, action, func)
           \/ AddKnownUid(uid, thought, action)
           \/ AddFailsHalfway(uid, thought, action)
    PROVE  /\ IsBuffer(buffer)'
           /\ ItemsMirror(buffer) => ItemsMirror(buffer)'
<1>1. thought_buffer_size > 0 /\ IsBuffer(buffer)
  BY BufferAssumption
     DEF TypeOK, AddNewUid, AddKnownUid, AddFailsHalfway, Admitted
<1>2. ASSUME NEW func \in Funcs, AddNewUid(uid, thought, action, func)
      PROVE  IsBuffer(buffer)' /\ (ItemsMirror(buffer) => ItemsMirror(buffer)')
  BY <1>1, <1>2, FirstItemFacts, StoredFacts DEF AddNewUid
<1>3. ASSUME uid \in DOMAIN buffer
      PROVE  /\ buffer[uid] \in Items
             /\ ItemsMirror(buffer) => ItemMirrors(buffer[uid])
  BY <1>1, <1>3 DEF IsBuffer, ItemsMirror, ItemMirrors
<1>4. CASE AddKnownUid(uid, thought, action)
  <2> DEFINE i1 == WithThought(buffer[uid], thought)
             i2 == WithAction(i1, action)
  <2>1. /\ buffer[uid] \in Items /\ Stored(uid, i2)
        /\ ItemsMirror(buffer) => ItemMirrors(buffer[uid])
    BY <1>3, <1>4 DEF AddKnownUid, Extended
  <2>2. i1 \in Items /\ (ItemMirrors(buffer[uid]) => ItemMirrors(i1))
    BY <1>1, <2>1, ThoughtFacts
  <2> HIDE DEF i1
  <2>3. i2 \in Items /\ (ItemMirrors(i1) => ItemMirrors(i2))
    BY <1>1, <2>2, ActionFacts
  <2> HIDE DEF i2
  <2> QED BY <1>1, <2>1, <2>2, <2>3, StoredFacts
<1>5. CASE AddFailsHalfway(uid, thought, action)
  <2> DEFINE i1 == WithThought(buffer[uid], thought)
  <2>1. /\ buffer[uid] \in Items /\ Stored(uid, i1)
        /\ ItemsMirror(buffer) => ItemMirrors(buffer[uid])
    BY <1>3, <1>5 DEF AddFailsHalfway
  <2>2. i1 \in Items /\ (ItemMirrors(buffer[uid]) => ItemMirrors(i1))
    BY <1>1, <2>1, ThoughtFacts
  <2> HIDE DEF i1
  <2> QED BY <1>1, <2>1, <2>2, StoredFacts
<1> QED BY <1>2, <1>4, <1>5

\* Every variable keeps its type and no queue outgrows thought_buffer_size.
THEOREM TypeCorrect == Spec => []TypeOK
<1>1. Init => TypeOK
  <2>1. IsBuffer(EmptyBuffer)
    BY DEF IsBuffer, EmptyBuffer
  <2>2. /\ NoCounts \in [Uids -> 0 .. thought_buffer_size]
        /\ NothingFresh \in [Uids -> FreshEntries]
    BY BufferAssumption DEF NoCounts, NothingFresh, FreshEntries
  <2> QED BY <2>1, <2>2 DEF Init, TypeOK
<1>2. TypeOK /\ [Next]_vars => TypeOK'
  <2> SUFFICES ASSUME TypeOK, [Next]_vars PROVE TypeOK'
    OBVIOUS
  <2>1. CASE \/ StartBatch \/ EndBatch \/ Save \/ Restart \/ UNCHANGED vars
    <3>1. /\ NoCounts \in [Uids -> 0 .. thought_buffer_size]
          /\ NothingFresh \in [Uids -> FreshEntries]
      BY BufferAssumption DEF NoCounts, NothingFresh, FreshEntries
    <3>2. /\ uid2count' \in {uid2count, NoCounts} /\ fresh' \in {fresh, NothingFresh}
          /\ buffer' \in {buffer, saved} /\ saved' \in {buffer, saved}
          /\ batching' \in {batching, TRUE, FALSE}
      BY <2>1 DEF StartBatch, EndBatch, Save, Restart, vars
    <3>3. IsBuffer(buffer') /\ IsBuffer(saved')
      BY <3>2 DEF TypeOK
    <3> QED BY <3>1, <3>2, <3>3 DEF TypeOK
  <2>2. ASSUME NEW uid \in Uids, NEW thought \in Thoughts, NEW action \in Actions,
               \/ \E func \in Funcs : AddNewUid(uid, thought, action, func)
               \/ AddKnownUid(uid, thought, action)
               \/ AddFailsHalfway(uid, thought, action)
        PROVE  TypeOK'
    <3>1. IsBuffer(buffer)'
      BY <2>2, AddFacts
    <3>2. saved' = saved /\ batching' = batching
      BY <2>2 DEF AddNewUid, AddKnownUid, AddFailsHalfway
    <3>3. uid2count' \in [Uids -> 0 .. thought_buffer_size]
      BY <2>2, BufferAssumption
         DEF TypeOK, AddNewUid, AddKnownUid, AddFailsHalfway, Admitted, Counted
    <3>4. fresh' \in [Uids -> FreshEntries]
      BY <2>2 DEF TypeOK, FreshEntries, AddNewUid, AddKnownUid, AddFailsHalfway
    <3> QED BY <3>1, <3>2, <3>3, <3>4 DEF TypeOK, IsBuffer
  <2> QED BY <2>1, <2>2 DEF Next
<1> QED BY <1>1, <1>2, PTL DEF Spec

\* The lookup sets never drift from the queues they stand for, whatever is evicted
\* and wherever an add fails.
THEOREM SetsAreMirrors == Spec => []SetsMirrorQueues
<1>1. Init => SetsMirrorQueues
  BY DEF Init, SetsMirrorQueues, ItemsMirror, EmptyBuffer
<1>2. TypeOK /\ SetsMirrorQueues /\ [Next]_vars => SetsMirrorQueues'
  <2> SUFFICES ASSUME TypeOK, SetsMirrorQueues, [Next]_vars PROVE SetsMirrorQueues'
    OBVIOUS
  <2>1. CASE \/ StartBatch \/ EndBatch \/ Save \/ Restart \/ UNCHANGED vars
    BY <2>1
       DEF SetsMirrorQueues, ItemsMirror, StartBatch, EndBatch, Save, Restart, vars
  <2>2. ASSUME NEW uid \in Uids, NEW thought \in Thoughts, NEW action \in Actions,
               \/ \E func \in Funcs : AddNewUid(uid, thought, action, func)
               \/ AddKnownUid(uid, thought, action)
               \/ AddFailsHalfway(uid, thought, action)
        PROVE  SetsMirrorQueues'
    <3>1. saved' = saved
      BY <2>2 DEF AddNewUid, AddKnownUid, AddFailsHalfway
    <3>2. ItemsMirror(buffer)'
      BY <2>2, AddFacts DEF SetsMirrorQueues
    <3> QED BY <3>1, <3>2 DEF SetsMirrorQueues, ItemsMirror
  <2> QED BY <2>1, <2>2 DEF Next
<1> QED BY <1>1, <1>2, TypeCorrect, PTL DEF Spec

-----------------------------------------------------------------------------
(* What a batch adds stays.                                                *)

\* x is one of the last c entries of the queue.
Within(x, queue, c) == \E j \in 1 .. Len(queue) : j > Len(queue) - c /\ queue[j] = x

\* What the batch has added to a uid is found among as many last entries of its
\* queues as the batch has counted adds: this, and not BatchKeepsWhatItAdds alone,
\* is preserved by an add that evicts.
FreshIsRecent ==
    \A uid \in DOMAIN buffer :
        /\ ~fresh[uid].halfway =>
              \A x \in fresh[uid].thoughts :
                 Within(x, buffer[uid].response_thoughts, uid2count[uid])
        /\ \A x \in fresh[uid].actions :
              Within(x, buffer[uid].response_actions, uid2count[uid])

\* One more add moves the window along with the queue.
LEMMA WindowMoves ==
    ASSUME NEW S, NEW q \in QueuesOf(S), NEW x \in S,
           NEW c \in 0 .. thought_buffer_size - 1, thought_buffer_size > 0
    PROVE  /\ Within(x, Pushed(q, x), c + 1)
           /\ \A y : Within(y, q, c) => Within(y, Pushed(q, x), c + 1)
           /\ \A y : Within(y, q, c) => Within(y, q, c + 1)
<1> DEFINE n == Len(q)
           p == Pushed(q, x)
           m == Len(p)
           s == thought_buffer_size
<1>1. /\ p \in QueuesOf(S) /\ p[m] = x
      /\ n < s => m = n + 1 /\ \A j \in 1 .. n : p[j] = q[j]
      /\ n >= s => n = s /\ m = n /\ \A j \in 1 .. n - 1 : p[j] = q[j + 1]
  BY PushFacts
<1>2. /\ s \in Nat \ {0} /\ n \in Nat /\ m \in Nat /\ c \in 0 .. s - 1
      /\ m \in 1 .. s
  <2>1. s \in Nat \ {0} /\ n \in Nat /\ m \in Nat /\ n <= s
    BY BufferAssumption, LenProperties, <1>1 DEF QueuesOf
  <2> HIDE DEF n, m, s, p
  <2> QED BY <2>1, <1>1 DEF s
<1> HIDE DEF n, p, m, s
<1>3. Within(x, p, c + 1)
  BY <1>1, <1>2 DEF Within, m
<1>4. ASSUME NEW y, Within(y, q, c)
      PROVE  Within(y, p, c + 1) /\ Within(y, q, c + 1)
  <2>1. PICK j \in 1 .. n : j > n - c /\ q[j] = y
    BY <1>4 DEF Within, n
  <2>2. Within(y, q, c + 1)
    BY <2>1, <1>2 DEF Within, n
  <2>3. CASE n < s
    <3>1. j \in 1 .. m /\ j > m - (c + 1) /\ p[j] = y
      BY <2>1, <2>3, <1>1, <1>2
    <3> QED BY <3>1, <2>2 DEF Within, m
  <2>4. CASE n >= s
    <3>1. /\ j - 1 \in 1 .. n - 1 /\ j - 1 \in 1 .. m /\ j - 1 > m - (c + 1)
          /\ (j - 1) + 1 = j
      BY <2>1, <2>4, <1>1, <1>2
    <3>2. p[j - 1] = y
      BY <3>1, <2>1, <2>4, <1>1
    <3> QED BY <3>1, <3>2, <2>2 DEF Within, m
  <2> QED BY <2>3, <2>4, <1>2
<1> QED BY <1>3, <1>4 DEF p

\* Adding to a known uid keeps its fresh entries in the window.
LEMMA ExtendedWindows ==
    ASSUME NEW item \in Items, NEW thought \in Thoughts, NEW action \in Actions,
           NEW c \in 0 .. thought_buffer_size - 1, thought_buffer_size > 0,
           NEW x
    PROVE  LET item2 == Extended(item, thought, action) IN
           /\ \/ Within(x, item.response_thoughts, c)
              \/ x = thought /\ x \notin item.response_thoughts_set
              => Within(x, item2.response_thoughts, c + 1)
           /\ \/ Within(x, item.response_actions, c)
              \/ x = action /\ x \notin item.response_actions_set
              => Within(x, item2.response_actions, c + 1)
<1> DEFINE item2 == Extended(item, thought, action)
<1>1. /\ item.response_thoughts \in QueuesOf(Thoughts)
      /\ item.response_actions \in QueuesOf(Actions)
  BY DEF Items
<1>2. /\ item2.response_thoughts =
            IF thought \in item.response_thoughts_set THEN item.response_thoughts
            ELSE Pushed(item.response_thoughts, thought)
      /\ item2.response_actions =
            IF action \in item.response_actions_set THEN item.response_actions
            ELSE Pushed(item.response_actions, action)
  <2>1. /\ WithThought(item, thought) \in Items
        /\ WithThought(item, thought).response_actions = item.response_actions
        /\ WithThought(item, thought).response_actions_set = item.response_actions_set
        /\ WithThought(item, thought).response_thoughts =
              IF thought \in item.response_thoughts_set THEN item.response_thoughts
              ELSE Pushed(item.response_thoughts, thought)
    BY ThoughtFacts DEF WithThought, Items
  <2> QED BY <2>1 DEF Extended, WithAction, Items
<1> HIDE DEF item2
<1>3. /\ Within(thought, Pushed(item.response_thoughts, thought), c + 1)
      /\ Within(x, item.response_thoughts, c) =>
            /\ Within(x, Pushed(item.response_thoughts, thought), c + 1)
            /\ Within(x, item.response_thoughts, c + 1)
  BY <1>1, WindowMoves
<1>4. /\ Within(action, Pushed(item.response_actions, action), c + 1)
      /\ Within(x, item.response_actions, c) =>
            /\ Within(x, Pushed(item.response_actions, action), c + 1)
            /\ Within(x, item.response_actions, c + 1)
  BY <1>1, WindowMoves
<1>5. \/ Within(x, item.response_thoughts, c)
      \/ x = thought /\ x \notin item.response_thoughts_set
      => Within(x, item2.response_thoughts, c + 1)
  BY <1>2, <1>3
<1>6. \/ Within(x, item.response_actions, c)
      \/ x = action /\ x \notin item.response_actions_set
      => Within(x, item2.response_actions, c + 1)
  BY <1>2, <1>4
<1> QED BY <1>5, <1>6 DEF item2

LEMMA FreshStaysRecent ==
    TypeOK /\ FreshIsRecent /\ [Next]_vars => FreshIsRecent'
<1> SUFFICES ASSUME TypeOK, FreshIsRecent, [Next]_vars PROVE FreshIsRecent'
  OBVIOUS
<1>1. CASE StartBatch \/ Restart
  BY <1>1 DEF StartBatch, Restart, FreshIsRecent, NothingFresh, TypeOK, IsBuffer
<1>2. CASE UNCHANGED << buffer, uid2count, fresh >>
  BY <1>2 DEF FreshIsRecent
<1>3. ASSUME NEW uid \in Uids, NEW thought \in Thoughts, NEW action \in Actions,
             NEW func \in Funcs, AddNewUid(uid, thought, action, func)
      PROVE  FreshIsRecent'
  <2>1. /\ thought_buffer_size > 0 /\ IsBuffer(buffer)
        /\ uid2count[uid] + 1 \in Nat \ {0}
    BY <1>3, BufferAssumption DEF TypeOK, AddNewUid, Admitted
  <2> DEFINE item == ThoughtBufferItem(thought, action, func)
  <2>2. /\ DOMAIN buffer' = DOMAIN buffer \cup {uid} /\ buffer'[uid] = item
        /\ \A u \in DOMAIN buffer : u # uid => buffer'[u] = buffer[u]
    BY <1>3, <2>1, FirstItemFacts, StoredFacts DEF AddNewUid
  <2>3. /\ fresh'[uid].thoughts = {thought} /\ fresh'[uid].actions = {action}
        /\ uid2count'[uid] = uid2count[uid] + 1
        /\ \A u \in Uids : u # uid => /\ fresh'[u] = fresh[u]
                                      /\ uid2count'[u] = uid2count[u]
    BY <1>3 DEF AddNewUid, Counted, TypeOK, FreshEntries
  <2>4. /\ Within(thought, << thought >>, uid2count[uid] + 1)
        /\ Within(action, << action >>, uid2count[uid] + 1)
    <3>1. ASSUME NEW k \in Nat \ {0} PROVE 1 \in 1 .. 1 /\ 1 > 1 - k
      OBVIOUS
    <3>2. /\ Len(<< thought >>) = 1 /\ << thought >>[1] = thought
          /\ Len(<< action >>) = 1 /\ << action >>[1] = action
      OBVIOUS
    <3> QED BY <2>1, <3>1, <3>2 DEF Within
  <2>5. item.response_thoughts = << thought >> /\ item.response_actions = << action >>
    BY DEF ThoughtBufferItem
  <2> HIDE DEF item
  <2> QED BY <2>1, <2>2, <2>3, <2>4, <2>5 DEF FreshIsRecent, IsBuffer
<1>4. ASSUME NEW uid \in Uids, NEW thought \in Thoughts, NEW action \in Actions,
             AddKnownUid(uid, thought, action)
      PROVE  FreshIsRecent'
  <2> DEFINE c == uid2count[uid]
             item == buffer[uid]
             item2 == Extended(item, thought, action)
  <2>1. /\ thought_buffer_size > 0 /\ IsBuffer(buffer) /\ uid \in DOMAIN buffer
        /\ c \in 0 .. thought_buffer_size - 1 /\ item \in Items
    BY <1>4, BufferAssumption DEF TypeOK, AddKnownUid, Admitted, IsBuffer
  <2>2. item2 \in Items
    <3> HIDE DEF item
    <3>1. WithThought(item, thought) \in Items
      BY <2>1, ThoughtFacts
    <3> QED BY <2>1, <3>1, ActionFacts DEF Extended
  <2>3. /\ DOMAIN buffer' = DOMAIN buffer /\ buffer'[uid] = item2
        /\ \A u \in DOMAIN buffer : u # uid => buffer'[u] = buffer[u]
    BY <1>4, <2>1, <2>2, StoredFacts DEF AddKnownUid
  <2>4. /\ fresh'[uid].thoughts =
              fresh[uid].thoughts \cup ({thought} \ item.response_thoughts_set)
        /\ fresh'[uid].actions =
              fresh[uid].actions \cup ({action} \ item.response_actions_set)
        /\ fresh'[uid].halfway = fresh[uid].halfway
        /\ uid2count'[uid] = c + 1
        /\ \A u \in Uids : u # uid => /\ fresh'[u] = fresh[u]
                                      /\ uid2count'[u] = uid2count[u]
    BY <1>4 DEF AddKnownUid, Counted, TypeOK, FreshEntries
  <2>5. ASSUME NEW x
        PROVE  /\ x \in fresh'[uid].thoughts /\ ~fresh'[uid].halfway =>
                     Within(x, item2.response_thoughts, c + 1)
               /\ x \in fresh'[uid].actions =>
                     Within(x, item2.response_actions, c + 1)
    <3>1. /\ x \in fresh[uid].thoughts /\ ~fresh[uid].halfway =>
                Within(x, item.response_thoughts, c)
          /\ x \in fresh[uid].actions => Within(x, item.response_actions, c)
      BY <2>1 DEF FreshIsRecent
    <3> QED BY <2>1, <2>4, <3>1, ExtendedWindows
  <2> HIDE DEF item2, item, c
  <2> QED BY <2>1, <2>3, <2>4, <2>5 DEF FreshIsRecent, IsBuffer
<1>5. ASSUME NEW uid \in Uids, NEW thought \in Thoughts, NEW action \in Actions,
             AddFailsHalfway(uid, thought, action)
      PROVE  FreshIsRecent'
  <2> DEFINE item == buffer[uid]
             item2 == WithThought(item, thought)
  <2>1. /\ thought_buffer_size > 0 /\ IsBuffer(buffer) /\ uid \in DOMAIN buffer
        /\ item \in Items
    BY <1>5, BufferAssumption DEF TypeOK, AddFailsHalfway, Admitted, IsBuffer
  <2>2. item2 \in Items /\ item2.response_actions = item.response_actions
    <3>1. item2 \in Items
      BY <2>1, ThoughtFacts
    <3> QED BY <2>1, <3>1 DEF WithThought, Items
  <2>3. /\ DOMAIN buffer' = DOMAIN buffer /\ buffer'[uid] = item2
        /\ \A u \in DOMAIN buffer : u # uid => buffer'[u] = buffer[u]
    BY <1>5, <2>1, <2>2, StoredFacts DEF AddFailsHalfway
  <2>4. /\ fresh'[uid].halfway /\ fresh'[uid].actions = fresh[uid].actions
        /\ uid2count' = uid2count
        /\ \A u \in Uids : u # uid => fresh'[u] = fresh[u]
    BY <1>5 DEF AddFailsHalfway, TypeOK, FreshEntries
  <2> HIDE DEF item2
  <2> QED BY <2>1, <2>2, <2>3, <2>4 DEF FreshIsRecent, IsBuffer
<1> QED BY <1>1, <1>2, <1>3, <1>4, <1>5 DEF Next, EndBatch, Save, vars

\* A batch never evicts what it has itself added, short of adds that fail halfway:
\* its cap of thought_buffer_size adds per uid is just small enough.
THEOREM BatchKeeps == Spec => []BatchKeepsWhatItAdds
<1>1. Init => FreshIsRecent
  BY DEF Init, FreshIsRecent, EmptyBuffer
<1>2. TypeOK /\ SetsMirrorQueues /\ FreshIsRecent => BatchKeepsWhatItAdds
  <2> SUFFICES ASSUME SetsMirrorQueues, FreshIsRecent, TypeOK, NEW uid \in DOMAIN buffer
               PROVE  /\ fresh[uid].actions \subseteq buffer[uid].response_actions_set
                      /\ \/ fresh[uid].halfway
                         \/ fresh[uid].thoughts \subseteq
                               buffer[uid].response_thoughts_set
    BY DEF BatchKeepsWhatItAdds
  <2>1. /\ buffer[uid].response_thoughts \in Seq(Thoughts)
        /\ buffer[uid].response_actions \in Seq(Actions)
    BY DEF TypeOK, IsBuffer, Items, QueuesOf
  <2>2. /\ DOMAIN buffer[uid].response_thoughts = 1 .. Len(buffer[uid].response_thoughts)
        /\ DOMAIN buffer[uid].response_actions = 1 .. Len(buffer[uid].response_actions)
    BY <2>1, LenProperties
  <2> QED BY <2>2 DEF FreshIsRecent, Within, SetsMirrorQueues, ItemsMirror, Mirrors, Range
<1> QED BY <1>1, <1>2, FreshStaysRecent, TypeCorrect, SetsAreMirrors, PTL DEF Spec

=============================================================================
