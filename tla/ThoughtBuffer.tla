---------------------------- MODULE ThoughtBuffer ----------------------------
(***************************************************************************)
(* The thought buffer of the dynamic history                               *)
(* (verl/ui_mopd/dataset/thought_buffer.py).                               *)
(*                                                                         *)
(* After every rollout the trainer passes the scored batch to add_batch,   *)
(* which keeps, for each prompt (uid), the thoughts and the actions of its *)
(* latest fully correct responses: two bounded queues, each mirrored by a  *)
(* set for quick lookups.  The buffer is part of the dataloader's state in *)
(* data.pt.                                                                *)
(*                                                                         *)
(* One turn of add_batch's loop is a step.  A response whose score is not  *)
(* 1.0, or that lacks a thought, an action, a func or a parsable answer,   *)
(* leaves everything as it is: a stuttering step.  A correct response      *)
(* without any <think> tag raises out of add_batch and ends the process:   *)
(* Restart.  The action is whatever JSON value the answer holds, so it may *)
(* be a list or a dict, which Python cannot put into a set.                *)
(*                                                                         *)
(* A definition called a variant is a wrong version of the one after it:   *)
(* it shows which property would notice the fault.                         *)
(***************************************************************************)
EXTENDS Integers, Sequences, FiniteSets, Functions

CONSTANTS
    Uids,
    Thoughts,
    Actions,
    Unhashable,           \* the actions that are JSON lists or dicts
    Funcs,
    thought_buffer_size

ASSUME BufferAssumption ==
    /\ thought_buffer_size \in Nat
    /\ Unhashable \subseteq Actions

VARIABLES
    buffer,      \* the items by uid: a function on the uids recorded so far
    uid2count,   \* local of add_batch: the adds of this batch, 0 if absent
    batching,    \* add_batch is in its loop
    fresh,       \* history: what this batch has appended to each uid's queues, and
                 \* whether one of its adds has failed halfway
    saved        \* data.pt: the buffer of the last save

vars == << buffer, uid2count, batching, fresh, saved >>

NothingFresh == [uid \in Uids |-> [thoughts |-> {}, actions |-> {}, halfway |-> FALSE]]
NoCounts == [uid \in Uids |-> 0]
EmptyBuffer == [uid \in {} |-> {}]

Init ==
    /\ buffer = EmptyBuffer
    /\ uid2count = NoCounts
    /\ batching = FALSE
    /\ fresh = NothingFresh
    /\ saved = EmptyBuffer

-----------------------------------------------------------------------------

contains(uid, thought, action) ==
    /\ uid \in DOMAIN buffer
    /\ thought \in buffer[uid].response_thoughts_set
    /\ action \in buffer[uid].response_actions_set

\* add of a uid that is not in the buffer
ThoughtBufferItem(thought, action, func) ==
    [response_thoughts     |-> << thought >>,
     response_thoughts_set |-> {thought},
     response_actions      |-> << action >>,
     response_actions_set  |-> {action},
     func                  |-> func]

\* Variant: the comparison is off by one.
PushedOverSize(queue, x) ==
    IF Len(queue) <= thought_buffer_size THEN Append(queue, x)
    ELSE Append(Tail(queue), x)

\* list.append, after list.pop(0) when the queue is full
Pushed(queue, x) ==
    IF Len(queue) < thought_buffer_size THEN Append(queue, x)
    ELSE Append(Tail(queue), x)

\* Variant: the evicted entry is not discarded from the set.
NotedWithoutDiscard(queue, set, x) == set \cup {x}

\* The set's side of the same update.
Noted(queue, set, x) ==
    IF Len(queue) < thought_buffer_size THEN set \cup {x}
    ELSE (set \ {Head(queue)}) \cup {x}

WithThought(item, thought) ==
    IF thought \in item.response_thoughts_set THEN item
    ELSE [item EXCEPT
            !.response_thoughts = Pushed(@, thought),
            !.response_thoughts_set = Noted(item.response_thoughts, @, thought)]

WithAction(item, action) ==
    IF action \in item.response_actions_set THEN item
    ELSE [item EXCEPT
            !.response_actions = Pushed(@, action),
            !.response_actions_set = Noted(item.response_actions, @, action)]

\* add of a uid that is in the buffer
Extended(item, thought, action) == WithAction(WithThought(item, thought), action)

Stored(uid, item) ==
    buffer' = [u \in DOMAIN buffer \cup {uid} |->
                  IF u = uid THEN item ELSE buffer[u]]

-----------------------------------------------------------------------------

StartBatch ==
    /\ ~batching
    /\ batching' = TRUE
    /\ uid2count' = NoCounts
    /\ fresh' = NothingFresh
    /\ UNCHANGED << buffer, saved >>

\* Variant: one add too many per batch.
AdmittedOnceMore(uid, thought, action) ==
    /\ batching
    /\ uid2count[uid] <= thought_buffer_size
    /\ ~contains(uid, thought, action)

\* The conditions under which the loop goes on to add.
Admitted(uid, thought, action) ==
    /\ batching
    /\ uid2count[uid] < thought_buffer_size
    /\ ~contains(uid, thought, action)

Counted(uid) == uid2count' = [uid2count EXCEPT ![uid] = @ + 1]

AddNewUid(uid, thought, action, func) ==
    /\ Admitted(uid, thought, action)
    /\ action \notin Unhashable
    /\ uid \notin DOMAIN buffer
    /\ Stored(uid, ThoughtBufferItem(thought, action, func))
    /\ Counted(uid)
    /\ fresh' = [fresh EXCEPT ![uid].thoughts = {thought}, ![uid].actions = {action}]
    /\ UNCHANGED << batching, saved >>

AddKnownUid(uid, thought, action) ==
    /\ Admitted(uid, thought, action)
    /\ action \notin Unhashable
    /\ uid \in DOMAIN buffer
    /\ LET item == buffer[uid] IN
       /\ Stored(uid, Extended(item, thought, action))
       /\ fresh' = [fresh EXCEPT
             ![uid].thoughts = @ \cup ({thought} \ item.response_thoughts_set),
             ![uid].actions = @ \cup ({action} \ item.response_actions_set)]
    /\ Counted(uid)
    /\ UNCHANGED << batching, saved >>

\* The lookup of an unhashable action raises a TypeError, which add_batch
\* catches.  When the thought is new the two lookups before it are skipped, so
\* the error comes after the thought has been queued and before the add is
\* counted.  In every other case nothing has changed yet.
AddFailsHalfway(uid, thought, action) ==
    /\ Admitted(uid, thought, action)
    /\ action \in Unhashable
    /\ uid \in DOMAIN buffer
    /\ thought \notin buffer[uid].response_thoughts_set
    /\ Stored(uid, WithThought(buffer[uid], thought))
    /\ fresh' = [fresh EXCEPT ![uid].thoughts = @ \cup {thought}, ![uid].halfway = TRUE]
    /\ UNCHANGED << uid2count, batching, saved >>

EndBatch ==
    /\ batching
    /\ batching' = FALSE
    /\ UNCHANGED << buffer, uid2count, fresh, saved >>

\* The dataloader's state dict, with this buffer in it, goes to data.pt.
Save ==
    /\ ~batching
    /\ saved' = buffer
    /\ UNCHANGED << buffer, uid2count, batching, fresh >>

\* The process ends at any point; the next one loads data.pt.
Restart ==
    /\ buffer' = saved
    /\ batching' = FALSE
    /\ uid2count' = NoCounts
    /\ fresh' = NothingFresh
    /\ UNCHANGED saved

Next ==
    \/ StartBatch
    \/ \E uid \in Uids, thought \in Thoughts, action \in Actions :
          \/ \E func \in Funcs : AddNewUid(uid, thought, action, func)
          \/ AddKnownUid(uid, thought, action)
          \/ AddFailsHalfway(uid, thought, action)
    \/ EndBatch
    \/ Save
    \/ Restart

Spec == Init /\ [][Next]_vars

-----------------------------------------------------------------------------

QueuesOf(S) == {q \in Seq(S) : Len(q) <= thought_buffer_size}

Items ==
    [response_thoughts     : QueuesOf(Thoughts),
     response_thoughts_set : SUBSET Thoughts,
     response_actions      : QueuesOf(Actions),
     response_actions_set  : SUBSET Actions,
     func                  : Funcs]

\* A buffer holds an item for some of the uids.
IsBuffer(b) == DOMAIN b \subseteq Uids /\ b \in [DOMAIN b -> Items]

FreshEntries ==
    [thoughts : SUBSET Thoughts, actions : SUBSET Actions, halfway : BOOLEAN]

\* Every variable has its type; the queues never outgrow thought_buffer_size, also
\* where that is 0 and add, called directly, would store a first entry.
TypeOK ==
    /\ IsBuffer(buffer)
    /\ IsBuffer(saved)
    /\ uid2count \in [Uids -> 0 .. thought_buffer_size]
    /\ batching \in BOOLEAN
    /\ fresh \in [Uids -> FreshEntries]

Mirrors(queue, set) == IsInjective(queue) /\ set = Range(queue)

ItemsMirror(b) ==
    \A uid \in DOMAIN b :
        /\ Mirrors(b[uid].response_thoughts, b[uid].response_thoughts_set)
        /\ Mirrors(b[uid].response_actions, b[uid].response_actions_set)

\* Each set holds exactly the entries of its queue and no queue holds an entry
\* twice, although queue and set are updated one after the other, entries are
\* evicted, and an add may fail between its two halves.
SetsMirrorQueues == ItemsMirror(buffer) /\ ItemsMirror(saved)

\* The cap on the adds of one batch and the size of the queues fit each other: no
\* action that a batch has recorded is evicted by the same batch, and no thought
\* either, unless an add of that uid has failed halfway.  (Such an add queues a
\* thought without being counted; enough of them evict what the batch has added.)
BatchKeepsWhatItAdds ==
    \A uid \in DOMAIN buffer :
        /\ fresh[uid].actions \subseteq buffer[uid].response_actions_set
        /\ \/ fresh[uid].halfway
           \/ fresh[uid].thoughts \subseteq buffer[uid].response_thoughts_set

=============================================================================
