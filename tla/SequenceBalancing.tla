-------------------------- MODULE SequenceBalancing --------------------------
(***************************************************************************)
(* The partitions of verl/utils/seqlen_balancing.py: the differencing      *)
(* method of Karmarkar and Karp, which divides items into k sets of nearly *)
(* the same workload, with as many items in each if equal_size.            *)
(*                                                                         *)
(* An item is a number, its workload a value of the function w.  Where     *)
(* Python breaks a tie by comparing the lists of items any choice is as    *)
(* good: nothing below relies on one.                                      *)
(*                                                                         *)
(* A definition called a variant is a wrong version of the one after it.   *)
(***************************************************************************)
EXTENDS Integers, Sequences, FiniteSets, SequencesExt

calculate_workload(seqlen) == 24576 * seqlen + seqlen * seqlen

ceildiv(a, b) == (a + b - 1) \div b

SumOf(w, list) ==
    LET upTo[i \in 0 .. Len(list)] == IF i = 0 THEN 0 ELSE upTo[i - 1] + w[list[i]]
    IN  upTo[Len(list)]

\* The elements of S as a list, in the strict order whose pairs are those of order.
InOrder(S, order) ==
    [i \in 1 .. Cardinality(S) |->
        CHOOSE x \in S : Cardinality({y \in S : << y, x >> \in order}) = i - 1]

Sorted(items) == InOrder(items, {p \in items \X items : p[1] < p[2]})

Ascending(w, items) ==
    InOrder(items, {p \in items \X items :
                        \/ w[p[1]] < w[p[2]]
                        \/ w[p[1]] = w[p[2]] /\ p[1] < p[2]})

\* A list sorted in reverse by two keys of its positions: equals stay in their order.
Descending(list, key, key2) ==
    LET positions == InOrder(DOMAIN list, {p \in (DOMAIN list) \X (DOMAIN list) :
                        \/ key[p[1]] > key[p[2]]
                        \/ key[p[1]] = key[p[2]] /\ key2[p[1]] > key2[p[2]]
                        \/ key[p[1]] = key[p[2]] /\ key2[p[1]] = key2[p[2]] /\ p[1] < p[2]})
    IN  [i \in DOMAIN list |-> list[positions[i]]]

-----------------------------------------------------------------------------
(* Set: a set of items with its sum.                                       *)

NoItems == [sum |-> 0, items |-> {}]

Single(w, item) == [sum |-> w[item], items |-> {item}]

Union(a, b) == [sum |-> a.sum + b.sum, items |-> a.items \cup b.items]

\* Set.__lt__ the other way round.
Heavier(a, b) ==
    \/ a.sum > b.sum
    \/ a.sum = b.sum /\ Cardinality(a.items) > Cardinality(b.items)

-----------------------------------------------------------------------------
(* State: a sequence of k sets, always in decreasing order.                *)

Decreasing(sets) ==
    Descending(sets, [i \in DOMAIN sets |-> sets[i].sum],
                     [i \in DOMAIN sets |-> Cardinality(sets[i].items)])

spread(state) == state[1].sum - state[Len(state)].sum

\* State.__lt__: the state with the largest spread is popped first.
Before(a, b) ==
    \/ spread(a) > spread(b)
    \/ spread(a) = spread(b) /\ Heavier(a[1], b[1])

\* Variant: the heaviest set is given the heaviest.
MergeLikeOnLike(a, b) == Decreasing([i \in 1 .. Len(a) |-> Union(a[i], b[i])])

\* The heaviest set is given the lightest of the other state.
Merge(a, b) == Decreasing([i \in 1 .. Len(a) |-> Union(a[i], b[Len(a) + 1 - i])])

Popped(states_pq) ==
    CHOOSE s \in states_pq : \A other \in states_pq : ~Before(other, s)

FirstTwo(states_pq) ==
    LET state0 == Popped(states_pq) IN << state0, Popped(states_pq \ {state0}) >>

MergeTwo(states_pq) ==
    UNION { (states_pq \ {two[1], two[2]}) \cup {Merge(two[1], two[2])} :
                two \in {FirstTwo(states_pq)} }

\* The states to begin with: the items one by one, each with k - 1 empty sets, or the
\* sorted items k by k.
InitialStates(w, items, k, equal_size) ==
    IF equal_size
    THEN LET sorted == Ascending(w, items) IN
         { [i \in 1 .. k |-> Single(w, sorted[k * offset + 1 - i])] :
                offset \in 1 .. Cardinality(items) \div k }
    ELSE { [i \in 1 .. k |-> IF i = 1 THEN Single(w, item) ELSE NoItems] : item \in items }

\* The state that is left after popping two and pushing their merge until there is one, as
\* the only element of a set: TLC evaluates an element once and a definition at each use.
karmarkar_karp(w, items, k, equal_size) ==
    LET initial == InitialStates(w, items, k, equal_size)
        merges == Cardinality(initial) - 1
        after[i \in 0 .. merges] ==
            IF i = 0 THEN {initial} ELSE {MergeTwo(states_pq) : states_pq \in after[i - 1]}
    IN  UNION after[merges]

\* get_seqlen_balanced_partitions: the items of each set as a sorted list.
BalancedPartitions(w, items, k, equal_size) ==
    CHOOSE partitions \in { [i \in 1 .. k |-> Sorted(state[i].items)] :
                                state \in karmarkar_karp(w, items, k, equal_size) } : TRUE

-----------------------------------------------------------------------------
(* What is made of the partitions: s[::2] is EveryOther(s, 1).             *)

EveryOther(s, from) == [i \in 1 .. (Len(s) - from) \div 2 + 1 |-> s[from + 2 * (i - 1)]]

\* The heaviest micro-batch comes in the middle.
LightAtBothEnds(partitions) ==
    Reverse(EveryOther(partitions, 1)) \o EveryOther(partitions, 2)

\* A rank's rows, sorted by their workload: the light ones at both ends.
OrderedPartition(w, partition) ==
    LET sorted == Ascending(w, ToSet(partition))
    IN  EveryOther(sorted, 1) \o Reverse(EveryOther(sorted, 2))

\* Variant: the lists are not inverted.
NotRestored(data, batch_idx_list) ==
    LET indices == FlattenSeq(batch_idx_list)
    IN  [i \in DOMAIN data |-> data[indices[i]]]

\* restore_dynamic_batch: data[i] belongs at indices[i].
Restored(data, batch_idx_list) ==
    LET indices == FlattenSeq(batch_idx_list)
        reverse_idx == [i \in DOMAIN data |-> CHOOSE j \in DOMAIN indices : indices[j] = i]
    IN  [i \in DOMAIN data |-> data[reverse_idx[i]]]
=============================================================================
