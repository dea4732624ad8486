-------------------------- MODULE MicroBatchesProofs --------------------------
(***************************************************************************)
(* Theorems about MicroBatches, for any number of ranks and rows, any      *)
(* lengths and any limits.                                                 *)
(***************************************************************************)
EXTENDS MicroBatches, SequenceBalancingProofs

(* Greatest and smallest elements.                                         *)

LEMMA MaxOf ==
    ASSUME NEW S, S \subseteq Int, IsFiniteSet(S), S # {}
    PROVE  Max(S) \in S /\ \A y \in S : y <= Max(S)
<1>1. PICK R : R = {p \in S \X S : p[1] <= p[2]}
  OBVIOUS
<1>2. \A x, y \in S : << x, y >> \in R <=> x <= y
  BY <1>1
<1>3. Compares(S, R)
  <2>1. \A x \in S : x \in Int
    OBVIOUS
  <2>2. ASSUME NEW x \in S, NEW y \in S PROVE << x, y >> \in R \/ << y, x >> \in R
    <3>1. x <= y \/ y <= x
      BY <2>1
    <3> QED BY <1>2, <3>1
  <2>3. \A x, y, z \in S : << x, y >> \in R /\ << y, z >> \in R => << x, z >> \in R
    BY <1>2, <2>1
  <2> QED BY <2>2, <2>3 DEF Compares
<1>4. PICK x \in S : \A y \in S : << y, x >> \in R
  BY <1>3, Greatest
<1>5. \A y \in S : x >= y
  BY <1>2, <1>4
<1>6. Max(S) \in S /\ \A y \in S : Max(S) >= y
  BY <1>5 DEF Max
<1> QED BY <1>6

LEMMA MinOf ==
    ASSUME NEW S, S \subseteq Int, IsFiniteSet(S), S # {}
    PROVE  Min(S) \in S /\ \A y \in S : Min(S) <= y
<1>1. PICK R : R = {p \in S \X S : p[1] >= p[2]}
  OBVIOUS
<1>2. \A x, y \in S : << x, y >> \in R <=> x >= y
  BY <1>1
<1>3. Compares(S, R)
  <2>1. \A x \in S : x \in Int
    OBVIOUS
  <2>2. ASSUME NEW x \in S, NEW y \in S PROVE << x, y >> \in R \/ << y, x >> \in R
    <3>1. x >= y \/ y >= x
      BY <2>1
    <3> QED BY <1>2, <3>1
  <2>3. \A x, y, z \in S : << x, y >> \in R /\ << y, z >> \in R => << x, z >> \in R
    BY <1>2, <2>1
  <2> QED BY <2>2, <2>3 DEF Compares
<1>4. PICK x \in S : \A y \in S : << y, x >> \in R
  BY <1>3, Greatest
<1>5. \A y \in S : x =< y
  BY <1>2, <1>4
<1>6. Min(S) \in S /\ \A y \in S : Min(S) =< y
  BY <1>5 DEF Min
<1> QED BY <1>6

\* The values of a function on a finite set.
LEMMA ValuesFinite ==
    ASSUME NEW S, IsFiniteSet(S), NEW f
    PROVE  IsFiniteSet({f[x] : x \in S})
<1>1. PICK T, g : T = {f[x] : x \in S} /\ g = [x \in S |-> f[x]]
  OBVIOUS
<1>2. g \in Surjection(S, T)
  BY <1>1 DEF Surjection
<1> QED BY <1>1, <1>2, FS_Surjection
-----------------------------------------------------------------------------
(* Sums of lists.                                                          *)

LEMMA SumOfNaturals ==
    ASSUME NEW m \in Nat, NEW w, NEW list, Len(list) = m, \A i \in 1 .. m : w[list[i]] \in Nat
    PROVE  SumOf(w, list) \in Nat
<1>1. PICK f : PartialSums(f, w, list, m) /\ SumOf(w, list) = f[m]
  BY SumSteps
<1>2. m \in 0 .. m
  OBVIOUS
<1> QED BY <1>1, <1>2 DEF PartialSums

LEMMA SumIsPositive ==
    ASSUME NEW m \in Nat \ {0}, NEW w, NEW list, Len(list) = m,
           \A i \in 1 .. m : w[list[i]] \in Nat \ {0}
    PROVE  SumOf(w, list) \in Nat \ {0}
<1>1. \A i \in 1 .. m : w[list[i]] \in Nat
  OBVIOUS
<1>2. PICK f : PartialSums(f, w, list, m) /\ SumOf(w, list) = f[m]
  BY <1>1, SumSteps
<1>3. PICK T : T = {i \in 0 .. m : i = 0 \/ f[i] # 0}
  OBVIOUS
<1>4. 0 \in T
  BY <1>3
<1>5. ASSUME NEW i \in 0 .. m - 1, i \in T PROVE i + 1 \in T
  <2>1. PICK k : k = i + 1
    OBVIOUS
  <2>2. k \in 1 .. m /\ k \in 0 .. m /\ k - 1 = i /\ i \in 0 .. m
    BY <2>1
  <2>3. f[k] = f[i] + w[list[k]] /\ f[i] \in Nat /\ w[list[k]] \in Nat \ {0}
    BY <1>2, <2>2 DEF PartialSums
  <2> QED BY <1>3, <2>1, <2>2, <2>3
<1>6. \A i \in 0 .. m - 1 : i \in T => i + 1 \in T
  BY <1>5
<1>7. \A i \in 0 .. m : i \in T
  BY <1>4, <1>6, Reaches
<1>8. m \in 0 .. m /\ m # 0
  OBVIOUS
<1>9. f[m] # 0 /\ f[m] \in Nat
  BY <1>2, <1>3, <1>7, <1>8 DEF PartialSums
<1> QED BY <1>2, <1>9
-----------------------------------------------------------------------------
(* The rows of a rank.                                                     *)

\* Two lists of the same elements, each of them once.
SameRows(s, t, S) ==
    /\ s \in Seq(S) /\ t \in Seq(S) /\ Len(s) = Len(t)
    /\ \A i \in 1 .. Len(t) : \E j \in 1 .. Len(t) : s[i] = t[j]
    /\ \A j \in 1 .. Len(t) : \E i \in 1 .. Len(t) : s[i] = t[j]
    /\ \A i, j \in 1 .. Len(t) : s[i] = s[j] => i = j

LEMMA OrderedRows ==
    ASSUME NEW m \in Nat, NEW w, Weights(w, m), NEW n \in Nat \ {0},
           NEW list \in Seq(1 .. m), Len(list) = n,
           \A i, j \in 1 .. n : list[i] = list[j] => i = j
    PROVE  /\ SameRows(OrderedPartition(w, list), list, 1 .. m)
           /\ SumOf(w, OrderedPartition(w, list)) = SumOf(w, list)
<1>1. PICK items : items = ToSet(list)
  OBVIOUS
<1>2. list \in [1 .. n -> 1 .. m] /\ DOMAIN list = 1 .. n
  BY LenProperties
<1>3. Enumerates(list, n, items) /\ items \subseteq 1 .. m
  BY <1>1, <1>2 DEF ToSet, Enumerates
<1>4. IsFiniteSet(items) /\ Cardinality(items) = n
  BY <1>3, EnumeratedCount
<1>5. PICK sorted : sorted = Ascending(w, items)
  OBVIOUS
<1>6. Enumerates(sorted, n, items)
  <2>1. items \subseteq Int /\ \A x \in items : w[x] \in Int
    BY <1>3 DEF Weights
  <2>2. Enumerates(sorted, Cardinality(items), items)
    BY <1>4, <1>5, <2>1, AscendingLists
  <2> QED BY <1>4, <2>2
<1>7. sorted \in [1 .. n -> items]
  BY <1>6 DEF Enumerates
<1>8. sorted \in Seq(items) /\ Len(sorted) = n
  BY <1>7, ListOf
<1>9. PICK p : /\ Enumerates(p, n, 1 .. n)
               /\ EveryOther(sorted, 1) \o Reverse(EveryOther(sorted, 2)) = [i \in 1 .. n |-> sorted[p[i]]]
  BY <1>8, RankRowsPermute
<1>10. PICK s : s = [i \in 1 .. n |-> sorted[p[i]]]
  OBVIOUS
<1>11. s = OrderedPartition(w, list)
  BY <1>1, <1>5, <1>9, <1>10 DEF OrderedPartition
<1>12. \A i \in 1 .. n : p[i] \in 1 .. n /\ s[i] = sorted[p[i]] /\ s[i] \in items
  BY <1>7, <1>9, <1>10 DEF Enumerates
<1>13. Enumerates(s, n, items)
  <2>1. s \in [1 .. n -> items]
    BY <1>10, <1>12
  <2>2. ASSUME NEW i \in 1 .. n, NEW j \in 1 .. n, s[i] = s[j] PROVE i = j
    <3>1. p[i] = p[j]
      BY <1>6, <1>12, <2>2 DEF Enumerates
    <3> QED BY <1>9, <3>1 DEF Enumerates
  <2>3. ASSUME NEW x \in items PROVE \E i \in 1 .. n : s[i] = x
    <3>1. PICK j \in 1 .. n : sorted[j] = x
      BY <1>6 DEF Enumerates
    <3>2. PICK i \in 1 .. n : p[i] = j
      BY <1>9 DEF Enumerates
    <3> QED BY <1>12, <3>1, <3>2
  <2> QED BY <2>1, <2>2, <2>3 DEF Enumerates
<1>14. s \in Seq(1 .. m) /\ Len(s) = n
  <2>1. s \in [1 .. n -> 1 .. m]
    BY <1>3, <1>13 DEF Enumerates
  <2> QED BY <2>1, ListOf
<1>15. \A i \in 1 .. n : \E j \in 1 .. n : s[i] = list[j]
  BY <1>3, <1>12 DEF Enumerates
<1>18. \A j \in 1 .. n : \E i \in 1 .. n : s[i] = list[j]
  BY <1>3, <1>13 DEF Enumerates
<1>16. SameRows(s, list, 1 .. m)
  BY <1>13, <1>14, <1>15, <1>18 DEF SameRows, Enumerates
<1>17. SumOf(w, s) = SumOf(w, list)
  <2>1. SumOf(w, s) = SumOver(w, items, m)
    BY <1>3, <1>13, SumOfList
  <2>2. SumOf(w, list) = SumOver(w, items, m)
    BY <1>3, SumOfList
  <2> QED BY <2>1, <2>2
<1> QED BY <1>11, <1>16, <1>17
-----------------------------------------------------------------------------
(* The micro-batches of a batch.                                           *)

LEMMA HeaviestFirstPermutes ==
    ASSUME NEW k \in Nat, NEW m \in Nat, NEW w, Weights(w, m), NEW P,
           IsPartition(P, k, m), NoneEmpty(P, k)
    PROVE  \E p : Enumerates(p, k, 1 .. k) /\ HeaviestFirst(w, P) = [i \in 1 .. k |-> P[p[i]]]
<1>1. DOMAIN P = 1 .. k /\ \A i \in 1 .. k : P[i] \in Seq(1 .. m) /\ P[i] # << >>
  BY DEF IsPartition, NoneEmpty
<1>2. PICK key, key2 : /\ key = [i \in DOMAIN P |-> SumOf(w, P[i])]
                       /\ key2 = [i \in DOMAIN P |-> IF P[i] = << >> THEN 1 ELSE P[i][1]]
  OBVIOUS
<1>3. ASSUME NEW i \in 1 .. k PROVE key[i] \in Int /\ key2[i] \in Int
  <2>1. PICK list, n : list = P[i] /\ n = Len(list)
    OBVIOUS
  <2>2. list \in Seq(1 .. m) /\ list # << >>
    BY <1>1, <2>1
  <2>3. n \in Nat \ {0}
    BY <2>1, <2>2, EmptySeq
  <2>4. \A j \in 1 .. n : list[j] \in 1 .. m
    BY <2>1, <2>2, ElementOfSeq
  <2>5. \A j \in 1 .. n : w[list[j]] \in Nat
    BY <2>4 DEF Weights
  <2>6. SumOf(w, list) \in Nat
    BY <2>1, <2>3, <2>5, SumOfNaturals
  <2>7. list[1] \in Int
    BY <2>3, <2>4
  <2> QED BY <1>1, <1>2, <2>1, <2>6, <2>7
<1>4. \E p : /\ Enumerates(p, k, 1 .. k)
             /\ Descending(P, key, key2) = [i \in 1 .. k |-> P[p[i]]]
             /\ \A i, j \in 1 .. k : i < j => key[p[i]] >= key[p[j]]
  <2>1. DOMAIN P = 1 .. k
    BY <1>1
  <2>2. IntKeys(key, key2, k)
    BY <1>3 DEF IntKeys
  <2>3. PICK p : Descends(p, k, P, key, key2)
    BY <2>1, <2>2, DescendingLists
  <2> QED BY <2>3 DEF Descends
<1>5. HeaviestFirst(w, P) = Descending(P, key, key2)
  BY <1>2, Zenon DEF HeaviestFirst
<1> QED BY <1>4, <1>5

\* The micro-batches of a batch of m rows with the workloads w.
Cut(w, m, num) == LightAtBothEnds(HeaviestFirst(w, BalancedPartitions(w, 1 .. m, num, FALSE)))

LEMMA CutIsBalanced ==
    ASSUME NEW m \in Nat \ {0}, NEW num \in 1 .. m, NEW w, Positive(w, m), NEW B \in Int,
           \A x \in 1 .. m : w[x] <= B, NEW lists, lists = Cut(w, m, num)
    PROVE  IsPartition(lists, num, m) /\ IsBalanced(lists, num, w, B) /\ NoneEmpty(lists, num)
<1>1. num \in Nat \ {0} /\ num \in Nat /\ num <= m
  OBVIOUS
<1>2. PICK P, equal_size, R : /\ P = BalancedPartitions(w, 1 .. m, num, FALSE)
                              /\ equal_size = FALSE /\ R = 0
  OBVIOUS
<1>3. Bounds(B, w, m, equal_size)
  BY <1>2 DEF Bounds
<1>4. /\ equal_size \in BOOLEAN /\ ~ equal_size
      /\ P = BalancedPartitions(w, 1 .. m, num, equal_size)
      /\ R \in Nat /\ (equal_size => (R # 0 /\ m = num * R))
  BY <1>2
<1>5. IsPartition(P, num, m) /\ IsBalanced(P, num, w, B) /\ (~ equal_size /\ num <= m => NoneEmpty(P, num))
  BY <1>1, <1>3, <1>4, PartitionsAreBalanced
<1>6. NoneEmpty(P, num)
  BY <1>1, <1>4, <1>5
<1>7. Weights(w, m)
  BY DEF Positive, Weights
<1>8. PICK p : Enumerates(p, num, 1 .. num) /\ HeaviestFirst(w, P) = [i \in 1 .. num |-> P[p[i]]]
  BY <1>1, <1>5, <1>6, <1>7, HeaviestFirstPermutes
<1>9. PICK Q : Q = HeaviestFirst(w, P)
  OBVIOUS
<1>10. IsPartition(Q, num, m) /\ IsBalanced(Q, num, w, B) /\ NoneEmpty(Q, num)
  BY <1>1, <1>5, <1>6, <1>8, <1>9, Permuted
<1>11. Q \in Seq(Seq(1 .. m)) /\ Len(Q) = num
  <2>1. Q \in [1 .. num -> Seq(1 .. m)]
    BY <1>10 DEF IsPartition
  <2> QED BY <1>1, <2>1, ListOf
<1>12. PICK q : /\ Enumerates(q, num, 1 .. num)
                /\ LightAtBothEnds(Q) = [i \in 1 .. num |-> Q[q[i]]]
  <2>1. PICK S : S = Seq(1 .. m)
    OBVIOUS
  <2>2. Q \in Seq(S) /\ Len(Q) = num
    BY <1>11, <2>1
  <2> QED BY <1>1, <2>2, EndsPermute
<1>13. lists = LightAtBothEnds(Q)
  BY <1>2, <1>9 DEF Cut
<1> QED BY <1>1, <1>10, <1>12, <1>13, Permuted

\* What is left of a batch from the micro-batch with the number nxt on.
Rest(lists, nxt, batch) == [i \in 1 .. Len(lists) + 1 - nxt |-> MapOf(batch, lists[nxt + i - 1])]

\* What is computed and what is left is the whole batch, in the order of the micro-batches.
Progress(batch, lists, nxt, out, S) ==
    /\ nxt \in 1 .. Len(lists) + 1
    /\ out \in Seq(S)
    /\ out \o FlattenSeq(Rest(lists, nxt, batch)) = MapOf(batch, FlattenSeq(lists))

\* The positions that the micro-batches hold are positions of the batch.
Cuts(lists, n, m, batch, S) ==
    /\ lists \in Seq(Seq(1 .. m)) /\ Len(lists) = n
    /\ Maps(batch, 1 .. m, S)

IsRest(rest, n, nxt, lists, batch, S) ==
    /\ rest \in Seq(Seq(S)) /\ Len(rest) = n + 1 - nxt
    /\ \A i \in 1 .. n + 1 - nxt : rest[i] = MapOf(batch, lists[nxt + i - 1])

LEMMA RestType ==
    ASSUME NEW n \in Nat, NEW m \in Nat, NEW S, NEW batch, NEW lists, Cuts(lists, n, m, batch, S),
           NEW nxt \in 1 .. n + 1
    PROVE  IsRest(Rest(lists, nxt, batch), n, nxt, lists, batch, S)
<1>1. PICK l, rest : l = n + 1 - nxt /\ rest = Rest(lists, nxt, batch)
  OBVIOUS
<1>2. l \in Nat /\ \A i \in 1 .. l : nxt + i - 1 \in 1 .. n
  BY <1>1
<1>3. rest = [i \in 1 .. l |-> MapOf(batch, lists[nxt + i - 1])]
  BY <1>1 DEF Rest, Cuts
<1>4. ASSUME NEW j \in 1 .. n PROVE MapOf(batch, lists[j]) \in Seq(S)
  <2>1. PICK list : list = lists[j]
    OBVIOUS
  <2>2. list \in Seq(1 .. m)
    BY <2>1, ElementOfSeq DEF Cuts
  <2>3. IsMapped(MapOf(batch, list), batch, list, S)
    BY <2>2, MapType DEF Cuts
  <2> QED BY <2>1, <2>3 DEF IsMapped
<1>5. rest \in [1 .. l -> Seq(S)]
  BY <1>2, <1>3, <1>4
<1>6. PICK T : T = Seq(S)
  OBVIOUS
<1>7. rest \in Seq(T) /\ Len(rest) = l
  BY <1>2, <1>5, <1>6, ListOf
<1> QED BY <1>1, <1>3, <1>6, <1>7 DEF IsRest

LEMMA ProgressBegins ==
    ASSUME NEW n \in Nat, NEW m \in Nat, NEW S, NEW batch, NEW lists, Cuts(lists, n, m, batch, S)
    PROVE  Progress(batch, lists, 1, << >>, S)
<1>1. PICK one, none, rest : one = 1 /\ none = << >> /\ rest = Rest(lists, one, batch)
  OBVIOUS
<1>2. one \in 1 .. n + 1 /\ n + 1 - one = n /\ \A i \in 1 .. n : one + i - 1 = i
  BY <1>1
<1>3. /\ rest \in Seq(Seq(S)) /\ Len(rest) = n
      /\ \A i \in 1 .. n : rest[i] = MapOf(batch, lists[i])
  <2>1. IsRest(rest, n, one, lists, batch, S)
    BY <1>1, <1>2, RestType
  <2> QED BY <1>2, <2>1 DEF IsRest
<1>4. FlattenSeq(rest) = MapOf(batch, FlattenSeq(lists))
  <2>1. PICK D : D = 1 .. m
    OBVIOUS
  <2>2. lists \in Seq(Seq(D)) /\ Len(lists) = n /\ Maps(batch, D, S)
    BY <2>1 DEF Cuts
  <2> QED BY <1>3, <2>2, FlattenMapped
<1>5. FlattenSeq(rest) \in Seq(S)
  BY <1>3, FlattenType
<1>6. none \o FlattenSeq(rest) = FlattenSeq(rest) /\ none \in Seq(S)
  BY <1>1, <1>5, ConcatEmptySeq, EmptySeq
<1>7. one \in 1 .. Len(lists) + 1
  BY <1>2 DEF Cuts
<1>8. Progress(batch, lists, one, none, S)
  BY <1>1, <1>4, <1>6, <1>7 DEF Progress
<1> QED BY <1>1, <1>8

LEMMA ProgressGoesOn ==
    ASSUME NEW n \in Nat, NEW m \in Nat, NEW S, NEW batch, NEW lists, Cuts(lists, n, m, batch, S),
           NEW nxt \in 1 .. n, NEW out, Progress(batch, lists, nxt, out, S)
    PROVE  Progress(batch, lists, nxt + 1, out \o MapOf(batch, lists[nxt]), S)
<1>1. PICK nxt1, l : nxt1 = nxt + 1 /\ l = n - nxt
  OBVIOUS
<1>2. /\ nxt \in 1 .. n + 1 /\ nxt1 \in 1 .. n + 1
      /\ l \in Nat /\ n + 1 - nxt = l + 1 /\ n + 1 - nxt1 = l
  BY <1>1
<1>3. PICK rest, rest1, x : /\ rest = Rest(lists, nxt, batch)
                            /\ rest1 = Rest(lists, nxt1, batch)
                            /\ x = MapOf(batch, lists[nxt])
  OBVIOUS
<1>4. /\ rest \in Seq(Seq(S)) /\ Len(rest) = l + 1
      /\ \A i \in 1 .. l + 1 : rest[i] = MapOf(batch, lists[nxt + i - 1])
  <2>1. IsRest(rest, n, nxt, lists, batch, S)
    BY <1>2, <1>3, RestType
  <2> QED BY <1>2, <2>1 DEF IsRest
<1>5. /\ rest1 \in Seq(Seq(S)) /\ Len(rest1) = l
      /\ \A i \in 1 .. l : rest1[i] = MapOf(batch, lists[nxt1 + i - 1])
  <2>1. IsRest(rest1, n, nxt1, lists, batch, S)
    BY <1>2, <1>3, RestType
  <2> QED BY <1>2, <2>1 DEF IsRest
<1>6. ASSUME NEW i \in 1 .. l PROVE rest[i + 1] = rest1[i]
  <2>1. PICK j : j = i + 1
    OBVIOUS
  <2>2. j \in 1 .. l + 1 /\ nxt + j - 1 = nxt1 + i - 1
    BY <1>1, <1>2, <2>1
  <2>3. rest[j] = MapOf(batch, lists[nxt + j - 1])
    BY <1>4, <2>2
  <2> QED BY <1>5, <2>1, <2>2, <2>3
<1>7. rest[1] = x
  <2>1. PICK one : one = 1
    OBVIOUS
  <2>2. one \in 1 .. l + 1 /\ nxt + one - 1 = nxt
    BY <1>2, <2>1
  <2>3. rest[one] = MapOf(batch, lists[nxt + one - 1])
    BY <1>4, <2>2
  <2> QED BY <1>3, <2>1, <2>2, <2>3
<1>8. PICK flat, flat1 : flat = FlattenSeq(rest) /\ flat1 = FlattenSeq(rest1)
  OBVIOUS
<1>9. flat = x \o flat1
  <2>1. FlattenSeq(rest) = rest[1] \o FlattenSeq(rest1)
    BY <1>2, <1>4, <1>5, <1>6, FlattenFirst
  <2> QED BY <1>7, <1>8, <2>1
<1>10. out \in Seq(S) /\ x \in Seq(S) /\ flat1 \in Seq(S)
  <2>1. out \in Seq(S)
    BY DEF Progress
  <2>2. rest[1] \in Seq(S)
    <3>1. PICK one, T : one = 1 /\ T = Seq(S)
      OBVIOUS
    <3>2. one \in 1 .. Len(rest) /\ rest \in Seq(T)
      BY <1>2, <1>4, <3>1
    <3>3. rest[one] \in T
      BY <3>2, ElementOfSeq
    <3> QED BY <3>1, <3>3
  <2>3. flat1 \in Seq(S)
    BY <1>5, <1>8, FlattenType
  <2> QED BY <1>7, <2>1, <2>2, <2>3
<1>11. out \o flat = MapOf(batch, FlattenSeq(lists))
  BY <1>3, <1>8 DEF Progress
<1>12. Associates(out, x, flat1)
  BY <1>10, Associative
<1>13. (out \o x) \o flat1 = MapOf(batch, FlattenSeq(lists))
  BY <1>9, <1>11, <1>12, Zenon DEF Associates
<1>14. out \o x \in Seq(S)
  BY <1>10, Join
<1>15. PICK out1 : out1 = out \o x
  OBVIOUS
<1>16. nxt1 \in 1 .. Len(lists) + 1
  BY <1>2 DEF Cuts
<1>17. out1 \in Seq(S)
  BY <1>14, <1>15, Zenon
<1>18. out1 \o FlattenSeq(Rest(lists, nxt1, batch)) = MapOf(batch, FlattenSeq(lists))
  BY <1>3, <1>8, <1>13, <1>15, Zenon
<1>19. Progress(batch, lists, nxt1, out1, S)
  BY <1>16, <1>17, <1>18 DEF Progress
<1> QED BY <1>1, <1>3, <1>15, <1>19, Zenon

LEMMA ProgressEnds ==
    ASSUME NEW n \in Nat, NEW m \in Nat, NEW S, NEW batch, NEW lists, Cuts(lists, n, m, batch, S),
           NEW out, Progress(batch, lists, n + 1, out, S)
    PROVE  /\ out = MapOf(batch, FlattenSeq(lists))
           /\ Rest(lists, n + 1, batch) = << >>
<1>1. PICK nxt, rest : nxt = n + 1 /\ rest = Rest(lists, nxt, batch)
  OBVIOUS
<1>2. nxt \in 1 .. n + 1 /\ n + 1 - nxt = 0
  BY <1>1
<1>3. rest \in Seq(Seq(S)) /\ Len(rest) = 0
  <2>1. IsRest(rest, n, nxt, lists, batch, S)
    BY <1>1, <1>2, RestType
  <2> QED BY <1>2, <2>1 DEF IsRest
<1>4. rest = << >>
  BY <1>3, EmptySeq
<1>5. FlattenSeq(rest) = << >>
  <2>1. FlattenSeq(rest) = rest
    BY <1>3 DEF FlattenSeq
  <2> QED BY <1>4, <2>1
<1>6. out \in Seq(S) /\ out \o FlattenSeq(rest) = MapOf(batch, FlattenSeq(lists))
  BY <1>1 DEF Progress
<1>7. out \o << >> = out
  BY <1>6, ConcatEmptySeq
<1> QED BY <1>1, <1>4, <1>5, <1>6, <1>7

\* The micro-batches of a batch with the number num of them, and what they weigh.
IsSplit(batch, num, lists, v, B) ==
    /\ num \in 1 .. Len(batch)
    /\ IsPartition(lists, num, Len(batch))
    /\ NoneEmpty(lists, num)
    /\ \A i, j \in 1 .. num :
          SumOf(v, MapOf(batch, lists[i])) - SumOf(v, MapOf(batch, lists[j])) <= B

LEMMA SplitIsBalanced ==
    ASSUME NEW S, NEW v, \A x \in S : v[x] \in Nat \ {0},
           NEW m \in Nat \ {0}, NEW batch \in Seq(S), Len(batch) = m, NEW num \in 1 .. m,
           NEW B \in Int, \A i \in 1 .. m : v[batch[i]] <= B,
           NEW w, w = [i \in 1 .. m |-> v[batch[i]]], NEW lists, lists = Cut(w, m, num)
    PROVE  IsSplit(batch, num, lists, v, B)
<1>1. \A i \in 1 .. m : batch[i] \in S
  BY ElementOfSeq
<1>2. Positive(w, m) /\ \A x \in 1 .. m : w[x] <= B
  BY <1>1 DEF Positive
<1>3. IsPartition(lists, num, m) /\ IsBalanced(lists, num, w, B) /\ NoneEmpty(lists, num)
  BY <1>2, CutIsBalanced
<1>4. ASSUME NEW i \in 1 .. num PROVE SumOf(v, MapOf(batch, lists[i])) = SumOf(w, lists[i])
  <2>1. PICK list, n, mapped : list = lists[i] /\ n = Len(list) /\ mapped = MapOf(batch, list)
    OBVIOUS
  <2>2. list \in Seq(1 .. m)
    BY <1>3, <2>1 DEF IsPartition
  <2>3. n \in Nat /\ \A j \in 1 .. n : list[j] \in 1 .. m
    BY <2>1, <2>2, LenProperties, ElementOfSeq
  <2>4. IsMapped(mapped, batch, list, S)
    <3>1. PICK D : D = 1 .. m
      OBVIOUS
    <3>2. Maps(batch, D, S) /\ list \in Seq(D)
      BY <1>1, <2>2, <3>1 DEF Maps
    <3> QED BY <2>1, <3>2, MapType
  <2>5. Len(mapped) = n /\ \A j \in 1 .. n : mapped[j] = batch[list[j]]
    BY <2>1, <2>4 DEF IsMapped
  <2>6. SameWeights(v, mapped, w, list, n)
    <3>1. \A j \in 1 .. n : v[batch[list[j]]] \in Nat /\ w[list[j]] = v[batch[list[j]]]
      BY <1>1, <2>3
    <3> QED BY <2>5, <3>1 DEF SameWeights
  <2>7. SumOf(v, mapped) = SumOf(w, list)
    BY <2>1, <2>3, <2>5, <2>6, SumSame
  <2> QED BY <2>1, <2>7
<1> QED BY <1>3, <1>4 DEF IsSplit, IsBalanced

LEMMA SplitCuts ==
    ASSUME NEW S, NEW batch \in Seq(S), NEW num, NEW lists, NEW v, NEW B,
           IsSplit(batch, num, lists, v, B)
    PROVE  /\ num \in Nat \ {0} /\ Len(batch) \in Nat
           /\ Cuts(lists, num, Len(batch), batch, S)
           /\ FlattenSeq(lists) \in Seq(1 .. Len(batch))
           /\ Enumerates(FlattenSeq(lists), Len(batch), 1 .. Len(batch))
<1>1. PICK m : m = Len(batch)
  OBVIOUS
<1>2. m \in Nat /\ num \in Nat \ {0} /\ num \in Nat
  BY <1>1, LenProperties DEF IsSplit
<1>3. IsPartition(lists, num, m)
  BY <1>1 DEF IsSplit
<1>4. PICK T : T = Seq(1 .. m)
  OBVIOUS
<1>5. lists \in [1 .. num -> T]
  BY <1>3, <1>4 DEF IsPartition
<1>6. lists \in Seq(T) /\ Len(lists) = num
  BY <1>2, <1>5, ListOf
<1>7. Maps(batch, 1 .. m, S)
  BY <1>1, ElementOfSeq DEF Maps
<1>8. Cuts(lists, num, m, batch, S)
  BY <1>4, <1>6, <1>7 DEF Cuts
<1>9. FlattenSeq(lists) \in Seq(1 .. m) /\ Enumerates(FlattenSeq(lists), m, 1 .. m)
  BY <1>2, <1>3, FlattenPartition
<1> QED BY <1>1, <1>2, <1>8, <1>9
-----------------------------------------------------------------------------
(* Mini-batches.                                                           *)

LEMMA Ceiling ==
    ASSUME NEW a \in Nat \ {0}, NEW b \in Nat \ {0}, NEW n, n = ceildiv(a, b)
    PROVE  n \in Nat \ {0} /\ a <= n * b /\ n * b < a + b
<1>1. PICK c : c = a + b - 1
  OBVIOUS
<1>2. c \in Nat /\ c >= b /\ n = c \div b
  BY <1>1 DEF ceildiv
<1>3. n \in Nat /\ n * b <= c /\ c < n * b + b
  BY <1>2
<1>4. PICK p : p = n * b
  OBVIOUS
<1>5. p \in Nat
  BY <1>3, <1>4
<1>6. n # 0
  <2> SUFFICES ASSUME n = 0 PROVE FALSE
    OBVIOUS
  <2>1. n * b = 0
    OBVIOUS
  <2> QED BY <1>2, <1>3, <2>1
<1> QED BY <1>1, <1>3, <1>4, <1>5, <1>6

\* The length of the i-th mini-batch of a batch of m rows.
MiniBatchLen(m, i) ==
    (IF i * ppo_mini_batch_size < m THEN i * ppo_mini_batch_size ELSE m)
        - (i - 1) * ppo_mini_batch_size

LEMMA MiniBatchesOf ==
    ASSUME MicroBatchesAssumption, NEW S, NEW m \in Nat \ {0}, NEW batch \in Seq(S), Len(batch) = m
    PROVE  /\ MiniBatches(batch) \in Seq(Seq(S))
           /\ Len(MiniBatches(batch)) = ceildiv(m, ppo_mini_batch_size)
           /\ \A i \in 1 .. ceildiv(m, ppo_mini_batch_size) :
                 /\ Len(MiniBatches(batch)[i]) = MiniBatchLen(m, i)
                 /\ MiniBatchLen(m, i) \in 1 .. m
<1>1. PICK p, n : p = ppo_mini_batch_size /\ n = ceildiv(m, p)
  OBVIOUS
<1>2. p \in Nat \ {0}
  BY <1>1 DEF MicroBatchesAssumption
<1>3. n \in Nat \ {0} /\ m <= n * p /\ n * p < m + p
  BY <1>1, <1>2, Ceiling
<1>4. PICK mb, from, to : /\ mb = MiniBatches(batch)
                          /\ from = [i \in 1 .. n |-> (i - 1) * p + 1]
                          /\ to = [i \in 1 .. n |-> IF i * p < m THEN i * p ELSE m]
  OBVIOUS
<1>5. mb = [i \in 1 .. n |-> SubSeq(batch, from[i], to[i])]
  BY <1>1, <1>4 DEF MiniBatches
<1>6. ASSUME NEW i \in 1 .. n
      PROVE  /\ from[i] \in 1 .. m /\ to[i] \in from[i] .. m
             /\ to[i] - from[i] + 1 = MiniBatchLen(m, i)
             /\ MiniBatchLen(m, i) \in 1 .. m
  <2>1. PICK a, b, c : a = (i - 1) * p /\ b = i * p /\ c = n * p
    OBVIOUS
  <2>2. i - 1 \in Nat /\ a \in Nat /\ b \in Nat /\ c \in Nat /\ b = a + p
    BY <1>2, <1>3, <2>1
  <2>3. b <= c
    <3>1. i \in Nat /\ n \in Nat /\ p \in Nat /\ i <= n
      BY <1>2, <1>3
    <3> QED BY <2>1, <3>1, TimesMonotonic
  <2>4. a < m
    BY <1>2, <1>3, <2>1, <2>2, <2>3
  <2>5. from[i] = a + 1 /\ to[i] = IF b < m THEN b ELSE m
    BY <1>4, <2>1
  <2>6. MiniBatchLen(m, i) = (IF b < m THEN b ELSE m) - a
    BY <1>1, <2>1 DEF MiniBatchLen
  <2>7. CASE b < m
    BY <1>2, <2>2, <2>4, <2>5, <2>6, <2>7
  <2>8. CASE ~ (b < m)
    BY <1>2, <2>2, <2>4, <2>5, <2>6, <2>8
  <2> QED BY <2>7, <2>8
<1>7. ASSUME NEW i \in 1 .. n
      PROVE  mb[i] \in Seq(S) /\ Len(mb[i]) = MiniBatchLen(m, i)
  <2>1. PICK a, b : a = from[i] /\ b = to[i]
    OBVIOUS
  <2>2. a \in Int /\ b \in Int /\ a <= b /\ \A j \in a .. b : batch[j] \in S
    <3>1. \A j \in 1 .. m : batch[j] \in S
      BY ElementOfSeq
    <3> QED BY <1>6, <2>1, <3>1
  <2>3. SubSeq(batch, a, b) \in Seq(S) /\ Len(SubSeq(batch, a, b)) = b - a + 1
    BY <2>2, SubSeqProperties
  <2> QED BY <1>5, <1>6, <2>1, <2>3
<1>8. PICK T : T = Seq(S)
  OBVIOUS
<1>9. mb \in [1 .. n -> T]
  BY <1>5, <1>7, <1>8
<1>10. mb \in Seq(T) /\ Len(mb) = n
  BY <1>3, <1>9, ListOf
<1> QED BY <1>1, <1>4, <1>6, <1>7, <1>8, <1>10
-----------------------------------------------------------------------------
(* The ranks and their rows.                                               *)

NumRanks == Cardinality(Ranks)

LEMMA RankNumbers ==
    ASSUME MicroBatchesAssumption
    PROVE  /\ NumRanks \in Nat \ {0} /\ RowsPerRank \in Nat \ {0}
           /\ NumRanks * RowsPerRank \in Nat \ {0}
           /\ Rows = 1 .. NumRanks * RowsPerRank
           /\ IsFiniteSet(Rows) /\ Rows # {}
<1>1. NumRanks \in Nat
  BY FS_CardinalityType DEF MicroBatchesAssumption, NumRanks
<1>2. NumRanks # 0
  BY FS_EmptySet DEF MicroBatchesAssumption, NumRanks
<1>3. RowsPerRank \in Nat \ {0}
  BY DEF MicroBatchesAssumption
<1>4. NumRanks * RowsPerRank \in Nat \ {0}
  BY <1>1, <1>2, <1>3
<1>5. Rows = 1 .. NumRanks * RowsPerRank
  BY DEF Rows, NumRanks
<1>6. PICK m : m = NumRanks * RowsPerRank
  OBVIOUS
<1>7. IsFiniteSet(1 .. m) /\ 1 \in 1 .. m
  BY <1>4, <1>6, CountUp
<1> QED BY <1>1, <1>2, <1>3, <1>4, <1>5, <1>6, <1>7

LEMMA RankList ==
    ASSUME MicroBatchesAssumption
    PROVE  Enumerates(RankSeq, NumRanks, Ranks) /\ Len(RankSeq) = NumRanks
<1>1. PICK k : k = Cardinality(Ranks)
  OBVIOUS
<1>2. PICK list : Enumerates(list, k, Ranks) /\ k \in Nat
  BY <1>1, Enumerable DEF MicroBatchesAssumption
<1>3. list \in [1 .. k -> Ranks] /\ IsInjective(list)
  BY <1>2 DEF Enumerates, IsInjective
<1>4. RankSeq \in [1 .. k -> Ranks] /\ IsInjective(RankSeq)
  BY <1>1, <1>3 DEF RankSeq, SetToSeq
<1>5. RankSeq \in Injection(1 .. k, Ranks)
  BY <1>4 DEF Injection
<1>6. RankSeq \in Surjection(1 .. k, Ranks)
  BY <1>1, <1>2, <1>5, CountUp, FS_Injection DEF MicroBatchesAssumption
<1>7. Enumerates(RankSeq, k, Ranks)
  BY <1>4, <1>6 DEF Enumerates, IsInjective, Surjection
<1>8. Len(RankSeq) = k
  BY <1>2, <1>4, ListOf
<1> QED BY <1>1, <1>7, <1>8 DEF NumRanks

\* Every row goes to one rank, and the work of the ranks differs by B at most.
IsDealt(dealt, w, B) ==
    /\ dealt \in [Ranks -> Seq(Rows)]
    /\ \A r \in Ranks : Len(dealt[r]) = RowsPerRank
    /\ \A r1, r2 \in Ranks : \A i, j \in 1 .. RowsPerRank :
          dealt[r1][i] = dealt[r2][j] => r1 = r2 /\ i = j
    /\ \A row \in Rows : \E r \in Ranks : \E i \in 1 .. RowsPerRank : dealt[r][i] = row
    /\ \A r1, r2 \in Ranks : SumOf(w, dealt[r1]) - SumOf(w, dealt[r2]) <= B

\* The rows of a rank are those of its list.
IsRankList(rows1, list, R, m, w) ==
    /\ SameRows(rows1, list, 1 .. m) /\ Len(list) = R
    /\ SumOf(w, rows1) = SumOf(w, list)

\* The entries of k lists of R entries each are different.
Entries(P, k, R) ==
    \A i, j \in 1 .. k : \A a, b \in 1 .. R : P[i][a] = P[j][b] => i = j /\ a = b

\* The lists of the ranks, each with the rows of the rank at its place.
Lists(P, k, m, R, w, B) ==
    IsPartition(P, k, m) /\ IsBalanced(P, k, w, B) /\ AllLong(P, k, R)

Places(place, k) ==
    place \in [Ranks -> 1 .. k] /\ \A r \in Ranks : RankSeq[place[r]] = r

Deals(dealt, P, place, w) ==
    /\ \E h : dealt = [r \in Ranks |-> h[r]]
    /\ \A r \in Ranks : dealt[r] = OrderedPartition(w, P[place[r]])

LEMMA DealtRows ==
    ASSUME MicroBatchesAssumption, NEW w, NEW B \in Int,
           NEW k, k = NumRanks, NEW R, R = RowsPerRank, NEW m, m = k * R, Weights(w, m),
           NEW P, Lists(P, k, m, R, w, B), NEW place, Places(place, k),
           NEW dealt, Deals(dealt, P, place, w)
    PROVE  IsDealt(dealt, w, B)
<1>2. k \in Nat \ {0} /\ R \in Nat \ {0} /\ m \in Nat \ {0} /\ Rows = 1 .. m
  BY RankNumbers
<1>3. Enumerates(RankSeq, k, Ranks) /\ Len(RankSeq) = k
  BY RankList
<1>6. /\ IsPartition(P, k, m) /\ IsBalanced(P, k, w, B)
      /\ \A i \in 1 .. k : Len(P[i]) = R
  BY DEF Lists, AllLong
<1>8. \A r \in Ranks : place[r] \in 1 .. k /\ RankSeq[place[r]] = r
  BY DEF Places
<1>9. \A r \in Ranks : dealt[r] = OrderedPartition(w, P[place[r]])
  BY DEF Deals
<1>15. /\ \A i \in 1 .. k : P[i] \in Seq(1 .. m) /\ Len(P[i]) = R /\ DOMAIN P[i] = 1 .. R
       /\ Entries(P, k, R)
       /\ \A x \in 1 .. m : \E i \in 1 .. k : \E a \in 1 .. R : P[i][a] = x
  <2>1. ASSUME NEW i \in 1 .. k PROVE P[i] \in Seq(1 .. m) /\ Len(P[i]) = R /\ DOMAIN P[i] = 1 .. R
    <3>1. PICK list : list = P[i]
      OBVIOUS
    <3>2. list \in Seq(1 .. m) /\ Len(list) = R
      BY <1>6, <3>1 DEF IsPartition
    <3> QED BY <3>1, <3>2, LenProperties
  <2>2. \A i, j \in 1 .. k : \A a \in DOMAIN P[i], b \in DOMAIN P[j] :
           P[i][a] = P[j][b] => i = j /\ a = b
    BY <1>6 DEF IsPartition
  <2>3. ASSUME NEW i \in 1 .. k, NEW j \in 1 .. k, NEW a \in 1 .. R, NEW b \in 1 .. R,
               P[i][a] = P[j][b]
        PROVE  i = j /\ a = b
    <3>1. DOMAIN P[i] = 1 .. R /\ DOMAIN P[j] = 1 .. R
      BY <2>1, Zenon
    <3>2. a \in DOMAIN P[i] /\ b \in DOMAIN P[j]
      BY <3>1, Zenon
    <3>3. \A a2 \in DOMAIN P[i], b2 \in DOMAIN P[j] : P[i][a2] = P[j][b2] => i = j /\ a2 = b2
      BY <2>2, Zenon
    <3> QED BY <2>3, <3>2, <3>3, Zenon
  <2>6. Entries(P, k, R)
    BY <2>3, Zenon DEF Entries
  <2>4. \A x \in 1 .. m : \E i \in 1 .. k : \E a \in DOMAIN P[i] : P[i][a] = x
    BY <1>6 DEF IsPartition
  <2>5. \A x \in 1 .. m : \E i \in 1 .. k : \E a \in 1 .. R : P[i][a] = x
    BY <2>1, <2>4
  <2> QED BY <2>1, <2>5, <2>6
<1>10. ASSUME NEW r \in Ranks
       PROVE  IsRankList(dealt[r], P[place[r]], R, m, w)
  <2>1. PICK i, list, rows1 : i = place[r] /\ list = P[i] /\ rows1 = dealt[r]
    OBVIOUS
  <2>2. i \in 1 .. k /\ list \in Seq(1 .. m) /\ Len(list) = R
    BY <1>8, <1>15, <2>1
  <2>3. Entries(P, k, R)
    BY <1>15
  <2>4. ASSUME NEW a \in 1 .. R, NEW b \in 1 .. R, list[a] = list[b] PROVE a = b
    <3>1. P[i][a] = P[i][b] /\ i \in 1 .. k
      BY <2>1, <2>2, <2>4
    <3> QED BY <2>3, <3>1 DEF Entries
  <2>5. rows1 = OrderedPartition(w, list)
    BY <1>9, <2>1
  <2>7. \A a, b \in 1 .. R : list[a] = list[b] => a = b
    BY <2>4
  <2>8. m \in Nat /\ list \in Seq(1 .. m) /\ Len(list) = R
    BY <1>2, <2>2
  <2>6. SameRows(rows1, list, 1 .. m) /\ SumOf(w, rows1) = SumOf(w, list)
    BY <1>2, <2>5, <2>7, <2>8, OrderedRows
  <2> QED BY <2>1, <2>2, <2>6 DEF IsRankList
<1>16. ASSUME NEW r \in Ranks
       PROVE  /\ dealt[r] \in Seq(1 .. m) /\ Len(dealt[r]) = R
              /\ \A i \in 1 .. R : \E j \in 1 .. R : dealt[r][i] = P[place[r]][j]
              /\ \A j \in 1 .. R : \E i \in 1 .. R : dealt[r][i] = P[place[r]][j]
              /\ \A i, j \in 1 .. R : dealt[r][i] = dealt[r][j] => i = j
              /\ SumOf(w, dealt[r]) = SumOf(w, P[place[r]])
  <2>1. PICK list, rows1 : list = P[place[r]] /\ rows1 = dealt[r]
    OBVIOUS
  <2>2. IsRankList(rows1, list, R, m, w)
    BY <1>10, <2>1
  <2>3. /\ rows1 \in Seq(1 .. m) /\ Len(rows1) = R
        /\ \A i \in 1 .. R : \E j \in 1 .. R : rows1[i] = list[j]
        /\ \A j \in 1 .. R : \E i \in 1 .. R : rows1[i] = list[j]
        /\ \A i, j \in 1 .. R : rows1[i] = rows1[j] => i = j
        /\ SumOf(w, rows1) = SumOf(w, list)
    BY <2>2 DEF IsRankList, SameRows
  <2> QED BY <2>1, <2>3, Zenon
<1>11. dealt \in [Ranks -> Seq(Rows)] /\ \A r \in Ranks : Len(dealt[r]) = R
  <2>1. \A r \in Ranks : dealt[r] \in Seq(Rows) /\ Len(dealt[r]) = R
    BY <1>2, <1>16
  <2> QED BY <2>1 DEF Deals
<1>12. ASSUME NEW r1 \in Ranks, NEW r2 \in Ranks, NEW i \in 1 .. R, NEW j \in 1 .. R,
              dealt[r1][i] = dealt[r2][j]
       PROVE  r1 = r2 /\ i = j
  <2>3. ASSUME NEW r \in Ranks
        PROVE  \A i1 \in 1 .. R : \E i2 \in 1 .. R : dealt[r][i1] = P[place[r]][i2]
    BY <1>16, Zenon
  <2>1. PICK i2 \in 1 .. R : dealt[r1][i] = P[place[r1]][i2]
    BY <2>3, Zenon
  <2>2. PICK j2 \in 1 .. R : dealt[r2][j] = P[place[r2]][j2]
    BY <2>3, Zenon
  <2>4. place[r1] \in 1 .. k /\ place[r2] \in 1 .. k
    BY <1>8
  <2>6. place[r1] = place[r2]
    <3>1. Entries(P, k, R) /\ P[place[r1]][i2] = P[place[r2]][j2]
      BY <1>12, <1>15, <2>1, <2>2
    <3>2. PICK a, b : a = place[r1] /\ b = place[r2]
      OBVIOUS
    <3>3. a \in 1 .. k /\ b \in 1 .. k /\ P[a][i2] = P[b][j2]
      BY <2>4, <3>1, <3>2
    <3>4. a = b
      BY <3>1, <3>3 DEF Entries
    <3> QED BY <3>2, <3>4
  <2>7. r1 = r2
    BY <1>8, <2>6
  <2>8. \A a, b \in 1 .. R : dealt[r1][a] = dealt[r1][b] => a = b
    BY <1>16
  <2>9. i = j
    BY <1>12, <2>7, <2>8
  <2> QED BY <2>7, <2>9
<1>13. ASSUME NEW row \in Rows
       PROVE  \E r \in Ranks : \E i \in 1 .. R : dealt[r][i] = row
  <2>1. PICK a \in 1 .. k, j \in 1 .. R : P[a][j] = row
    BY <1>2, <1>15
  <2>2. PICK r : r = RankSeq[a]
    OBVIOUS
  <2>3. r \in Ranks /\ place[r] = a
    <3>1. r \in Ranks
      BY <1>3, <2>2 DEF Enumerates
    <3>2. place[r] \in 1 .. k /\ RankSeq[place[r]] = RankSeq[a]
      BY <1>8, <2>2, <3>1
    <3> QED BY <1>3, <3>1, <3>2 DEF Enumerates
  <2>5. \E i \in 1 .. R : dealt[r][i] = P[place[r]][j]
    BY <1>16, <2>3
  <2> QED BY <2>1, <2>3, <2>5
<1>14. ASSUME NEW r1 \in Ranks, NEW r2 \in Ranks
       PROVE  SumOf(w, dealt[r1]) - SumOf(w, dealt[r2]) <= B
  <2>1. SumOf(w, P[place[r1]]) - SumOf(w, P[place[r2]]) <= B
    BY <1>6, <1>8 DEF IsBalanced
  <2> QED BY <1>16, <2>1
<1>17. RowsPerRank = R
  OBVIOUS
<1>18. \A r1, r2 \in Ranks : \A i, j \in 1 .. RowsPerRank :
          dealt[r1][i] = dealt[r2][j] => r1 = r2 /\ i = j
  <2>1. \A r1, r2 \in Ranks : \A i, j \in 1 .. R : dealt[r1][i] = dealt[r2][j] => r1 = r2 /\ i = j
    BY <1>12
  <2> QED BY <1>17, <2>1
<1>19. \A row \in Rows : \E r \in Ranks : \E i \in 1 .. RowsPerRank : dealt[r][i] = row
  BY <1>13, <1>17, Zenon
<1>20. \A r1, r2 \in Ranks : SumOf(w, dealt[r1]) - SumOf(w, dealt[r2]) <= B
  BY <1>14
<1> QED BY <1>11, <1>17, <1>18, <1>19, <1>20, Zenon DEF IsDealt

WorkIsPositive(v) == \A row \in Rows : v[row] \in Nat \ {0}

WorkDiffers(v, B) == B \in Int /\ \A row, row2 \in Rows : v[row] - v[row2] <= B

\* The rows that BalanceBatch gives the ranks.
RowsOf(w, P) ==
    [r \in Ranks |-> OrderedPartition(w, P[CHOOSE i \in DOMAIN RankSeq : RankSeq[i] = r])]

LEMMA BalancedRows ==
    ASSUME MicroBatchesAssumption, NEW w, WorkIsPositive(w), NEW B, WorkDiffers(w, B),
           NEW P, P = BalancedPartitions(w, Rows, Len(RankSeq), TRUE),
           NEW dealt, dealt = RowsOf(w, P)
    PROVE  IsDealt(dealt, w, B)
<1>1. PICK k, R, m, equal_size : /\ k = NumRanks /\ R = RowsPerRank /\ m = k * R
                                 /\ equal_size = TRUE
  OBVIOUS
<1>2. k \in Nat \ {0} /\ R \in Nat \ {0} /\ m \in Nat \ {0} /\ Rows = 1 .. m
  BY <1>1, RankNumbers
<1>3. Enumerates(RankSeq, k, Ranks) /\ Len(RankSeq) = k
  BY <1>1, RankList
<1>4. Positive(w, m) /\ Weights(w, m) /\ Bounds(B, w, m, equal_size)
  BY <1>1, <1>2 DEF Positive, Weights, Bounds, WorkIsPositive, WorkDiffers
<1>5. /\ equal_size \in BOOLEAN /\ equal_size
      /\ P = BalancedPartitions(w, 1 .. m, k, equal_size)
      /\ R \in Nat /\ (equal_size => (R # 0 /\ m = k * R))
  BY <1>1, <1>2, <1>3
<1>12. B \in Int
  BY DEF WorkDiffers
<1>6. IsPartition(P, k, m) /\ IsBalanced(P, k, w, B) /\ (equal_size => AllLong(P, k, R))
  BY <1>2, <1>4, <1>5, <1>12, PartitionsAreBalanced
<1>7. Lists(P, k, m, R, w, B)
  BY <1>5, <1>6 DEF Lists
<1>8. PICK place : place = [r \in Ranks |-> CHOOSE i \in DOMAIN RankSeq : RankSeq[i] = r]
  OBVIOUS
<1>9. ASSUME NEW r \in Ranks PROVE place[r] \in 1 .. k /\ RankSeq[place[r]] = r
  <2>1. DOMAIN RankSeq = 1 .. k /\ \E i \in 1 .. k : RankSeq[i] = r
    BY <1>3 DEF Enumerates
  <2> QED BY <1>8, <2>1
<1>10. Places(place, k)
  BY <1>8, <1>9 DEF Places
<1>11. Deals(dealt, P, place, w)
  <2>1. \A r \in Ranks : dealt[r] = OrderedPartition(w, P[place[r]])
    BY <1>8 DEF RowsOf
  <2>2. PICK h : h = [r \in Ranks |-> OrderedPartition(w, P[place[r]])]
    OBVIOUS
  <2>3. dealt = h
    BY <1>8, <2>2 DEF RowsOf
  <2>4. dealt = [r \in Ranks |-> h[r]]
    BY <2>2, <2>3
  <2> QED BY <2>1, <2>4, Zenon DEF Deals
<1> QED BY <1>1, <1>4, <1>7, <1>10, <1>11, <1>12, DealtRows
-----------------------------------------------------------------------------
(* The work of the rows.                                                   *)

LEMMA WorkloadType ==
    ASSUME MicroBatchesAssumption, NEW lens \in [Rows -> Lengths],
           NEW v, v = [row \in Rows |-> calculate_workload(lens[row])]
    PROVE  \A row \in Rows : v[row] \in Nat \ {0}
<1> SUFFICES ASSUME NEW row \in Rows PROVE v[row] \in Nat \ {0}
  OBVIOUS
<1>1. PICK n : n = lens[row]
  OBVIOUS
<1>2. n \in Nat \ {0}
  <2>1. n \in 1 .. max_token_len /\ max_token_len \in Nat
    BY <1>1 DEF MicroBatchesAssumption
  <2> QED BY <2>1
<1>3. v[row] = 24576 * n + n * n
  BY <1>1 DEF calculate_workload
<1>4. n * n \in Nat \ {0}
  BY <1>2
<1> QED BY <1>2, <1>3, <1>4

MaxWork(v, items) == Max({v[row] : row \in items})
Spread(v) == Max({v[row] : row \in Rows}) - Min({v[row] : row \in Rows})

LEMMA SpreadBounds ==
    ASSUME MicroBatchesAssumption, NEW v, \A row \in Rows : v[row] \in Nat \ {0}
    PROVE  Spread(v) \in Int /\ \A row, row2 \in Rows : v[row] - v[row2] <= Spread(v)
<1>1. PICK S : S = {v[row] : row \in Rows}
  OBVIOUS
<1>2. IsFiniteSet(S)
  BY <1>1, RankNumbers, ValuesFinite
<1>3. S \subseteq Int /\ S # {}
  <2>1. PICK row : row \in Rows
    BY RankNumbers
  <2>2. v[row] \in S
    BY <1>1, <2>1
  <2>3. \A y \in S : y \in Int
    BY <1>1
  <2> QED BY <2>2, <2>3
<1>4. PICK a, b : a = Max(S) /\ b = Min(S)
  OBVIOUS
<1>5. a \in S /\ b \in S /\ \A y \in S : y <= a /\ b <= y
  BY <1>2, <1>3, <1>4, MaxOf, MinOf
<1>6. Spread(v) = a - b
  BY <1>1, <1>4 DEF Spread
<1>7. a \in Int /\ b \in Int
  BY <1>3, <1>5
<1>8. ASSUME NEW row \in Rows, NEW row2 \in Rows PROVE v[row] - v[row2] <= a - b
  <2>1. v[row] \in S /\ v[row2] \in S
    BY <1>1
  <2>2. v[row] <= a /\ b <= v[row2] /\ v[row] \in Int /\ v[row2] \in Int
    BY <1>3, <1>5, <2>1
  <2> QED BY <1>7, <2>2
<1> QED BY <1>6, <1>7, <1>8

LEMMA MaxWorkBounds ==
    ASSUME NEW S, NEW v, \A x \in S : v[x] \in Nat \ {0},
           NEW m \in Nat \ {0}, NEW batch \in Seq(S), Len(batch) = m
    PROVE  /\ MaxWork(v, ToSet(batch)) \in Int
           /\ \A i \in 1 .. m : v[batch[i]] <= MaxWork(v, ToSet(batch))
<1>1. PICK items, values, D : /\ items = ToSet(batch) /\ values = {v[row] : row \in items}
                              /\ D = 1 .. m
  OBVIOUS
<1>2. DOMAIN batch = D /\ \A i \in D : batch[i] \in S
  BY <1>1, LenProperties, ElementOfSeq
<1>3. items = {batch[i] : i \in D}
  BY <1>1, <1>2 DEF ToSet
<1>4. IsFiniteSet(items)
  <2>1. IsFiniteSet(D)
    BY <1>1, CountUp
  <2> QED BY <1>3, <2>1, ValuesFinite
<1>5. IsFiniteSet(values)
  BY <1>1, <1>4, ValuesFinite
<1>6. items \subseteq S /\ \A i \in 1 .. m : batch[i] \in items
  BY <1>1, <1>2, <1>3
<1>7. values \subseteq Int /\ \A i \in 1 .. m : v[batch[i]] \in values
  BY <1>1, <1>6
<1>8. values # {}
  <2>1. 1 \in 1 .. m
    OBVIOUS
  <2> QED BY <1>7, <2>1
<1>9. Max(values) \in values /\ \A y \in values : y <= Max(values)
  BY <1>5, <1>7, <1>8, MaxOf
<1>10. MaxWork(v, ToSet(batch)) = Max(values)
  BY <1>1 DEF MaxWork
<1> QED BY <1>7, <1>9, <1>10

(* The number of micro-batches.                                            *)

Needed(lens, batch) ==
    IF ceildiv(SumOf(lens, batch), max_token_len) < Len(batch)
    THEN ceildiv(SumOf(lens, batch), max_token_len)
    ELSE Len(batch)

LEMMA NeededRange ==
    ASSUME MicroBatchesAssumption, NEW lens \in [Rows -> Lengths],
           NEW m \in Nat \ {0}, NEW batch \in Seq(Rows), Len(batch) = m
    PROVE  Needed(lens, batch) \in 1 .. m
<1>1. PICK a, b : a = SumOf(lens, batch) /\ b = max_token_len
  OBVIOUS
<1>2. ASSUME NEW i \in 1 .. m PROVE lens[batch[i]] \in 1 .. b
  <2>1. batch[i] \in Rows
    BY ElementOfSeq
  <2>2. lens[batch[i]] \in Lengths
    BY <2>1
  <2> QED BY <1>1, <2>2 DEF MicroBatchesAssumption
<1>3. b \in Nat
  BY <1>1 DEF MicroBatchesAssumption
<1>4. b \in Nat \ {0} /\ \A i \in 1 .. m : lens[batch[i]] \in Nat \ {0}
  <2>1. 1 \in 1 .. m
    OBVIOUS
  <2> QED BY <1>2, <1>3, <2>1
<1>5. a \in Nat \ {0}
  BY <1>1, <1>4, SumIsPositive
<1>6. PICK n : n = ceildiv(a, b)
  OBVIOUS
<1>7. n \in Nat \ {0}
  BY <1>4, <1>5, <1>6, Ceiling
<1>8. Needed(lens, batch) = IF n < m THEN n ELSE m
  BY <1>1, <1>6 DEF Needed
<1> QED BY <1>7, <1>8

\* The most of the numbers that the ranks have.
LEMMA AgreedRange ==
    ASSUME MicroBatchesAssumption, NEW m \in Nat, NEW nums, \A r \in Ranks : nums[r] \in 1 .. m
    PROVE  Max({nums[other] : other \in Ranks}) \in 1 .. m
<1>1. PICK S : S = {nums[other] : other \in Ranks}
  OBVIOUS
<1>2. IsFiniteSet(S) /\ S # {}
  BY <1>1, ValuesFinite DEF MicroBatchesAssumption
<1>3. S \subseteq 1 .. m /\ S \subseteq Int
  BY <1>1
<1>4. Max(S) \in S
  BY <1>2, <1>3, MaxOf
<1> QED BY <1>1, <1>3, <1>4

LEMMA PartitionedIsCut ==
    ASSUME NEW m \in Nat, NEW batch \in Seq(Rows), Len(batch) = m, NEW num,
           NEW w, w = [i \in 1 .. m |-> workload[batch[i]]]
    PROVE  Partitioned(batch, num) = Cut(w, m, num)
<1>1. DOMAIN batch = 1 .. m
  BY LenProperties
<1>2. PICK P : P = BalancedPartitions(w, 1 .. m, num, FALSE)
  OBVIOUS
<1>3. PICK x : x = LightAtBothEnds(HeaviestFirst(w, P))
  OBVIOUS
<1>4. Cut(w, m, num) = x
  BY <1>2, <1>3 DEF Cut
<1>5. PICK D : D = 1 .. m
  OBVIOUS
<1>6. DOMAIN batch = D /\ w = [i \in D |-> workload[batch[i]]] /\ P = BalancedPartitions(w, D, num, FALSE)
  BY <1>1, <1>2, <1>5
<1>7. Partitioned(batch, num) =
        CHOOSE list \in {LightAtBothEnds(HeaviestFirst(w, partitions)) : partitions \in {P}} : TRUE
  BY <1>6, Zenon DEF Partitioned
<1>8. {LightAtBothEnds(HeaviestFirst(w, partitions)) : partitions \in {P}} = {x}
  BY <1>3, Zenon
<1> QED BY <1>4, <1>7, <1>8
-----------------------------------------------------------------------------
(* The invariant.                                                          *)

\* A rank with the batches todo, in the loop over the micro-batches of the first or not.
RankIsRight(at, todo, num, lists, nxt, out, v) ==
    /\ at # "idle" => todo # << >>
    /\ at = "all_reduce" => num \in 1 .. Len(Head(todo)) /\ out = << >>
    /\ at \in {"gather", "forward", "restore", "step"} =>
          /\ IsSplit(Head(todo), num, lists, v, MaxWork(v, ToSet(Head(todo))))
          /\ Progress(Head(todo), lists, nxt, out, Rows)
          /\ at \in {"gather", "forward"} <=> nxt <= num

\* The batches that a rank has still to work on have at most its rows.
SmallBatches(todo) == \A i \in 1 .. Len(todo) : Len(todo[i]) \in 1 .. RowsPerRank

SameShape(todo1, todo2) ==
    Len(todo1) = Len(todo2) /\ \A i \in 1 .. Len(todo1) : Len(todo1[i]) = Len(todo2[i])

LogProbTask(at, todo, own, got) ==
    /\ at # "step"
    /\ todo = << own >> \/ (todo = << >> /\ got = own)

RanksAreRight ==
    \A r \in Ranks : RankIsRight(pc[r], tasks[r], num_micro_batches[r], batch_idx_list[r],
                                 next[r], outputs[r], workload)

BatchesAreSmall == \A r \in Ranks : SmallBatches(tasks[r])

RowsAreDealt == phase # "balance" => IsDealt(rows, workload, Spread(workload))

PhaseIsRight ==
    /\ phase \in {"balance", "done"} => \A r \in Ranks : pc[r] = "idle" /\ tasks[r] = << >>
    /\ phase = "log_prob" =>
          \A r \in Ranks : LogProbTask(pc[r], tasks[r], rows[r], log_probs[r])
    /\ phase = "update" =>
          /\ \A r \in Ranks : pc[r] # "restore"
          /\ \A r1, r2 \in Ranks : SameShape(tasks[r1], tasks[r2])
    /\ phase \in {"update", "done"} => log_probs = rows

IInv == TypeOK /\ RanksAreRight /\ BatchesAreSmall /\ RowsAreDealt /\ PhaseIsRight

LEMMA FirstBatch ==
    ASSUME MicroBatchesAssumption, NEW todo \in Seq(Seq(Rows)), SmallBatches(todo), todo # << >>
    PROVE  /\ Head(todo) = todo[1] /\ Head(todo) \in Seq(Rows)
           /\ Len(Head(todo)) \in 1 .. RowsPerRank /\ Len(Head(todo)) \in Nat \ {0}
           /\ Tail(todo) \in Seq(Seq(Rows)) /\ SmallBatches(Tail(todo))
           /\ Len(Tail(todo)) = Len(todo) - 1
           /\ \A i \in 1 .. Len(todo) - 1 : Tail(todo)[i] = todo[i + 1]
<1>1. PICK T, n, tail : T = Seq(Rows) /\ n = Len(todo) /\ tail = Tail(todo)
  OBVIOUS
<1>2. todo \in Seq(T) /\ n \in Nat
  BY <1>1, LenProperties
<1>3. n \in Nat \ {0}
  BY <1>1, <1>2, EmptySeq
<1>4. Head(todo) = todo[1] /\ todo[1] \in T
  BY <1>1, <1>2, <1>3, ElementOfSeq, HeadTailProperties
<1>5. Len(todo[1]) \in 1 .. RowsPerRank
  BY <1>1, <1>3 DEF SmallBatches
<1>6. RowsPerRank \in Nat
  BY RankNumbers
<1>7. tail \in Seq(T) /\ Len(tail) = n - 1 /\ \A i \in 1 .. Len(tail) : tail[i] = todo[i + 1]
  BY <1>1, <1>2, HeadTailProperties
<1>8. SmallBatches(tail)
  <2>1. ASSUME NEW i \in 1 .. n - 1 PROVE Len(tail[i]) \in 1 .. RowsPerRank
    <3>1. PICK j : j = i + 1
      OBVIOUS
    <3>2. j \in 1 .. n /\ tail[i] = todo[j]
      BY <1>3, <1>7, <3>1
    <3> QED BY <1>1, <3>2 DEF SmallBatches
  <2> QED BY <1>7, <2>1 DEF SmallBatches
<1> QED BY <1>1, <1>4, <1>5, <1>6, <1>7, <1>8

\* What a split says about the types of the variables.
LEMMA SplitType ==
    ASSUME MicroBatchesAssumption, NEW batch \in Seq(Rows), Len(batch) \in 1 .. RowsPerRank,
           NEW num, NEW lists, NEW v, NEW B, IsSplit(batch, num, lists, v, B)
    PROVE  num \in 0 .. RowsPerRank /\ lists \in Seq(Seq(1 .. RowsPerRank))
<1>1. PICK m, R : m = Len(batch) /\ R = RowsPerRank
  OBVIOUS
<1>2. R \in Nat /\ m \in 1 .. R /\ num \in 1 .. m /\ num \in Nat
  BY <1>1, RankNumbers DEF IsSplit
<1>3. IsPartition(lists, num, m)
  BY <1>1 DEF IsSplit
<1>4. ASSUME NEW i \in 1 .. num PROVE lists[i] \in Seq(1 .. R)
  <2>1. PICK list : list = lists[i]
    OBVIOUS
  <2>2. list \in Seq(1 .. m)
    BY <1>3, <2>1 DEF IsPartition
  <2>3. 1 .. m \subseteq 1 .. R
    BY <1>2
  <2>4. list \in Seq(1 .. R)
    <3>1. PICK D, E : D = 1 .. m /\ E = 1 .. R
      OBVIOUS
    <3>2. D \subseteq E /\ list \in Seq(D)
      BY <2>2, <2>3, <3>1
    <3>3. list \in [1 .. Len(list) -> E] /\ Len(list) \in Nat
      BY <3>2, LenProperties, ElementOfSeq
    <3> QED BY <3>1, <3>3, ListOf
  <2> QED BY <2>1, <2>4
<1>5. PICK T : T = Seq(1 .. R)
  OBVIOUS
<1>6. lists \in [1 .. num -> T]
  <2>1. lists \in [1 .. num -> Seq(1 .. m)]
    BY <1>3 DEF IsPartition
  <2>2. DOMAIN lists = 1 .. num /\ lists = [i \in 1 .. num |-> lists[i]]
    BY <2>1
  <2> QED BY <1>4, <1>5, <2>2
<1>7. lists \in Seq(T)
  BY <1>2, <1>6, ListOf
<1> QED BY <1>1, <1>2, <1>5, <1>7

\* AllReduce, at a rank.
LEMMA SplitBegins ==
    ASSUME MicroBatchesAssumption, NEW v, \A row \in Rows : v[row] \in Nat \ {0},
           NEW todo, todo # << >>, NEW batch \in Seq(Rows), batch = Head(todo),
           NEW m \in Nat \ {0}, Len(batch) = m, NEW num \in 1 .. m,
           NEW w, w = [i \in 1 .. m |-> v[batch[i]]], NEW lists, lists = Cut(w, m, num)
    PROVE  RankIsRight("gather", todo, num, lists, 1, << >>, v)
<1>1. PICK B : B = MaxWork(v, ToSet(batch))
  OBVIOUS
<1>2. B \in Int /\ \A i \in 1 .. m : v[batch[i]] <= B
  BY <1>1, MaxWorkBounds
<1>3. IsSplit(batch, num, lists, v, B)
  BY <1>2, SplitIsBalanced
<1>4. Cuts(lists, num, Len(batch), batch, Rows) /\ num \in Nat \ {0}
  BY <1>3, SplitCuts
<1>5. Progress(batch, lists, 1, << >>, Rows)
  BY <1>4, ProgressBegins
<1>6. 1 <= num
  OBVIOUS
<1>7. PICK at : at = "gather"
  OBVIOUS
<1>8. RankIsRight(at, todo, num, lists, 1, << >>, v)
  BY <1>1, <1>3, <1>5, <1>6, <1>7 DEF RankIsRight
<1> QED BY <1>7, <1>8

\* Where a rank goes after a micro-batch.
GoesOn(at, nxt, num) == at \in {"gather", "restore", "step"} /\ (at = "gather" <=> nxt # num)

\* Forward.
LEMMA SplitGoesOn ==
    ASSUME MicroBatchesAssumption, NEW todo, NEW batch \in Seq(Rows), batch = Head(todo),
           NEW num, NEW lists, NEW nxt, NEW out, NEW v,
           RankIsRight("forward", todo, num, lists, nxt, out, v), NEW at, GoesOn(at, nxt, num)
    PROVE  /\ RankIsRight(at, todo, num, lists, nxt + 1, out \o MapOf(batch, lists[nxt]), v)
           /\ out \o MapOf(batch, lists[nxt]) \in Seq(Rows)
           /\ nxt \in 1 .. num
<1>1. PICK B : B = MaxWork(v, ToSet(batch))
  OBVIOUS
<1>2. /\ IsSplit(batch, num, lists, v, B) /\ Progress(batch, lists, nxt, out, Rows)
      /\ nxt <= num /\ todo # << >>
  BY <1>1 DEF RankIsRight
<1>3. Cuts(lists, num, Len(batch), batch, Rows) /\ num \in Nat \ {0} /\ Len(batch) \in Nat
  BY <1>2, SplitCuts
<1>4. nxt \in 1 .. num
  <2>1. nxt \in 1 .. Len(lists) + 1 /\ Len(lists) = num
    BY <1>2, <1>3 DEF Progress, Cuts
  <2> QED BY <1>2, <1>3, <2>1
<1>5. PICK nxt1, out1 : nxt1 = nxt + 1 /\ out1 = out \o MapOf(batch, lists[nxt])
  OBVIOUS
<1>6. Progress(batch, lists, nxt1, out1, Rows)
  <2>1. PICK m : m = Len(batch)
    OBVIOUS
  <2>2. Progress(batch, lists, nxt + 1, out \o MapOf(batch, lists[nxt]), Rows)
    BY <1>2, <1>3, <1>4, <2>1, ProgressGoesOn
  <2> QED BY <1>5, <2>2, Zenon
<1>7. at = "gather" <=> nxt1 <= num
  BY <1>3, <1>4, <1>5 DEF GoesOn
<1>8. RankIsRight(at, todo, num, lists, nxt1, out1, v)
  BY <1>1, <1>2, <1>6, <1>7 DEF RankIsRight, GoesOn
<1>9. out1 \in Seq(Rows)
  BY <1>6 DEF Progress
<1> QED BY <1>4, <1>5, <1>8, <1>9, Zenon

\* What a rank has computed when it leaves the loop.
LEMMA SplitEnds ==
    ASSUME MicroBatchesAssumption, NEW todo, NEW batch \in Seq(Rows), batch = Head(todo),
           NEW at \in {"restore", "step"}, NEW num, NEW lists, NEW nxt, NEW out, NEW v,
           RankIsRight(at, todo, num, lists, nxt, out, v)
    PROVE  /\ out = MapOf(batch, FlattenSeq(lists)) /\ nxt = num + 1
           /\ Rest(lists, nxt, batch) = << >>
<1>1. PICK B : B = MaxWork(v, ToSet(batch))
  OBVIOUS
<1>2. /\ IsSplit(batch, num, lists, v, B) /\ Progress(batch, lists, nxt, out, Rows)
      /\ ~ (nxt <= num)
  BY <1>1 DEF RankIsRight
<1>3. Cuts(lists, num, Len(batch), batch, Rows) /\ num \in Nat /\ Len(batch) \in Nat
  BY <1>2, SplitCuts
<1>4. nxt = num + 1
  <2>1. nxt \in 1 .. Len(lists) + 1 /\ Len(lists) = num
    BY <1>2, <1>3 DEF Progress, Cuts
  <2> QED BY <1>2, <1>3, <2>1
<1>5. PICK m : m = Len(batch)
  OBVIOUS
<1>6. Progress(batch, lists, num + 1, out, Rows)
  BY <1>2, <1>4
<1>7. out = MapOf(batch, FlattenSeq(lists)) /\ Rest(lists, num + 1, batch) = << >>
  BY <1>3, <1>5, <1>6, ProgressEnds
<1> QED BY <1>4, <1>7

LEMMA RestoredBatch ==
    ASSUME MicroBatchesAssumption, NEW todo, NEW batch \in Seq(Rows), batch = Head(todo),
           NEW num, NEW lists, NEW nxt, NEW out, NEW v,
           RankIsRight("restore", todo, num, lists, nxt, out, v)
    PROVE  Restored(out, lists) = batch
<1>1. PICK B, m, at : B = MaxWork(v, ToSet(batch)) /\ m = Len(batch) /\ at = "restore"
  OBVIOUS
<1>2. IsSplit(batch, num, lists, v, B)
  BY <1>1 DEF RankIsRight
<1>3. m \in Nat /\ FlattenSeq(lists) \in Seq(1 .. m) /\ Enumerates(FlattenSeq(lists), m, 1 .. m)
  BY <1>1, <1>2, SplitCuts
<1>4. out = MapOf(batch, FlattenSeq(lists))
  <2>1. at \in {"restore", "step"} /\ RankIsRight(at, todo, num, lists, nxt, out, v)
    BY <1>1
  <2> QED BY <2>1, SplitEnds
<1> QED BY <1>1, <1>3, <1>4, RestoredInOrder
-----------------------------------------------------------------------------
(* The initial states.                                                     *)

LEMMA InitInv == Init => IInv
<1> SUFFICES ASSUME Init PROVE IInv
  OBVIOUS
<1> USE MicroBatchesAssumption
<1>1. RowsPerRank \in Nat \ {0}
  BY RankNumbers
<1>2. TypeOK
  BY <1>1 DEF Init, TypeOK
<1>3. RanksAreRight
  BY DEF Init, RanksAreRight, RankIsRight
<1>4. BatchesAreSmall
  BY DEF Init, BatchesAreSmall, SmallBatches
<1>5. RowsAreDealt
  BY DEF Init, RowsAreDealt
<1>6. PhaseIsRight
  BY DEF Init, PhaseIsRight
<1> QED BY <1>2, <1>3, <1>4, <1>5, <1>6 DEF IInv
-----------------------------------------------------------------------------
(* The steps of the driver.                                                *)

LEMMA WorkOfRows ==
    ASSUME MicroBatchesAssumption, TypeOK
    PROVE  WorkIsPositive(workload)
<1>1. seqlen \in [Rows -> Lengths]
  BY DEF TypeOK
<1>2. PICK v, lens : v = [row \in Rows |-> calculate_workload(lens[row])] /\ lens = seqlen
  OBVIOUS
<1>3. workload = v
  BY <1>2 DEF workload
<1>4. \A row \in Rows : v[row] \in Nat \ {0}
  BY <1>1, <1>2, WorkloadType
<1> QED BY <1>3, <1>4 DEF WorkIsPositive

LEMMA BalanceBatchInv ==
    ASSUME MicroBatchesAssumption, IInv, BalanceBatch
    PROVE  IInv'
<1>1. PICK v, dealt : v = workload /\ dealt = rows'
  OBVIOUS
<1>2. WorkIsPositive(v)
  BY <1>1, WorkOfRows DEF IInv
<1>3. PICK B : B = Spread(v)
  OBVIOUS
<1>4. WorkDiffers(v, B)
  BY <1>2, <1>3, SpreadBounds DEF WorkIsPositive, WorkDiffers
<1>5. IsDealt(dealt, v, B)
  <2>1. PICK P : P = BalancedPartitions(v, Rows, Len(RankSeq), TRUE)
    OBVIOUS
  <2>2. dealt = RowsOf(v, P)
    BY <1>1, <2>1 DEF BalanceBatch, RowsOf
  <2> QED BY <1>2, <1>4, <2>1, <2>2, BalancedRows
<1>6. v = workload'
  BY <1>1 DEF BalanceBatch, workload
<1>7. dealt \in [Ranks -> Seq(Rows)] /\ \A r \in Ranks : Len(dealt[r]) = RowsPerRank
  BY <1>5 DEF IsDealt
<1>8. \A r \in Ranks : tasks'[r] = << dealt[r] >> /\ pc[r] = "idle"
  BY <1>1 DEF BalanceBatch, IInv, PhaseIsRight
<1>9. ASSUME NEW r \in Ranks PROVE << dealt[r] >> \in Seq(Seq(Rows)) /\ SmallBatches(<< dealt[r] >>)
  <2>1. PICK T, x, one : T = Seq(Rows) /\ x = dealt[r] /\ one = << x >>
    OBVIOUS
  <2>2. x \in T /\ Len(x) = RowsPerRank /\ RowsPerRank \in 1 .. RowsPerRank
    BY <1>7, <2>1, RankNumbers
  <2>3. one \in Seq(T) /\ Len(one) = 1 /\ one[1] = x
    BY <2>1, <2>2
  <2>4. \A i \in 1 .. Len(one) : Len(one[i]) \in 1 .. RowsPerRank
    BY <2>2, <2>3
  <2> QED BY <2>1, <2>3, <2>4 DEF SmallBatches
<1>10. TypeOK'
  <2>1. tasks' \in [Ranks -> Seq(Seq(Rows))]
    <3>1. PICK T : T = Seq(Seq(Rows))
      OBVIOUS
    <3>2. tasks' = [r \in Ranks |-> << rows'[r] >>] /\ \A r \in Ranks : << rows'[r] >> \in T
      BY <1>1, <1>9, <3>1 DEF BalanceBatch
    <3> QED BY <3>1, <3>2
  <2>2. rows' \in [Ranks -> Seq(Rows)]
    BY <1>1, <1>7
  <2>3. phase' = "log_prob" /\ UNCHANGED << seqlen, pc, num_micro_batches, batch_idx_list, next, outputs, log_probs >>
    BY DEF BalanceBatch, batchVars
  <2>4. TypeOK
    BY DEF IInv
  <2> QED BY <2>1, <2>2, <2>3, <2>4 DEF TypeOK
<1>11. RanksAreRight'
  <2>1. \A r \in Ranks : pc'[r] = "idle"
    BY <1>8 DEF BalanceBatch
  <2> QED BY <2>1 DEF RanksAreRight, RankIsRight
<1>12. BatchesAreSmall'
  BY <1>8, <1>9 DEF BatchesAreSmall
<1>13. RowsAreDealt'
  BY <1>1, <1>3, <1>5, <1>6 DEF RowsAreDealt
<1>14. PhaseIsRight'
  <2>1. phase' = "log_prob" /\ \A r \in Ranks : pc'[r] = "idle" /\ tasks'[r] = << rows'[r] >>
    BY <1>1, <1>8 DEF BalanceBatch
  <2> QED BY <2>1 DEF PhaseIsRight, LogProbTask
<1> QED BY <1>10, <1>11, <1>12, <1>13, <1>14 DEF IInv

\* The mini-batches of ranks that have their rows.
LEMMA MiniBatchTasks ==
    ASSUME MicroBatchesAssumption, NEW own \in Seq(Rows), Len(own) = RowsPerRank
    PROVE  /\ MiniBatches(own) \in Seq(Seq(Rows)) /\ SmallBatches(MiniBatches(own))
           /\ Len(MiniBatches(own)) = ceildiv(RowsPerRank, ppo_mini_batch_size)
           /\ \A i \in 1 .. ceildiv(RowsPerRank, ppo_mini_batch_size) :
                 Len(MiniBatches(own)[i]) = MiniBatchLen(RowsPerRank, i)
<1>1. PICK R : R = RowsPerRank /\ R \in Nat \ {0}
  BY RankNumbers
<1>2. /\ MiniBatches(own) \in Seq(Seq(Rows))
      /\ Len(MiniBatches(own)) = ceildiv(R, ppo_mini_batch_size)
      /\ \A i \in 1 .. ceildiv(R, ppo_mini_batch_size) :
            /\ Len(MiniBatches(own)[i]) = MiniBatchLen(R, i)
            /\ MiniBatchLen(R, i) \in 1 .. R
  BY <1>1, MiniBatchesOf
<1>3. SmallBatches(MiniBatches(own))
  BY <1>1, <1>2 DEF SmallBatches
<1> QED BY <1>1, <1>2, <1>3

LEMMA UpdateActorInv ==
    ASSUME MicroBatchesAssumption, IInv, UpdateActor
    PROVE  IInv'
<1>1. /\ TypeOK /\ RowsAreDealt /\ PhaseIsRight
      /\ phase = "log_prob" /\ AllReturned /\ phase' = "update"
      /\ tasks' = [r \in Ranks |-> MiniBatches(rows[r])]
      /\ UNCHANGED << seqlen, rows, pc, num_micro_batches, batch_idx_list, next, outputs, log_probs >>
  BY DEF IInv, UpdateActor, batchVars
<1>2. PICK n : n = ceildiv(RowsPerRank, ppo_mini_batch_size)
  OBVIOUS
<1>3. IsDealt(rows, workload, Spread(workload))
  BY <1>1 DEF RowsAreDealt
<1>4. \A r \in Ranks : rows[r] \in Seq(Rows) /\ Len(rows[r]) = RowsPerRank
  BY <1>3 DEF IsDealt
<1>5. ASSUME NEW r \in Ranks
      PROVE  /\ tasks'[r] \in Seq(Seq(Rows)) /\ SmallBatches(tasks'[r]) /\ Len(tasks'[r]) = n
             /\ \A i \in 1 .. n : Len(tasks'[r][i]) = MiniBatchLen(RowsPerRank, i)
  <2>1. PICK own, todo : own = rows[r] /\ todo = MiniBatches(own)
    OBVIOUS
  <2>2. own \in Seq(Rows) /\ Len(own) = RowsPerRank
    BY <1>4, <2>1
  <2>3. /\ todo \in Seq(Seq(Rows)) /\ SmallBatches(todo) /\ Len(todo) = n
        /\ \A i \in 1 .. n : Len(todo[i]) = MiniBatchLen(RowsPerRank, i)
    BY <1>2, <2>1, <2>2, MiniBatchTasks
  <2>4. tasks'[r] = todo
    BY <1>1, <2>1
  <2> QED BY <2>3, <2>4
<1>6. TypeOK'
  <2>1. tasks' \in [Ranks -> Seq(Seq(Rows))]
    <3>1. PICK T : T = Seq(Seq(Rows))
      OBVIOUS
    <3>2. \A r \in Ranks : tasks'[r] \in T
      BY <1>5, <3>1
    <3>3. tasks' = [r \in Ranks |-> tasks'[r]]
      BY <1>1
    <3> QED BY <3>1, <3>2, <3>3
  <2> QED BY <1>1, <2>1 DEF TypeOK
<1>7. RanksAreRight'
  <2>1. \A r \in Ranks : pc'[r] = "idle"
    BY <1>1 DEF AllReturned
  <2> QED BY <2>1 DEF RanksAreRight, RankIsRight
<1>8. BatchesAreSmall'
  BY <1>5 DEF BatchesAreSmall
<1>9. RowsAreDealt'
  <2>1. workload' = workload
    BY <1>1 DEF workload
  <2> QED BY <1>1, <1>3, <2>1 DEF RowsAreDealt
<1>10. PhaseIsRight'
  <2>1. ASSUME NEW r1 \in Ranks, NEW r2 \in Ranks PROVE SameShape(tasks'[r1], tasks'[r2])
    BY <1>5 DEF SameShape
  <2>2. \A r \in Ranks : pc'[r] # "restore"
    BY <1>1 DEF AllReturned
  <2>3. log_probs' = rows'
    <3>1. \A r \in Ranks : log_probs[r] = rows[r]
      <4>1. ASSUME NEW r \in Ranks PROVE log_probs[r] = rows[r]
        <5>1. LogProbTask(pc[r], tasks[r], rows[r], log_probs[r]) /\ tasks[r] = << >>
          BY <1>1 DEF PhaseIsRight, AllReturned
        <5>2. << rows[r] >> # << >>
          OBVIOUS
        <5> QED BY <5>1, <5>2 DEF LogProbTask
      <4> QED BY <4>1
    <3>2. log_probs \in [Ranks -> Seq(Rows)] /\ rows \in [Ranks -> Seq(Rows)]
      BY <1>1 DEF TypeOK
    <3> QED BY <1>1, <3>1, <3>2
  <2> QED BY <1>1, <2>1, <2>2, <2>3 DEF PhaseIsRight
<1> QED BY <1>6, <1>7, <1>8, <1>9, <1>10 DEF IInv

LEMMA FinishInv ==
    ASSUME MicroBatchesAssumption, IInv, Finish
    PROVE  IInv'
<1>1. /\ TypeOK /\ RanksAreRight /\ BatchesAreSmall /\ RowsAreDealt /\ PhaseIsRight
      /\ phase = "update" /\ AllReturned /\ phase' = "done"
      /\ UNCHANGED << seqlen, rows, pc, tasks, num_micro_batches, batch_idx_list, next, outputs, log_probs >>
  BY DEF IInv, Finish, batchVars
<1>2. workload' = workload
  BY <1>1 DEF workload
<1>3. TypeOK'
  BY <1>1 DEF TypeOK
<1>4. RanksAreRight'
  BY <1>1, <1>2 DEF RanksAreRight
<1>5. BatchesAreSmall'
  BY <1>1 DEF BatchesAreSmall
<1>6. RowsAreDealt'
  BY <1>1, <1>2 DEF RowsAreDealt
<1>7. PhaseIsRight'
  BY <1>1 DEF PhaseIsRight, AllReturned
<1> QED BY <1>3, <1>4, <1>5, <1>6, <1>7 DEF IInv
-----------------------------------------------------------------------------
(* The steps of the ranks.                                                 *)

\* A rank that has work is asked for by the driver, and knows its batch.
LEMMA WorkingRank ==
    ASSUME MicroBatchesAssumption, IInv, NEW r \in Ranks, tasks[r] # << >>
    PROVE  /\ phase \in {"log_prob", "update"}
           /\ tasks[r] \in Seq(Seq(Rows)) /\ SmallBatches(tasks[r])
           /\ Head(tasks[r]) \in Seq(Rows)
           /\ Len(Head(tasks[r])) \in 1 .. RowsPerRank /\ Len(Head(tasks[r])) \in Nat \ {0}
           /\ phase = "log_prob" => tasks[r] = << rows[r] >> /\ Head(tasks[r]) = rows[r]
<1>1. TypeOK /\ BatchesAreSmall /\ PhaseIsRight
  BY DEF IInv
<1>2. phase \in {"log_prob", "update"}
  <2>1. phase \in {"balance", "log_prob", "update", "done"}
    BY <1>1 DEF TypeOK
  <2> QED BY <1>1, <2>1 DEF PhaseIsRight
<1>3. PICK todo : todo = tasks[r]
  OBVIOUS
<1>4. todo \in Seq(Seq(Rows)) /\ SmallBatches(todo) /\ todo # << >>
  BY <1>1, <1>3 DEF TypeOK, BatchesAreSmall
<1>5. Head(todo) \in Seq(Rows) /\ Len(Head(todo)) \in 1 .. RowsPerRank /\ Len(Head(todo)) \in Nat \ {0}
  BY <1>4, FirstBatch
<1>6. phase = "log_prob" => todo = << rows[r] >>
  BY <1>1, <1>3, <1>4 DEF PhaseIsRight, LogProbTask
<1>7. phase = "log_prob" => Head(todo) = rows[r]
  BY <1>6
<1> QED BY <1>2, <1>3, <1>4, <1>5, <1>6, <1>7

LEMMA CountMicroBatchesInv ==
    ASSUME MicroBatchesAssumption, IInv, NEW r \in Ranks, CountMicroBatches(r)
    PROVE  IInv'
<1>1. /\ TypeOK /\ RanksAreRight /\ BatchesAreSmall /\ RowsAreDealt /\ PhaseIsRight
      /\ pc[r] = "idle" /\ tasks[r] # << >>
      /\ num_micro_batches' = [num_micro_batches EXCEPT ![r] = NumMicroBatches(Head(tasks[r]))]
      /\ outputs' = [outputs EXCEPT ![r] = << >>]
      /\ pc' = [pc EXCEPT ![r] = "all_reduce"]
      /\ UNCHANGED << seqlen, phase, rows, tasks, batch_idx_list, next, log_probs >>
  BY DEF IInv, CountMicroBatches, Goes
<1>2. workload' = workload
  BY <1>1 DEF workload
<1>3. PICK batch, m, num : batch = Head(tasks[r]) /\ m = Len(batch) /\ num = NumMicroBatches(batch)
  OBVIOUS
<1>4. batch \in Seq(Rows) /\ m \in 1 .. RowsPerRank /\ m \in Nat \ {0} /\ phase \in {"log_prob", "update"}
  BY <1>1, <1>3, WorkingRank
<1>5. num \in 1 .. m
  <2>1. num = Needed(seqlen, batch)
    BY <1>3 DEF NumMicroBatches, Tokens, Needed
  <2>2. PICK lens : lens = seqlen
    OBVIOUS
  <2>3. lens \in [Rows -> Lengths]
    BY <1>1, <2>2 DEF TypeOK
  <2>4. Needed(lens, batch) \in 1 .. m
    BY <1>3, <1>4, <2>3, NeededRange
  <2> QED BY <2>1, <2>2, <2>4
<1>6. num \in 0 .. RowsPerRank
  <2>1. RowsPerRank \in Nat
    BY RankNumbers
  <2> QED BY <1>4, <1>5, <2>1
<1>7. TypeOK'
  <2>1. num_micro_batches' \in [Ranks -> 0 .. RowsPerRank]
    BY <1>1, <1>3, <1>6 DEF TypeOK
  <2>2. outputs' \in [Ranks -> Seq(Rows)]
    <3>1. << >> \in Seq(Rows)
      BY EmptySeq
    <3> QED BY <1>1, <3>1 DEF TypeOK
  <2>3. pc' \in [Ranks -> {"idle", "all_reduce", "gather", "forward", "restore", "step"}]
    BY <1>1 DEF TypeOK
  <2> QED BY <1>1, <2>1, <2>2, <2>3 DEF TypeOK
<1>8. RanksAreRight'
  <2> SUFFICES ASSUME NEW s \in Ranks
               PROVE  RankIsRight(pc'[s], tasks'[s], num_micro_batches'[s], batch_idx_list'[s],
                                  next'[s], outputs'[s], workload')
    BY DEF RanksAreRight
  <2>1. CASE s = r
    <3>1. PICK at, nums, out : at = pc'[s] /\ nums = num_micro_batches'[s] /\ out = outputs'[s]
      OBVIOUS
    <3>2. at = "all_reduce" /\ nums = num /\ out = << >>
      BY <1>1, <1>3, <2>1, <3>1 DEF TypeOK
    <3>3. tasks'[s] = tasks[r] /\ tasks[r] # << >> /\ nums \in 1 .. Len(Head(tasks[r]))
      BY <1>1, <1>3, <1>5, <2>1, <3>2
    <3> QED BY <3>1, <3>2, <3>3 DEF RankIsRight
  <2>2. CASE s # r
    <3>1. /\ pc'[s] = pc[s] /\ tasks'[s] = tasks[s] /\ num_micro_batches'[s] = num_micro_batches[s]
          /\ batch_idx_list'[s] = batch_idx_list[s] /\ next'[s] = next[s] /\ outputs'[s] = outputs[s]
      BY <1>1, <2>2 DEF TypeOK
    <3> QED BY <1>1, <1>2, <3>1 DEF RanksAreRight
  <2> QED BY <2>1, <2>2
<1>9. BatchesAreSmall'
  BY <1>1 DEF BatchesAreSmall
<1>10. RowsAreDealt'
  BY <1>1, <1>2 DEF RowsAreDealt
<1>11. PhaseIsRight'
  <2>1. \A s \in Ranks : pc'[s] = pc[s] \/ pc'[s] = "all_reduce"
    BY <1>1 DEF TypeOK
  <2>2. \A s \in Ranks : LogProbTask(pc[s], tasks[s], rows[s], log_probs[s])
                            => LogProbTask(pc'[s], tasks'[s], rows'[s], log_probs'[s])
    BY <1>1, <2>1 DEF LogProbTask
  <2> QED BY <1>1, <1>4, <2>1, <2>2 DEF PhaseIsRight
<1> QED BY <1>7, <1>8, <1>9, <1>10, <1>11 DEF IInv

\* The ranks that come to the all-reduce together have batches of the same length.
LEMMA SameLength ==
    ASSUME MicroBatchesAssumption, IInv, \A r \in Ranks : tasks[r] # << >>,
           NEW r1 \in Ranks, NEW r2 \in Ranks
    PROVE  Len(Head(tasks[r1])) = Len(Head(tasks[r2]))
<1>1. phase \in {"log_prob", "update"}
  BY WorkingRank
<1>2. CASE phase = "log_prob"
  <2>1. Head(tasks[r1]) = rows[r1] /\ Head(tasks[r2]) = rows[r2]
    BY <1>2, WorkingRank
  <2>2. IsDealt(rows, workload, Spread(workload))
    BY <1>2 DEF IInv, RowsAreDealt
  <2>3. \A r \in Ranks : Len(rows[r]) = RowsPerRank
    BY <2>2 DEF IsDealt
  <2> QED BY <2>1, <2>3
<1>3. CASE phase = "update"
  <2>1. PICK todo1, todo2 : todo1 = tasks[r1] /\ todo2 = tasks[r2]
    OBVIOUS
  <2>2. SameShape(todo1, todo2)
    BY <1>3, <2>1 DEF IInv, PhaseIsRight
  <2>3. /\ todo1 \in Seq(Seq(Rows)) /\ SmallBatches(todo1) /\ todo1 # << >>
        /\ todo2 \in Seq(Seq(Rows)) /\ SmallBatches(todo2) /\ todo2 # << >>
    BY <2>1, WorkingRank
  <2>4. Head(todo1) = todo1[1] /\ Head(todo2) = todo2[1]
    BY <2>3, FirstBatch
  <2>5. 1 \in 1 .. Len(todo1)
    <3>1. PICK T : T = Seq(Rows)
      OBVIOUS
    <3>2. todo1 \in Seq(T)
      BY <2>3, <3>1
    <3>3. Len(todo1) \in Nat /\ Len(todo1) # 0
      BY <2>3, <3>2, LenProperties, EmptySeq
    <3> QED BY <3>3
  <2>6. Len(todo1[1]) = Len(todo2[1])
    BY <2>2, <2>5 DEF SameShape
  <2> QED BY <2>1, <2>4, <2>6
<1> QED BY <1>1, <1>2, <1>3

LEMMA AllReduceInv ==
    ASSUME MicroBatchesAssumption, IInv, AllReduce
    PROVE  IInv'
<1>1. /\ TypeOK /\ RanksAreRight /\ BatchesAreSmall /\ RowsAreDealt /\ PhaseIsRight
      /\ \A r \in Ranks : pc[r] = "all_reduce"
      /\ num_micro_batches' = [r \in Ranks |-> AgreedNumber(r)]
      /\ batch_idx_list' = [r \in Ranks |-> Partitioned(Head(tasks[r]), AgreedNumber(r))]
      /\ next' = [r \in Ranks |-> 1]
      /\ pc' = [r \in Ranks |-> "gather"]
      /\ UNCHANGED << seqlen, phase, rows, tasks, outputs, log_probs >>
  BY DEF IInv, AllReduce, AllWaitFor, AllGo
<1>2. workload' = workload /\ WorkIsPositive(workload)
  BY <1>1, WorkOfRows DEF workload
<1>3. ASSUME NEW r \in Ranks
      PROVE  /\ tasks[r] # << >> /\ outputs[r] = << >>
             /\ num_micro_batches[r] \in 1 .. Len(Head(tasks[r]))
  <2>1. RankIsRight(pc[r], tasks[r], num_micro_batches[r], batch_idx_list[r], next[r], outputs[r],
                    workload)
    BY <1>1 DEF RanksAreRight
  <2> QED BY <1>1, <2>1 DEF RankIsRight
<1>4. PICK r0 : r0 \in Ranks
  BY DEF MicroBatchesAssumption
<1>5. PICK m, num : m = Len(Head(tasks[r0])) /\ num = Max({num_micro_batches[other] : other \in Ranks})
  OBVIOUS
<1>6. \A r \in Ranks : Len(Head(tasks[r])) = m
  BY <1>3, <1>4, <1>5, SameLength
<1>7. m \in 1 .. RowsPerRank /\ m \in Nat \ {0} /\ phase \in {"log_prob", "update"}
  BY <1>3, <1>4, <1>5, WorkingRank
<1>8. num \in 1 .. m
  <2>1. PICK nums : nums = num_micro_batches
    OBVIOUS
  <2>2. \A r \in Ranks : nums[r] \in 1 .. m
    BY <1>3, <1>6, <2>1
  <2>3. Max({nums[other] : other \in Ranks}) \in 1 .. m
    BY <1>7, <2>2, AgreedRange
  <2> QED BY <1>5, <2>1, <2>3
<1>9. \A r \in Ranks : AgreedNumber(r) = num
  BY <1>5 DEF AgreedNumber
<1>10. ASSUME NEW r \in Ranks
       PROVE  /\ RankIsRight(pc'[r], tasks'[r], num_micro_batches'[r], batch_idx_list'[r], next'[r],
                             outputs'[r], workload')
              /\ num_micro_batches'[r] \in 0 .. RowsPerRank
              /\ batch_idx_list'[r] \in Seq(Seq(1 .. RowsPerRank))
  <2>1. PICK todo, batch, v, w, lists : /\ todo = tasks[r] /\ batch = Head(todo) /\ v = workload
                                        /\ w = [i \in 1 .. m |-> v[batch[i]]]
                                        /\ lists = Cut(w, m, num)
    OBVIOUS
  <2>2. batch \in Seq(Rows) /\ Len(batch) = m /\ todo # << >>
    BY <1>3, <1>6, <2>1, WorkingRank
  <2>3. Partitioned(batch, num) = lists
    <3>1. w = [i \in 1 .. m |-> workload[batch[i]]]
      BY <2>1
    <3> QED BY <1>7, <2>1, <2>2, <3>1, PartitionedIsCut
  <2>4. /\ pc'[r] = "gather" /\ tasks'[r] = todo /\ num_micro_batches'[r] = num
        /\ batch_idx_list'[r] = lists /\ next'[r] = 1 /\ outputs'[r] = << >> /\ workload' = v
    BY <1>1, <1>2, <1>3, <1>9, <2>1, <2>3
  <2>5. RankIsRight("gather", todo, num, lists, 1, << >>, v)
    <3>1. \A row \in Rows : v[row] \in Nat \ {0}
      BY <1>2, <2>1 DEF WorkIsPositive
    <3> QED BY <1>7, <1>8, <2>1, <2>2, <3>1, SplitBegins
  <2>6. PICK at, one, none : at = "gather" /\ one = 1 /\ none = << >>
    OBVIOUS
  <2>7. PICK B : B = MaxWork(v, ToSet(batch))
    OBVIOUS
  <2>8. IsSplit(batch, num, lists, v, B)
    <3>1. at = "gather" /\ RankIsRight(at, todo, num, lists, one, none, v)
      BY <2>5, <2>6
    <3> QED BY <2>1, <2>7, <3>1 DEF RankIsRight
  <2>9. num \in 0 .. RowsPerRank /\ lists \in Seq(Seq(1 .. RowsPerRank))
    BY <1>7, <2>2, <2>8, SplitType
  <2> QED BY <2>4, <2>5, <2>9, Zenon
<1>11. TypeOK'
  <2>1. num_micro_batches' \in [Ranks -> 0 .. RowsPerRank]
    BY <1>1, <1>10
  <2>2. batch_idx_list' \in [Ranks -> Seq(Seq(1 .. RowsPerRank))]
    <3>1. PICK T : T = Seq(Seq(1 .. RowsPerRank))
      OBVIOUS
    <3>2. \A r \in Ranks : batch_idx_list'[r] \in T
      BY <1>10, <3>1
    <3>3. batch_idx_list' = [r \in Ranks |-> batch_idx_list'[r]]
      BY <1>1
    <3> QED BY <3>1, <3>2, <3>3
  <2>3. next' \in [Ranks -> 1 .. RowsPerRank + 1]
    BY <1>1, RankNumbers
  <2>4. pc' \in [Ranks -> {"idle", "all_reduce", "gather", "forward", "restore", "step"}]
    BY <1>1
  <2> QED BY <1>1, <2>1, <2>2, <2>3, <2>4 DEF TypeOK
<1>12. RanksAreRight'
  BY <1>10 DEF RanksAreRight
<1>13. BatchesAreSmall'
  BY <1>1 DEF BatchesAreSmall
<1>14. RowsAreDealt'
  BY <1>1, <1>2 DEF RowsAreDealt
<1>15. PhaseIsRight'
  <2>1. \A r \in Ranks : pc'[r] = "gather"
    BY <1>1
  <2>2. \A r \in Ranks : LogProbTask(pc[r], tasks[r], rows[r], log_probs[r])
                            => LogProbTask(pc'[r], tasks'[r], rows'[r], log_probs'[r])
    BY <1>1, <2>1 DEF LogProbTask
  <2> QED BY <1>1, <1>7, <2>1, <2>2 DEF PhaseIsRight
<1> QED BY <1>11, <1>12, <1>13, <1>14, <1>15 DEF IInv

LEMMA GatherParametersInv ==
    ASSUME MicroBatchesAssumption, IInv, GatherParameters
    PROVE  IInv'
<1>1. /\ TypeOK /\ RanksAreRight /\ BatchesAreSmall /\ RowsAreDealt /\ PhaseIsRight
      /\ \A r \in Ranks : pc[r] = "gather"
      /\ pc' = [r \in Ranks |-> "forward"]
      /\ UNCHANGED << seqlen, phase, rows, tasks, num_micro_batches, batch_idx_list, next, outputs,
                      log_probs >>
  BY DEF IInv, GatherParameters, AllWaitFor, AllGo, batchVars
<1>2. workload' = workload
  BY <1>1 DEF workload
<1>3. TypeOK'
  BY <1>1 DEF TypeOK
<1>4. ASSUME NEW r \in Ranks
      PROVE  RankIsRight(pc'[r], tasks'[r], num_micro_batches'[r], batch_idx_list'[r], next'[r],
                         outputs'[r], workload')
  <2>1. PICK at, todo, num, lists, nxt, out, v :
            /\ at = pc[r] /\ todo = tasks[r] /\ num = num_micro_batches[r]
            /\ lists = batch_idx_list[r] /\ nxt = next[r] /\ out = outputs[r] /\ v = workload
    OBVIOUS
  <2>2. at = "gather" /\ RankIsRight(at, todo, num, lists, nxt, out, v)
    BY <1>1, <2>1 DEF RanksAreRight
  <2>3. PICK to : to = "forward"
    OBVIOUS
  <2>4. RankIsRight(to, todo, num, lists, nxt, out, v)
    BY <2>2, <2>3 DEF RankIsRight
  <2>5. /\ pc'[r] = to /\ tasks'[r] = todo /\ num_micro_batches'[r] = num
        /\ batch_idx_list'[r] = lists /\ next'[r] = nxt /\ outputs'[r] = out /\ workload' = v
    BY <1>1, <1>2, <2>1, <2>3
  <2> QED BY <2>4, <2>5, Zenon
<1>5. RanksAreRight'
  BY <1>4 DEF RanksAreRight
<1>6. BatchesAreSmall'
  BY <1>1 DEF BatchesAreSmall
<1>7. RowsAreDealt'
  BY <1>1, <1>2 DEF RowsAreDealt
<1>8. PhaseIsRight'
  <2>1. PICK r0 : r0 \in Ranks
    BY DEF MicroBatchesAssumption
  <2>2. ~ (phase \in {"balance", "done"})
    BY <1>1, <2>1 DEF PhaseIsRight
  <2>3. \A r \in Ranks : LogProbTask(pc[r], tasks[r], rows[r], log_probs[r])
                            => LogProbTask(pc'[r], tasks'[r], rows'[r], log_probs'[r])
    BY <1>1 DEF LogProbTask
  <2> QED BY <1>1, <2>2, <2>3 DEF PhaseIsRight
<1> QED BY <1>3, <1>5, <1>6, <1>7, <1>8 DEF IInv

LEMMA MicroBatchIsMapped ==
    ASSUME NEW r, NEW i
    PROVE  MicroBatch(r, i) = MapOf(Head(tasks[r]), batch_idx_list[r][i])
BY DEF MicroBatch, MapOf

LEMMA ForwardInv ==
    ASSUME MicroBatchesAssumption, IInv, NEW r \in Ranks, Forward(r)
    PROVE  IInv'
<1>1. /\ TypeOK /\ RanksAreRight /\ BatchesAreSmall /\ RowsAreDealt /\ PhaseIsRight
      /\ pc[r] = "forward"
      /\ outputs' = [outputs EXCEPT ![r] = @ \o MicroBatch(r, next[r])]
      /\ next' = [next EXCEPT ![r] = @ + 1]
      /\ pc' = [pc EXCEPT ![r] = IF next[r] # num_micro_batches[r] THEN "gather"
                                 ELSE IF phase = "log_prob" THEN "restore" ELSE "step"]
      /\ UNCHANGED << seqlen, phase, rows, tasks, num_micro_batches, batch_idx_list, log_probs >>
  BY DEF IInv, Forward, Goes, LastMicroBatch
<1>2. workload' = workload
  BY <1>1 DEF workload
<1>3. PICK todo, batch, num, lists, nxt, out, v :
          /\ todo = tasks[r] /\ batch = Head(todo) /\ num = num_micro_batches[r]
          /\ lists = batch_idx_list[r] /\ nxt = next[r] /\ out = outputs[r] /\ v = workload
  OBVIOUS
<1>4. PICK at : at = IF nxt # num THEN "gather"
                     ELSE IF phase = "log_prob" THEN "restore" ELSE "step"
  OBVIOUS
<1>5. GoesOn(at, nxt, num)
  BY <1>4 DEF GoesOn
<1>6. RankIsRight("forward", todo, num, lists, nxt, out, v)
  BY <1>1, <1>3 DEF RanksAreRight
<1>7. todo # << >>
  <2>1. PICK at0 : at0 = "forward"
    OBVIOUS
  <2>2. RankIsRight(at0, todo, num, lists, nxt, out, v) /\ at0 # "idle"
    BY <1>6, <2>1
  <2> QED BY <2>2 DEF RankIsRight
<1>8. batch \in Seq(Rows) /\ Len(batch) \in 1 .. RowsPerRank /\ phase \in {"log_prob", "update"}
  BY <1>3, <1>7, WorkingRank
<1>9. PICK out1 : out1 = out \o MapOf(batch, lists[nxt])
  OBVIOUS
<1>10. RankIsRight(at, todo, num, lists, nxt + 1, out1, v) /\ out1 \in Seq(Rows) /\ nxt \in 1 .. num
  <2>1. /\ RankIsRight(at, todo, num, lists, nxt + 1, out \o MapOf(batch, lists[nxt]), v)
        /\ out \o MapOf(batch, lists[nxt]) \in Seq(Rows)
        /\ nxt \in 1 .. num
    BY <1>3, <1>5, <1>6, <1>8, SplitGoesOn
  <2> QED BY <1>9, <2>1, Zenon
<1>11. /\ pc'[r] = at /\ next'[r] = nxt + 1 /\ tasks'[r] = todo /\ num_micro_batches'[r] = num
       /\ batch_idx_list'[r] = lists /\ workload' = v
  BY <1>1, <1>2, <1>3, <1>4 DEF TypeOK
<1>12. outputs'[r] = out1 /\ outputs' = [outputs EXCEPT ![r] = out1]
  <2>1. PICK more : more = MapOf(batch, lists[nxt])
    OBVIOUS
  <2>2. MicroBatch(r, next[r]) = more
    BY <1>3, <2>1, MicroBatchIsMapped
  <2>3. out1 = outputs[r] \o more
    BY <1>3, <1>9, <2>1, Zenon
  <2>4. outputs' = [outputs EXCEPT ![r] = outputs[r] \o more]
    BY <1>1, <2>2
  <2>5. outputs' = [outputs EXCEPT ![r] = out1]
    BY <2>3, <2>4, Zenon
  <2> QED BY <1>1, <2>5 DEF TypeOK
<1>13. TypeOK'
  <2>1. outputs' \in [Ranks -> Seq(Rows)]
    BY <1>1, <1>10, <1>12 DEF TypeOK
  <2>2. nxt + 1 \in 1 .. RowsPerRank + 1
    <3>1. num \in 0 .. RowsPerRank /\ RowsPerRank \in Nat
      BY <1>1, <1>3, RankNumbers DEF TypeOK
    <3> QED BY <1>10, <3>1
  <2>3. next' \in [Ranks -> 1 .. RowsPerRank + 1]
    BY <1>1, <1>3, <2>2 DEF TypeOK
  <2>4. pc' \in [Ranks -> {"idle", "all_reduce", "gather", "forward", "restore", "step"}]
    BY <1>1 DEF TypeOK
  <2> QED BY <1>1, <2>1, <2>3, <2>4 DEF TypeOK
<1>14. RanksAreRight'
  <2> SUFFICES ASSUME NEW s \in Ranks
               PROVE  RankIsRight(pc'[s], tasks'[s], num_micro_batches'[s], batch_idx_list'[s],
                                  next'[s], outputs'[s], workload')
    BY DEF RanksAreRight
  <2>1. CASE s = r
    BY <1>10, <1>11, <1>12, <2>1, Zenon
  <2>2. CASE s # r
    <3>1. /\ pc'[s] = pc[s] /\ tasks'[s] = tasks[s] /\ num_micro_batches'[s] = num_micro_batches[s]
          /\ batch_idx_list'[s] = batch_idx_list[s] /\ next'[s] = next[s] /\ outputs'[s] = outputs[s]
      BY <1>1, <2>2 DEF TypeOK
    <3> QED BY <1>1, <1>2, <3>1 DEF RanksAreRight
  <2> QED BY <2>1, <2>2
<1>15. BatchesAreSmall'
  BY <1>1 DEF BatchesAreSmall
<1>16. RowsAreDealt'
  BY <1>1, <1>2 DEF RowsAreDealt
<1>17. PhaseIsRight'
  <2>1. CASE phase = "log_prob"
    <3>1. \A s \in Ranks : pc'[s] # "step"
      BY <1>1, <2>1 DEF TypeOK, PhaseIsRight, LogProbTask
    <3>2. \A s \in Ranks : LogProbTask(pc[s], tasks[s], rows[s], log_probs[s])
      BY <1>1, <2>1 DEF PhaseIsRight
    <3>3. \A s \in Ranks : LogProbTask(pc'[s], tasks'[s], rows'[s], log_probs'[s])
      BY <1>1, <3>1, <3>2 DEF LogProbTask
    <3> QED BY <1>1, <2>1, <3>3 DEF PhaseIsRight
  <2>2. CASE phase = "update"
    <3>1. \A s \in Ranks : pc'[s] # "restore"
      BY <1>1, <2>2 DEF TypeOK, PhaseIsRight
    <3> QED BY <1>1, <2>2, <3>1 DEF PhaseIsRight
  <2> QED BY <1>8, <2>1, <2>2
<1> QED BY <1>13, <1>14, <1>15, <1>16, <1>17 DEF IInv

LEMMA RestoreOrderInv ==
    ASSUME MicroBatchesAssumption, IInv, NEW r \in Ranks, RestoreOrder(r)
    PROVE  IInv'
<1>1. /\ TypeOK /\ RanksAreRight /\ BatchesAreSmall /\ RowsAreDealt /\ PhaseIsRight
      /\ pc[r] = "restore"
      /\ log_probs' = [log_probs EXCEPT ![r] = Restored(outputs[r], batch_idx_list[r])]
      /\ tasks' = [tasks EXCEPT ![r] = Tail(@)]
      /\ pc' = [pc EXCEPT ![r] = "idle"]
      /\ UNCHANGED << seqlen, phase, rows, num_micro_batches, batch_idx_list, next, outputs >>
  BY DEF IInv, RestoreOrder, Goes, batchVars
<1>2. workload' = workload
  BY <1>1 DEF workload
<1>3. PICK todo, batch, num, lists, nxt, out, v :
          /\ todo = tasks[r] /\ batch = Head(todo) /\ num = num_micro_batches[r]
          /\ lists = batch_idx_list[r] /\ nxt = next[r] /\ out = outputs[r] /\ v = workload
  OBVIOUS
<1>4. RankIsRight("restore", todo, num, lists, nxt, out, v)
  BY <1>1, <1>3 DEF RanksAreRight
<1>5. todo # << >>
  <2>1. PICK at0 : at0 = "restore"
    OBVIOUS
  <2>2. RankIsRight(at0, todo, num, lists, nxt, out, v) /\ at0 # "idle"
    BY <1>4, <2>1
  <2> QED BY <2>2 DEF RankIsRight
<1>6. /\ batch \in Seq(Rows) /\ phase \in {"log_prob", "update"}
      /\ todo \in Seq(Seq(Rows)) /\ SmallBatches(todo)
      /\ phase = "log_prob" => todo = << rows[r] >> /\ batch = rows[r]
  BY <1>3, <1>5, WorkingRank
<1>7. phase = "log_prob"
  BY <1>1, <1>6 DEF PhaseIsRight
<1>8. Restored(out, lists) = batch
  BY <1>3, <1>4, <1>6, RestoredBatch
<1>9. log_probs'[r] = rows[r] /\ log_probs' = [log_probs EXCEPT ![r] = batch]
  BY <1>1, <1>3, <1>6, <1>7, <1>8 DEF TypeOK
<1>10. Tail(todo) = << >> /\ tasks'[r] = << >>
  <2>1. Tail(todo) = << >>
    <3>1. PICK T, tail : T = Seq(Rows) /\ tail = Tail(todo)
      OBVIOUS
    <3>2. Len(todo) = 1
      BY <1>6, <1>7
    <3>3. tail \in Seq(T) /\ Len(tail) = 0
      BY <1>5, <1>6, <3>1, <3>2, FirstBatch
    <3> QED BY <3>1, <3>3, EmptySeq
  <2> QED BY <1>1, <1>3, <2>1 DEF TypeOK
<1>11. \A s \in Ranks : s # r => /\ pc'[s] = pc[s] /\ tasks'[s] = tasks[s]
                                /\ log_probs'[s] = log_probs[s]
  BY <1>1 DEF TypeOK
<1>12. pc'[r] = "idle"
  BY <1>1 DEF TypeOK
<1>13. << >> \in Seq(Seq(Rows)) /\ SmallBatches(<< >>)
  <2>1. PICK T : T = Seq(Rows)
    OBVIOUS
  <2>2. << >> \in Seq(T)
    BY EmptySeq
  <2>3. SmallBatches(<< >>)
    BY DEF SmallBatches
  <2> QED BY <2>1, <2>2, <2>3
<1>14. TypeOK'
  <2>1. log_probs' \in [Ranks -> Seq(Rows)]
    BY <1>1, <1>6, <1>9 DEF TypeOK
  <2>2. tasks' \in [Ranks -> Seq(Seq(Rows))]
    <3>1. PICK T : T = Seq(Seq(Rows))
      OBVIOUS
    <3>2. tasks \in [Ranks -> T] /\ tasks' = [tasks EXCEPT ![r] = << >>] /\ << >> \in T
      BY <1>1, <1>3, <1>10, <1>13, <3>1 DEF TypeOK
    <3> QED BY <3>1, <3>2
  <2>3. pc' \in [Ranks -> {"idle", "all_reduce", "gather", "forward", "restore", "step"}]
    BY <1>1 DEF TypeOK
  <2> QED BY <1>1, <2>1, <2>2, <2>3 DEF TypeOK
<1>15. RanksAreRight'
  <2> SUFFICES ASSUME NEW s \in Ranks
               PROVE  RankIsRight(pc'[s], tasks'[s], num_micro_batches'[s], batch_idx_list'[s],
                                  next'[s], outputs'[s], workload')
    BY DEF RanksAreRight
  <2>1. CASE s = r
    BY <1>12, <2>1 DEF RankIsRight
  <2>2. CASE s # r
    BY <1>1, <1>2, <1>11, <2>2 DEF RanksAreRight
  <2> QED BY <2>1, <2>2
<1>16. BatchesAreSmall'
  <2>1. \A s \in Ranks : SmallBatches(tasks'[s])
    BY <1>1, <1>10, <1>11, <1>13 DEF BatchesAreSmall
  <2> QED BY <2>1 DEF BatchesAreSmall
<1>17. RowsAreDealt'
  BY <1>1, <1>2 DEF RowsAreDealt
<1>18. PhaseIsRight'
  <2>1. \A s \in Ranks : LogProbTask(pc[s], tasks[s], rows[s], log_probs[s])
    BY <1>1, <1>7 DEF PhaseIsRight
  <2>2. \A s \in Ranks : LogProbTask(pc'[s], tasks'[s], rows'[s], log_probs'[s])
    BY <1>1, <1>9, <1>10, <1>11, <1>12, <2>1 DEF LogProbTask
  <2> QED BY <1>1, <1>7, <2>2 DEF PhaseIsRight
<1> QED BY <1>14, <1>15, <1>16, <1>17, <1>18 DEF IInv

LEMMA TailsAlike ==
    ASSUME MicroBatchesAssumption,
           NEW todo1 \in Seq(Seq(Rows)), SmallBatches(todo1), todo1 # << >>,
           NEW todo2 \in Seq(Seq(Rows)), SmallBatches(todo2), todo2 # << >>,
           SameShape(todo1, todo2)
    PROVE  SameShape(Tail(todo1), Tail(todo2))
<1>1. PICK n, tail1, tail2 : n = Len(todo1) /\ tail1 = Tail(todo1) /\ tail2 = Tail(todo2)
  OBVIOUS
<1>2. Len(todo2) = n /\ \A i \in 1 .. n : Len(todo1[i]) = Len(todo2[i])
  BY <1>1 DEF SameShape
<1>3. /\ Len(tail1) = n - 1 /\ \A i \in 1 .. n - 1 : tail1[i] = todo1[i + 1]
      /\ Len(tail2) = n - 1 /\ \A i \in 1 .. n - 1 : tail2[i] = todo2[i + 1]
  BY <1>1, <1>2, FirstBatch
<1>4. n \in Nat
  <2>1. PICK T : T = Seq(Rows)
    OBVIOUS
  <2> QED BY <1>1, <2>1, LenProperties
<1>5. ASSUME NEW i \in 1 .. n - 1 PROVE Len(tail1[i]) = Len(tail2[i])
  <2>1. PICK j : j = i + 1
    OBVIOUS
  <2>2. j \in 1 .. n /\ tail1[i] = todo1[j] /\ tail2[i] = todo2[j]
    BY <1>3, <1>4, <2>1
  <2> QED BY <1>2, <2>2
<1>6. SameShape(tail1, tail2)
  BY <1>3, <1>5 DEF SameShape
<1> QED BY <1>1, <1>6

LEMMA OptimizerStepInv ==
    ASSUME MicroBatchesAssumption, IInv, OptimizerStep
    PROVE  IInv'
<1>1. /\ TypeOK /\ RanksAreRight /\ BatchesAreSmall /\ RowsAreDealt /\ PhaseIsRight
      /\ \A r \in Ranks : pc[r] = "step"
      /\ tasks' = [r \in Ranks |-> Tail(tasks[r])]
      /\ pc' = [r \in Ranks |-> "idle"]
      /\ UNCHANGED << seqlen, phase, rows, num_micro_batches, batch_idx_list, next, outputs, log_probs >>
  BY DEF IInv, OptimizerStep, AllWaitFor, AllGo, batchVars
<1>2. workload' = workload
  BY <1>1 DEF workload
<1>3. ASSUME NEW r \in Ranks
      PROVE  tasks[r] # << >> /\ tasks[r] \in Seq(Seq(Rows)) /\ SmallBatches(tasks[r])
  <2>1. RankIsRight(pc[r], tasks[r], num_micro_batches[r], batch_idx_list[r], next[r], outputs[r],
                    workload)
    BY <1>1 DEF RanksAreRight
  <2>2. tasks[r] # << >>
    BY <1>1, <2>1 DEF RankIsRight
  <2> QED BY <2>2, WorkingRank
<1>4. PICK r0 : r0 \in Ranks
  BY DEF MicroBatchesAssumption
<1>5. phase = "update"
  <2>1. phase \in {"log_prob", "update"}
    BY <1>3, <1>4, WorkingRank
  <2>2. phase # "log_prob"
    BY <1>1, <1>4 DEF PhaseIsRight, LogProbTask
  <2> QED BY <2>1, <2>2
<1>6. ASSUME NEW r \in Ranks
      PROVE  tasks'[r] \in Seq(Seq(Rows)) /\ SmallBatches(tasks'[r]) /\ tasks'[r] = Tail(tasks[r])
  <2>1. PICK todo : todo = tasks[r]
    OBVIOUS
  <2>2. Tail(todo) \in Seq(Seq(Rows)) /\ SmallBatches(Tail(todo))
    BY <1>3, <2>1, FirstBatch
  <2>3. tasks'[r] = Tail(todo)
    BY <1>1, <2>1
  <2> QED BY <2>1, <2>2, <2>3
<1>7. TypeOK'
  <2>1. tasks' \in [Ranks -> Seq(Seq(Rows))]
    <3>1. PICK T : T = Seq(Seq(Rows))
      OBVIOUS
    <3>2. \A r \in Ranks : tasks'[r] \in T
      BY <1>6, <3>1
    <3>3. tasks' = [r \in Ranks |-> tasks'[r]]
      BY <1>1
    <3> QED BY <3>1, <3>2, <3>3
  <2>2. pc' \in [Ranks -> {"idle", "all_reduce", "gather", "forward", "restore", "step"}]
    BY <1>1
  <2> QED BY <1>1, <2>1, <2>2 DEF TypeOK
<1>8. RanksAreRight'
  <2>1. \A r \in Ranks : pc'[r] = "idle"
    BY <1>1
  <2> QED BY <2>1 DEF RanksAreRight, RankIsRight
<1>9. BatchesAreSmall'
  BY <1>6 DEF BatchesAreSmall
<1>10. RowsAreDealt'
  BY <1>1, <1>2 DEF RowsAreDealt
<1>11. PhaseIsRight'
  <2>1. ASSUME NEW r1 \in Ranks, NEW r2 \in Ranks PROVE SameShape(tasks'[r1], tasks'[r2])
    <3>1. PICK todo1, todo2 : todo1 = tasks[r1] /\ todo2 = tasks[r2]
      OBVIOUS
    <3>2. SameShape(todo1, todo2)
      BY <1>1, <1>5, <3>1 DEF PhaseIsRight
    <3>3. SameShape(Tail(todo1), Tail(todo2))
      BY <1>3, <3>1, <3>2, TailsAlike
    <3> QED BY <1>6, <3>1, <3>3
  <2>2. \A r \in Ranks : pc'[r] = "idle"
    BY <1>1
  <2> QED BY <1>1, <1>5, <2>1, <2>2 DEF PhaseIsRight
<1> QED BY <1>7, <1>8, <1>9, <1>10, <1>11 DEF IInv
-----------------------------------------------------------------------------
(* The theorems.                                                           *)

\* The invariant holds in every state of a training step: each rank that is in its loop has
\* a partition of its batch and has computed what the micro-batches before the next one say
\* (Init and every action of MicroBatches).
THEOREM StepInvariant == Spec => []IInv
<1> USE MicroBatchesAssumption
<1>1. Init => IInv
  BY InitInv
<1>2. IInv /\ [Next]_vars => IInv'
  <2> SUFFICES ASSUME IInv, [Next]_vars PROVE IInv'
    OBVIOUS
  <2>1. CASE BalanceBatch
    BY <2>1, BalanceBatchInv
  <2>2. CASE UpdateActor
    BY <2>2, UpdateActorInv
  <2>3. CASE Finish
    BY <2>3, FinishInv
  <2>4. CASE AllReduce
    BY <2>4, AllReduceInv
  <2>5. CASE GatherParameters
    BY <2>5, GatherParametersInv
  <2>6. CASE OptimizerStep
    BY <2>6, OptimizerStepInv
  <2>7. ASSUME NEW r \in Ranks, CountMicroBatches(r) PROVE IInv'
    BY <2>7, CountMicroBatchesInv
  <2>8. ASSUME NEW r \in Ranks, Forward(r) PROVE IInv'
    BY <2>8, ForwardInv
  <2>9. ASSUME NEW r \in Ranks, RestoreOrder(r) PROVE IInv'
    BY <2>9, RestoreOrderInv
  <2>10. CASE UNCHANGED vars
    <3>1. /\ TypeOK /\ RanksAreRight /\ BatchesAreSmall /\ RowsAreDealt /\ PhaseIsRight
          /\ UNCHANGED << seqlen, phase, rows, pc, tasks, num_micro_batches, batch_idx_list, next,
                          outputs, log_probs >>
      BY <2>10 DEF IInv, vars, batchVars
    <3>2. workload' = workload
      BY <3>1 DEF workload
    <3>3. TypeOK'
      BY <3>1 DEF TypeOK
    <3>4. RanksAreRight'
      BY <3>1, <3>2 DEF RanksAreRight
    <3>5. BatchesAreSmall'
      BY <3>1 DEF BatchesAreSmall
    <3>6. RowsAreDealt'
      BY <3>1, <3>2 DEF RowsAreDealt
    <3>7. PhaseIsRight'
      BY <3>1 DEF PhaseIsRight
    <3> QED BY <3>3, <3>4, <3>5, <3>6, <3>7 DEF IInv
  <2> QED BY <2>1, <2>2, <2>3, <2>4, <2>5, <2>6, <2>7, <2>8, <2>9, <2>10 DEF Next
<1> QED BY <1>1, <1>2, PTL DEF Spec

\* The variables keep their types, whatever the ranks do (all of MicroBatches).
THEOREM TypeCorrect == Spec => []TypeOK
<1>1. IInv => TypeOK
  BY DEF IInv
<1> QED BY <1>1, StepInvariant, PTL

\* What a rank that is in its loop has to do with its batch.
LEMMA RankInLoop ==
    ASSUME MicroBatchesAssumption, IInv, NEW r \in Ranks, InLoop(r)
    PROVE  /\ Head(tasks[r]) \in Seq(Rows)
           /\ IsSplit(Head(tasks[r]), num_micro_batches[r], batch_idx_list[r], workload,
                      MaxWork(workload, ToSet(Head(tasks[r]))))
           /\ Progress(Head(tasks[r]), batch_idx_list[r], next[r], outputs[r], Rows)
           /\ pc[r] \in {"restore", "step"} =>
                 Rest(batch_idx_list[r], next[r], Head(tasks[r])) = << >>
<1>1. PICK at, todo, batch, num, lists, nxt, out, v, B :
          /\ at = pc[r] /\ todo = tasks[r] /\ batch = Head(todo) /\ num = num_micro_batches[r]
          /\ lists = batch_idx_list[r] /\ nxt = next[r] /\ out = outputs[r] /\ v = workload
          /\ B = MaxWork(v, ToSet(batch))
  OBVIOUS
<1>2. RankIsRight(at, todo, num, lists, nxt, out, v)
  BY <1>1 DEF IInv, RanksAreRight
<1>3. at \in {"gather", "forward", "restore", "step"}
  BY <1>1 DEF InLoop
<1>4. IsSplit(batch, num, lists, v, B) /\ Progress(batch, lists, nxt, out, Rows) /\ todo # << >>
  BY <1>1, <1>2, <1>3 DEF RankIsRight
<1>5. batch \in Seq(Rows)
  BY <1>1, <1>4, WorkingRank
<1>6. at \in {"restore", "step"} => Rest(lists, nxt, batch) = << >>
  BY <1>1, <1>2, <1>5, SplitEnds
<1> QED BY <1>1, <1>4, <1>5, <1>6

\* The ranks get batches of one length and nearly the same work, and so do a rank's
\* micro-batches (_balance_batch and rearrange_micro_batches).
THEOREM WorkStaysBalanced == Spec => []WorkIsBalanced
<1> USE MicroBatchesAssumption
<1>1. ASSUME IInv PROVE WorkIsBalanced
  <2>1. ASSUME phase # "balance", NEW r1 \in Ranks, NEW r2 \in Ranks
        PROVE  /\ Len(rows[r1]) = Len(rows[r2])
               /\ WorkOf(rows[r1]) - WorkOf(rows[r2]) <= Heaviest(Rows) - Lightest(Rows)
    <3>1. IsDealt(rows, workload, Spread(workload))
      BY <1>1, <2>1 DEF IInv, RowsAreDealt
    <3>2. SumOf(workload, rows[r1]) - SumOf(workload, rows[r2]) <= Spread(workload)
      BY <3>1 DEF IsDealt
    <3>3. Len(rows[r1]) = Len(rows[r2])
      BY <3>1 DEF IsDealt
    <3>4. Spread(workload) = Heaviest(Rows) - Lightest(Rows)
      BY DEF Spread, Heaviest, Lightest
    <3> QED BY <3>2, <3>3, <3>4 DEF WorkOf
  <2>2. ASSUME NEW r \in Ranks, InLoop(r), NEW i \in DOMAIN batch_idx_list[r],
               NEW j \in DOMAIN batch_idx_list[r]
        PROVE  WorkOf(MicroBatch(r, i)) - WorkOf(MicroBatch(r, j)) <= Heaviest(ToSet(Head(tasks[r])))
    <3>1. PICK batch, num, lists, v, B : /\ batch = Head(tasks[r]) /\ num = num_micro_batches[r]
                                         /\ lists = batch_idx_list[r] /\ v = workload
                                         /\ B = MaxWork(v, ToSet(batch))
      OBVIOUS
    <3>2. IsSplit(batch, num, lists, v, B)
      BY <1>1, <2>2, <3>1, RankInLoop
    <3>3. DOMAIN lists = 1 .. num
      BY <3>2 DEF IsSplit, IsPartition
    <3>4. SumOf(v, MapOf(batch, lists[i])) - SumOf(v, MapOf(batch, lists[j])) <= B
      BY <2>2, <3>1, <3>2, <3>3 DEF IsSplit
    <3>5. MicroBatch(r, i) = MapOf(batch, lists[i]) /\ MicroBatch(r, j) = MapOf(batch, lists[j])
      BY <3>1, MicroBatchIsMapped
    <3>6. B = Heaviest(ToSet(Head(tasks[r])))
      BY <3>1 DEF MaxWork, Heaviest
    <3> QED BY <3>1, <3>4, <3>5, <3>6 DEF WorkOf
  <2> QED BY <2>1, <2>2 DEF WorkIsBalanced
<1> QED BY <1>1, StepInvariant, PTL

\* What is computed and what is left are the elements of the batch.
IsAll(all, out, left) == all = out \o FlattenSeq(left)

IsWhole(all, left, batch) ==
    /\ \A i \in DOMAIN left : left[i] # << >>
    /\ Len(all) = Len(batch) /\ ToSet(all) = ToSet(batch)

LEMMA WholeBatch ==
    ASSUME NEW S, NEW batch \in Seq(S), NEW num, NEW lists, NEW v, NEW B,
           IsSplit(batch, num, lists, v, B), NEW nxt, NEW out, Progress(batch, lists, nxt, out, S),
           NEW left, left = Rest(lists, nxt, batch), NEW all, IsAll(all, out, left)
    PROVE  IsWhole(all, left, batch)
<1>1. PICK m, indices : m = Len(batch) /\ indices = FlattenSeq(lists)
  OBVIOUS
<1>2. /\ num \in Nat \ {0} /\ m \in Nat /\ Cuts(lists, num, m, batch, S)
      /\ indices \in Seq(1 .. m) /\ Enumerates(indices, m, 1 .. m)
  BY <1>1, SplitCuts
<1>3. all = MapOf(batch, indices)
  BY <1>1, Zenon DEF Progress, IsAll
<1>4. DOMAIN indices = 1 .. m /\ \A i \in 1 .. m : indices[i] \in 1 .. m
  BY <1>2 DEF Enumerates
<1>5. all = [i \in 1 .. m |-> batch[indices[i]]]
  BY <1>3, <1>4 DEF MapOf
<1>6. Len(all) = m
  <2>1. \A i \in 1 .. m : batch[i] \in S
    BY <1>1, ElementOfSeq
  <2>2. all \in [1 .. m -> S]
    BY <1>4, <1>5, <2>1
  <2> QED BY <1>2, <2>2, ListOf
<1>7. ToSet(all) = ToSet(batch)
  <2>1. DOMAIN batch = 1 .. m /\ DOMAIN all = 1 .. m
    BY <1>1, <1>5, LenProperties
  <2>2. ASSUME NEW i \in 1 .. m PROVE \E j \in 1 .. m : all[i] = batch[j]
    BY <1>4, <1>5
  <2>3. ASSUME NEW j \in 1 .. m PROVE \E i \in 1 .. m : all[i] = batch[j]
    <3>1. PICK i \in 1 .. m : indices[i] = j
      BY <1>2 DEF Enumerates
    <3> QED BY <1>5, <3>1
  <2>4. ASSUME NEW x PROVE x \in ToSet(all) <=> x \in ToSet(batch)
    <3>1. x \in ToSet(all) <=> \E i \in 1 .. m : all[i] = x
      BY <2>1 DEF ToSet
    <3>2. x \in ToSet(batch) <=> \E i \in 1 .. m : batch[i] = x
      BY <2>1 DEF ToSet
    <3> QED BY <2>2, <2>3, <3>1, <3>2
  <2> QED BY <2>4
<1>8. ASSUME NEW i \in DOMAIN left PROVE left[i] # << >>
  <2>1. nxt \in 1 .. num + 1 /\ Len(lists) = num
    BY <1>2 DEF Progress, Cuts
  <2>2. PICK j : j = nxt + i - 1
    OBVIOUS
  <2>3. i \in 1 .. num + 1 - nxt /\ left[i] = MapOf(batch, lists[j])
    BY <2>1, <2>2 DEF Rest
  <2>4. j \in 1 .. num
    BY <1>2, <2>1, <2>2, <2>3
  <2>5. PICK list : list = lists[j]
    OBVIOUS
  <2>6. list \in Seq(1 .. m) /\ list # << >>
    BY <1>1, <2>4, <2>5 DEF IsSplit, IsPartition, NoneEmpty
  <2>7. Len(list) \in Nat /\ Len(list) # 0 /\ DOMAIN list = 1 .. Len(list)
    BY <2>6, LenProperties, EmptySeq
  <2>8. 1 \in DOMAIN list
    BY <2>7
  <2>9. DOMAIN MapOf(batch, list) = DOMAIN list
    BY DEF MapOf
  <2>10. PICK none : none = << >>
    OBVIOUS
  <2>11. DOMAIN none = {}
    BY <2>10
  <2> QED BY <2>3, <2>5, <2>8, <2>9, <2>10, <2>11
<1> QED BY <1>1, <1>6, <1>7, <1>8 DEF IsWhole

\* No row is lost or computed twice: a rank has computed or has still to compute each row of
\* its batch (the loops of compute_log_prob and update_policy).
THEOREM RowsAreComputedOnce == Spec => []EveryRowOnce
<1> USE MicroBatchesAssumption
<1>1. ASSUME IInv PROVE EveryRowOnce
  <2> SUFFICES ASSUME NEW r \in Ranks, InLoop(r),
                      NEW left, left = [i \in 1 .. Len(batch_idx_list[r]) + 1 - next[r] |->
                                           MicroBatch(r, next[r] + i - 1)],
                      NEW all, all = outputs[r] \o FlattenSeq(left)
               PROVE  /\ \A i \in DOMAIN left : left[i] # << >>
                      /\ Len(all) = Len(Head(tasks[r]))
                      /\ ToSet(all) = ToSet(Head(tasks[r]))
                      /\ pc[r] \in {"restore", "step"} => left = << >>
    BY Zenon DEF EveryRowOnce
  <2>1. PICK batch, num, lists, nxt, out, v, B :
            /\ batch = Head(tasks[r]) /\ num = num_micro_batches[r] /\ lists = batch_idx_list[r]
            /\ nxt = next[r] /\ out = outputs[r] /\ v = workload /\ B = MaxWork(v, ToSet(batch))
    OBVIOUS
  <2>2. left = Rest(lists, nxt, batch)
    BY <2>1 DEF MicroBatch, MapOf, Rest
  <2>3. /\ batch \in Seq(Rows) /\ IsSplit(batch, num, lists, v, B)
        /\ Progress(batch, lists, nxt, out, Rows)
        /\ pc[r] \in {"restore", "step"} => Rest(lists, nxt, batch) = << >>
    BY <1>1, <2>1, RankInLoop
  <2>4. IsAll(all, out, left)
    BY <2>1, Zenon DEF IsAll
  <2>5. IsWhole(all, left, batch)
    BY <2>2, <2>3, <2>4, WholeBatch
  <2> QED BY <2>1, <2>2, <2>3, <2>5 DEF IsWhole
<1> QED BY <1>1, StepInvariant, PTL

\* The driver gets the log probability of each row at the place of the row, although the
\* rank computed them in the order of its micro-batches (restore_dynamic_batch).
THEOREM LogProbsReturnInOrder == Spec => []LogProbsInOrder
<1>1. IInv => LogProbsInOrder
  BY DEF IInv, PhaseIsRight, LogProbsInOrder
<1> QED BY <1>1, StepInvariant, PTL

\* Every row of the batch goes to one rank, at one place (_balance_batch).
EveryRowToOneRank ==
    phase # "balance" =>
        \A row \in Rows :
            \E r \in Ranks : \E i \in DOMAIN rows[r] :
                /\ rows[r][i] = row
                /\ \A r2 \in Ranks : \A j \in DOMAIN rows[r2] : rows[r2][j] = row => r2 = r /\ j = i

\* What the driver deals out is the whole batch, and no row of it twice.
THEOREM RowsGoToOneRank == Spec => []EveryRowToOneRank
<1> USE MicroBatchesAssumption
<1>1. ASSUME IInv PROVE EveryRowToOneRank
  <2> SUFFICES ASSUME phase # "balance", NEW row \in Rows
               PROVE  \E r \in Ranks : \E i \in DOMAIN rows[r] :
                         /\ rows[r][i] = row
                         /\ \A r2 \in Ranks : \A j \in DOMAIN rows[r2] :
                               rows[r2][j] = row => r2 = r /\ j = i
    BY DEF EveryRowToOneRank
  <2>1. IsDealt(rows, workload, Spread(workload))
    BY <1>1 DEF IInv, RowsAreDealt
  <2>2. ASSUME NEW r \in Ranks PROVE DOMAIN rows[r] = 1 .. RowsPerRank
    <3>1. PICK own : own = rows[r]
      OBVIOUS
    <3>2. own \in Seq(Rows) /\ Len(own) = RowsPerRank
      BY <2>1, <3>1 DEF IsDealt
    <3> QED BY <3>1, <3>2, LenProperties
  <2>3. PICK r \in Ranks : \E i \in 1 .. RowsPerRank : rows[r][i] = row
    BY <2>1 DEF IsDealt
  <2>4. PICK i \in 1 .. RowsPerRank : rows[r][i] = row
    BY <2>3
  <2>5. ASSUME NEW r2 \in Ranks, NEW j \in DOMAIN rows[r2], rows[r2][j] = row
        PROVE  r2 = r /\ j = i
    <3>1. \A r1, r3 \in Ranks : \A a, b \in 1 .. RowsPerRank :
             rows[r1][a] = rows[r3][b] => r1 = r3 /\ a = b
      BY <2>1 DEF IsDealt
    <3>2. j \in 1 .. RowsPerRank /\ rows[r2][j] = rows[r][i]
      BY <2>2, <2>4, <2>5
    <3> QED BY <3>1, <3>2
  <2>6. i \in DOMAIN rows[r]
    BY <2>2
  <2> QED BY <2>4, <2>5, <2>6
<1> QED BY <1>1, StepInvariant, PTL
-----------------------------------------------------------------------------
(* No two ranks wait for each other in different collective operations.    *)

Loop == {"gather", "forward", "restore", "step"}

\* The number of micro-batches for which a rank has gathered the parameters.
Gathered(at, nxt) == IF at = "forward" THEN nxt ELSE nxt - 1

\* A rank that has still to agree on the number of micro-batches.
ToAgree(at, todo) == at \in {"idle", "all_reduce"} /\ todo # << >>

\* Two ranks have taken part in the same collective operations.
InStep(at1, todo1, num1, nxt1, at2, todo2, num2, nxt2) ==
    /\ ToAgree(at1, todo1) <=> ToAgree(at2, todo2)
    /\ at1 \in Loop =>
          IF at2 \in Loop THEN num1 = num2 /\ Gathered(at1, nxt1) = Gathered(at2, nxt2)
                          ELSE Gathered(at1, nxt1) = num1

RanksInStep ==
    \A r1, r2 \in Ranks : InStep(pc[r1], tasks[r1], num_micro_batches[r1], next[r1],
                                 pc[r2], tasks[r2], num_micro_batches[r2], next[r2])

LEMMA RanksInStepInit == Init => RanksInStep
BY DEF Init, RanksInStep, InStep, ToAgree, Loop

LEMMA NoLoopNoTask ==
    ASSUME MicroBatchesAssumption, IInv, phase \in {"balance", "done"}, NEW r \in Ranks
    PROVE  pc[r] = "idle" /\ tasks[r] = << >>
BY DEF IInv, PhaseIsRight

LEMMA RanksInStepStep ==
    ASSUME MicroBatchesAssumption, IInv, IInv', RanksInStep, [Next]_vars
    PROVE  RanksInStep'
<1>0. TypeOK
  BY DEF IInv
<1>1. ASSUME UNCHANGED << pc, tasks, num_micro_batches, next >> PROVE RanksInStep'
  BY <1>1 DEF RanksInStep
<1>2. ASSUME \A r \in Ranks : pc'[r] = "idle", \A r1, r2 \in Ranks : tasks'[r1] = << >> <=> tasks'[r2] = << >>
      PROVE  RanksInStep'
  <2> SUFFICES ASSUME NEW r1 \in Ranks, NEW r2 \in Ranks
               PROVE  InStep(pc'[r1], tasks'[r1], num_micro_batches'[r1], next'[r1],
                             pc'[r2], tasks'[r2], num_micro_batches'[r2], next'[r2])
    BY DEF RanksInStep
  <2>1. pc'[r1] = "idle" /\ pc'[r2] = "idle" /\ (tasks'[r1] = << >> <=> tasks'[r2] = << >>)
    BY <1>2
  <2> QED BY <2>1 DEF InStep, ToAgree, Loop
<1>3. CASE BalanceBatch
  <2>1. phase = "balance" /\ phase' = "log_prob" /\ pc' = pc /\ tasks' = [r \in Ranks |-> << rows'[r] >>]
    BY <1>3 DEF BalanceBatch
  <2>2. \A r \in Ranks : pc'[r] = "idle"
    BY <2>1, NoLoopNoTask
  <2>3. \A r \in Ranks : tasks'[r] # << >>
    BY <2>1
  <2> QED BY <1>2, <2>2, <2>3
<1>4. CASE UpdateActor
  <2>1. pc' = pc /\ phase' = "update" /\ \A r \in Ranks : pc[r] = "idle"
    BY <1>4 DEF UpdateActor, AllReturned
  <2>2. \A r1, r2 \in Ranks : SameShape(tasks'[r1], tasks'[r2])
    BY <2>1 DEF IInv, PhaseIsRight
  <2>3. ASSUME NEW r1 \in Ranks, NEW r2 \in Ranks PROVE tasks'[r1] = << >> <=> tasks'[r2] = << >>
    <3>1. PICK T : T = Seq(Rows)
      OBVIOUS
    <3>2. tasks'[r1] \in Seq(T) /\ tasks'[r2] \in Seq(T)
      BY <3>1 DEF IInv, TypeOK
    <3>3. Len(tasks'[r1]) = Len(tasks'[r2])
      BY <2>2 DEF SameShape
    <3> QED BY <3>2, <3>3, EmptySeq
  <2> QED BY <1>2, <2>1, <2>3
<1>5. CASE Finish
  BY <1>1, <1>5 DEF Finish, batchVars
<1>6. CASE AllReduce
  <2>1. /\ num_micro_batches' = [r \in Ranks |-> AgreedNumber(r)]
        /\ next' = [r \in Ranks |-> 1] /\ pc' = [r \in Ranks |-> "gather"]
    BY <1>6 DEF AllReduce, AllGo
  <2>2. \A r1, r2 \in Ranks : AgreedNumber(r1) = AgreedNumber(r2)
    BY DEF AgreedNumber
  <2> SUFFICES ASSUME NEW r1 \in Ranks, NEW r2 \in Ranks
               PROVE  InStep(pc'[r1], tasks'[r1], num_micro_batches'[r1], next'[r1],
                             pc'[r2], tasks'[r2], num_micro_batches'[r2], next'[r2])
    BY DEF RanksInStep
  <2>3. /\ pc'[r1] = "gather" /\ pc'[r2] = "gather" /\ next'[r1] = 1 /\ next'[r2] = 1
        /\ num_micro_batches'[r1] = num_micro_batches'[r2]
    BY <2>1, <2>2
  <2> QED BY <2>3 DEF InStep, ToAgree, Loop, Gathered
<1>7. CASE GatherParameters
  <2>1. /\ \A r \in Ranks : pc[r] = "gather"
        /\ pc' = [r \in Ranks |-> "forward"]
        /\ UNCHANGED << tasks, num_micro_batches, next >>
    BY <1>7 DEF GatherParameters, AllWaitFor, AllGo, batchVars
  <2> SUFFICES ASSUME NEW r1 \in Ranks, NEW r2 \in Ranks
               PROVE  InStep(pc'[r1], tasks'[r1], num_micro_batches'[r1], next'[r1],
                             pc'[r2], tasks'[r2], num_micro_batches'[r2], next'[r2])
    BY DEF RanksInStep
  <2>2. num_micro_batches[r1] = num_micro_batches[r2] /\ next[r1] - 1 = next[r2] - 1
    BY <2>1 DEF RanksInStep, InStep, Loop, Gathered
  <2>3. next[r1] \in Int /\ next[r2] \in Int
    BY <1>0, RankNumbers DEF TypeOK
  <2>4. next[r1] = next[r2]
    BY <2>2, <2>3
  <2>5. /\ pc'[r1] = "forward" /\ pc'[r2] = "forward" /\ next'[r1] = next'[r2]
        /\ num_micro_batches'[r1] = num_micro_batches'[r2]
    BY <2>1, <2>2, <2>4
  <2> QED BY <2>5 DEF InStep, ToAgree, Loop, Gathered
<1>8. CASE OptimizerStep
  <2>1. pc' = [r \in Ranks |-> "idle"] /\ phase' = phase /\ \A r \in Ranks : pc[r] = "step"
    BY <1>8 DEF OptimizerStep, AllGo, AllWaitFor
  <2>2. phase' = "update"
    <3>1. PICK r0 : r0 \in Ranks
      BY DEF MicroBatchesAssumption
    <3>2. phase \in {"balance", "log_prob", "update", "done"}
      BY <1>0 DEF TypeOK
    <3> QED BY <2>1, <3>1, <3>2 DEF IInv, PhaseIsRight, LogProbTask
  <2>3. ASSUME NEW r1 \in Ranks, NEW r2 \in Ranks PROVE tasks'[r1] = << >> <=> tasks'[r2] = << >>
    <3>1. PICK T : T = Seq(Rows)
      OBVIOUS
    <3>2. tasks'[r1] \in Seq(T) /\ tasks'[r2] \in Seq(T)
      BY <3>1 DEF IInv, TypeOK
    <3>3. SameShape(tasks'[r1], tasks'[r2])
      BY <2>2 DEF IInv, PhaseIsRight
    <3>4. Len(tasks'[r1]) = Len(tasks'[r2])
      BY <3>3 DEF SameShape
    <3> QED BY <3>2, <3>4, EmptySeq
  <2>4. \A r \in Ranks : pc'[r] = "idle"
    BY <2>1
  <2> QED BY <1>2, <2>3, <2>4
<1>9. ASSUME NEW r \in Ranks, CountMicroBatches(r) PROVE RanksInStep'
  <2>1. /\ pc[r] = "idle" /\ tasks[r] # << >> /\ pc' = [pc EXCEPT ![r] = "all_reduce"]
        /\ UNCHANGED << tasks, next >>
        /\ \A s \in Ranks : s # r => num_micro_batches'[s] = num_micro_batches[s]
    BY <1>0, <1>9 DEF CountMicroBatches, Goes, TypeOK
  <2>2. /\ pc'[r] = "all_reduce" /\ \A s \in Ranks : s # r => pc'[s] = pc[s]
    BY <1>0, <2>1 DEF TypeOK
  <2>3. \A s \in Ranks : pc[s] \notin Loop
    <3>1. ASSUME NEW s \in Ranks PROVE InStep(pc[s], tasks[s], num_micro_batches[s], next[s],
                                              pc[r], tasks[r], num_micro_batches[r], next[r])
      BY DEF RanksInStep
    <3>2. ASSUME NEW s \in Ranks PROVE ToAgree(pc[s], tasks[s])
      BY <2>1, <3>1 DEF InStep, ToAgree
    <3> QED BY <3>2 DEF ToAgree, Loop
  <2>4. \A s \in Ranks : pc'[s] \notin Loop
    BY <2>2, <2>3 DEF Loop
  <2>5. \A s \in Ranks : ToAgree(pc'[s], tasks'[s]) <=> ToAgree(pc[s], tasks[s])
    BY <2>1, <2>2 DEF ToAgree
  <2>6. \A s1, s2 \in Ranks : ToAgree(pc[s1], tasks[s1]) <=> ToAgree(pc[s2], tasks[s2])
    BY DEF RanksInStep, InStep
  <2> QED BY <2>4, <2>5, <2>6 DEF RanksInStep, InStep
<1>10. ASSUME NEW r \in Ranks, Forward(r) PROVE RanksInStep'
  <2>1. /\ pc[r] = "forward" /\ next' = [next EXCEPT ![r] = next[r] + 1]
        /\ pc' = [pc EXCEPT ![r] = IF ~LastMicroBatch(r) THEN "gather"
                                   ELSE IF phase = "log_prob" THEN "restore" ELSE "step"]
        /\ UNCHANGED << tasks, num_micro_batches >>
    BY <1>10 DEF Forward, Goes
  <2>2. /\ pc'[r] \in {"gather", "restore", "step"} /\ next'[r] = next[r] + 1 /\ next[r] \in Int
        /\ \A s \in Ranks : s # r => pc'[s] = pc[s] /\ next'[s] = next[s]
    BY <1>0, <2>1, RankNumbers DEF TypeOK
  <2>3. \A s \in Ranks : /\ Gathered(pc'[s], next'[s]) = Gathered(pc[s], next[s])
                         /\ pc'[s] \in Loop <=> pc[s] \in Loop
                         /\ ToAgree(pc'[s], tasks'[s]) <=> ToAgree(pc[s], tasks[s])
    BY <2>1, <2>2 DEF Gathered, Loop, ToAgree
  <2> QED BY <2>1, <2>3 DEF RanksInStep, InStep
<1>11. ASSUME NEW r \in Ranks, RestoreOrder(r) PROVE RanksInStep'
  <2>1. /\ pc[r] = "restore" /\ pc' = [pc EXCEPT ![r] = "idle"]
        /\ tasks' = [tasks EXCEPT ![r] = Tail(tasks[r])] /\ phase' = phase
        /\ UNCHANGED << num_micro_batches, next >>
    BY <1>11 DEF RestoreOrder, Goes, batchVars
  <2>2. /\ pc'[r] = "idle"
        /\ \A s \in Ranks : s # r => pc'[s] = pc[s] /\ tasks'[s] = tasks[s]
    BY <1>0, <2>1 DEF TypeOK
  <2>3. RankIsRight(pc[r], tasks[r], num_micro_batches[r], batch_idx_list[r], next[r], outputs[r], workload)
    BY DEF IInv, RanksAreRight
  <2>4. tasks[r] # << >>
    BY <2>1, <2>3 DEF RankIsRight
  <2>5. phase = "log_prob" /\ tasks[r] = << rows[r] >>
    <3>1. phase \in {"log_prob", "update"} /\ (phase = "log_prob" => tasks[r] = << rows[r] >>)
      BY <2>4, WorkingRank
    <3> QED BY <2>1, <3>1 DEF IInv, PhaseIsRight
  <2>6. tasks'[r] = << >>
    <3>1. LogProbTask(pc'[r], tasks'[r], rows'[r], log_probs'[r])
      BY <2>1, <2>5 DEF IInv, PhaseIsRight
    <3>2. tasks'[r] = Tail(<< rows[r] >>)
      BY <1>0, <2>1, <2>5 DEF TypeOK
    <3> QED BY <3>2
  <2>7. next[r] = num_micro_batches[r] + 1
    <3>1. PICK at, todo, batch, num, lists, nxt, out, v :
              /\ at = pc[r] /\ todo = tasks[r] /\ batch = Head(todo) /\ num = num_micro_batches[r]
              /\ lists = batch_idx_list[r] /\ nxt = next[r] /\ out = outputs[r] /\ v = workload
      OBVIOUS
    <3>2. at \in {"restore", "step"} /\ RankIsRight(at, todo, num, lists, nxt, out, v) /\ batch \in Seq(Rows)
      BY <2>1, <2>3, <2>4, <3>1, WorkingRank
    <3>3. nxt = num + 1
      BY <3>1, <3>2, SplitEnds
    <3> QED BY <3>1, <3>3
  <2>8. Gathered(pc[r], next[r]) = num_micro_batches[r]
    <3>1. num_micro_batches[r] \in Int
      BY <1>0, RankNumbers DEF TypeOK
    <3> QED BY <2>1, <2>7, <3>1 DEF Gathered
  <2>9. \A s1, s2 \in Ranks : ToAgree(pc[s1], tasks[s1]) <=> ToAgree(pc[s2], tasks[s2])
    BY DEF RanksInStep, InStep
  <2>10. \A s \in Ranks : ~ ToAgree(pc[s], tasks[s])
    BY <2>1, <2>9 DEF ToAgree
  <2>11. \A s \in Ranks : ~ ToAgree(pc'[s], tasks'[s])
    BY <2>2, <2>6, <2>10 DEF ToAgree
  <2>12. ASSUME NEW s1 \in Ranks, NEW s2 \in Ranks, pc'[s1] \in Loop
         PROVE  IF pc'[s2] \in Loop
                THEN /\ num_micro_batches'[s1] = num_micro_batches'[s2]
                     /\ Gathered(pc'[s1], next'[s1]) = Gathered(pc'[s2], next'[s2])
                ELSE Gathered(pc'[s1], next'[s1]) = num_micro_batches'[s1]
    <3>1. s1 # r /\ pc[s1] \in Loop /\ pc[r] \in Loop
      BY <2>1, <2>2, <2>12 DEF Loop
    <3>2. InStep(pc[s1], tasks[s1], num_micro_batches[s1], next[s1],
                 pc[r], tasks[r], num_micro_batches[r], next[r])
      BY DEF RanksInStep
    <3>3. Gathered(pc[s1], next[s1]) = num_micro_batches[s1]
      BY <2>8, <3>1, <3>2 DEF InStep
    <3>4. CASE s2 = r
      BY <2>1, <2>2, <3>1, <3>3, <3>4 DEF Loop
    <3>5. CASE s2 # r
      <4>1. InStep(pc[s1], tasks[s1], num_micro_batches[s1], next[s1],
                   pc[s2], tasks[s2], num_micro_batches[s2], next[s2])
        BY DEF RanksInStep
      <4>2. pc'[s1] = pc[s1] /\ pc'[s2] = pc[s2]
        BY <2>2, <3>1, <3>5
      <4> QED BY <2>1, <3>1, <4>1, <4>2 DEF InStep
    <3> QED BY <3>4, <3>5
  <2> QED BY <2>11, <2>12 DEF RanksInStep, InStep
<1>12. CASE UNCHANGED vars
  BY <1>1, <1>12 DEF vars, batchVars
<1> QED BY <1>3, <1>4, <1>5, <1>6, <1>7, <1>8, <1>9, <1>10, <1>11, <1>12 DEF Next

\* If every rank waits in a collective operation or has no work left, all of them wait in the
\* same one, or none has work left: the operation completes, or the driver goes on.
NobodyWaitsInVain ==
    (\A r \in Ranks : \/ pc[r] \in {"all_reduce", "gather", "step"}
                      \/ pc[r] = "idle" /\ tasks[r] = << >>)
        => \A r1, r2 \in Ranks : pc[r1] = pc[r2]

\* No rank is left alone in the all-reduce of the number of micro-batches, in a forward pass
\* or in the optimizer step: what StepEnds needs of the safety of the loop.
THEOREM RanksMeet == Spec => []NobodyWaitsInVain
<1> USE MicroBatchesAssumption
<1>1. ASSUME IInv, RanksInStep PROVE NobodyWaitsInVain
  <2> SUFFICES ASSUME \A r \in Ranks : \/ pc[r] \in {"all_reduce", "gather", "step"}
                                       \/ pc[r] = "idle" /\ tasks[r] = << >>,
                      NEW r1 \in Ranks, NEW r2 \in Ranks
               PROVE  pc[r1] = pc[r2]
    BY DEF NobodyWaitsInVain
  <2>1. ASSUME NEW r \in Ranks
        PROVE  RankIsRight(pc[r], tasks[r], num_micro_batches[r], batch_idx_list[r], next[r],
                           outputs[r], workload)
    BY <1>1 DEF IInv, RanksAreRight
  <2>2. ASSUME NEW r \in Ranks
        PROVE  /\ pc[r] # "idle" => tasks[r] # << >>
               /\ pc[r] = "gather" => next[r] <= num_micro_batches[r]
               /\ pc[r] = "step" => ~ (next[r] <= num_micro_batches[r])
    BY <2>1 DEF RankIsRight
  <2>3. ASSUME NEW r \in Ranks PROVE next[r] \in Int /\ num_micro_batches[r] \in Int
    BY <1>1, RankNumbers DEF IInv, TypeOK
  <2>4. ASSUME NEW s1 \in Ranks, NEW s2 \in Ranks
        PROVE  InStep(pc[s1], tasks[s1], num_micro_batches[s1], next[s1],
                      pc[s2], tasks[s2], num_micro_batches[s2], next[s2])
    BY <1>1 DEF RanksInStep
  <2>5. ASSUME NEW s1 \in Ranks, NEW s2 \in Ranks, pc[s1] = "all_reduce" PROVE pc[s2] = "all_reduce"
    <3>1. ToAgree(pc[s1], tasks[s1])
      BY <2>2, <2>5 DEF ToAgree
    <3>2. ToAgree(pc[s2], tasks[s2])
      BY <2>4, <3>1 DEF InStep
    <3> QED BY <3>2 DEF ToAgree
  <2>6. ASSUME NEW s1 \in Ranks, NEW s2 \in Ranks, pc[s1] = "gather" PROVE pc[s2] # "idle" /\ pc[s2] # "step"
    <3>1. next[s1] <= num_micro_batches[s1] /\ next[s1] - 1 # num_micro_batches[s1]
      BY <2>2, <2>3, <2>6
    <3>2. pc[s2] # "idle"
      BY <2>4, <2>6, <3>1 DEF InStep, Loop, Gathered
    <3>3. ASSUME pc[s2] = "step" PROVE FALSE
      <4>1. num_micro_batches[s1] = num_micro_batches[s2] /\ next[s1] - 1 = next[s2] - 1
        BY <2>4, <2>6, <3>3 DEF InStep, Loop, Gathered
      <4>2. ~ (next[s2] <= num_micro_batches[s2])
        BY <2>2, <3>3
      <4> QED BY <2>3, <3>1, <4>1, <4>2
    <3> QED BY <3>2, <3>3
  <2>7. ASSUME NEW s1 \in Ranks, NEW s2 \in Ranks, pc[s1] = "step" PROVE pc[s2] # "idle"
    <3> SUFFICES ASSUME pc[s2] = "idle" PROVE FALSE
      OBVIOUS
    <3>1. tasks[s1] # << >> /\ tasks[s2] = << >>
      BY <2>2, <2>7
    <3>2. phase = "update"
      <4>1. phase \in {"log_prob", "update"}
        BY <1>1, <3>1, WorkingRank
      <4> QED BY <1>1, <2>7, <4>1 DEF IInv, PhaseIsRight, LogProbTask
    <3>3. PICK todo1, todo2, T : todo1 = tasks[s1] /\ todo2 = tasks[s2] /\ T = Seq(Rows)
      OBVIOUS
    <3>4. Len(todo1) = Len(todo2)
      <4>1. SameShape(todo1, todo2)
        BY <1>1, <3>2, <3>3 DEF IInv, PhaseIsRight
      <4> QED BY <4>1 DEF SameShape
    <3>5. todo1 \in Seq(T) /\ todo2 \in Seq(T)
      BY <1>1, <3>3 DEF IInv, TypeOK
    <3> QED BY <3>1, <3>3, <3>4, <3>5, EmptySeq
  <2>8. \A s \in Ranks : pc[s] \in {"idle", "all_reduce", "gather", "step"}
    OBVIOUS
  <2> QED BY <2>5, <2>6, <2>7, <2>8
<1>2. Init => RanksInStep
  BY RanksInStepInit
<1>3. IInv /\ IInv' /\ RanksInStep /\ [Next]_vars => RanksInStep'
  BY RanksInStepStep
<1> QED BY <1>1, <1>2, <1>3, StepInvariant, PTL DEF Spec
=============================================================================
