----------------------- MODULE SequenceBalancingProofs -----------------------
(***************************************************************************)
(* What the differencing method of Karmarkar and Karp returns, for any     *)
(* number of items and sets: a partition of the items, balanced.           *)
(*                                                                         *)
(* First lemmas about natural numbers, lists and finite sets, for the      *)
(* proofs about loops: induction, functions defined by recursion, counting.*)
(* None of the library's induction theorems is used: they take an operator *)
(* as a parameter.                                                         *)
(***************************************************************************)
EXTENDS SequenceBalancing, FiniteSetTheorems, SequenceTheorems, WellFoundedInduction, TLAPS

(* Induction.                                                              *)

\* A set of naturals that is not empty has a smallest element.
LEMMA SmallestOf ==
    ASSUME NEW T, T \subseteq Nat, T # {}
    PROVE  \E x \in T : \A y \in T : x <= y
<1> DEFINE R == {ss \in Nat \X Nat : ss[1] < ss[2]}
<1>1. IsWellFoundedOn(R, Nat)
  BY NatLessThanWellFounded DEF OpToRel
<1> HIDE DEF R
<1>2. PICK x \in T : \A y \in T : ~ (<< y, x >> \in R)
  BY <1>1, WFMin
<1>3. \A y \in T : << y, x >> \in R <=> y < x
  BY DEF R
<1>4. \A y \in T : ~ (y < x)
  BY <1>2, <1>3
<1>5. QED  BY <1>4

\* A set that holds 0 and with i also i + 1 reaches m.
LEMMA Reaches ==
    ASSUME NEW m \in Nat, NEW T, 0 \in T, \A i \in 0 .. m - 1 : i \in T => i + 1 \in T
    PROVE  \A i \in 0 .. m : i \in T
<1> SUFFICES ASSUME NEW j \in 0 .. m, j \notin T PROVE FALSE
  OBVIOUS
<1>1. PICK rest : rest = {i \in 0 .. m : i \notin T}
  OBVIOUS
<1>2. rest \subseteq Nat /\ rest # {}
  BY <1>1
<1>3. PICK k \in rest : \A y \in rest : k <= y
  BY <1>2, SmallestOf
<1>4. k \in 0 .. m /\ k \notin T
  BY <1>1, <1>3
<1>5. k # 0
  BY <1>4
<1>6. k - 1 \in 0 .. m - 1 /\ k - 1 \notin rest
  BY <1>3, <1>4, <1>5
<1>7. QED  BY <1>1, <1>4, <1>6

\* Multiplying keeps the order.
LEMMA TimesMonotonic ==
    ASSUME NEW a \in Nat, NEW b \in Nat, a <= b, NEW m \in Nat
    PROVE  a * m \in Nat /\ b * m \in Nat /\ a * m <= b * m
<1>1. b - a \in Nat /\ (b - a) * m \in Nat /\ a * m \in Nat /\ b * m \in Nat
  OBVIOUS
<1>2. b * m = a * m + (b - a) * m
  OBVIOUS
<1> QED BY <1>1, <1>2

-----------------------------------------------------------------------------
(* Sequences and counting.                                                 *)

\* A function on 1 .. m is a sequence of length m.
LEMMA ListOf ==
    ASSUME NEW S, NEW m \in Nat, NEW s \in [1 .. m -> S]
    PROVE  s \in Seq(S) /\ Len(s) = m
<1>1. s \in Seq(S)
  BY SeqDef
<1>2. Len(s) \in Nat /\ DOMAIN s = 1 .. Len(s)
  BY <1>1, LenProperties
<1>3. 1 .. m = 1 .. Len(s)
  BY <1>2
<1>4. Len(s) = m
  <2>1. m \in 1 .. Len(s) \/ m = 0
    BY <1>3
  <2>2. Len(s) \in 1 .. m \/ Len(s) = 0
    BY <1>2, <1>3
  <2> QED BY <1>2, <2>1, <2>2
<1> QED BY <1>1, <1>4

\* Every member of S is among the c values of h.
Listed(S, h, c) == \A u \in S : \E q \in 0 .. c - 1 : h[q] = u

\* A set whose members are all listed among c values has at most c members.
LEMMA ListedCount ==
    ASSUME NEW c \in Nat, NEW S, NEW h, Listed(S, h, c)
    PROVE  IsFiniteSet(S) /\ Cardinality(S) \in Nat /\ Cardinality(S) <= c
<1>1. PICK T : T = {h[q] : q \in 0 .. c - 1}
  OBVIOUS
<1>2. PICK f : f = [q \in 0 .. c - 1 |-> h[q]]
  OBVIOUS
<1>3. f \in [0 .. c - 1 -> T] /\ \A t \in T : \E q \in 0 .. c - 1 : f[q] = t
  BY <1>1, <1>2
<1>4. f \in Surjection(0 .. c - 1, T)
  BY <1>3 DEF Surjection
<1>5. IsFiniteSet(0 .. c - 1) /\ Cardinality(0 .. c - 1) = c
  <2>1. 0 \in Int /\ c - 1 \in Int
    OBVIOUS
  <2>2. /\ IsFiniteSet(0 .. c - 1)
        /\ Cardinality(0 .. c - 1) = IF 0 > c - 1 THEN 0 ELSE c - 1 - 0 + 1
    BY <2>1, FS_Interval
  <2> QED BY <2>2
<1>6. IsFiniteSet(T) /\ Cardinality(T) <= c
  BY <1>4, <1>5, FS_Surjection
<1>7. S \in SUBSET T
  BY <1>1 DEF Listed
<1>8. IsFiniteSet(S) /\ Cardinality(S) <= Cardinality(T)
  BY <1>6, <1>7, FS_Subset
<1>9. Cardinality(S) \in Nat /\ Cardinality(T) \in Nat
  BY <1>6, <1>8, FS_CardinalityType
<1> QED BY <1>6, <1>8, <1>9

-----------------------------------------------------------------------------
(* Finite sets as lists.                                                   *)

\* A list of m elements that holds every element of S exactly once.
Enumerates(list, m, S) ==
    /\ list \in [1 .. m -> S]
    /\ \A i, j \in 1 .. m : list[i] = list[j] => i = j
    /\ \A x \in S : \E i \in 1 .. m : list[i] = x

LEMMA CountUp ==
    ASSUME NEW m \in Nat
    PROVE  IsFiniteSet(1 .. m) /\ Cardinality(1 .. m) = m
<1>1. /\ IsFiniteSet(1 .. m)
      /\ Cardinality(1 .. m) = IF 1 > m THEN 0 ELSE m - 1 + 1
  BY FS_Interval
<1> QED BY <1>1

LEMMA EnumeratedCount ==
    ASSUME NEW m \in Nat, NEW S, NEW list, Enumerates(list, m, S)
    PROVE  IsFiniteSet(S) /\ Cardinality(S) = m
<1>1. list \in Bijection(1 .. m, S)
  BY DEF Enumerates, Bijection, Injection, Surjection, IsInjective
<1>2. ExistsBijection(1 .. m, S)
  BY <1>1 DEF ExistsBijection
<1> QED BY <1>2, CountUp, FS_Bijection

LEMMA Enumerable ==
    ASSUME NEW S, IsFiniteSet(S)
    PROVE  /\ Cardinality(S) \in Nat
           /\ \E list : Enumerates(list, Cardinality(S), S)
<1>1. Cardinality(S) \in Nat /\ ExistsBijection(1 .. Cardinality(S), S)
  BY FS_CardinalityType
<1>2. PICK list : list \in Bijection(1 .. Cardinality(S), S)
  BY <1>1 DEF ExistsBijection
<1>3. Enumerates(list, Cardinality(S), S)
  BY <1>2 DEF Enumerates, Bijection, Injection, Surjection, IsInjective
<1> QED BY <1>1, <1>3

\* R says of any two elements of S which is not the greater one.
Compares(S, R) ==
    /\ \A x, y \in S : << x, y >> \in R \/ << y, x >> \in R
    /\ \A x, y, z \in S : << x, y >> \in R /\ << y, z >> \in R => << x, z >> \in R

\* A finite set that is not empty has a greatest element.
LEMMA Greatest ==
    ASSUME NEW S, IsFiniteSet(S), S # {}, NEW R, Compares(S, R)
    PROVE  \E x \in S : \A y \in S : << y, x >> \in R
<1>1. PICK m, list : m \in Nat /\ Enumerates(list, m, S)
  BY Enumerable
<1>2. PICK T : T = {i \in Nat : i = 0 \/ (\E x \in S : \A j \in 1 .. m : j <= i => << list[j], x >> \in R)}
  OBVIOUS
<1>3. 0 \in T
  BY <1>2
<1>4. ASSUME NEW i \in 0 .. m - 1, i \in T PROVE i + 1 \in T
  <2>1. PICK k : k = i + 1
    OBVIOUS
  <2>2. k \in 1 .. m /\ i \in Nat /\ \A j \in 1 .. m : j <= k <=> (j <= i \/ j = k)
    BY <1>1, <2>1
  <2>3. list[k] \in S /\ \A j \in 1 .. m : list[j] \in S
    BY <1>1, <2>2 DEF Enumerates
  <2>4. \E x \in S : \A j \in 1 .. m : j <= k => << list[j], x >> \in R
    <3>1. << list[k], list[k] >> \in R
      BY <2>3 DEF Compares
    <3>2. CASE i = 0
      <4>1. \A j \in 1 .. m : j <= k => j = k
        BY <2>1, <2>2, <3>2
      <4> QED BY <2>3, <3>1, <4>1
    <3>3. CASE i # 0
      <4>1. PICK x \in S : \A j \in 1 .. m : j <= i => << list[j], x >> \in R
        BY <1>2, <1>4, <3>3
      <4>2. CASE << list[k], x >> \in R
        BY <2>2, <4>1, <4>2
      <4>3. CASE << list[k], x >> \notin R
        <5>1. << x, list[k] >> \in R
          BY <2>3, <4>3 DEF Compares
        <5>2. ASSUME NEW j \in 1 .. m, j <= k PROVE << list[j], list[k] >> \in R
          <6>1. CASE j = k
            BY <3>1, <6>1
          <6>2. CASE j <= i
            <7>1. << list[j], x >> \in R
              BY <4>1, <6>2
            <7> QED BY <2>3, <5>1, <7>1 DEF Compares
          <6> QED BY <2>2, <5>2, <6>1, <6>2
        <5> QED BY <2>3, <5>2
      <4> QED BY <4>2, <4>3
    <3> QED BY <3>2, <3>3
  <2> QED BY <1>2, <2>1, <2>2, <2>4
<1>5. \A i \in 0 .. m - 1 : i \in T => i + 1 \in T
  BY <1>4
<1>6. \A i \in 0 .. m : i \in T
  BY <1>1, <1>3, <1>5, Reaches
<1>7. m \in T /\ m # 0
  <2>1. PICK y : y \in S
    OBVIOUS
  <2>2. \E i \in 1 .. m : list[i] = y
    BY <1>1, <2>1 DEF Enumerates
  <2>3. m # 0
    BY <2>2
  <2>4. m \in 0 .. m
    BY <1>1
  <2> QED BY <1>6, <2>3, <2>4
<1>8. PICK x \in S : \A j \in 1 .. m : j <= m => << list[j], x >> \in R
  BY <1>2, <1>7
<1>9. ASSUME NEW y \in S PROVE << y, x >> \in R
  <2>1. PICK j \in 1 .. m : list[j] = y
    BY <1>1 DEF Enumerates
  <2> QED BY <1>8, <2>1
<1> QED BY <1>9

-----------------------------------------------------------------------------
(* Recursion.                                                              *)

\* f begins with first, and its i-th value is made of the one before by step[i].
Follows(f, m, first, step) ==
    /\ f[0] = first
    /\ \A i \in 1 .. m : f[i] = step[i][f[i - 1]]

\* As far as g stays in D it is made in the same way.
Continues(g, m, D, first, step) ==
    /\ g[0] = first
    /\ \A i \in 1 .. m : g[i - 1] \in D => g[i] = step[i][g[i - 1]]

\* Values in D defined one after the other exist, and there is only one way to choose them.
Defines(f, m, D, first, step) ==
    /\ f \in [0 .. m -> D]
    /\ Follows(f, m, first, step)
    /\ \A g : Continues(g, m, D, first, step) => \A i \in 0 .. m : g[i] = f[i]

LEMMA Recursion ==
    ASSUME NEW m \in Nat, NEW D, NEW first \in D, NEW step \in [1 .. m -> [D -> D]]
    PROVE  \E f : Defines(f, m, D, first, step)
<1>1. PICK f \in [0 .. m -> D] : Follows(f, m, first, step)
  <2>1. PICK T : T = {k \in 0 .. m : \E f \in [0 .. m -> D] : Follows(f, k, first, step)}
    OBVIOUS
  <2>2. 0 \in T
    <3>1. PICK f : f = [i \in 0 .. m |-> first]
      OBVIOUS
    <3>2. f \in [0 .. m -> D] /\ Follows(f, 0, first, step)
      BY <3>1 DEF Follows
    <3> QED BY <2>1, <3>2
  <2>3. ASSUME NEW k \in 0 .. m - 1, k \in T PROVE k + 1 \in T
    <3>1. PICK f \in [0 .. m -> D] : Follows(f, k, first, step)
      BY <2>1, <2>3
    <3>2. PICK l : l = k + 1
      OBVIOUS
    <3>3. /\ l \in 1 .. m /\ l \in 0 .. m /\ k \in 0 .. m /\ l - 1 = k
          /\ \A i \in 1 .. l : i - 1 \in 0 .. m /\ i - 1 # l /\ (i = l \/ (i \in 1 .. k /\ i # l))
      BY <3>2
    <3>4. step[l][f[k]] \in D
      BY <3>3
    <3>5. PICK g : g = [f EXCEPT ![l] = step[l][f[k]]]
      OBVIOUS
    <3>6. g \in [0 .. m -> D]
      BY <3>3, <3>4, <3>5
    <3>7. g[l] = step[l][f[k]] /\ \A i \in 0 .. m : i # l => g[i] = f[i]
      BY <3>3, <3>5
    <3>8. g[0] = first
      BY <3>1, <3>3, <3>7 DEF Follows
    <3>9. ASSUME NEW i \in 1 .. l PROVE g[i] = step[i][g[i - 1]]
      <4>1. g[i - 1] = f[i - 1]
        BY <3>3, <3>7
      <4>2. CASE i = l
        BY <3>3, <3>7, <4>1, <4>2
      <4>3. CASE i \in 1 .. k /\ i # l
        <5>1. f[i] = step[i][f[i - 1]]
          BY <3>1, <4>3 DEF Follows
        <5>2. g[i] = f[i]
          BY <3>3, <3>7, <4>3
        <5> QED BY <4>1, <5>1, <5>2
      <4> QED BY <3>3, <4>2, <4>3
    <3>10. Follows(g, l, first, step)
      BY <3>8, <3>9 DEF Follows
    <3> QED BY <2>1, <3>2, <3>3, <3>6, <3>10
  <2>4. \A k \in 0 .. m - 1 : k \in T => k + 1 \in T
    BY <2>3
  <2>5. \A k \in 0 .. m : k \in T
    BY <2>2, <2>4, Reaches
  <2>6. m \in 0 .. m
    OBVIOUS
  <2> QED BY <2>1, <2>5, <2>6
<1>2. ASSUME NEW g, Continues(g, m, D, first, step)
      PROVE  \A i \in 0 .. m : g[i] = f[i]
  <2>1. PICK T : T = {i \in 0 .. m : g[i] = f[i]}
    OBVIOUS
  <2>2. 0 \in T
    BY <1>1, <1>2, <2>1 DEF Follows, Continues
  <2>3. ASSUME NEW i \in 0 .. m - 1, i \in T PROVE i + 1 \in T
    <3>1. PICK k : k = i + 1
      OBVIOUS
    <3>2. k \in 1 .. m /\ k \in 0 .. m /\ k - 1 = i /\ i \in 0 .. m
      BY <3>1
    <3>3. g[i] = f[i] /\ f[i] \in D
      BY <1>1, <2>1, <2>3, <3>2
    <3>4. g[k] = step[k][g[i]] /\ f[k] = step[k][f[i]]
      BY <1>1, <1>2, <3>2, <3>3 DEF Follows, Continues
    <3> QED BY <2>1, <3>1, <3>2, <3>3, <3>4
  <2>4. \A i \in 0 .. m - 1 : i \in T => i + 1 \in T
    BY <2>3
  <2>5. \A i \in 0 .. m : i \in T
    BY <2>2, <2>4, Reaches
  <2> QED BY <2>1, <2>5
<1> QED BY <1>1, <1>2 DEF Defines

-----------------------------------------------------------------------------
(* Orders.                                                                 *)

StrictOrder(S, R) ==
    /\ \A x \in S : << x, x >> \notin R
    /\ \A x, y \in S : x # y => << x, y >> \in R \/ << y, x >> \in R
    /\ \A x, y, z \in S : << x, y >> \in R /\ << y, z >> \in R => << x, z >> \in R

\* The elements that come before x.
Below(S, R, x) == {y \in S : << y, x >> \in R}

\* The number of elements before an element tells its place.
LEMMA CountsBelow ==
    ASSUME NEW S, IsFiniteSet(S), NEW R, StrictOrder(S, R)
    PROVE  /\ \A x \in S : Cardinality(Below(S, R, x)) \in 0 .. Cardinality(S) - 1
           /\ \A x, z \in S : << x, z >> \in R =>
                 Cardinality(Below(S, R, x)) < Cardinality(Below(S, R, z))
<1>1. Cardinality(S) \in Nat
  BY FS_CardinalityType
<1>2. ASSUME NEW x \in S
      PROVE  /\ IsFiniteSet(Below(S, R, x)) /\ x \notin Below(S, R, x)
             /\ Cardinality(Below(S, R, x)) \in 0 .. Cardinality(S) - 1
  <2>1. Below(S, R, x) \in SUBSET (S \ {x}) /\ x \notin Below(S, R, x)
    BY DEF Below, StrictOrder
  <2>2. IsFiniteSet(S \ {x}) /\ Cardinality(S \ {x}) = Cardinality(S) - 1
    BY FS_RemoveElement
  <2>3. IsFiniteSet(Below(S, R, x)) /\ Cardinality(Below(S, R, x)) <= Cardinality(S \ {x})
    BY <2>1, <2>2, FS_Subset
  <2>4. Cardinality(Below(S, R, x)) \in Nat
    BY <2>3, FS_CardinalityType
  <2> QED BY <1>1, <2>1, <2>2, <2>3, <2>4
<1>3. ASSUME NEW x \in S, NEW z \in S, << x, z >> \in R
      PROVE  Cardinality(Below(S, R, x)) < Cardinality(Below(S, R, z))
  <2>1. (Below(S, R, x) \cup {x}) \in SUBSET Below(S, R, z)
    BY <1>3 DEF Below, StrictOrder
  <2>2. Cardinality(Below(S, R, x) \cup {x}) = Cardinality(Below(S, R, x)) + 1
    BY <1>2, FS_AddElement
  <2>3. Cardinality(Below(S, R, x) \cup {x}) <= Cardinality(Below(S, R, z))
    BY <1>2, <2>1, FS_Subset
  <2>4. Cardinality(Below(S, R, x)) \in Int /\ Cardinality(Below(S, R, z)) \in Int
    BY <1>1, <1>2
  <2> QED BY <2>2, <2>3, <2>4
<1> QED BY <1>2, <1>3

\* InOrder lists every element once, and in the order.
LEMMA InOrderLists ==
    ASSUME NEW S, IsFiniteSet(S), NEW R, StrictOrder(S, R)
    PROVE  /\ Enumerates(InOrder(S, R), Cardinality(S), S)
           /\ \A i, j \in 1 .. Cardinality(S) :
                 i < j => << InOrder(S, R)[i], InOrder(S, R)[j] >> \in R
<1>1. PICK m : m = Cardinality(S)
  OBVIOUS
<1>2. m \in Nat
  BY <1>1, FS_CardinalityType
<1>3. PICK rank : rank = [x \in S |-> Cardinality(Below(S, R, x)) + 1]
  OBVIOUS
<1>4. ASSUME NEW x \in S PROVE rank[x] \in 1 .. m
  <2>1. Cardinality(Below(S, R, x)) \in 0 .. m - 1
    BY <1>1, CountsBelow
  <2> QED BY <1>2, <1>3, <2>1
<1>5. ASSUME NEW x \in S, NEW z \in S, << x, z >> \in R PROVE rank[x] < rank[z]
  <2>1. /\ Cardinality(Below(S, R, x)) < Cardinality(Below(S, R, z))
        /\ Cardinality(Below(S, R, x)) \in 0 .. Cardinality(S) - 1
        /\ Cardinality(Below(S, R, z)) \in 0 .. Cardinality(S) - 1
    BY <1>5, CountsBelow
  <2> QED BY <1>1, <1>2, <1>3, <2>1
<1>6. ASSUME NEW x \in S, NEW z \in S, rank[x] = rank[z] PROVE x = z
  <2> SUFFICES ASSUME x # z PROVE FALSE
    OBVIOUS
  <2>1. rank[x] \in Int /\ rank[z] \in Int
    BY <1>2, <1>4
  <2>2. << x, z >> \in R \/ << z, x >> \in R
    BY DEF StrictOrder
  <2>3. rank[x] < rank[z] \/ rank[z] < rank[x]
    BY <1>5, <2>2
  <2> QED BY <1>6, <2>1, <2>3
<1>7. rank \in Injection(S, 1 .. m)
  <2>1. rank \in [S -> 1 .. m]
    BY <1>3, <1>4
  <2> QED BY <1>6, <2>1 DEF Injection, IsInjective
<1>8. rank \in Surjection(S, 1 .. m)
  BY <1>1, <1>2, <1>7, CountUp, FS_Injection
<1>9. PICK s : s = InOrder(S, R)
  OBVIOUS
<1>10. s = [i \in 1 .. m |-> CHOOSE x \in S : Cardinality(Below(S, R, x)) = i - 1]
  BY <1>1, <1>9 DEF InOrder, Below
<1>11. ASSUME NEW i \in 1 .. m PROVE s[i] \in S /\ rank[s[i]] = i
  <2>1. PICK x \in S : rank[x] = i
    BY <1>8 DEF Surjection
  <2>2. Cardinality(Below(S, R, x)) \in 0 .. m - 1
    BY <1>1, CountsBelow
  <2>3. Cardinality(Below(S, R, x)) = i - 1
    BY <1>2, <1>3, <2>1, <2>2
  <2>4. s[i] \in S /\ Cardinality(Below(S, R, s[i])) = i - 1
    BY <1>10, <2>3
  <2> QED BY <1>2, <1>3, <2>4
<1>12. Enumerates(s, m, S)
  <2>1. s \in [1 .. m -> S]
    BY <1>10, <1>11
  <2>2. ASSUME NEW i \in 1 .. m, NEW j \in 1 .. m, s[i] = s[j] PROVE i = j
    BY <1>11, <2>2
  <2>3. ASSUME NEW x \in S PROVE \E i \in 1 .. m : s[i] = x
    BY <1>4, <1>6, <1>11
  <2> QED BY <2>1, <2>2, <2>3 DEF Enumerates
<1>13. ASSUME NEW i \in 1 .. m, NEW j \in 1 .. m, i < j PROVE << s[i], s[j] >> \in R
  <2>1. s[i] \in S /\ s[j] \in S /\ rank[s[i]] = i /\ rank[s[j]] = j
    BY <1>11
  <2>2. s[i] # s[j]
    BY <1>2, <1>13, <2>1
  <2>3. ~ (<< s[j], s[i] >> \in R)
    <3> SUFFICES ASSUME << s[j], s[i] >> \in R PROVE FALSE
      OBVIOUS
    <3>1. rank[s[j]] < rank[s[i]]
      BY <1>5, <2>1
    <3> QED BY <1>2, <1>13, <2>1, <3>1
  <2> QED BY <2>1, <2>2, <2>3 DEF StrictOrder
<1> QED BY <1>1, <1>9, <1>12, <1>13

LEMMA SortedLists ==
    ASSUME NEW items, IsFiniteSet(items), items \subseteq Int
    PROVE  Enumerates(Sorted(items), Cardinality(items), items)
<1>1. PICK R : R = {p \in items \X items : p[1] < p[2]}
  OBVIOUS
<1>2. \A x, y \in items : << x, y >> \in R <=> x < y
  BY <1>1
<1>3. StrictOrder(items, R)
  <2>1. \A x \in items : x \in Int
    OBVIOUS
  <2> QED BY <1>2, <2>1 DEF StrictOrder
<1> QED BY <1>1, <1>3, InOrderLists DEF Sorted

\* The lightest item comes first.
LEMMA AscendingLists ==
    ASSUME NEW items, IsFiniteSet(items), items \subseteq Int, NEW w,
           \A x \in items : w[x] \in Int
    PROVE  /\ Enumerates(Ascending(w, items), Cardinality(items), items)
           /\ \A i, j \in 1 .. Cardinality(items) :
                 i < j => w[Ascending(w, items)[i]] <= w[Ascending(w, items)[j]]
<1>1. PICK R : R = {p \in items \X items : \/ w[p[1]] < w[p[2]]
                                           \/ w[p[1]] = w[p[2]] /\ p[1] < p[2]}
  OBVIOUS
<1>2. \A x, y \in items : << x, y >> \in R <=> (w[x] < w[y] \/ (w[x] = w[y] /\ x < y))
  BY <1>1
<1>3. StrictOrder(items, R)
  <2>1. \A x \in items : x \in Int /\ w[x] \in Int
    OBVIOUS
  <2> QED BY <1>2, <2>1 DEF StrictOrder
<1>4. PICK s : s = Ascending(w, items)
  OBVIOUS
<1>5. s = InOrder(items, R)
  BY <1>1, <1>4 DEF Ascending
<1>6. /\ Enumerates(s, Cardinality(items), items)
      /\ \A i, j \in 1 .. Cardinality(items) : i < j => << s[i], s[j] >> \in R
  BY <1>3, <1>5, InOrderLists
<1>7. ASSUME NEW i \in 1 .. Cardinality(items), NEW j \in 1 .. Cardinality(items), i < j
      PROVE  w[s[i]] <= w[s[j]]
  <2>1. s[i] \in items /\ s[j] \in items
    BY <1>6 DEF Enumerates
  <2>2. << s[i], s[j] >> \in R
    BY <1>6, <1>7
  <2>3. w[s[i]] < w[s[j]] \/ w[s[i]] = w[s[j]]
    BY <1>2, <2>1, <2>2
  <2>4. w[s[i]] \in Int /\ w[s[j]] \in Int
    BY <2>1
  <2> QED BY <2>3, <2>4
<1> QED BY <1>4, <1>6, <1>7

\* The list is permuted so that the keys descend.
Descends(p, k, list, key, key2) ==
    /\ Enumerates(p, k, 1 .. k)
    /\ Descending(list, key, key2) = [i \in 1 .. k |-> list[p[i]]]
    /\ \A i, j \in 1 .. k : i < j => key[p[i]] >= key[p[j]]

IntKeys(key, key2, k) == \A i \in 1 .. k : key[i] \in Int /\ key2[i] \in Int

LEMMA DescendingLists ==
    ASSUME NEW k \in Nat, NEW list, DOMAIN list = 1 .. k, NEW key, NEW key2,
           IntKeys(key, key2, k)
    PROVE  \E p : Descends(p, k, list, key, key2)
<1>1. PICK R : R = {q \in (1 .. k) \X (1 .. k) :
                      \/ key[q[1]] > key[q[2]]
                      \/ key[q[1]] = key[q[2]] /\ key2[q[1]] > key2[q[2]]
                      \/ key[q[1]] = key[q[2]] /\ key2[q[1]] = key2[q[2]] /\ q[1] < q[2]}
  OBVIOUS
<1>2. \A x, y \in 1 .. k : << x, y >> \in R <=>
        \/ key[x] > key[y]
        \/ key[x] = key[y] /\ key2[x] > key2[y]
        \/ key[x] = key[y] /\ key2[x] = key2[y] /\ x < y
  BY <1>1
<1>3. StrictOrder(1 .. k, R)
  <2>1. \A x \in 1 .. k : x \in Int /\ key[x] \in Int /\ key2[x] \in Int
    BY DEF IntKeys
  <2>2. \A x \in 1 .. k : << x, x >> \notin R
    BY <1>2, <2>1
  <2>3. ASSUME NEW x \in 1 .. k, NEW y \in 1 .. k, x # y
        PROVE  << x, y >> \in R \/ << y, x >> \in R
    <3>1. \/ key[x] > key[y] \/ key[y] > key[x]
          \/ key[x] = key[y] /\ (key2[x] > key2[y] \/ key2[y] > key2[x])
          \/ key[x] = key[y] /\ key2[x] = key2[y] /\ (x < y \/ y < x)
      BY <2>1, <2>3
    <3> QED BY <1>2, <3>1
  <2>4. ASSUME NEW x \in 1 .. k, NEW y \in 1 .. k, NEW z \in 1 .. k,
               << x, y >> \in R, << y, z >> \in R
        PROVE  << x, z >> \in R
    BY <1>2, <2>1, <2>4
  <2> QED BY <2>2, <2>3, <2>4 DEF StrictOrder
<1>4. PICK p : p = InOrder(1 .. k, R)
  OBVIOUS
<1>5. /\ Enumerates(p, k, 1 .. k)
      /\ \A i, j \in 1 .. k : i < j => << p[i], p[j] >> \in R
  BY <1>3, <1>4, CountUp, InOrderLists
<1>6. Descending(list, key, key2) = [i \in 1 .. k |-> list[p[i]]]
  BY <1>1, <1>4 DEF Descending
<1>7. ASSUME NEW i \in 1 .. k, NEW j \in 1 .. k, i < j PROVE key[p[i]] >= key[p[j]]
  <2>1. p[i] \in 1 .. k /\ p[j] \in 1 .. k
    BY <1>5 DEF Enumerates
  <2>2. << p[i], p[j] >> \in R
    BY <1>5, <1>7
  <2>3. key[p[i]] > key[p[j]] \/ key[p[i]] = key[p[j]]
    BY <1>2, <2>1, <2>2
  <2> QED BY <2>1, <2>3 DEF IntKeys
<1> QED BY <1>5, <1>6, <1>7 DEF Descends
-----------------------------------------------------------------------------
(* Sums.                                                                   *)

\* f holds the sums of the first elements of a list of length m.
PartialSums(f, w, list, m) ==
    /\ f \in [0 .. m -> Nat]
    /\ f[0] = 0
    /\ \A i \in 1 .. m : f[i] = f[i - 1] + w[list[i]]

LEMMA SumSteps ==
    ASSUME NEW m \in Nat, NEW list, Len(list) = m, NEW w, \A i \in 1 .. m : w[list[i]] \in Nat
    PROVE  \E f : PartialSums(f, w, list, m) /\ SumOf(w, list) = f[m]
<1>1. PICK step : step = [i \in 1 .. m |-> [x \in Nat |-> x + w[list[i]]]]
  OBVIOUS
<1>2. step \in [1 .. m -> [Nat -> Nat]]
  <2>1. ASSUME NEW i \in 1 .. m PROVE [x \in Nat |-> x + w[list[i]]] \in [Nat -> Nat]
    <3>1. PICK v : v = w[list[i]]
      OBVIOUS
    <3>2. v \in Nat
      BY <3>1
    <3>3. [x \in Nat |-> x + v] \in [Nat -> Nat]
      BY <3>2
    <3> QED BY <3>1, <3>3
  <2> QED BY <1>1, <2>1
<1>3. PICK f : Defines(f, m, Nat, 0, step)
  BY <1>2, Recursion
<1>0. f \in [0 .. m -> Nat] /\ Follows(f, m, 0, step)
  BY <1>3 DEF Defines
<1>4. f[0] = 0 /\ \A i \in 1 .. m : i - 1 \in 0 .. m /\ f[i] = f[i - 1] + w[list[i]]
  <2>1. ASSUME NEW i \in 1 .. m PROVE i - 1 \in 0 .. m /\ f[i] = f[i - 1] + w[list[i]]
    <3>1. i - 1 \in 0 .. m
      OBVIOUS
    <3>2. f[i] = step[i][f[i - 1]] /\ f[i - 1] \in Nat
      BY <1>0, <3>1 DEF Follows
    <3> QED BY <1>1, <3>1, <3>2
  <2> QED BY <1>0, <2>1 DEF Follows
<1>5. f = [i \in 0 .. m |-> IF i = 0 THEN 0 ELSE f[i - 1] + w[list[i]]]
  <2>1. ASSUME NEW i \in 0 .. m PROVE f[i] = IF i = 0 THEN 0 ELSE f[i - 1] + w[list[i]]
    <3>1. CASE i = 0
      BY <1>4, <3>1
    <3>2. CASE i # 0
      <4>1. i \in 1 .. m
        BY <3>2
      <4> QED BY <1>4, <3>2, <4>1
    <3> QED BY <3>1, <3>2
  <2> QED BY <1>0, <2>1
<1>6. PICK g : /\ g = [i \in 0 .. m |-> IF i = 0 THEN 0 ELSE g[i - 1] + w[list[i]]]
               /\ SumOf(w, list) = g[m]
  BY <1>5 DEF SumOf
<1>7. g[0] = 0
  BY <1>6
<1>8. ASSUME NEW i \in 1 .. m, g[i - 1] \in Nat PROVE g[i] = step[i][g[i - 1]]
  <2>1. i \in 0 .. m /\ i # 0
    OBVIOUS
  <2>2. g[i] = g[i - 1] + w[list[i]]
    BY <1>6, <2>1
  <2> QED BY <1>1, <1>8, <2>2
<1>9. \A i \in 0 .. m : g[i] = f[i]
  <2>1. Continues(g, m, Nat, 0, step)
    BY <1>7, <1>8 DEF Continues
  <2> QED BY <1>3, <2>1 DEF Defines
<1>10. SumOf(w, list) = f[m]
  BY <1>6, <1>9
<1> QED BY <1>0, <1>4, <1>10 DEF PartialSums

\* The elements of the first list weigh together as much as those of the other two at
\* each position.
Adds(w, list, w1, list1, w2, list2, m) ==
    \A i \in 1 .. m : /\ w1[list1[i]] \in Nat /\ w2[list2[i]] \in Nat
                      /\ w[list[i]] = w1[list1[i]] + w2[list2[i]]

LEMMA SumAdds ==
    ASSUME NEW m \in Nat, NEW list, NEW list1, NEW list2,
           Len(list) = m, Len(list1) = m, Len(list2) = m,
           NEW w, NEW w1, NEW w2, Adds(w, list, w1, list1, w2, list2, m)
    PROVE  SumOf(w, list) = SumOf(w1, list1) + SumOf(w2, list2)
<1>1. \A i \in 1 .. m : w[list[i]] \in Nat /\ w1[list1[i]] \in Nat /\ w2[list2[i]] \in Nat
  BY DEF Adds
<1>2. PICK f : PartialSums(f, w, list, m) /\ SumOf(w, list) = f[m]
  BY <1>1, SumSteps
<1>3. PICK g : PartialSums(g, w1, list1, m) /\ SumOf(w1, list1) = g[m]
  BY <1>1, SumSteps
<1>4. PICK h : PartialSums(h, w2, list2, m) /\ SumOf(w2, list2) = h[m]
  BY <1>1, SumSteps
<1>5. PICK T : T = {i \in 0 .. m : f[i] = g[i] + h[i]}
  OBVIOUS
<1>6. 0 \in T
  BY <1>2, <1>3, <1>4, <1>5 DEF PartialSums
<1>7. ASSUME NEW i \in 0 .. m - 1, i \in T PROVE i + 1 \in T
  <2>1. PICK k : k = i + 1
    OBVIOUS
  <2>2. k \in 1 .. m /\ k \in 0 .. m /\ k - 1 = i /\ i \in 0 .. m
    BY <2>1
  <2>3. /\ f[k] = f[i] + w[list[k]] /\ g[k] = g[i] + w1[list1[k]] /\ h[k] = h[i] + w2[list2[k]]
        /\ f[i] \in Nat /\ g[i] \in Nat /\ h[i] \in Nat
    BY <1>2, <1>3, <1>4, <2>2 DEF PartialSums
  <2>4. w[list[k]] = w1[list1[k]] + w2[list2[k]] /\ w1[list1[k]] \in Nat /\ w2[list2[k]] \in Nat
    BY <2>2 DEF Adds
  <2>5. f[i] = g[i] + h[i]
    BY <1>5, <1>7
  <2>6. f[k] = g[k] + h[k]
    BY <2>3, <2>4, <2>5
  <2> QED BY <1>5, <2>1, <2>2, <2>6
<1>8. \A i \in 0 .. m - 1 : i \in T => i + 1 \in T
  BY <1>7
<1>9. \A i \in 0 .. m : i \in T
  BY <1>6, <1>8, Reaches
<1>10. m \in 0 .. m
  OBVIOUS
<1>11. f[m] = g[m] + h[m]
  BY <1>5, <1>9, <1>10
<1> QED BY <1>2, <1>3, <1>4, <1>11

\* Lists that weigh the same at each position have the same sum.
SameWeights(w, list, w1, list1, m) ==
    \A i \in 1 .. m : w[list[i]] \in Nat /\ w[list[i]] = w1[list1[i]]

LEMMA SumSame ==
    ASSUME NEW m \in Nat, NEW list, NEW list1, Len(list) = m, Len(list1) = m,
           NEW w, NEW w1, SameWeights(w, list, w1, list1, m)
    PROVE  SumOf(w, list) = SumOf(w1, list1)
<1>1. \A i \in 1 .. m : w[list[i]] \in Nat /\ w1[list1[i]] \in Nat
  BY DEF SameWeights
<1>2. PICK f : PartialSums(f, w, list, m) /\ SumOf(w, list) = f[m]
  BY <1>1, SumSteps
<1>3. PICK g : PartialSums(g, w1, list1, m) /\ SumOf(w1, list1) = g[m]
  BY <1>1, SumSteps
<1>4. PICK T : T = {i \in 0 .. m : f[i] = g[i]}
  OBVIOUS
<1>5. 0 \in T
  BY <1>2, <1>3, <1>4 DEF PartialSums
<1>6. ASSUME NEW i \in 0 .. m - 1, i \in T PROVE i + 1 \in T
  <2>1. PICK k : k = i + 1
    OBVIOUS
  <2>2. k \in 1 .. m /\ k \in 0 .. m /\ k - 1 = i /\ i \in 0 .. m
    BY <2>1
  <2>3. f[k] = f[i] + w[list[k]] /\ g[k] = g[i] + w1[list1[k]]
    BY <1>2, <1>3, <2>2 DEF PartialSums
  <2>4. w[list[k]] = w1[list1[k]]
    BY <2>2 DEF SameWeights
  <2>5. f[i] = g[i]
    BY <1>4, <1>6
  <2>6. f[k] = g[k]
    BY <2>3, <2>4, <2>5
  <2> QED BY <1>4, <2>1, <2>2, <2>6
<1>7. \A i \in 0 .. m - 1 : i \in T => i + 1 \in T
  BY <1>6
<1>8. \A i \in 0 .. m : i \in T
  BY <1>5, <1>7, Reaches
<1>9. m \in 0 .. m
  OBVIOUS
<1>10. f[m] = g[m]
  BY <1>4, <1>8, <1>9
<1> QED BY <1>2, <1>3, <1>10
-----------------------------------------------------------------------------
(* Sums over sets of items 1 .. m.                                         *)

Weights(w, m) == \A i \in 1 .. m : w[i] \in Nat

Numbers(m) == [i \in 1 .. m |-> i]
WeightIn(w, T, m) == [i \in 1 .. m |-> IF i \in T THEN w[i] ELSE 0]

SumOver(w, T, m) == SumOf(WeightIn(w, T, m), Numbers(m))

LEMMA NumbersLen ==
    ASSUME NEW m \in Nat
    PROVE  Len(Numbers(m)) = m
<1>1. Numbers(m) \in [1 .. m -> Int]
  BY DEF Numbers
<1> QED BY <1>1, ListOf

LEMMA SumOverType ==
    ASSUME NEW m \in Nat, NEW w, Weights(w, m), NEW T
    PROVE  SumOver(w, T, m) \in Nat
<1>1. PICK v, list : v = WeightIn(w, T, m) /\ list = Numbers(m)
  OBVIOUS
<1>2. \A i \in 1 .. m : v[list[i]] \in Nat
  BY <1>1 DEF WeightIn, Numbers, Weights
<1>3. PICK f : PartialSums(f, v, list, m) /\ SumOf(v, list) = f[m]
  BY <1>1, <1>2, NumbersLen, SumSteps
<1>4. f[m] \in Nat
  BY <1>3 DEF PartialSums
<1> QED BY <1>1, <1>3, <1>4 DEF SumOver

LEMMA SumOverUnion ==
    ASSUME NEW m \in Nat, NEW w, Weights(w, m), NEW A, NEW B, A \cap B = {}
    PROVE  SumOver(w, A \cup B, m) = SumOver(w, A, m) + SumOver(w, B, m)
<1>1. PICK v, v1, v2, list : /\ v = WeightIn(w, A \cup B, m)
                             /\ v1 = WeightIn(w, A, m)
                             /\ v2 = WeightIn(w, B, m)
                             /\ list = Numbers(m)
  OBVIOUS
<1>2. ASSUME NEW i \in 1 .. m
      PROVE  /\ v1[list[i]] \in Nat /\ v2[list[i]] \in Nat
             /\ v[list[i]] = v1[list[i]] + v2[list[i]]
  <2>1. list[i] = i /\ w[i] \in Nat
    BY <1>1 DEF Numbers, Weights
  <2>2. /\ v[i] = IF i \in A \cup B THEN w[i] ELSE 0
        /\ v1[i] = IF i \in A THEN w[i] ELSE 0
        /\ v2[i] = IF i \in B THEN w[i] ELSE 0
    BY <1>1 DEF WeightIn
  <2>3. CASE i \in A
    BY <2>1, <2>2, <2>3
  <2>4. CASE i \in B
    BY <2>1, <2>2, <2>4
  <2>5. CASE i \notin A /\ i \notin B
    BY <2>1, <2>2, <2>5
  <2> QED BY <2>3, <2>4, <2>5
<1>3. Adds(v, list, v1, list, v2, list, m)
  BY <1>2 DEF Adds
<1>4. Len(list) = m
  BY <1>1, NumbersLen
<1>5. SumOf(v, list) = SumOf(v1, list) + SumOf(v2, list)
  BY <1>3, <1>4, SumAdds
<1> QED BY <1>1, <1>5 DEF SumOver

LEMMA SumOverEmpty ==
    ASSUME NEW m \in Nat, NEW w, Weights(w, m)
    PROVE  SumOver(w, {}, m) = 0
<1>1. PICK none : none = {}
  OBVIOUS
<1>2. SumOver(w, none \cup none, m) = SumOver(w, none, m) + SumOver(w, none, m)
  BY <1>1, SumOverUnion
<1>3. none \cup none = none /\ SumOver(w, none, m) \in Nat
  BY <1>1, SumOverType
<1>4. PICK sum : sum = SumOver(w, none, m)
  OBVIOUS
<1>5. sum \in Nat /\ sum = sum + sum
  BY <1>2, <1>3, <1>4
<1>6. sum = 0
  BY <1>5
<1> QED BY <1>1, <1>4, <1>6

LEMMA SumOverSingle ==
    ASSUME NEW m \in Nat, NEW w, Weights(w, m), NEW x \in 1 .. m
    PROVE  SumOver(w, {x}, m) = w[x]
<1>1. PICK v, list : v = WeightIn(w, {x}, m) /\ list = Numbers(m)
  OBVIOUS
<1>2. \A i \in 1 .. m : v[list[i]] = (IF i = x THEN w[x] ELSE 0) /\ v[list[i]] \in Nat
  BY <1>1 DEF WeightIn, Numbers, Weights
<1>0. Len(list) = m /\ \A i \in 1 .. m : v[list[i]] \in Nat
  BY <1>1, <1>2, NumbersLen
<1>3. PICK f : PartialSums(f, v, list, m) /\ SumOf(v, list) = f[m]
  BY <1>0, SumSteps
<1>4. w[x] \in Nat
  BY DEF Weights
<1>5. PICK T : T = {i \in 0 .. m : f[i] = IF i < x THEN 0 ELSE w[x]}
  OBVIOUS
<1>6. 0 \in T
  <2>1. f[0] = 0 /\ 0 < x
    BY <1>3 DEF PartialSums
  <2> QED BY <1>5, <2>1
<1>7. ASSUME NEW i \in 0 .. m - 1, i \in T PROVE i + 1 \in T
  <2>1. PICK k : k = i + 1
    OBVIOUS
  <2>2. k \in 1 .. m /\ k \in 0 .. m /\ k - 1 = i
    BY <2>1
  <2>3. f[k] = f[i] + v[list[k]]
    BY <1>3, <2>2 DEF PartialSums
  <2>4. f[i] = IF i < x THEN 0 ELSE w[x]
    BY <1>5, <1>7
  <2>5. v[list[k]] = IF k = x THEN w[x] ELSE 0
    BY <1>2, <2>2
  <2>6. CASE k < x
    <3>1. i < x /\ k # x
      BY <2>1, <2>6
    <3>2. f[k] = 0
      BY <2>3, <2>4, <2>5, <3>1
    <3> QED BY <1>5, <2>1, <2>2, <2>6, <3>2
  <2>7. CASE k = x
    <3>1. i < x /\ ~ (k < x)
      BY <2>1, <2>7
    <3>2. f[k] = w[x]
      BY <1>4, <2>3, <2>4, <2>5, <2>7, <3>1
    <3> QED BY <1>5, <2>1, <2>2, <3>1, <3>2
  <2>8. CASE x < k
    <3>1. ~ (i < x) /\ k # x /\ ~ (k < x)
      BY <2>1, <2>8
    <3>2. f[k] = w[x]
      BY <1>4, <2>3, <2>4, <2>5, <3>1
    <3> QED BY <1>5, <2>1, <2>2, <3>1, <3>2
  <2> QED BY <2>2, <2>6, <2>7, <2>8
<1>8. \A i \in 0 .. m - 1 : i \in T => i + 1 \in T
  BY <1>7
<1>9. \A i \in 0 .. m : i \in T
  BY <1>6, <1>8, Reaches
<1>10. m \in 0 .. m /\ ~ (m < x)
  OBVIOUS
<1>11. f[m] = w[x]
  BY <1>5, <1>9, <1>10
<1> QED BY <1>1, <1>3, <1>11 DEF SumOver

\* A set with an element weighs at least as much as that element.
LEMMA SumOverBound ==
    ASSUME NEW m \in Nat, NEW w, Weights(w, m), NEW T, NEW x \in T, x \in 1 .. m
    PROVE  SumOver(w, T, m) >= w[x]
<1>1. PICK one, rest : one = {x} /\ rest = T \ {x}
  OBVIOUS
<1>2. T = one \cup rest /\ one \cap rest = {}
  BY <1>1
<1>3. SumOver(w, T, m) = SumOver(w, one, m) + SumOver(w, rest, m)
  BY <1>2, SumOverUnion
<1>4. SumOver(w, one, m) = w[x]
  BY <1>1, SumOverSingle
<1>5. w[x] \in Nat /\ SumOver(w, rest, m) \in Nat
  BY SumOverType DEF Weights
<1> QED BY <1>3, <1>4, <1>5

\* The sum of a list that holds each element of T once.
LEMMA SumOfList ==
    ASSUME NEW m \in Nat, NEW w, Weights(w, m), NEW T, T \subseteq 1 .. m,
           NEW c \in Nat, NEW list, Enumerates(list, c, T)
    PROVE  SumOf(w, list) = SumOver(w, T, m)
<1>1. /\ list \in [1 .. c -> T] /\ DOMAIN list = 1 .. c
      /\ \A i \in 1 .. c : list[i] \in T /\ list[i] \in 1 .. m /\ w[list[i]] \in Nat
  BY DEF Enumerates, Weights
<1>2. Len(list) = c
  BY <1>1, ListOf
<1>3. PICK f : PartialSums(f, w, list, c) /\ SumOf(w, list) = f[c]
  BY <1>1, <1>2, SumSteps
<1>4. PICK first : first = [i \in 0 .. c |-> {list[j] : j \in 1 .. i}]
  OBVIOUS
<1>5. PICK R : R = {i \in 0 .. c : f[i] = SumOver(w, first[i], m)}
  OBVIOUS
<1>6. 0 \in R
  <2>1. first[0] = {}
    BY <1>4
  <2>2. f[0] = 0
    BY <1>3 DEF PartialSums
  <2> QED BY <1>5, <2>1, <2>2, SumOverEmpty
<1>7. ASSUME NEW i \in 0 .. c - 1, i \in R PROVE i + 1 \in R
  <2>1. PICK k : k = i + 1
    OBVIOUS
  <2>2. k \in 1 .. c /\ k \in 0 .. c /\ k - 1 = i /\ i \in 0 .. c
    BY <2>1
  <2>3. f[k] = f[i] + w[list[k]]
    BY <1>3, <2>2 DEF PartialSums
  <2>4. PICK one : one = {list[k]}
    OBVIOUS
  <2>5. first[k] = first[i] \cup one
    <3>1. first[k] = {list[j] : j \in 1 .. k} /\ first[i] = {list[j] : j \in 1 .. i}
      BY <1>4, <2>2
    <3>2. \A j : j \in 1 .. k <=> (j \in 1 .. i \/ j = k)
      BY <2>1, <2>2
    <3> QED BY <2>4, <3>1, <3>2
  <2>6. first[i] \cap one = {}
    <3> SUFFICES ASSUME list[k] \in first[i] PROVE FALSE
      BY <2>4
    <3>1. PICK j \in 1 .. i : list[j] = list[k]
      BY <1>4, <2>2
    <3>2. j \in 1 .. c /\ j # k
      BY <2>1, <2>2
    <3> QED BY <2>2, <3>1, <3>2 DEF Enumerates
  <2>7. SumOver(w, first[k], m) = SumOver(w, first[i], m) + SumOver(w, one, m)
    BY <2>5, <2>6, SumOverUnion
  <2>8. SumOver(w, one, m) = w[list[k]]
    BY <1>1, <2>2, <2>4, SumOverSingle
  <2>9. f[i] = SumOver(w, first[i], m)
    BY <1>5, <1>7
  <2>10. f[k] = SumOver(w, first[k], m)
    BY <2>3, <2>7, <2>8, <2>9
  <2> QED BY <1>5, <2>1, <2>2, <2>10
<1>8. \A i \in 0 .. c - 1 : i \in R => i + 1 \in R
  BY <1>7
<1>9. \A i \in 0 .. c : i \in R
  BY <1>6, <1>8, Reaches
<1>10. c \in 0 .. c
  OBVIOUS
<1>11. f[c] = SumOver(w, first[c], m)
  BY <1>5, <1>9, <1>10
<1>12. first[c] = T
  <2>1. first[c] = {list[j] : j \in 1 .. c}
    BY <1>4, <1>10
  <2>2. \A x \in T : \E j \in 1 .. c : list[j] = x
    BY DEF Enumerates
  <2> QED BY <1>1, <2>1, <2>2
<1> QED BY <1>3, <1>11, <1>12
-----------------------------------------------------------------------------
(* States: k sets of items 1 .. m.                                         *)

SetsOf(m) == [sum : Nat, items : SUBSET (1 .. m)]

\* The sum of a set is that of its items.
Weighed(s, k, m, w) ==
    /\ s \in [1 .. k -> SetsOf(m)]
    /\ \A i \in 1 .. k : s[i].sum = SumOver(w, s[i].items, m)

\* No item is in two sets.
Apart(s, k) == \A i, j \in 1 .. k : i # j => s[i].items \cap s[j].items = {}

\* No two sums differ by more than B.
Within(s, k, B) == \A i, j \in 1 .. k : s[i].sum - s[j].sum <= B

\* All sets have as many items; or a set is empty only where none has two.
Alike(s, k) == \A i, j \in 1 .. k : Cardinality(s[i].items) = Cardinality(s[j].items)
Thin(s, k) ==
    \A i, j \in 1 .. k : s[i].items = {} => \A x, y \in s[j].items : x = y
Shaped(s, k, equal_size) == IF equal_size THEN Alike(s, k) ELSE Thin(s, k)

Falling(s, k) == \A i, j \in 1 .. k : i < j => s[i].sum >= s[j].sum

Held(s, k) == UNION {s[i].items : i \in 1 .. k}

\* What holds of the sets in whichever order they are.
IsCollection(s, k, m, w, B, equal_size) ==
    /\ Weighed(s, k, m, w)
    /\ Apart(s, k)
    /\ Within(s, k, B)
    /\ Shaped(s, k, equal_size)

IsState(s, k, m, w, B, equal_size) ==
    IsCollection(s, k, m, w, B, equal_size) /\ Falling(s, k)

LEMMA ItemsFinite ==
    ASSUME NEW m \in Nat, NEW S, S \subseteq 1 .. m
    PROVE  IsFiniteSet(S) /\ Cardinality(S) \in Nat
BY CountUp, FS_Subset, FS_CardinalityType

\* Sorting makes a state of a collection of sets.
LEMMA Rearranged ==
    ASSUME NEW k \in Nat, NEW m \in Nat, NEW w, NEW B, NEW equal_size, NEW u,
           IsCollection(u, k, m, w, B, equal_size)
    PROVE  /\ IsState(Decreasing(u), k, m, w, B, equal_size)
           /\ Held(Decreasing(u), k) = Held(u, k)
<1>1. /\ u \in [1 .. k -> SetsOf(m)] /\ DOMAIN u = 1 .. k
      /\ \A i \in 1 .. k : u[i] \in SetsOf(m) /\ u[i].sum \in Nat /\ u[i].items \subseteq 1 .. m
  BY DEF IsCollection, Weighed, SetsOf
<1>2. PICK key, key2 : /\ key = [i \in 1 .. k |-> u[i].sum]
                       /\ key2 = [i \in 1 .. k |-> Cardinality(u[i].items)]
  OBVIOUS
<1>3. ASSUME NEW i \in 1 .. k PROVE key[i] \in Int /\ key2[i] \in Int
  <2>1. Cardinality(u[i].items) \in Nat
    BY <1>1, ItemsFinite
  <2> QED BY <1>1, <1>2, <2>1
<1>4. PICK p : /\ Enumerates(p, k, 1 .. k)
               /\ Descending(u, key, key2) = [i \in 1 .. k |-> u[p[i]]]
               /\ \A i, j \in 1 .. k : i < j => key[p[i]] >= key[p[j]]
  <2>1. IntKeys(key, key2, k)
    BY <1>3 DEF IntKeys
  <2> QED BY <1>1, <2>1, DescendingLists DEF Descends
<1>5. PICK s : s = [i \in 1 .. k |-> u[p[i]]]
  OBVIOUS
<1>6. s = Decreasing(u)
  BY <1>1, <1>2, <1>4, <1>5 DEF Decreasing
<1>7. \A i \in 1 .. k : p[i] \in 1 .. k /\ s[i] = u[p[i]]
  BY <1>4, <1>5 DEF Enumerates
<1>8. \A i, j \in 1 .. k : i # j => p[i] # p[j]
  BY <1>4 DEF Enumerates
<1>9. Weighed(s, k, m, w)
  <2>1. s \in [1 .. k -> SetsOf(m)]
    BY <1>1, <1>5, <1>7
  <2> QED BY <1>7, <2>1 DEF IsCollection, Weighed
<1>10. Apart(s, k)
  BY <1>7, <1>8 DEF IsCollection, Apart
<1>11. Within(s, k, B)
  BY <1>7 DEF IsCollection, Within
<1>12. Shaped(s, k, equal_size)
  <2>1. CASE equal_size
    BY <1>7, <2>1 DEF IsCollection, Shaped, Alike
  <2>2. CASE ~ equal_size
    BY <1>7, <2>2 DEF IsCollection, Shaped, Thin
  <2> QED BY <2>1, <2>2
<1>13. Falling(s, k)
  <2> SUFFICES ASSUME NEW i \in 1 .. k, NEW j \in 1 .. k, i < j PROVE s[i].sum >= s[j].sum
    BY DEF Falling
  <2>1. key[p[i]] = s[i].sum /\ key[p[j]] = s[j].sum
    BY <1>2, <1>7
  <2> QED BY <1>4, <2>1
<1>14. Held(s, k) = Held(u, k)
  <2>1. ASSUME NEW x PROVE (\E i \in 1 .. k : x \in s[i].items) <=> (\E i \in 1 .. k : x \in u[i].items)
    <3>1. \A j \in 1 .. k : \E i \in 1 .. k : p[i] = j
      BY <1>4 DEF Enumerates
    <3> QED BY <1>7, <3>1
  <2>2. \A x : (x \in Held(s, k) <=> \E i \in 1 .. k : x \in s[i].items) /\ (x \in Held(u, k) <=> \E i \in 1 .. k : x \in u[i].items)
    BY DEF Held
  <2> QED BY <2>1, <2>2
<1> QED BY <1>6, <1>9, <1>10, <1>11, <1>12, <1>13, <1>14 DEF IsState, IsCollection

\* A set that weighs nothing is empty.
LEMMA WeightlessIsEmpty ==
    ASSUME NEW m \in Nat, NEW w, \A i \in 1 .. m : w[i] \in Nat \ {0},
           NEW T, T \subseteq 1 .. m
    PROVE  SumOver(w, T, m) = 0 <=> T = {}
<1>1. Weights(w, m)
  BY DEF Weights
<1>2. ASSUME NEW x \in T PROVE SumOver(w, T, m) # 0
  <2>1. x \in 1 .. m /\ w[x] \in Nat \ {0}
    OBVIOUS
  <2>2. SumOver(w, T, m) >= w[x] /\ SumOver(w, T, m) \in Nat
    BY <1>1, <2>1, SumOverBound, SumOverType
  <2> QED BY <2>1, <2>2
<1> QED BY <1>1, <1>2, SumOverEmpty

Positive(w, m) == \A i \in 1 .. m : w[i] \in Nat \ {0}

\* In a state all empty sets come last.
LEMMA EmptyOnesLast ==
    ASSUME NEW k \in Nat, NEW m \in Nat, NEW w, Positive(w, m), NEW s,
           Weighed(s, k, m, w), Falling(s, k),
           NEW i \in 1 .. k, NEW j \in 1 .. k, i <= j, s[i].items = {}
    PROVE  s[j].items = {}
<1>1. /\ s[i] \in SetsOf(m) /\ s[j] \in SetsOf(m)
      /\ s[i].sum = SumOver(w, s[i].items, m) /\ s[j].sum = SumOver(w, s[j].items, m)
  BY DEF Weighed
<1>2. /\ s[i].sum \in Nat /\ s[j].sum \in Nat
      /\ s[i].items \subseteq 1 .. m /\ s[j].items \subseteq 1 .. m
  BY <1>1 DEF SetsOf
<1>3. s[i].sum = 0
  BY <1>1, <1>2, WeightlessIsEmpty DEF Positive
<1>4. s[i].sum >= s[j].sum
  BY <1>2 DEF Falling
<1>5. s[j].sum = 0
  BY <1>2, <1>3, <1>4
<1> QED BY <1>1, <1>2, <1>5, WeightlessIsEmpty DEF Positive

\* Merging the heaviest set with the lightest keeps the sums together: what the one state
\* adds to a difference the other takes away.
LEMMA MergedSets ==
    ASSUME NEW k \in Nat, NEW m \in Nat, NEW w, Positive(w, m), NEW B \in Int,
           NEW equal_size, NEW a, NEW b,
           IsState(a, k, m, w, B, equal_size), IsState(b, k, m, w, B, equal_size),
           Held(a, k) \cap Held(b, k) = {},
           NEW u, u = [i \in 1 .. k |-> Union(a[i], b[k + 1 - i])]
    PROVE  /\ IsCollection(u, k, m, w, B, equal_size)
           /\ Held(u, k) = Held(a, k) \cup Held(b, k)
<1>1. Weights(w, m)
  BY DEF Positive, Weights
<1>2. /\ Weighed(a, k, m, w) /\ Apart(a, k) /\ Within(a, k, B) /\ Shaped(a, k, equal_size) /\ Falling(a, k)
      /\ Weighed(b, k, m, w) /\ Apart(b, k) /\ Within(b, k, B) /\ Shaped(b, k, equal_size) /\ Falling(b, k)
  BY DEF IsState, IsCollection
<1>3. PICK c : c = [i \in 1 .. k |-> b[k + 1 - i]]
  OBVIOUS
<1>4. \A i \in 1 .. k : k + 1 - i \in 1 .. k /\ c[i] = b[k + 1 - i]
  BY <1>3
<1>5. /\ \A i \in 1 .. k : a[i] \in SetsOf(m) /\ c[i] \in SetsOf(m)
      /\ \A i \in 1 .. k : a[i].sum \in Nat /\ c[i].sum \in Nat
      /\ \A i \in 1 .. k : a[i].items \subseteq 1 .. m /\ c[i].items \subseteq 1 .. m
      /\ \A i \in 1 .. k : a[i].sum = SumOver(w, a[i].items, m) /\ c[i].sum = SumOver(w, c[i].items, m)
  BY <1>2, <1>4 DEF Weighed, SetsOf
<1>6. \A i \in 1 .. k : /\ u[i] = [sum |-> a[i].sum + c[i].sum, items |-> a[i].items \cup c[i].items]
                        /\ u[i].sum = a[i].sum + c[i].sum
                        /\ u[i].items = a[i].items \cup c[i].items
  BY <1>4 DEF Union
<1>7. \A i, j \in 1 .. k : a[i].items \cap c[j].items = {}
  <2>1. \A i \in 1 .. k : a[i].items \subseteq Held(a, k) /\ c[i].items \subseteq Held(b, k)
    BY <1>4 DEF Held
  <2> QED BY <2>1
<1>8. Weighed(u, k, m, w)
  <2>1. ASSUME NEW i \in 1 .. k
        PROVE  u[i] \in SetsOf(m) /\ u[i].sum = SumOver(w, u[i].items, m)
    <3>1. u[i] \in SetsOf(m)
      <4>1. a[i].sum + c[i].sum \in Nat
        BY <1>5
      <4>2. (a[i].items \cup c[i].items) \in SUBSET (1 .. m)
        BY <1>5
      <4>3. PICK sum, items : sum = a[i].sum + c[i].sum /\ items = a[i].items \cup c[i].items
        OBVIOUS
      <4>4. u[i] = [sum |-> sum, items |-> items] /\ sum \in Nat /\ items \in SUBSET (1 .. m)
        BY <1>6, <4>1, <4>2, <4>3
      <4>5. [sum |-> sum, items |-> items] \in SetsOf(m)
        BY <4>4 DEF SetsOf
      <4> QED BY <4>4, <4>5
    <3>2. PICK x, y : x = a[i].items /\ y = c[i].items
      OBVIOUS
    <3>3. x \cap y = {}
      BY <1>7, <3>2
    <3>4. SumOver(w, x \cup y, m) = SumOver(w, x, m) + SumOver(w, y, m)
      BY <1>1, <3>3, SumOverUnion
    <3> QED BY <1>5, <1>6, <3>1, <3>2, <3>4
  <2>2. u \in [1 .. k -> SetsOf(m)]
    BY <2>1
  <2> QED BY <2>1, <2>2 DEF Weighed
<1>9. Apart(u, k)
  <2> SUFFICES ASSUME NEW i \in 1 .. k, NEW j \in 1 .. k, i # j
               PROVE  u[i].items \cap u[j].items = {}
    BY DEF Apart
  <2>1. a[i].items \cap a[j].items = {}
    BY <1>2 DEF Apart
  <2>2. c[i].items \cap c[j].items = {}
    <3>1. k + 1 - i # k + 1 - j
      OBVIOUS
    <3> QED BY <1>2, <1>4, <3>1 DEF Apart
  <2>3. a[i].items \cap c[j].items = {} /\ a[j].items \cap c[i].items = {}
    BY <1>7
  <2> QED BY <1>6, <2>1, <2>2, <2>3
<1>10. Within(u, k, B)
  <2> SUFFICES ASSUME NEW i \in 1 .. k, NEW j \in 1 .. k
               PROVE  u[i].sum - u[j].sum <= B
    BY DEF Within
  <2>1. /\ a[i].sum \in Nat /\ a[j].sum \in Nat /\ c[i].sum \in Nat /\ c[j].sum \in Nat
        /\ u[i].sum = a[i].sum + c[i].sum /\ u[j].sum = a[j].sum + c[j].sum
    BY <1>5, <1>6
  <2>2. a[i].sum - a[j].sum <= B /\ c[i].sum - c[j].sum <= B
    BY <1>2, <1>4 DEF Within
  <2>3. PICK ai, aj, ci, cj : ai = a[i].sum /\ aj = a[j].sum /\ ci = c[i].sum /\ cj = c[j].sum
    OBVIOUS
  <2>4. /\ ai \in Nat /\ aj \in Nat /\ ci \in Nat /\ cj \in Nat
        /\ ai - aj <= B /\ ci - cj <= B
        /\ u[i].sum = ai + ci /\ u[j].sum = aj + cj
    BY <2>1, <2>2, <2>3
  <2>5. CASE i < j
    <3>1. k + 1 - j < k + 1 - i
      BY <2>5
    <3>2. cj >= ci
      BY <1>2, <1>4, <2>3, <3>1 DEF Falling
    <3>3. (ai + ci) - (aj + cj) <= B
      BY <2>4, <3>2
    <3> QED BY <2>4, <3>3
  <2>6. CASE j < i
    <3>1. aj >= ai
      BY <1>2, <2>3, <2>6 DEF Falling
    <3>2. (ai + ci) - (aj + cj) <= B
      BY <2>4, <3>1
    <3> QED BY <2>4, <3>2
  <2>7. CASE i = j
    <3>1. u[i].sum = u[j].sum /\ ai = aj
      BY <2>3, <2>7
    <3> QED BY <2>4, <3>1
  <2> QED BY <2>5, <2>6, <2>7
<1>11. Shaped(u, k, equal_size)
  <2>1. CASE equal_size
    <3>1. Alike(a, k) /\ Alike(b, k)
      BY <1>2, <2>1 DEF Shaped
    <3>2. ASSUME NEW i \in 1 .. k
          PROVE  /\ Cardinality(u[i].items) = Cardinality(a[i].items) + Cardinality(c[i].items)
                 /\ Cardinality(a[i].items) \in Nat /\ Cardinality(c[i].items) \in Nat
      <4>1. /\ IsFiniteSet(a[i].items) /\ IsFiniteSet(c[i].items)
            /\ Cardinality(a[i].items) \in Nat /\ Cardinality(c[i].items) \in Nat
        BY <1>5, ItemsFinite
      <4>2. a[i].items \cap c[i].items = {}
        BY <1>7
      <4>3. Cardinality(a[i].items \cup c[i].items)
              = Cardinality(a[i].items) + Cardinality(c[i].items) - Cardinality({})
        BY <4>1, <4>2, FS_Union
      <4>4. Cardinality({}) = 0
        BY FS_EmptySet
      <4>5. Cardinality(u[i].items) = Cardinality(a[i].items \cup c[i].items)
        BY <1>6
      <4> QED BY <4>1, <4>3, <4>4, <4>5
    <3>3. ASSUME NEW i \in 1 .. k, NEW j \in 1 .. k
          PROVE  Cardinality(u[i].items) = Cardinality(u[j].items)
      <4>1. Cardinality(a[i].items) = Cardinality(a[j].items)
        BY <3>1 DEF Alike
      <4>2. Cardinality(c[i].items) = Cardinality(c[j].items)
        BY <1>4, <3>1 DEF Alike
      <4> QED BY <3>2, <4>1, <4>2
    <3> QED BY <2>1, <3>3 DEF Shaped, Alike
  <2>2. CASE ~ equal_size
    <3> SUFFICES ASSUME NEW i \in 1 .. k, NEW j \in 1 .. k, u[i].items = {},
                        NEW x \in u[j].items, NEW y \in u[j].items
                 PROVE  x = y
      BY <2>2 DEF Shaped, Thin
    <3>1. Thin(a, k) /\ Thin(b, k)
      BY <1>2, <2>2 DEF Shaped
    <3>2. a[i].items = {} /\ c[i].items = {}
      BY <1>6
    <3>3. /\ \A p, q \in a[j].items : p = q
          /\ \A p, q \in c[j].items : p = q
      <4>1. \A p, q \in a[j].items : p = q
        BY <3>1, <3>2 DEF Thin
      <4>2. PICK i2, j2 : i2 = k + 1 - i /\ j2 = k + 1 - j
        OBVIOUS
      <4>3. i2 \in 1 .. k /\ j2 \in 1 .. k /\ c[i] = b[i2] /\ c[j] = b[j2]
        BY <1>4, <4>2
      <4>4. \A p, q \in b[j2].items : p = q
        BY <3>1, <3>2, <4>3 DEF Thin
      <4> QED BY <4>1, <4>3, <4>4
    <3>4. a[j].items = {} \/ c[j].items = {}
      <4>1. CASE i <= j
        BY <1>2, <3>2, <4>1, EmptyOnesLast
      <4>2. CASE j <= i
        <5>1. PICK i2, j2 : i2 = k + 1 - i /\ j2 = k + 1 - j
          OBVIOUS
        <5>2. c[i] = b[i2] /\ c[j] = b[j2] /\ i2 \in 1 .. k /\ j2 \in 1 .. k
          BY <1>4, <5>1
        <5>3. i2 <= j2
          BY <4>2, <5>1
        <5> QED BY <1>2, <3>2, <5>2, <5>3, EmptyOnesLast
      <4> QED BY <4>1, <4>2
    <3> QED BY <1>6, <3>3, <3>4
  <2> QED BY <2>1, <2>2
<1>12. Held(u, k) = Held(a, k) \cup Held(b, k)
  <2>1. ASSUME NEW x
        PROVE  (\E i \in 1 .. k : x \in u[i].items)
                 <=> (\E i \in 1 .. k : x \in a[i].items) \/ (\E i \in 1 .. k : x \in b[i].items)
    <3>1. ASSUME NEW i \in 1 .. k, x \in u[i].items
          PROVE  (\E j \in 1 .. k : x \in a[j].items) \/ (\E j \in 1 .. k : x \in b[j].items)
      BY <1>4, <1>6, <3>1
    <3>2. ASSUME NEW i \in 1 .. k, x \in a[i].items PROVE \E j \in 1 .. k : x \in u[j].items
      BY <1>6, <3>2
    <3>3. ASSUME NEW i \in 1 .. k, x \in b[i].items PROVE \E j \in 1 .. k : x \in u[j].items
      <4>1. PICK j : j = k + 1 - i
        OBVIOUS
      <4>2. j \in 1 .. k /\ k + 1 - j = i
        BY <4>1
      <4>3. c[j] = b[i]
        BY <1>4, <4>2
      <4> QED BY <1>6, <3>3, <4>2, <4>3
    <3> QED BY <3>1, <3>2, <3>3
  <2>2. \A x : /\ x \in Held(u, k) <=> \E i \in 1 .. k : x \in u[i].items
               /\ x \in Held(a, k) <=> \E i \in 1 .. k : x \in a[i].items
               /\ x \in Held(b, k) <=> \E i \in 1 .. k : x \in b[i].items
    BY DEF Held
  <2> QED BY <2>1, <2>2
<1> QED BY <1>8, <1>9, <1>10, <1>11, <1>12 DEF IsCollection

LEMMA MergedState ==
    ASSUME NEW k \in Nat, NEW m \in Nat, NEW w, Positive(w, m), NEW B \in Int,
           NEW equal_size, NEW a, NEW b,
           IsState(a, k, m, w, B, equal_size), IsState(b, k, m, w, B, equal_size),
           Held(a, k) \cap Held(b, k) = {}
    PROVE  /\ IsState(Merge(a, b), k, m, w, B, equal_size)
           /\ Held(Merge(a, b), k) = Held(a, k) \cup Held(b, k)
<1>1. Len(a) = k
  <2>1. a \in [1 .. k -> SetsOf(m)]
    BY DEF IsState, IsCollection, Weighed
  <2> QED BY <2>1, ListOf
<1>2. PICK u : u = [i \in 1 .. k |-> Union(a[i], b[k + 1 - i])]
  OBVIOUS
<1>3. Merge(a, b) = Decreasing(u)
  BY <1>1, <1>2 DEF Merge
<1>4. /\ IsCollection(u, k, m, w, B, equal_size)
      /\ Held(u, k) = Held(a, k) \cup Held(b, k)
  BY <1>2, MergedSets
<1> QED BY <1>3, <1>4, Rearranged

\* A state with the largest spread exists, whichever states are left.
LEMMA PoppedIsLeft ==
    ASSUME NEW k \in Nat \ {0}, NEW m \in Nat, NEW w, NEW B, NEW equal_size,
           NEW S, IsFiniteSet(S), S # {},
           \A s \in S : IsState(s, k, m, w, B, equal_size)
    PROVE  Popped(S) \in S
<1>1. ASSUME NEW s \in S
      PROVE  spread(s) \in Int /\ s[1].sum \in Int /\ Cardinality(s[1].items) \in Int
  <2>1. s \in [1 .. k -> SetsOf(m)]
    BY DEF IsState, IsCollection, Weighed
  <2>2. Len(s) = k /\ 1 \in 1 .. k /\ k \in 1 .. k
    BY <2>1, ListOf
  <2>3. s[1] \in SetsOf(m) /\ s[k] \in SetsOf(m)
    BY <2>1, <2>2
  <2>4. s[1].sum \in Nat /\ s[k].sum \in Nat /\ s[1].items \subseteq 1 .. m
    BY <2>3 DEF SetsOf
  <2>5. Cardinality(s[1].items) \in Nat
    BY <2>4, ItemsFinite
  <2> QED BY <2>2, <2>4, <2>5 DEF spread
<1>2. PICK R : R = {p \in S \X S : ~ Before(p[1], p[2])}
  OBVIOUS
<1>3. \A x, y \in S : << x, y >> \in R <=> ~ Before(x, y)
  BY <1>2
<1>4. PICK sp, heavy, many : /\ sp = [s \in S |-> spread(s)]
                             /\ heavy = [s \in S |-> s[1].sum]
                             /\ many = [s \in S |-> Cardinality(s[1].items)]
  OBVIOUS
<1>5. \A s \in S : sp[s] \in Int /\ heavy[s] \in Int /\ many[s] \in Int
  BY <1>1, <1>4
<1>6. \A x, y \in S : << x, y >> \in R <=>
         ~ (\/ sp[x] > sp[y]
            \/ sp[x] = sp[y] /\ heavy[x] > heavy[y]
            \/ sp[x] = sp[y] /\ heavy[x] = heavy[y] /\ many[x] > many[y])
  BY <1>3, <1>4 DEF Before, Heavier
<1>7. Compares(S, R)
  <2>1. ASSUME NEW x \in S, NEW y \in S PROVE << x, y >> \in R \/ << y, x >> \in R
    BY <1>5, <1>6
  <2>2. ASSUME NEW x \in S, NEW y \in S, NEW z \in S, << x, y >> \in R, << y, z >> \in R
        PROVE  << x, z >> \in R
    BY <1>5, <1>6, <2>2
  <2> QED BY <2>1, <2>2 DEF Compares
<1>8. PICK x \in S : \A y \in S : << y, x >> \in R
  BY <1>7, Greatest
<1>9. \A other \in S : ~ Before(other, x)
  BY <1>3, <1>8
<1> QED BY <1>9 DEF Popped

-----------------------------------------------------------------------------
(* The loop of karmarkar_karp.                                             *)

\* c states are left, and they hold every item once.
Frontier(S, c, k, m, w, B, equal_size) ==
    /\ IsFiniteSet(S) /\ Cardinality(S) = c
    /\ \A s \in S : IsState(s, k, m, w, B, equal_size) /\ Held(s, k) # {}
    /\ \A s, t \in S : s # t => Held(s, k) \cap Held(t, k) = {}
    /\ \A x \in 1 .. m : \E s \in S : x \in Held(s, k)

\* One turn: two states give way to their merge.
LEMMA MergedFrontier ==
    ASSUME NEW k \in Nat \ {0}, NEW m \in Nat, NEW w, Positive(w, m), NEW B \in Int,
           NEW equal_size, NEW c \in Nat, c >= 2, NEW S,
           Frontier(S, c, k, m, w, B, equal_size)
    PROVE  Frontier(MergeTwo(S), c - 1, k, m, w, B, equal_size)
<1>1. /\ IsFiniteSet(S) /\ Cardinality(S) = c
      /\ \A s \in S : IsState(s, k, m, w, B, equal_size) /\ Held(s, k) # {}
      /\ \A s, t \in S : s # t => Held(s, k) \cap Held(t, k) = {}
      /\ \A x \in 1 .. m : \E s \in S : x \in Held(s, k)
  BY DEF Frontier
<1>2. PICK a : a = Popped(S)
  OBVIOUS
<1>3. S # {}
  BY <1>1, FS_EmptySet
<1>4. a \in S
  BY <1>1, <1>2, <1>3, PoppedIsLeft
<1>5. PICK S1 : S1 = S \ {a}
  OBVIOUS
<1>6. IsFiniteSet(S1) /\ Cardinality(S1) = c - 1
  BY <1>1, <1>4, <1>5, FS_RemoveElement
<1>7. S1 # {}
  <2>1. c - 1 # 0
    OBVIOUS
  <2> QED BY <1>6, <2>1, FS_EmptySet
<1>8. PICK b : b = Popped(S1)
  OBVIOUS
<1>9. b \in S1
  <2>1. \A s \in S1 : IsState(s, k, m, w, B, equal_size)
    BY <1>1, <1>5
  <2> QED BY <1>6, <1>7, <1>8, <2>1, PoppedIsLeft
<1>10. b \in S /\ a # b
  BY <1>5, <1>9
<1>11. PICK rest, t : rest = S \ {a, b} /\ t = Merge(a, b)
  OBVIOUS
<1>12. MergeTwo(S) = rest \cup {t}
  <2>1. FirstTwo(S) = << a, b >>
    BY <1>2, <1>5, <1>8 DEF FirstTwo
  <2>2. << a, b >>[1] = a /\ << a, b >>[2] = b
    OBVIOUS
  <2> QED BY <1>11, <2>1, <2>2 DEF MergeTwo
<1>13. IsFiniteSet(rest) /\ Cardinality(rest) = c - 2
  <2>1. rest = S1 \ {b}
    BY <1>5, <1>11
  <2>2. IsFiniteSet(S1 \ {b}) /\ Cardinality(S1 \ {b}) = (c - 1) - 1
    BY <1>6, <1>9, FS_RemoveElement
  <2> QED BY <2>1, <2>2
<1>14. /\ IsState(t, k, m, w, B, equal_size)
       /\ Held(t, k) = Held(a, k) \cup Held(b, k)
  <2>1. Held(a, k) \cap Held(b, k) = {}
    BY <1>1, <1>4, <1>10
  <2>2. IsState(a, k, m, w, B, equal_size) /\ IsState(b, k, m, w, B, equal_size)
    BY <1>1, <1>4, <1>10
  <2> QED BY <1>11, <2>1, <2>2, MergedState
<1>15. \A s \in rest : /\ s \in S /\ s # a /\ s # b
                       /\ Held(s, k) \cap Held(t, k) = {}
  <2>1. \A s \in rest : s \in S /\ s # a /\ s # b
    BY <1>11
  <2>2. \A s \in rest : Held(s, k) \cap Held(a, k) = {} /\ Held(s, k) \cap Held(b, k) = {}
    BY <1>1, <1>4, <1>10, <2>1
  <2> QED BY <1>14, <2>1, <2>2
<1>16. Held(t, k) # {}
  BY <1>1, <1>4, <1>14
<1>17. t \notin rest
  BY <1>15, <1>16
<1>18. IsFiniteSet(rest \cup {t}) /\ Cardinality(rest \cup {t}) = c - 1
  <2>1. IsFiniteSet(rest \cup {t}) /\ Cardinality(rest \cup {t}) = (c - 2) + 1
    BY <1>13, <1>17, FS_AddElement
  <2> QED BY <2>1
<1>19. PICK next : next = rest \cup {t}
  OBVIOUS
<1>20. \A s \in next : IsState(s, k, m, w, B, equal_size) /\ Held(s, k) # {}
  BY <1>1, <1>14, <1>15, <1>16, <1>19
<1>21. ASSUME NEW s1 \in next, NEW s2 \in next, s1 # s2
       PROVE  Held(s1, k) \cap Held(s2, k) = {}
  <2>1. CASE s1 \in rest /\ s2 \in rest
    BY <1>1, <1>15, <1>21, <2>1
  <2>2. CASE s1 = t \/ s2 = t
    BY <1>15, <1>19, <1>21, <2>2
  <2> QED BY <1>19, <2>1, <2>2
<1>22. ASSUME NEW x \in 1 .. m PROVE \E s \in next : x \in Held(s, k)
  <2>1. PICK s \in S : x \in Held(s, k)
    BY <1>1
  <2>2. CASE s = a \/ s = b
    BY <1>14, <1>19, <2>1, <2>2
  <2>3. CASE s # a /\ s # b
    BY <1>11, <1>19, <2>1, <2>3
  <2> QED BY <2>2, <2>3
<1> QED BY <1>12, <1>18, <1>19, <1>20, <1>21, <1>22 DEF Frontier

\* states is {S} for the c - i states that are left after i turns.
Left(states, i, c, k, m, w, B, equal_size) ==
    \E S : states = {S} /\ Frontier(S, c - i, k, m, w, B, equal_size)

\* f[i] is what is left after i turns.
Turns(f, initial, merges) ==
    f = [i \in 0 .. merges |->
            IF i = 0 THEN {initial} ELSE {MergeTwo(states_pq) : states_pq \in f[i - 1]}]

LEMMA TurnsExist ==
    ASSUME NEW merges \in Nat, NEW initial
    PROVE  \E f : Turns(f, initial, merges)
<1>1. PICK T : T = {i \in 0 .. merges : \E f : Turns(f, initial, i)}
  OBVIOUS
<1>2. 0 \in T
  <2>1. PICK f : f = [i \in 0 .. 0 |-> {initial}]
    OBVIOUS
  <2>2. Turns(f, initial, 0)
    BY <2>1 DEF Turns
  <2> QED BY <1>1, <2>2
<1>3. ASSUME NEW i \in 0 .. merges - 1, i \in T PROVE i + 1 \in T
  <2>1. PICK f : Turns(f, initial, i)
    BY <1>1, <1>3
  <2>2. PICK n : n = i + 1
    OBVIOUS
  <2>3. /\ n \in 1 .. merges /\ n \in 0 .. merges /\ n # 0 /\ n - 1 = i /\ i \in 0 .. n
        /\ \A j \in 0 .. n : j # n => j \in 0 .. i
        /\ \A j \in 0 .. i : j # n /\ j \in 0 .. n /\ (j # 0 => j - 1 \in 0 .. i)
    BY <2>2
  <2>4. PICK g : g = [j \in 0 .. n |-> IF j = n THEN {MergeTwo(states_pq) : states_pq \in f[i]}
                                       ELSE f[j]]
    OBVIOUS
  <2>5. \A j \in 0 .. i : g[j] = f[j]
    BY <2>3, <2>4
  <2>6. ASSUME NEW j \in 0 .. n
        PROVE  g[j] = IF j = 0 THEN {initial} ELSE {MergeTwo(states_pq) : states_pq \in g[j - 1]}
    <3>1. CASE j = n
      <4>1. g[n] = {MergeTwo(states_pq) : states_pq \in f[i]}
        BY <2>3, <2>4
      <4>2. f[i] = g[i] /\ n - 1 = i
        BY <2>3, <2>5
      <4> QED BY <2>3, <3>1, <4>1, <4>2
    <3>2. CASE j # n
      <4>1. j \in 0 .. i /\ (j # 0 => j - 1 \in 0 .. i)
        BY <2>3, <3>2
      <4>2. f[j] = IF j = 0 THEN {initial} ELSE {MergeTwo(states_pq) : states_pq \in f[j - 1]}
        BY <2>1, <4>1 DEF Turns
      <4>3. g[j] = f[j] /\ (j # 0 => g[j - 1] = f[j - 1])
        BY <2>5, <4>1
      <4> QED BY <4>2, <4>3
    <3> QED BY <3>1, <3>2
  <2>7. g = [j \in 0 .. n |-> g[j]]
    BY <2>4
  <2>8. Turns(g, initial, n)
    BY <2>6, <2>7 DEF Turns
  <2> QED BY <1>1, <2>2, <2>3, <2>8
<1>4. \A i \in 0 .. merges - 1 : i \in T => i + 1 \in T
  BY <1>3
<1>5. \A i \in 0 .. merges : i \in T
  BY <1>2, <1>4, Reaches
<1>6. merges \in 0 .. merges
  OBVIOUS
<1> QED BY <1>1, <1>5, <1>6

\* What is left is one state with every item.
OneState(states, k, m, w, B, equal_size) ==
    \E s : /\ states = {s}
           /\ IsState(s, k, m, w, B, equal_size)
           /\ \A x \in 1 .. m : x \in Held(s, k)

LEMMA TurnsLeaveOne ==
    ASSUME NEW k \in Nat \ {0}, NEW m \in Nat, NEW w, Positive(w, m), NEW B \in Int,
           NEW equal_size, NEW c \in Nat \ {0}, NEW initial,
           Frontier(initial, c, k, m, w, B, equal_size),
           NEW f, Turns(f, initial, c - 1)
    PROVE  OneState(UNION f[c - 1], k, m, w, B, equal_size)
<1>1. PICK n : n = c - 1
  OBVIOUS
<1>2. n \in Nat
  BY <1>1
<1>3. PICK T : T = {i \in 0 .. n : Left(f[i], i, c, k, m, w, B, equal_size)}
  OBVIOUS
<1>4. 0 \in T
  <2>1. f[0] = {initial}
    BY <1>1, <1>2 DEF Turns
  <2>2. c - 0 = c
    OBVIOUS
  <2>3. Left(f[0], 0, c, k, m, w, B, equal_size)
    BY <2>1, <2>2 DEF Left
  <2> QED BY <1>2, <1>3, <2>3
<1>5. ASSUME NEW i \in 0 .. n - 1, i \in T PROVE i + 1 \in T
  <2>1. PICK j : j = i + 1
    OBVIOUS
  <2>2. j \in 1 .. n /\ j \in 0 .. n /\ j # 0 /\ j - 1 = i
    BY <1>2, <2>1
  <2>3. PICK S : f[i] = {S} /\ Frontier(S, c - i, k, m, w, B, equal_size)
    BY <1>3, <1>5 DEF Left
  <2>4. f[j] = {MergeTwo(states_pq) : states_pq \in f[i]}
    <3>1. f[j] = IF j = 0 THEN {initial} ELSE {MergeTwo(states_pq) : states_pq \in f[j - 1]}
      BY <1>1, <2>2 DEF Turns
    <3> QED BY <2>2, <3>1
  <2>5. f[j] = {MergeTwo(S)}
    BY <2>3, <2>4
  <2>6. PICK d : d = c - i
    OBVIOUS
  <2>7. d \in Nat /\ d >= 2 /\ c - j = d - 1
    BY <1>1, <2>1, <2>6
  <2>8. Frontier(MergeTwo(S), d - 1, k, m, w, B, equal_size)
    BY <2>3, <2>6, <2>7, MergedFrontier
  <2>9. Left(f[j], j, c, k, m, w, B, equal_size)
    BY <2>5, <2>7, <2>8 DEF Left
  <2> QED BY <1>3, <2>1, <2>2, <2>9
<1>6. \A i \in 0 .. n - 1 : i \in T => i + 1 \in T
  BY <1>5
<1>7. \A i \in 0 .. n : i \in T
  BY <1>2, <1>4, <1>6, Reaches
<1>8. n \in 0 .. n /\ c - n = 1
  BY <1>1, <1>2
<1>9. PICK S : f[n] = {S} /\ Frontier(S, 1, k, m, w, B, equal_size)
  BY <1>3, <1>7, <1>8 DEF Left
<1>10. PICK s : S = {s}
  BY <1>9, FS_Singleton DEF Frontier
<1>11. UNION f[n] = {s}
  BY <1>9, <1>10
<1>12. IsState(s, k, m, w, B, equal_size) /\ \A x \in 1 .. m : x \in Held(s, k)
  BY <1>9, <1>10 DEF Frontier
<1> QED BY <1>1, <1>11, <1>12 DEF OneState

\* B bounds what two items can differ by, or what an item can weigh.
Bounds(B, w, m, equal_size) ==
    IF equal_size THEN \A x, y \in 1 .. m : w[x] - w[y] <= B
    ELSE \A x \in 1 .. m : w[x] <= B

LEMMA SingleSet ==
    ASSUME NEW m \in Nat, NEW w, Positive(w, m), NEW x \in 1 .. m
    PROVE  /\ Single(w, x) \in SetsOf(m)
           /\ Single(w, x).sum = w[x] /\ Single(w, x).items = {x}
           /\ Single(w, x).sum = SumOver(w, Single(w, x).items, m)
<1>1. Single(w, x) = [sum |-> w[x], items |-> {x}]
  BY DEF Single
<1>2. w[x] \in Nat /\ {x} \in SUBSET (1 .. m)
  BY DEF Positive
<1>3. SumOver(w, {x}, m) = w[x]
  <2>1. Weights(w, m)
    BY DEF Positive, Weights
  <2> QED BY <2>1, SumOverSingle
<1>4. [sum |-> w[x], items |-> {x}] \in SetsOf(m)
  BY <1>2 DEF SetsOf
<1> QED BY <1>1, <1>3, <1>4

LEMMA EmptySetOf ==
    ASSUME NEW m \in Nat, NEW w, Positive(w, m)
    PROVE  /\ NoItems \in SetsOf(m)
           /\ NoItems.sum = 0 /\ NoItems.items = {}
           /\ NoItems.sum = SumOver(w, NoItems.items, m)
<1>1. NoItems = [sum |-> 0, items |-> {}]
  BY DEF NoItems
<1>2. SumOver(w, {}, m) = 0
  <2>1. Weights(w, m)
    BY DEF Positive, Weights
  <2> QED BY <2>1, SumOverEmpty
<1>3. [sum |-> 0, items |-> {}] \in SetsOf(m)
  BY DEF SetsOf
<1> QED BY <1>1, <1>2, <1>3

\* The items one by one.
LEMMA LooseItems ==
    ASSUME NEW k \in Nat \ {0}, NEW m \in Nat \ {0}, NEW w, Positive(w, m), NEW B \in Int,
           Bounds(B, w, m, FALSE)
    PROVE  Frontier(InitialStates(w, 1 .. m, k, FALSE), m, k, m, w, B, FALSE)
<1>1. PICK st : st = [x \in 1 .. m |-> [i \in 1 .. k |-> IF i = 1 THEN Single(w, x) ELSE NoItems]]
  OBVIOUS
<1>2. PICK S : S = InitialStates(w, 1 .. m, k, FALSE)
  OBVIOUS
<1>3. S = {st[x] : x \in 1 .. m}
  BY <1>1, <1>2 DEF InitialStates
<1>4. \A x \in 1 .. m : /\ st[x] = [i \in 1 .. k |-> IF i = 1 THEN Single(w, x) ELSE NoItems]
                        /\ st[x][1] = Single(w, x)
                        /\ \A i \in 1 .. k : i # 1 => st[x][i] = NoItems
  BY <1>1
<1>5. ASSUME NEW x \in 1 .. m
      PROVE  IsState(st[x], k, m, w, B, FALSE) /\ Held(st[x], k) = {x}
  <2>1. PICK s : s = st[x]
    OBVIOUS
  <2>2. /\ s = [i \in 1 .. k |-> IF i = 1 THEN Single(w, x) ELSE NoItems]
        /\ s[1] = Single(w, x)
        /\ \A i \in 1 .. k : i # 1 => s[i] = NoItems
    BY <1>4, <2>1
  <2>3. /\ s[1] \in SetsOf(m) /\ s[1].sum = w[x] /\ s[1].items = {x}
        /\ s[1].sum = SumOver(w, s[1].items, m)
    BY <2>2, SingleSet
  <2>4. \A i \in 1 .. k : i # 1 => /\ s[i] \in SetsOf(m) /\ s[i].sum = 0 /\ s[i].items = {}
                                   /\ s[i].sum = SumOver(w, s[i].items, m)
    BY <2>2, EmptySetOf
  <2>5. w[x] \in Nat /\ w[x] <= B
    BY DEF Positive, Bounds
  <2>6. Weighed(s, k, m, w)
    <3>1. s \in [1 .. k -> SetsOf(m)]
      BY <2>2, <2>3, <2>4
    <3> QED BY <2>3, <2>4, <3>1 DEF Weighed
  <2>7. Apart(s, k)
    BY <2>3, <2>4 DEF Apart
  <2>8. \A i \in 1 .. k : s[i].sum = (IF i = 1 THEN w[x] ELSE 0)
    BY <2>3, <2>4
  <2>9. Within(s, k, B)
    BY <2>5, <2>8 DEF Within
  <2>10. Shaped(s, k, FALSE)
    <3>1. \A j \in 1 .. k : \A y, z \in s[j].items : y = z
      BY <2>3, <2>4
    <3> QED BY <3>1 DEF Shaped, Thin
  <2>11. Falling(s, k)
    BY <2>5, <2>8 DEF Falling
  <2>12. Held(s, k) = {x}
    <3>1. 1 \in 1 .. k
      OBVIOUS
    <3>2. \A i \in 1 .. k : s[i].items = IF i = 1 THEN {x} ELSE {}
      BY <2>3, <2>4
    <3> QED BY <3>1, <3>2 DEF Held
  <2> QED BY <2>1, <2>6, <2>7, <2>9, <2>10, <2>11, <2>12 DEF IsState, IsCollection
<1>6. Enumerates(st, m, S)
  <2>1. st \in [1 .. m -> S]
    BY <1>1, <1>3
  <2>2. ASSUME NEW x \in 1 .. m, NEW y \in 1 .. m, st[x] = st[y] PROVE x = y
    <3>1. {x} = {y}
      BY <1>5, <2>2
    <3> QED BY <3>1
  <2> QED BY <1>3, <2>1, <2>2 DEF Enumerates
<1>7. IsFiniteSet(S) /\ Cardinality(S) = m
  BY <1>6, EnumeratedCount
<1>8. \A s \in S : \E x \in 1 .. m : s = st[x]
  BY <1>3
<1>9. ASSUME NEW s \in S PROVE IsState(s, k, m, w, B, FALSE) /\ Held(s, k) # {}
  <2>1. PICK x \in 1 .. m : s = st[x]
    BY <1>8
  <2>2. IsState(s, k, m, w, B, FALSE) /\ Held(s, k) = {x}
    BY <1>5, <2>1
  <2> QED BY <2>2
<1>10. \A s, t \in S : s # t => Held(s, k) \cap Held(t, k) = {}
  <2> SUFFICES ASSUME NEW s \in S, NEW t \in S, s # t PROVE Held(s, k) \cap Held(t, k) = {}
    OBVIOUS
  <2>1. PICK x \in 1 .. m, y \in 1 .. m : s = st[x] /\ t = st[y]
    BY <1>8
  <2>2. x # y
    BY <2>1
  <2>3. Held(s, k) = {x} /\ Held(t, k) = {y}
    BY <1>5, <2>1
  <2> QED BY <2>2, <2>3
<1>11. ASSUME NEW x \in 1 .. m PROVE \E s \in S : x \in Held(s, k)
  <2>1. PICK s : s = st[x]
    OBVIOUS
  <2>2. s \in S /\ Held(s, k) = {x}
    BY <1>3, <1>5, <2>1
  <2> QED BY <2>2
<1> QED BY <1>2, <1>7, <1>9, <1>10, <1>11 DEF Frontier

\* Where the i-th of a row of k items stands when k by k are taken, the last one first.
Place(k, offset, i) == k * offset + 1 - i

LEMMA PlaceRange ==
    ASSUME NEW k \in Nat \ {0}, NEW R \in Nat, NEW o \in 1 .. R, NEW i \in 1 .. k
    PROVE  Place(k, o, i) \in 1 .. k * R
<1>1. (o - 1) * k \in Nat /\ o * k = (o - 1) * k + k
  OBVIOUS
<1>2. o * k <= R * k
  BY TimesMonotonic
<1>3. k * o = o * k /\ k * R = R * k
  OBVIOUS
<1>4. PICK p, q : p = o * k /\ q = R * k
  OBVIOUS
<1>5. p \in Nat /\ q \in Nat /\ p <= q /\ p >= k
  BY <1>1, <1>2, <1>4
<1>6. p + 1 - i \in 1 .. q
  BY <1>5
<1> QED BY <1>3, <1>4, <1>6 DEF Place

LEMMA PlaceUnique ==
    ASSUME NEW k \in Nat \ {0}, NEW R \in Nat, NEW o \in 1 .. R, NEW i \in 1 .. k,
           NEW o2 \in 1 .. R, NEW i2 \in 1 .. k, Place(k, o, i) = Place(k, o2, i2)
    PROVE  o = o2 /\ i = i2
<1>1. k * o \in Nat /\ k * o2 \in Nat /\ k * o = o * k /\ k * o2 = o2 * k
  OBVIOUS
<1>2. ASSUME NEW a \in 1 .. R, NEW b \in 1 .. R, a + 1 <= b PROVE a * k + k <= b * k
  <2>1. (a + 1) * k = a * k + k
    OBVIOUS
  <2>2. (a + 1) * k <= b * k
    BY <1>2, TimesMonotonic
  <2> QED BY <2>1, <2>2
<1>3. PICK p, p2 : p = k * o /\ p2 = k * o2
  OBVIOUS
<1>4. p \in Nat /\ p2 \in Nat /\ p + 1 - i = p2 + 1 - i2
  BY <1>1, <1>3 DEF Place
<1>5. ~ (o + 1 <= o2)
  <2> SUFFICES ASSUME o + 1 <= o2 PROVE FALSE
    OBVIOUS
  <2>1. p + k <= p2
    BY <1>1, <1>2, <1>3
  <2> QED BY <1>4, <2>1
<1>6. ~ (o2 + 1 <= o)
  <2> SUFFICES ASSUME o2 + 1 <= o PROVE FALSE
    OBVIOUS
  <2>1. p2 + k <= p
    BY <1>1, <1>2, <1>3
  <2> QED BY <1>4, <2>1
<1>7. o = o2
  BY <1>5, <1>6
<1>8. p = p2
  BY <1>3, <1>7
<1> QED BY <1>4, <1>7, <1>8

LEMMA PlaceOnto ==
    ASSUME NEW k \in Nat \ {0}, NEW R \in Nat, NEW q \in 1 .. k * R
    PROVE  \E o \in 1 .. R, i \in 1 .. k : Place(k, o, i) = q
<1>1. k * R \in Nat /\ k * R = R * k
  OBVIOUS
<1>2. PICK d : d = (q - 1) \div k
  OBVIOUS
<1>3. q \in Nat /\ q - 1 \in Nat
  BY <1>1
<1>4. d \in Nat /\ d * k <= q - 1 /\ q - 1 < d * k + k
  BY <1>2, <1>3
<1>5. d + 1 <= R
  <2> SUFFICES ASSUME R <= d PROVE FALSE
    BY <1>4
  <2>1. R * k <= d * k
    BY <1>4, TimesMonotonic
  <2>2. d * k \in Nat
    BY <1>4
  <2> QED BY <1>1, <1>3, <1>4, <2>1, <2>2
<1>6. PICK o, p : o = d + 1 /\ p = d * k
  OBVIOUS
<1>7. p \in Nat /\ k * o = p + k
  BY <1>4, <1>6
<1>8. PICK i : i = p + k + 1 - q
  OBVIOUS
<1>9. i \in 1 .. k
  BY <1>3, <1>4, <1>6, <1>7, <1>8
<1>10. Place(k, o, i) = q
  BY <1>3, <1>7, <1>8 DEF Place
<1>11. o \in 1 .. R
  BY <1>4, <1>5, <1>6
<1> QED BY <1>9, <1>10, <1>11

\* The sorted items k by k.
LEMMA RowsOfItems ==
    ASSUME NEW k \in Nat \ {0}, NEW R \in Nat \ {0}, NEW m, m = k * R,
           NEW w, Positive(w, m), NEW B \in Int, Bounds(B, w, m, TRUE)
    PROVE  Frontier(InitialStates(w, 1 .. m, k, TRUE), R, k, m, w, B, TRUE)
<1>1. m \in Nat \ {0}
  <2>1. k * R \in Nat /\ k * R # 0
    OBVIOUS
  <2> QED BY <2>1
<1>2. PICK sorted : sorted = Ascending(w, 1 .. m)
  OBVIOUS
<1>3. /\ Enumerates(sorted, m, 1 .. m)
      /\ \A i, j \in 1 .. m : i < j => w[sorted[i]] <= w[sorted[j]]
  <2>1. IsFiniteSet(1 .. m) /\ Cardinality(1 .. m) = m /\ 1 .. m \subseteq Int
    BY <1>1, CountUp
  <2>2. \A x \in 1 .. m : w[x] \in Int
    BY DEF Positive
  <2> QED BY <1>2, <2>1, <2>2, AscendingLists
<1>4. PICK S : S = InitialStates(w, 1 .. m, k, TRUE)
  OBVIOUS
<1>5. PICK st : st = [o \in 1 .. R |-> [i \in 1 .. k |-> Single(w, sorted[Place(k, o, i)])]]
  OBVIOUS
<1>6. S = {st[o] : o \in 1 .. R}
  <2>1. Cardinality(1 .. m) = m
    BY <1>1, CountUp
  <2>2. m \div k = R
    <3>1. PICK d : d = (k * R) \div k
      OBVIOUS
    <3>2. k * R \in Nat /\ k * R = R * k
      OBVIOUS
    <3>3. d \in Nat /\ d * k <= R * k /\ R * k < d * k + k /\ d * k \in Nat
      BY <3>1, <3>2
    <3>4. CASE d + 1 <= R
      <4>1. (d + 1) * k <= R * k /\ (d + 1) * k = d * k + k
        BY <3>3, <3>4, TimesMonotonic
      <4> QED BY <3>2, <3>3, <4>1
    <3>5. CASE R + 1 <= d
      <4>1. (R + 1) * k <= d * k /\ (R + 1) * k = R * k + k
        BY <3>3, <3>5, TimesMonotonic
      <4> QED BY <3>2, <3>3, <4>1
    <3> QED BY <3>1, <3>3, <3>4, <3>5
  <2>3. S = {[i \in 1 .. k |-> Single(w, sorted[k * offset + 1 - i])] : offset \in 1 .. R}
    BY <1>2, <1>4, <2>1, <2>2 DEF InitialStates
  <2> QED BY <1>5, <2>3 DEF Place
<1>7. \A o \in 1 .. R : \A i \in 1 .. k :
         /\ Place(k, o, i) \in 1 .. m
         /\ sorted[Place(k, o, i)] \in 1 .. m
  <2>1. \A o \in 1 .. R : \A i \in 1 .. k : Place(k, o, i) \in 1 .. m
    BY PlaceRange
  <2> QED BY <1>3, <2>1 DEF Enumerates
<1>8. ASSUME NEW o \in 1 .. R
      PROVE  /\ IsState(st[o], k, m, w, B, TRUE)
             /\ \A x : x \in Held(st[o], k) <=> \E i \in 1 .. k : x = sorted[Place(k, o, i)]
  <2>1. PICK s : s = st[o]
    OBVIOUS
  <2>2. PICK item : item = [i \in 1 .. k |-> sorted[Place(k, o, i)]]
    OBVIOUS
  <2>3. \A i \in 1 .. k : item[i] \in 1 .. m /\ w[item[i]] \in Nat
    BY <1>7, <2>2 DEF Positive
  <2>4. s = [i \in 1 .. k |-> Single(w, item[i])]
    BY <1>5, <2>1, <2>2
  <2>5. \A i \in 1 .. k : /\ s[i] = Single(w, item[i])
                          /\ s[i] \in SetsOf(m) /\ s[i].sum = w[item[i]] /\ s[i].items = {item[i]}
                          /\ s[i].sum = SumOver(w, s[i].items, m)
    BY <1>1, <2>3, <2>4, SingleSet
  <2>6. \A i, j \in 1 .. k : item[i] = item[j] => i = j
    <3> SUFFICES ASSUME NEW i \in 1 .. k, NEW j \in 1 .. k, item[i] = item[j] PROVE i = j
      OBVIOUS
    <3>1. Place(k, o, i) = Place(k, o, j)
      BY <1>3, <1>7, <2>2 DEF Enumerates
    <3> QED BY <3>1, PlaceUnique
  <2>7. Weighed(s, k, m, w)
    <3>1. s \in [1 .. k -> SetsOf(m)]
      BY <2>4, <2>5
    <3> QED BY <2>5, <3>1 DEF Weighed
  <2>8. Apart(s, k)
    BY <2>5, <2>6 DEF Apart
  <2>9. Within(s, k, B)
    BY <2>3, <2>5 DEF Within, Bounds
  <2>10. Shaped(s, k, TRUE)
    <3>1. ASSUME NEW i \in 1 .. k PROVE Cardinality(s[i].items) = 1
      <4>1. PICK x, one : x = item[i] /\ one = {x}
        OBVIOUS
      <4>2. Cardinality(one) = 1
        BY <4>1, FS_Singleton
      <4> QED BY <2>5, <4>1, <4>2
    <3> QED BY <3>1 DEF Shaped, Alike
  <2>11. Falling(s, k)
    <3> SUFFICES ASSUME NEW i \in 1 .. k, NEW j \in 1 .. k, i < j PROVE s[i].sum >= s[j].sum
      BY DEF Falling
    <3>1. Place(k, o, j) < Place(k, o, i)
      <4>1. PICK p : p = k * o
        OBVIOUS
      <4>2. p \in Nat
        BY <4>1
      <4>3. p + 1 - j < p + 1 - i
        BY <4>2
      <4> QED BY <4>1, <4>3 DEF Place
    <3>2. w[sorted[Place(k, o, j)]] <= w[sorted[Place(k, o, i)]]
      BY <1>3, <1>7, <3>1
    <3> QED BY <2>2, <2>3, <2>5, <3>2
  <2>12. \A x : x \in Held(s, k) <=> \E i \in 1 .. k : x = sorted[Place(k, o, i)]
    <3>1. \A x : x \in Held(s, k) <=> \E i \in 1 .. k : x \in s[i].items
      BY DEF Held
    <3>2. \A i \in 1 .. k : s[i].items = {item[i]} /\ item[i] = sorted[Place(k, o, i)]
      BY <2>2, <2>5
    <3>3. \A x : \A i \in 1 .. k : x \in s[i].items <=> x = sorted[Place(k, o, i)]
      BY <3>2
    <3> QED BY <3>1, <3>3
  <2> QED BY <2>1, <2>7, <2>8, <2>9, <2>10, <2>11, <2>12 DEF IsState, IsCollection
<1>9. ASSUME NEW o \in 1 .. R PROVE Held(st[o], k) # {}
  <2>1. 1 \in 1 .. k
    OBVIOUS
  <2> QED BY <1>8, <2>1
<1>10. ASSUME NEW o \in 1 .. R, NEW o2 \in 1 .. R, o # o2
       PROVE  Held(st[o], k) \cap Held(st[o2], k) = {}
  <2> SUFFICES ASSUME NEW x, x \in Held(st[o], k), x \in Held(st[o2], k) PROVE FALSE
    OBVIOUS
  <2>3. PICK i \in 1 .. k : x = sorted[Place(k, o, i)]
    BY <1>8
  <2>1. PICK i2 \in 1 .. k : x = sorted[Place(k, o2, i2)]
    BY <1>8
  <2>2. Place(k, o, i) = Place(k, o2, i2)
    BY <1>3, <1>7, <2>1, <2>3 DEF Enumerates
  <2> QED BY <1>10, <2>2, PlaceUnique
<1>11. Enumerates(st, R, S)
  <2>1. st \in [1 .. R -> S]
    BY <1>5, <1>6
  <2>2. ASSUME NEW o \in 1 .. R, NEW o2 \in 1 .. R, st[o] = st[o2] PROVE o = o2
    BY <1>9, <1>10, <2>2
  <2> QED BY <1>6, <2>1, <2>2 DEF Enumerates
<1>12. IsFiniteSet(S) /\ Cardinality(S) = R
  BY <1>11, EnumeratedCount
<1>13. \A s \in S : \E o \in 1 .. R : s = st[o]
  BY <1>6
<1>14. \A s \in S : IsState(s, k, m, w, B, TRUE) /\ Held(s, k) # {}
  BY <1>8, <1>9, <1>13
<1>15. \A s, t \in S : s # t => Held(s, k) \cap Held(t, k) = {}
  BY <1>10, <1>13
<1>16. ASSUME NEW x \in 1 .. m PROVE \E s \in S : x \in Held(s, k)
  <2>1. PICK q \in 1 .. m : sorted[q] = x
    BY <1>3 DEF Enumerates
  <2>2. PICK o \in 1 .. R, i \in 1 .. k : Place(k, o, i) = q
    BY <2>1, PlaceOnto
  <2>3. x \in Held(st[o], k)
    BY <1>8, <2>1, <2>2
  <2> QED BY <1>6, <2>3
<1> QED BY <1>4, <1>12, <1>14, <1>15, <1>16 DEF Frontier

\* One state is left, and it holds every item.
LEMMA KarmarkarKarp ==
    ASSUME NEW k \in Nat \ {0}, NEW m \in Nat \ {0}, NEW w, Positive(w, m), NEW B \in Int,
           NEW equal_size \in BOOLEAN, Bounds(B, w, m, equal_size),
           equal_size => \E R \in Nat \ {0} : m = k * R
    PROVE  \E s : /\ karmarkar_karp(w, 1 .. m, k, equal_size) = {s}
                  /\ IsState(s, k, m, w, B, equal_size)
                  /\ \A x \in 1 .. m : x \in Held(s, k)
<1>1. PICK initial : initial = InitialStates(w, 1 .. m, k, equal_size)
  OBVIOUS
<1>2. \E c \in Nat \ {0} : Frontier(initial, c, k, m, w, B, equal_size)
  <2>1. CASE equal_size
    <3>1. equal_size = TRUE
      BY <2>1
    <3>2. PICK R \in Nat \ {0} : m = k * R
      BY <2>1
    <3>3. Frontier(initial, R, k, m, w, B, equal_size)
      BY <1>1, <3>1, <3>2, RowsOfItems
    <3> QED BY <3>3
  <2>2. CASE ~ equal_size
    <3>1. equal_size = FALSE
      BY <2>2
    <3>2. Frontier(initial, m, k, m, w, B, equal_size)
      BY <1>1, <3>1, LooseItems
    <3> QED BY <3>2
  <2> QED BY <2>1, <2>2
<1>3. PICK c \in Nat \ {0} : Frontier(initial, c, k, m, w, B, equal_size)
  BY <1>2
<1>4. PICK merges : merges = Cardinality(initial) - 1
  OBVIOUS
<1>5. merges = c - 1 /\ merges \in Nat
  BY <1>3, <1>4 DEF Frontier
<1>6. \E f : Turns(f, initial, merges)
  BY <1>5, TurnsExist
<1>7. PICK f : /\ Turns(f, initial, merges)
               /\ karmarkar_karp(w, 1 .. m, k, equal_size) = UNION f[merges]
  <2>1. PICK f : f = CHOOSE g : Turns(g, initial, merges)
    OBVIOUS
  <2>2. Turns(f, initial, merges)
    BY <1>6, <2>1, Zenon
  <2>3. karmarkar_karp(w, 1 .. m, k, equal_size) = UNION f[merges]
    <3>1. karmarkar_karp(w, 1 .. m, k, equal_size) = UNION (CHOOSE g : Turns(g, initial, merges))[merges]
      BY <1>1, <1>4, Zenon DEF karmarkar_karp, Turns
    <3> QED BY <2>1, <3>1, Zenon
  <2> QED BY <2>2, <2>3
<1>8. PICK s : /\ UNION f[merges] = {s}
               /\ IsState(s, k, m, w, B, equal_size)
               /\ \A x \in 1 .. m : x \in Held(s, k)
  <2>1. Turns(f, initial, c - 1) /\ f[merges] = f[c - 1]
    BY <1>5, <1>7, Zenon
  <2>2. m \in Nat
    OBVIOUS
  <2>3. OneState(UNION f[c - 1], k, m, w, B, equal_size)
    BY <1>3, <2>1, <2>2, TurnsLeaveOne
  <2> QED BY <2>1, <2>3, Zenon DEF OneState
<1> QED BY <1>7, <1>8
-----------------------------------------------------------------------------
(* The partitions.                                                         *)

\* Each of k lists holds some of 1 .. m, and every number is in one list once.
IsPartition(P, k, m) ==
    /\ P \in [1 .. k -> Seq(1 .. m)]
    /\ \A i, j \in 1 .. k : \A a \in DOMAIN P[i], b \in DOMAIN P[j] :
          P[i][a] = P[j][b] => i = j /\ a = b
    /\ \A x \in 1 .. m : \E i \in 1 .. k : \E a \in DOMAIN P[i] : P[i][a] = x

IsBalanced(P, k, w, B) == \A i, j \in 1 .. k : SumOf(w, P[i]) - SumOf(w, P[j]) <= B

NoneEmpty(P, k) == \A i \in 1 .. k : P[i] # << >>

AllLong(P, k, R) == \A i \in 1 .. k : Len(P[i]) = R

\* The lists of a state's sets.
ListsOf(s, k) == [i \in 1 .. k |-> Sorted(s[i].items)]

LEMMA ListsEnumerate ==
    ASSUME NEW k \in Nat, NEW m \in Nat, NEW w, NEW s, Weighed(s, k, m, w), NEW i \in 1 .. k
    PROVE  /\ s[i].items \subseteq 1 .. m
           /\ Cardinality(s[i].items) \in Nat
           /\ Enumerates(ListsOf(s, k)[i], Cardinality(s[i].items), s[i].items)
           /\ ListsOf(s, k)[i] \in Seq(1 .. m)
           /\ Len(ListsOf(s, k)[i]) = Cardinality(s[i].items)
           /\ DOMAIN ListsOf(s, k)[i] = 1 .. Cardinality(s[i].items)
<1>1. PICK items, c, list : /\ items = s[i].items /\ c = Cardinality(items)
                            /\ list = ListsOf(s, k)[i]
  OBVIOUS
<1>2. items \subseteq 1 .. m
  BY <1>1 DEF Weighed, SetsOf
<1>3. IsFiniteSet(items) /\ c \in Nat
  BY <1>1, <1>2, ItemsFinite
<1>4. items \subseteq Int
  BY <1>2
<1>5. list = Sorted(items)
  BY <1>1 DEF ListsOf
<1>6. Enumerates(list, c, items)
  BY <1>1, <1>3, <1>4, <1>5, SortedLists
<1>7. list \in [1 .. c -> 1 .. m] /\ DOMAIN list = 1 .. c
  BY <1>2, <1>6 DEF Enumerates
<1>8. list \in Seq(1 .. m) /\ Len(list) = c
  BY <1>3, <1>7, ListOf
<1> QED BY <1>1, <1>2, <1>3, <1>6, <1>7, <1>8

LEMMA ListsPartition ==
    ASSUME NEW k \in Nat, NEW m \in Nat, NEW w, NEW s, Weighed(s, k, m, w), Apart(s, k),
           \A x \in 1 .. m : x \in Held(s, k)
    PROVE  IsPartition(ListsOf(s, k), k, m)
<1>1. PICK P : P = ListsOf(s, k)
  OBVIOUS
<1>2. ASSUME NEW i \in 1 .. k
      PROVE  /\ Enumerates(P[i], Cardinality(s[i].items), s[i].items)
             /\ P[i] \in Seq(1 .. m)
             /\ DOMAIN P[i] = 1 .. Cardinality(s[i].items)
  <2>1. /\ Enumerates(ListsOf(s, k)[i], Cardinality(s[i].items), s[i].items)
        /\ ListsOf(s, k)[i] \in Seq(1 .. m)
        /\ DOMAIN ListsOf(s, k)[i] = 1 .. Cardinality(s[i].items)
    BY ListsEnumerate
  <2> QED BY <1>1, <2>1, Zenon
<1>3. P \in [1 .. k -> Seq(1 .. m)]
  <2>1. P = [i \in 1 .. k |-> P[i]]
    BY <1>1 DEF ListsOf
  <2> QED BY <1>2, <2>1
<1>4. ASSUME NEW i \in 1 .. k, NEW j \in 1 .. k, NEW a \in DOMAIN P[i], NEW b \in DOMAIN P[j],
             P[i][a] = P[j][b]
      PROVE  i = j /\ a = b
  <2>1. ASSUME NEW o \in 1 .. k, NEW d \in DOMAIN P[o] PROVE P[o][d] \in s[o].items
    <3>1. PICK list, c, S : list = P[o] /\ c = Cardinality(s[o].items) /\ S = s[o].items
      OBVIOUS
    <3>2. Enumerates(list, c, S) /\ d \in 1 .. c
      BY <1>2, <3>1
    <3>3. list[d] \in S
      BY <3>2 DEF Enumerates
    <3> QED BY <3>1, <3>3
  <2>2. i = j
    BY <1>4, <2>1 DEF Apart
  <2>3. PICK list, c, S : list = P[i] /\ c = Cardinality(s[i].items) /\ S = s[i].items
    OBVIOUS
  <2>4. Enumerates(list, c, S) /\ a \in 1 .. c /\ b \in 1 .. c /\ list[a] = list[b]
    BY <1>2, <1>4, <2>2, <2>3
  <2> QED BY <2>2, <2>4 DEF Enumerates
<1>5. ASSUME NEW x \in 1 .. m PROVE \E i \in 1 .. k : \E a \in DOMAIN P[i] : P[i][a] = x
  <2>1. PICK i \in 1 .. k : x \in s[i].items
    BY DEF Held
  <2>2. \E a \in DOMAIN P[i] : P[i][a] = x
    BY <1>2, <2>1 DEF Enumerates
  <2> QED BY <2>2
<1> QED BY <1>1, <1>3, <1>4, <1>5 DEF IsPartition

LEMMA ListsBalanced ==
    ASSUME NEW k \in Nat, NEW m \in Nat, NEW w, Weights(w, m), NEW B \in Int, NEW s,
           Weighed(s, k, m, w), Within(s, k, B)
    PROVE  IsBalanced(ListsOf(s, k), k, w, B)
<1>1. PICK P : P = ListsOf(s, k)
  OBVIOUS
<1>2. ASSUME NEW i \in 1 .. k PROVE SumOf(w, P[i]) = s[i].sum
  <2>1. PICK items, c, list : items = s[i].items /\ c = Cardinality(items) /\ list = P[i]
    OBVIOUS
  <2>2. items \subseteq 1 .. m /\ c \in Nat /\ Enumerates(list, c, items)
    BY <1>1, <2>1, ListsEnumerate
  <2>3. SumOf(w, list) = SumOver(w, items, m)
    BY <2>2, SumOfList
  <2> QED BY <2>1, <2>3 DEF Weighed
<1> QED BY <1>1, <1>2 DEF Within, IsBalanced

\* With as many items in each set there are m \div k of them.
LEMMA ListsEqualLong ==
    ASSUME NEW k \in Nat \ {0}, NEW R \in Nat, NEW m, m = k * R, NEW w, NEW s,
           Weighed(s, k, m, w), Apart(s, k), Alike(s, k), \A x \in 1 .. m : x \in Held(s, k)
    PROVE  \A i \in 1 .. k : Len(ListsOf(s, k)[i]) = R
<1>1. m \in Nat /\ m = R * k
  OBVIOUS
<1>2. PICK c : c = Cardinality(s[1].items)
  OBVIOUS
<1>3. \A i \in 1 .. k : /\ s[i].items \subseteq 1 .. m
                        /\ IsFiniteSet(s[i].items) /\ Cardinality(s[i].items) = c /\ c \in Nat
  <2>1. 1 \in 1 .. k
    OBVIOUS
  <2>2. \A i \in 1 .. k : s[i].items \subseteq 1 .. m
    BY DEF Weighed, SetsOf
  <2>3. \A i \in 1 .. k : IsFiniteSet(s[i].items) /\ Cardinality(s[i].items) \in Nat
    BY <1>1, <2>2, ItemsFinite
  <2> QED BY <1>2, <2>1, <2>2, <2>3 DEF Alike
<1>4. PICK U : U = [i \in 0 .. k |-> UNION {s[j].items : j \in 1 .. i}]
  OBVIOUS
<1>5. PICK T : T = {i \in 0 .. k : IsFiniteSet(U[i]) /\ Cardinality(U[i]) = i * c}
  OBVIOUS
<1>6. 0 \in T
  <2>1. U[0] = {}
    BY <1>4
  <2>2. IsFiniteSet(U[0]) /\ Cardinality(U[0]) = 0
    BY <2>1, FS_EmptySet
  <2>3. 0 * c = 0 /\ 0 \in 0 .. k
    BY <1>3
  <2> QED BY <1>5, <2>2, <2>3
<1>7. ASSUME NEW i \in 0 .. k - 1, i \in T PROVE i + 1 \in T
  <2>1. PICK n : n = i + 1
    OBVIOUS
  <2>2. n \in 1 .. k /\ n \in 0 .. k /\ i \in 0 .. k
    BY <2>1
  <2>3. PICK old, add : old = U[i] /\ add = s[n].items
    OBVIOUS
  <2>4. U[n] = old \cup add
    <3>1. U[n] = UNION {s[j].items : j \in 1 .. n} /\ U[i] = UNION {s[j].items : j \in 1 .. i}
      BY <1>4, <2>2
    <3>2. \A j : j \in 1 .. n <=> (j \in 1 .. i \/ j = n)
      BY <2>1, <2>2
    <3> QED BY <2>3, <3>1, <3>2
  <2>5. old \cap add = {}
    <3> SUFFICES ASSUME NEW x, x \in old, x \in add PROVE FALSE
      OBVIOUS
    <3>1. PICK j \in 1 .. i : x \in s[j].items
      BY <1>4, <2>2, <2>3
    <3>2. j \in 1 .. k /\ j # n
      BY <2>1, <2>2
    <3> QED BY <2>2, <2>3, <3>1, <3>2 DEF Apart
  <2>6. /\ IsFiniteSet(old) /\ Cardinality(old) = i * c
        /\ IsFiniteSet(add) /\ Cardinality(add) = c
    BY <1>3, <1>5, <1>7, <2>2, <2>3
  <2>7. PICK none : none = {}
    OBVIOUS
  <2>8. Cardinality(none) = 0
    BY <2>7, FS_EmptySet
  <2>9. /\ IsFiniteSet(old \cup add)
        /\ Cardinality(old \cup add) = Cardinality(old) + Cardinality(add) - Cardinality(none)
    <3>1. old \cap add = none
      BY <2>5, <2>7
    <3> QED BY <2>6, <3>1, FS_Union
  <2>10. i * c \in Nat /\ n * c = i * c + c
    BY <1>3, <2>1, <2>2
  <2>11. Cardinality(U[n]) = n * c
    BY <1>3, <2>2, <2>4, <2>6, <2>8, <2>9, <2>10
  <2> QED BY <1>5, <2>1, <2>2, <2>4, <2>9, <2>11
<1>8. \A i \in 0 .. k - 1 : i \in T => i + 1 \in T
  BY <1>7
<1>9. \A i \in 0 .. k : i \in T
  BY <1>6, <1>8, Reaches
<1>10. k \in 0 .. k
  OBVIOUS
<1>11. Cardinality(U[k]) = k * c
  BY <1>5, <1>9, <1>10
<1>12. U[k] = 1 .. m
  <2>1. U[k] = UNION {s[j].items : j \in 1 .. k}
    BY <1>4, <1>10
  <2> QED BY <1>3, <2>1 DEF Held
<1>13. k * c = k * R
  BY <1>1, <1>11, <1>12, CountUp
<1>14. c = R
  <2>1. c * k = R * k /\ c * k \in Nat /\ R * k \in Nat /\ c \in Nat
    <3>1. 1 \in 1 .. k
      OBVIOUS
    <3>2. c \in Nat
      BY <1>3, <3>1
    <3> QED BY <1>13, <3>2
  <2>2. ~ (c + 1 <= R)
    <3> SUFFICES ASSUME c + 1 <= R PROVE FALSE
      OBVIOUS
    <3>1. (c + 1) * k <= R * k /\ (c + 1) * k = c * k + k
      BY <2>1, TimesMonotonic
    <3> QED BY <2>1, <3>1
  <2>3. ~ (R + 1 <= c)
    <3> SUFFICES ASSUME R + 1 <= c PROVE FALSE
      OBVIOUS
    <3>1. (R + 1) * k <= c * k /\ (R + 1) * k = R * k + k
      BY <2>1, TimesMonotonic
    <3> QED BY <2>1, <3>1
  <2> QED BY <2>1, <2>2, <2>3
<1> QED BY <1>1, <1>3, <1>14, ListsEnumerate

\* With no fewer items than sets none is empty.
LEMMA ListsNotEmpty ==
    ASSUME NEW k \in Nat \ {0}, NEW m \in Nat, k <= m, NEW w, NEW s,
           Weighed(s, k, m, w), Thin(s, k), \A x \in 1 .. m : x \in Held(s, k)
    PROVE  NoneEmpty(ListsOf(s, k), k)
<1> SUFFICES ASSUME NEW i \in 1 .. k, ListsOf(s, k)[i] = << >> PROVE FALSE
  BY DEF NoneEmpty
<1>1. s[i].items = {}
  <2>1. Enumerates(ListsOf(s, k)[i], Cardinality(s[i].items), s[i].items)
    BY ListsEnumerate
  <2>2. Len(ListsOf(s, k)[i]) = Cardinality(s[i].items)
    BY ListsEnumerate
  <2>3. Cardinality(s[i].items) = 0
    BY <2>2
  <2> QED BY <2>1, <2>3 DEF Enumerates
<1>2. PICK f : f = [x \in 1 .. m |-> CHOOSE j \in 1 .. k : x \in s[j].items]
  OBVIOUS
<1>3. ASSUME NEW x \in 1 .. m PROVE f[x] \in (1 .. k) \ {i} /\ x \in s[f[x]].items
  <2>1. \E j \in 1 .. k : x \in s[j].items
    BY DEF Held
  <2>2. f[x] \in 1 .. k /\ x \in s[f[x]].items
    BY <1>2, <2>1
  <2> QED BY <1>1, <2>2
<1>4. PICK S, T : S = 1 .. m /\ T = (1 .. k) \ {i}
  OBVIOUS
<1>5. IsFiniteSet(S) /\ IsFiniteSet(T) /\ Cardinality(T) < Cardinality(S)
  <2>1. IsFiniteSet(S) /\ Cardinality(S) = m /\ IsFiniteSet(1 .. k) /\ Cardinality(1 .. k) = k
    BY <1>4, CountUp
  <2>2. IsFiniteSet(T) /\ Cardinality(T) = Cardinality(1 .. k) - 1
    BY <1>4, <2>1, FS_RemoveElement
  <2> QED BY <2>1, <2>2
<1>6. f \in [S -> T]
  BY <1>2, <1>3, <1>4
<1>7. PICK x \in S, y \in S : x # y /\ f[x] = f[y]
  BY <1>5, <1>6, FS_PigeonHole
<1>8. x \in s[f[x]].items /\ y \in s[f[x]].items /\ f[x] \in 1 .. k
  BY <1>3, <1>4, <1>7
<1> QED BY <1>1, <1>7, <1>8 DEF Thin

\* get_seqlen_balanced_partitions returns k lists that have every item once.  Their work
\* differs by no more than that of two items if they are to be of equal size, and then they
\* are, and by no more than that of one item if not, and then none is empty unless there are
\* fewer items than lists: what the function and karmarkar_karp assert.
THEOREM PartitionsAreBalanced ==
    ASSUME NEW k \in Nat \ {0}, NEW m \in Nat \ {0}, NEW w, Positive(w, m), NEW B \in Int,
           NEW equal_size \in BOOLEAN, Bounds(B, w, m, equal_size),
           NEW R \in Nat, equal_size => (R # 0 /\ m = k * R), NEW P,
           P = BalancedPartitions(w, 1 .. m, k, equal_size)
    PROVE  /\ IsPartition(P, k, m)
           /\ IsBalanced(P, k, w, B)
           /\ equal_size => AllLong(P, k, R)
           /\ ~ equal_size /\ k <= m => NoneEmpty(P, k)
<1>1. PICK s : /\ karmarkar_karp(w, 1 .. m, k, equal_size) = {s}
               /\ IsState(s, k, m, w, B, equal_size)
               /\ \A x \in 1 .. m : x \in Held(s, k)
  <2>1. equal_size => \E R2 \in Nat \ {0} : m = k * R2
    OBVIOUS
  <2> QED BY <2>1, KarmarkarKarp
<1>2. P = ListsOf(s, k)
  <2>1. PICK S : S = {[i \in 1 .. k |-> Sorted(state[i].items)] :
                        state \in karmarkar_karp(w, 1 .. m, k, equal_size)}
    OBVIOUS
  <2>2. P = CHOOSE partitions \in S : TRUE
    BY <2>1, Zenon DEF BalancedPartitions
  <2>3. S = {ListsOf(s, k)}
    BY <1>1, <2>1 DEF ListsOf
  <2> QED BY <2>2, <2>3
<1>3. Weighed(s, k, m, w) /\ Apart(s, k) /\ Within(s, k, B) /\ Shaped(s, k, equal_size)
  BY <1>1 DEF IsState, IsCollection
<1>4. IsPartition(P, k, m)
  BY <1>1, <1>2, <1>3, ListsPartition
<1>5. IsBalanced(P, k, w, B)
  <2>1. Weights(w, m)
    BY DEF Positive, Weights
  <2> QED BY <1>2, <1>3, <2>1, ListsBalanced
<1>6. ASSUME equal_size PROVE AllLong(P, k, R)
  <2>1. Alike(s, k)
    BY <1>3, <1>6 DEF Shaped
  <2>2. m = k * R
    BY <1>6
  <2> QED BY <1>1, <1>2, <1>3, <2>1, <2>2, ListsEqualLong DEF AllLong
<1>7. ASSUME ~ equal_size, k <= m PROVE NoneEmpty(P, k)
  <2>1. Thin(s, k)
    BY <1>3, <1>7 DEF Shaped
  <2> QED BY <1>1, <1>2, <1>3, <1>7, <2>1, ListsNotEmpty
<1> QED BY <1>4, <1>5, <1>6, <1>7-----------------------------------------------------------------------------
(* What is made of the partitions.                                         *)

\* A permutation of the lists changes nothing of this.
LEMMA Permuted ==
    ASSUME NEW k \in Nat, NEW m \in Nat, NEW w, NEW B \in Int, NEW P,
           IsPartition(P, k, m), IsBalanced(P, k, w, B), NoneEmpty(P, k),
           NEW p, Enumerates(p, k, 1 .. k), NEW Q, Q = [i \in 1 .. k |-> P[p[i]]]
    PROVE  IsPartition(Q, k, m) /\ IsBalanced(Q, k, w, B) /\ NoneEmpty(Q, k)
<1>1. \A i \in 1 .. k : p[i] \in 1 .. k /\ Q[i] = P[p[i]]
  BY DEF Enumerates
<1>2. Q \in [1 .. k -> Seq(1 .. m)]
  <2>1. \A i \in 1 .. k : P[p[i]] \in Seq(1 .. m)
    BY <1>1 DEF IsPartition
  <2> QED BY <2>1
<1>3. ASSUME NEW i \in 1 .. k, NEW j \in 1 .. k, NEW a \in DOMAIN Q[i], NEW b \in DOMAIN Q[j],
             Q[i][a] = Q[j][b]
      PROVE  i = j /\ a = b
  <2>1. PICK i2 \in 1 .. k, j2 \in 1 .. k : i2 = p[i] /\ j2 = p[j]
    BY <1>1
  <2>2. a \in DOMAIN P[i2] /\ b \in DOMAIN P[j2] /\ P[i2][a] = P[j2][b]
    BY <1>1, <1>3, <2>1
  <2>3. i2 = j2 /\ a = b
    BY <2>2 DEF IsPartition
  <2> QED BY <2>1, <2>3 DEF Enumerates
<1>4. ASSUME NEW x \in 1 .. m PROVE \E i \in 1 .. k : \E a \in DOMAIN Q[i] : Q[i][a] = x
  <2>1. PICK i2 \in 1 .. k : \E a \in DOMAIN P[i2] : P[i2][a] = x
    BY DEF IsPartition
  <2>2. PICK i \in 1 .. k : p[i] = i2
    BY DEF Enumerates
  <2> QED BY <1>1, <2>1, <2>2
<1>5. IsPartition(Q, k, m)
  BY <1>2, <1>3, <1>4 DEF IsPartition
<1>6. IsBalanced(Q, k, w, B)
  BY <1>1 DEF IsBalanced
<1>7. NoneEmpty(Q, k)
  BY <1>1 DEF NoneEmpty
<1> QED BY <1>5, <1>6, <1>7

\* s[::2] and s[1::2] have together as many elements as s.
LEMMA Halves ==
    ASSUME NEW k \in Nat \ {0}, NEW h, NEW g,
           h = (k - 1) \div 2 + 1, g = (k - 2) \div 2 + 1
    PROVE  h \in Nat /\ g \in Nat /\ h + g = k /\ 2 * h - 1 <= k /\ 2 * g <= k
<1>1. PICK q : q = k \div 2
  OBVIOUS
<1>2. q \in Nat /\ (k = 2 * q \/ k = 2 * q + 1)
  BY <1>1
<1>3. CASE k = 2 * q
  <2>1. (k - 1) \div 2 = q - 1 /\ (k - 2) \div 2 = q - 1
    BY <1>2, <1>3
  <2> QED BY <1>2, <1>3, <2>1
<1>4. CASE k = 2 * q + 1
  <2>1. (k - 1) \div 2 = q /\ (k - 2) \div 2 = q - 1
    BY <1>2, <1>4
  <2> QED BY <1>2, <1>4, <2>1
<1> QED BY <1>2, <1>3, <1>4

OddsAndEvens(odd, h, even, g, s, S) ==
    /\ odd \in Seq(S) /\ Len(odd) = h /\ \A i \in 1 .. h : odd[i] = s[2 * i - 1]
    /\ even \in Seq(S) /\ Len(even) = g /\ \A i \in 1 .. g : even[i] = s[2 * i]

LEMMA EveryOtherLists ==
    ASSUME NEW S, NEW s \in Seq(S), NEW k \in Nat \ {0}, Len(s) = k,
           NEW h, h = (k - 1) \div 2 + 1, NEW g, g = (k - 2) \div 2 + 1
    PROVE  OddsAndEvens(EveryOther(s, 1), h, EveryOther(s, 2), g, s, S)
<1>1. h \in Nat /\ g \in Nat /\ h + g = k /\ 2 * h - 1 <= k /\ 2 * g <= k
  BY Halves
<1>2. PICK odd, even : odd = EveryOther(s, 1) /\ even = EveryOther(s, 2)
  OBVIOUS
<1>3. odd = [i \in 1 .. h |-> s[1 + 2 * (i - 1)]] /\ even = [i \in 1 .. g |-> s[2 + 2 * (i - 1)]]
  BY <1>2 DEF EveryOther
<1>4. \A i \in 1 .. h : 1 + 2 * (i - 1) = 2 * i - 1 /\ 2 * i - 1 \in 1 .. k
  BY <1>1
<1>5. \A i \in 1 .. g : 2 + 2 * (i - 1) = 2 * i /\ 2 * i \in 1 .. k
  BY <1>1
<1>6. \A i \in 1 .. k : s[i] \in S
  BY ElementOfSeq
<1>7. odd \in [1 .. h -> S] /\ \A i \in 1 .. h : odd[i] = s[2 * i - 1]
  BY <1>3, <1>4, <1>6
<1>8. even \in [1 .. g -> S] /\ \A i \in 1 .. g : even[i] = s[2 * i]
  BY <1>3, <1>5, <1>6
<1>9. odd \in Seq(S) /\ Len(odd) = h /\ even \in Seq(S) /\ Len(even) = g
  BY <1>1, <1>7, <1>8, ListOf
<1> QED BY <1>2, <1>7, <1>8, <1>9 DEF OddsAndEvens

LEMMA ReverseList ==
    ASSUME NEW S, NEW s \in Seq(S)
    PROVE  /\ Reverse(s) \in Seq(S) /\ Len(Reverse(s)) = Len(s)
           /\ \A i \in 1 .. Len(s) : Reverse(s)[i] = s[Len(s) + 1 - i]
<1>1. PICK n, t : n = Len(s) /\ t = Reverse(s)
  OBVIOUS
<1>2. n \in Nat
  BY <1>1, LenProperties
<1>3. \A i \in 1 .. n : (n - i) + 1 = n + 1 - i /\ n + 1 - i \in 1 .. n
  BY <1>2
<1>4. t = [i \in 1 .. n |-> s[(n - i) + 1]]
  BY <1>1 DEF Reverse
<1>5. t \in [1 .. n -> S] /\ \A i \in 1 .. n : t[i] = s[n + 1 - i]
  BY <1>1, <1>3, <1>4, ElementOfSeq
<1> QED BY <1>1, <1>2, <1>5, ListOf

\* The odd ones are counted down and then the even ones up.
LEMMA EndsPermute ==
    ASSUME NEW S, NEW s \in Seq(S), NEW k \in Nat \ {0}, Len(s) = k
    PROVE  \E p : /\ Enumerates(p, k, 1 .. k)
                  /\ LightAtBothEnds(s) = [i \in 1 .. k |-> s[p[i]]]
<1>1. PICK h, g : h = (k - 1) \div 2 + 1 /\ g = (k - 2) \div 2 + 1
  OBVIOUS
<1>2. h \in Nat /\ g \in Nat /\ h + g = k /\ 2 * h - 1 <= k /\ 2 * g <= k
  BY <1>1, Halves
<1>3. PICK p : p = [i \in 1 .. k |-> IF i <= h THEN 2 * (h + 1 - i) - 1 ELSE 2 * (i - h)]
  OBVIOUS
<1>4. Enumerates(p, k, 1 .. k)
  <2>1. \A i \in 1 .. k : IF i <= h THEN p[i] = 2 * (h + 1 - i) - 1 ELSE p[i] = 2 * (i - h)
    BY <1>3
  <2>2. \A i \in 1 .. k : p[i] \in 1 .. k
    BY <1>2, <2>1
  <2>3. \A i, j \in 1 .. k : p[i] = p[j] => i = j
    BY <1>2, <2>1
  <2>4. ASSUME NEW x \in 1 .. k PROVE \E i \in 1 .. k : p[i] = x
    <3>1. PICK q : q = x \div 2
      OBVIOUS
    <3>2. q \in Nat /\ (x = 2 * q \/ x = 2 * q + 1)
      BY <3>1
    <3>3. CASE x = 2 * q
      <4>1. PICK i : i = h + q
        OBVIOUS
      <4>2. i \in 1 .. k /\ ~ (i <= h)
        BY <1>2, <3>2, <3>3, <4>1
      <4>3. p[i] = 2 * (i - h)
        BY <2>1, <4>2
      <4> QED BY <1>2, <3>2, <3>3, <4>1, <4>2, <4>3
    <3>4. CASE x = 2 * q + 1
      <4>1. h - q \in 1 .. k /\ h - q <= h
        BY <1>2, <3>2, <3>4
      <4>2. p[h - q] = 2 * (h + 1 - (h - q)) - 1
        BY <2>1, <4>1
      <4> QED BY <1>2, <3>2, <3>4, <4>1, <4>2
    <3> QED BY <3>2, <3>3, <3>4
  <2>5. p \in [1 .. k -> 1 .. k]
    BY <1>3, <2>2
  <2> QED BY <2>3, <2>4, <2>5 DEF Enumerates
<1>5. PICK odd, even, back : odd = EveryOther(s, 1) /\ even = EveryOther(s, 2) /\ back = Reverse(odd)
  OBVIOUS
<1>6. /\ odd \in Seq(S) /\ Len(odd) = h /\ \A i \in 1 .. h : odd[i] = s[2 * i - 1]
      /\ even \in Seq(S) /\ Len(even) = g /\ \A i \in 1 .. g : even[i] = s[2 * i]
  <2>1. OddsAndEvens(odd, h, even, g, s, S)
    BY <1>1, <1>5, EveryOtherLists
  <2> QED BY <2>1 DEF OddsAndEvens
<1>7. back \in Seq(S) /\ Len(back) = h /\ \A i \in 1 .. h : back[i] = odd[h + 1 - i]
  BY <1>5, <1>6, ReverseList
<1>8. PICK t : t = back \o even
  OBVIOUS
<1>9. /\ t \in Seq(S) /\ Len(t) = h + g
      /\ \A i \in 1 .. h + g : t[i] = IF i <= h THEN back[i] ELSE even[i - h]
  <2>1. /\ back \o even \in Seq(S)
        /\ Len(back \o even) = Len(back) + Len(even)
        /\ \A i \in 1 .. Len(back) + Len(even) :
              (back \o even)[i] = IF i <= Len(back) THEN back[i] ELSE even[i - Len(back)]
    BY <1>6, <1>7, ConcatProperties
  <2> QED BY <1>6, <1>7, <1>8, <2>1
<1>10. ASSUME NEW i \in 1 .. k PROVE t[i] = s[p[i]]
  <2>1. t[i] = IF i <= h THEN back[i] ELSE even[i - h]
    BY <1>2, <1>9
  <2>2. CASE i <= h
    <3>1. i \in 1 .. h /\ h + 1 - i \in 1 .. h
      BY <1>2, <2>2
    <3>2. t[i] = s[2 * (h + 1 - i) - 1]
      BY <1>6, <1>7, <2>1, <2>2, <3>1
    <3> QED BY <1>3, <2>2, <3>2
  <2>3. CASE ~ (i <= h)
    <3>1. i - h \in 1 .. g
      BY <1>2, <2>3
    <3>2. t[i] = s[2 * (i - h)]
      BY <1>6, <2>1, <2>3, <3>1
    <3> QED BY <1>3, <2>3, <3>2
  <2> QED BY <2>2, <2>3
<1>11. t = [i \in 1 .. k |-> s[p[i]]]
  <2>1. t \in [1 .. k -> S]
    BY <1>2, <1>9, LenProperties
  <2> QED BY <1>10, <2>1
<1>12. LightAtBothEnds(s) = t
  BY <1>5, <1>8, Zenon DEF LightAtBothEnds
<1> QED BY <1>4, <1>11, <1>12

\* The odd ones are counted up and then the even ones down.
LEMMA RankRowsPermute ==
    ASSUME NEW S, NEW s \in Seq(S), NEW k \in Nat \ {0}, Len(s) = k
    PROVE  \E p : /\ Enumerates(p, k, 1 .. k)
                  /\ EveryOther(s, 1) \o Reverse(EveryOther(s, 2)) = [i \in 1 .. k |-> s[p[i]]]
<1>1. PICK h, g : h = (k - 1) \div 2 + 1 /\ g = (k - 2) \div 2 + 1
  OBVIOUS
<1>2. h \in Nat /\ g \in Nat /\ h + g = k /\ 2 * h - 1 <= k /\ 2 * g <= k
  BY <1>1, Halves
<1>3. PICK p : p = [i \in 1 .. k |-> IF i <= h THEN 2 * i - 1 ELSE 2 * (k + 1 - i)]
  OBVIOUS
<1>4. Enumerates(p, k, 1 .. k)
  <2>1. \A i \in 1 .. k : IF i <= h THEN p[i] = 2 * i - 1 ELSE p[i] = 2 * (k + 1 - i)
    BY <1>3
  <2>2. \A i \in 1 .. k : p[i] \in 1 .. k
    BY <1>2, <2>1
  <2>3. \A i, j \in 1 .. k : p[i] = p[j] => i = j
    BY <1>2, <2>1
  <2>4. ASSUME NEW x \in 1 .. k PROVE \E i \in 1 .. k : p[i] = x
    <3>1. PICK q : q = x \div 2
      OBVIOUS
    <3>2. q \in Nat /\ (x = 2 * q \/ x = 2 * q + 1)
      BY <3>1
    <3>3. CASE x = 2 * q
      <4>1. k + 1 - q \in 1 .. k /\ ~ (k + 1 - q <= h)
        BY <1>2, <3>2, <3>3
      <4>2. p[k + 1 - q] = 2 * (k + 1 - (k + 1 - q))
        BY <2>1, <4>1
      <4> QED BY <1>2, <3>2, <3>3, <4>1, <4>2
    <3>4. CASE x = 2 * q + 1
      <4>1. q + 1 \in 1 .. k /\ q + 1 <= h
        BY <1>2, <3>2, <3>4
      <4>2. p[q + 1] = 2 * (q + 1) - 1
        BY <2>1, <4>1
      <4> QED BY <1>2, <3>2, <3>4, <4>1, <4>2
    <3> QED BY <3>2, <3>3, <3>4
  <2>5. p \in [1 .. k -> 1 .. k]
    BY <1>3, <2>2
  <2> QED BY <2>3, <2>4, <2>5 DEF Enumerates
<1>5. PICK odd, even, back : odd = EveryOther(s, 1) /\ even = EveryOther(s, 2) /\ back = Reverse(even)
  OBVIOUS
<1>6. /\ odd \in Seq(S) /\ Len(odd) = h /\ \A i \in 1 .. h : odd[i] = s[2 * i - 1]
      /\ even \in Seq(S) /\ Len(even) = g /\ \A i \in 1 .. g : even[i] = s[2 * i]
  <2>1. OddsAndEvens(odd, h, even, g, s, S)
    BY <1>1, <1>5, EveryOtherLists
  <2> QED BY <2>1 DEF OddsAndEvens
<1>7. back \in Seq(S) /\ Len(back) = g /\ \A i \in 1 .. g : back[i] = even[g + 1 - i]
  BY <1>5, <1>6, ReverseList
<1>8. PICK t : t = odd \o back
  OBVIOUS
<1>9. /\ t \in Seq(S) /\ Len(t) = h + g
      /\ \A i \in 1 .. h + g : t[i] = IF i <= h THEN odd[i] ELSE back[i - h]
  <2>1. /\ odd \o back \in Seq(S)
        /\ Len(odd \o back) = Len(odd) + Len(back)
        /\ \A i \in 1 .. Len(odd) + Len(back) :
              (odd \o back)[i] = IF i <= Len(odd) THEN odd[i] ELSE back[i - Len(odd)]
    BY <1>6, <1>7, ConcatProperties
  <2> QED BY <1>6, <1>7, <1>8, <2>1
<1>10. ASSUME NEW i \in 1 .. k PROVE t[i] = s[p[i]]
  <2>1. t[i] = IF i <= h THEN odd[i] ELSE back[i - h]
    BY <1>2, <1>9
  <2>2. CASE i <= h
    <3>1. i \in 1 .. h
      BY <1>2, <2>2
    <3> QED BY <1>3, <1>6, <2>1, <2>2, <3>1
  <2>3. CASE ~ (i <= h)
    <3>1. i - h \in 1 .. g
      BY <1>2, <2>3
    <3>2. PICK j : j = g + 1 - (i - h)
      OBVIOUS
    <3>3. j \in 1 .. g /\ j = k + 1 - i
      BY <1>2, <3>1, <3>2
    <3>4. t[i] = s[2 * j]
      BY <1>6, <1>7, <2>1, <2>3, <3>1, <3>2, <3>3
    <3> QED BY <1>3, <2>3, <3>3, <3>4
  <2> QED BY <2>2, <2>3
<1>11. t = [i \in 1 .. k |-> s[p[i]]]
  <2>1. t \in [1 .. k -> S]
    BY <1>2, <1>9, LenProperties
  <2> QED BY <1>10, <2>1
<1>12. EveryOther(s, 1) \o Reverse(EveryOther(s, 2)) = t
  BY <1>5, <1>8, Zenon
<1> QED BY <1>4, <1>11, <1>12

-----------------------------------------------------------------------------
(* Lists of lists.                                                         *)

\* What s \o t is.
IsJoin(u, s, t) ==
    /\ Len(u) = Len(s) + Len(t)
    /\ \A i \in 1 .. Len(s) + Len(t) : u[i] = IF i <= Len(s) THEN s[i] ELSE t[i - Len(s)]

LEMMA Join ==
    ASSUME NEW S, NEW s \in Seq(S), NEW t \in Seq(S)
    PROVE  s \o t \in Seq(S) /\ IsJoin(s \o t, s, t) /\ Len(s) \in Nat /\ Len(t) \in Nat
BY ConcatProperties, LenProperties DEF IsJoin

Associates(s, t, u) == (s \o t) \o u = s \o (t \o u)

LEMMA Associative ==
    ASSUME NEW S, NEW s \in Seq(S), NEW t \in Seq(S), NEW u \in Seq(S)
    PROVE  Associates(s, t, u)
<1>1. PICK st, tu : st = s \o t /\ tu = t \o u
  OBVIOUS
<1>2. PICK left, right : left = st \o u /\ right = s \o tu
  OBVIOUS
<1>3. /\ st \in Seq(S) /\ IsJoin(st, s, t) /\ tu \in Seq(S) /\ IsJoin(tu, t, u)
      /\ Len(s) \in Nat /\ Len(t) \in Nat /\ Len(u) \in Nat
  BY <1>1, Join
<1>4. left \in Seq(S) /\ IsJoin(left, st, u) /\ right \in Seq(S) /\ IsJoin(right, s, tu)
  BY <1>2, <1>3, Join
<1>5. PICK a, b, c : a = Len(s) /\ b = Len(t) /\ c = Len(u)
  OBVIOUS
<1>6. /\ a \in Nat /\ b \in Nat /\ c \in Nat
      /\ Len(st) = a + b /\ Len(tu) = b + c /\ Len(left) = a + b + c /\ Len(right) = a + b + c
  BY <1>3, <1>4, <1>5 DEF IsJoin
<1>7. ASSUME NEW i \in 1 .. a + b + c PROVE left[i] = right[i]
  <2>1. i \in 1 .. (a + b) + c /\ i \in 1 .. a + (b + c)
    BY <1>6
  <2>2. /\ left[i] = (IF i <= a + b THEN st[i] ELSE u[i - (a + b)])
        /\ right[i] = (IF i <= a THEN s[i] ELSE tu[i - a])
    BY <1>4, <1>5, <1>6, <2>1 DEF IsJoin
  <2>3. CASE i <= a
    <3>1. i <= a + b /\ i \in 1 .. a + b
      BY <1>6, <2>3
    <3>2. st[i] = s[i]
      BY <1>3, <1>5, <2>3, <3>1 DEF IsJoin
    <3> QED BY <2>2, <2>3, <3>1, <3>2
  <2>4. CASE ~ (i <= a) /\ i <= a + b
    <3>1. PICK j : j = i - a
      OBVIOUS
    <3>2. j \in 1 .. b + c /\ j <= b /\ i \in 1 .. a + b
      BY <1>6, <2>4, <3>1
    <3>3. st[i] = t[i - a]
      BY <1>3, <1>5, <2>4, <3>2 DEF IsJoin
    <3>4. tu[j] = t[j]
      BY <1>3, <1>5, <3>2 DEF IsJoin
    <3> QED BY <2>2, <2>4, <3>1, <3>3, <3>4
  <2>5. CASE ~ (i <= a + b)
    <3>1. PICK j : j = i - a
      OBVIOUS
    <3>2. j \in 1 .. b + c /\ ~ (j <= b) /\ ~ (i <= a) /\ j - b = i - (a + b)
      BY <1>6, <2>5, <3>1
    <3>3. tu[j] = u[j - b]
      BY <1>3, <1>5, <3>2 DEF IsJoin
    <3> QED BY <2>2, <2>5, <3>1, <3>2, <3>3
  <2> QED BY <1>6, <2>3, <2>4, <2>5
<1>8. left = right
  <2>1. Len(left) = Len(right) /\ \A i \in 1 .. Len(left) : left[i] = right[i]
    BY <1>6, <1>7
  <2> QED BY <1>4, <2>1, SeqEqual
<1> QED BY <1>1, <1>2, <1>8 DEF Associates

\* f[i] is made of the first i lists.
Joins(f, seqs, n, S) ==
    /\ f \in [0 .. n -> Seq(S)]
    /\ f[0] = << >>
    /\ \A i \in 1 .. n : f[i] = f[i - 1] \o seqs[i]

LEMMA FlattenSteps ==
    ASSUME NEW S, NEW n \in Nat, NEW seqs \in Seq(Seq(S)), Len(seqs) = n
    PROVE  \E f : Joins(f, seqs, n, S) /\ FlattenSeq(seqs) = f[n]
<1>1. \A i \in 1 .. n : seqs[i] \in Seq(S)
  BY ElementOfSeq
<1>2. PICK step : step = [i \in 1 .. n |-> [x \in Seq(S) |-> x \o seqs[i]]]
  OBVIOUS
<1>3. step \in [1 .. n -> [Seq(S) -> Seq(S)]]
  BY <1>1, <1>2, ConcatProperties
<1>4. PICK none : none = << >>
  OBVIOUS
<1>5. none \in Seq(S)
  BY <1>4, EmptySeq
<1>6. PICK f : Defines(f, n, Seq(S), none, step)
  BY <1>3, <1>5, Recursion
<1>7. f \in [0 .. n -> Seq(S)] /\ f[0] = << >>
  BY <1>4, <1>6 DEF Defines, Follows
<1>8. ASSUME NEW i \in 1 .. n PROVE f[i] = f[i - 1] \o seqs[i]
  <2>1. i - 1 \in 0 .. n
    OBVIOUS
  <2>2. f[i] = step[i][f[i - 1]] /\ f[i - 1] \in Seq(S)
    BY <1>6, <1>7, <2>1 DEF Defines, Follows
  <2> QED BY <1>2, <2>2
<1>9. Joins(f, seqs, n, S)
  BY <1>7, <1>8 DEF Joins
<1>10. FlattenSeq(seqs) = f[n]
  <2>1. CASE n = 0
    <3>1. seqs = << >>
      BY <2>1, EmptySeq
    <3>2. FlattenSeq(seqs) = seqs
      BY <2>1 DEF FlattenSeq
    <3> QED BY <1>7, <2>1, <3>1, <3>2
  <2>2. CASE n # 0
    <3>1. PICK h : h = [i \in 1 .. n |-> f[i]]
      OBVIOUS
    <3>2. ASSUME NEW i \in 1 .. n PROVE h[i] = IF i = 1 THEN seqs[i] ELSE h[i - 1] \o seqs[i]
      <4>1. h[i] = f[i - 1] \o seqs[i]
        BY <1>8, <3>1
      <4>2. CASE i = 1
        <5>1. h[1] = f[0] \o seqs[1]
          BY <4>1, <4>2
        <5>2. seqs[1] \in Seq(S)
          BY <1>1, <4>2
        <5>3. << >> \o seqs[1] = seqs[1]
          BY <5>2, ConcatEmptySeq
        <5> QED BY <1>7, <4>2, <5>1, <5>3
      <4>3. CASE i # 1
        <5>1. i - 1 \in 1 .. n
          BY <4>3
        <5> QED BY <3>1, <4>1, <4>3, <5>1
      <4> QED BY <4>2, <4>3
    <3>3. h = [i \in 1 .. n |-> IF i = 1 THEN seqs[i] ELSE h[i - 1] \o seqs[i]]
      BY <3>1, <3>2
    <3>4. PICK g : /\ g = [i \in 1 .. n |-> IF i = 1 THEN seqs[i] ELSE g[i - 1] \o seqs[i]]
                   /\ FlattenSeq(seqs) = g[n]
      BY <2>2, <3>3 DEF FlattenSeq
    <3>5. PICK T : T = {i \in 0 .. n : i = 0 \/ g[i] = f[i]}
      OBVIOUS
    <3>6. ASSUME NEW i \in 0 .. n - 1, i \in T PROVE i + 1 \in T
      <4>1. PICK l : l = i + 1
        OBVIOUS
      <4>2. l \in 1 .. n /\ l \in 0 .. n /\ l - 1 = i
        BY <4>1
      <4>3. f[l] = f[i] \o seqs[l]
        BY <1>8, <4>2
      <4>4. CASE i = 0
        <5>1. g[l] = seqs[l]
          BY <3>4, <4>2, <4>4
        <5>2. seqs[l] \in Seq(S)
          BY <1>1, <4>2
        <5>3. << >> \o seqs[l] = seqs[l]
          BY <5>2, ConcatEmptySeq
        <5> QED BY <1>7, <3>5, <4>1, <4>2, <4>3, <4>4, <5>1, <5>3
      <4>5. CASE i # 0
        <5>0. l # 1 /\ l \in 1 .. n
          BY <4>2, <4>5
        <5>1. g[l] = g[l - 1] \o seqs[l]
          BY <3>4, <5>0
        <5>2. g[i] = f[i]
          BY <3>5, <3>6, <4>5
        <5> QED BY <3>5, <4>1, <4>2, <4>3, <5>1, <5>2
      <4> QED BY <4>4, <4>5
    <3>7. 0 \in T
      BY <3>5
    <3>8. \A i \in 0 .. n - 1 : i \in T => i + 1 \in T
      BY <3>6
    <3>9. \A i \in 0 .. n : i \in T
      BY <3>7, <3>8, Reaches
    <3>10. n \in 0 .. n
      OBVIOUS
    <3> QED BY <2>2, <3>4, <3>5, <3>9, <3>10
  <2> QED BY <2>1, <2>2
<1> QED BY <1>9, <1>10

LEMMA FlattenType ==
    ASSUME NEW S, NEW seqs \in Seq(Seq(S))
    PROVE  FlattenSeq(seqs) \in Seq(S)
<1>1. PICK n : n = Len(seqs)
  OBVIOUS
<1>2. n \in Nat
  BY <1>1, LenProperties
<1>3. PICK f : Joins(f, seqs, n, S) /\ FlattenSeq(seqs) = f[n]
  BY <1>1, <1>2, FlattenSteps
<1>4. n \in 0 .. n
  BY <1>2
<1> QED BY <1>3, <1>4 DEF Joins

\* The first list comes first.
LEMMA FlattenFirst ==
    ASSUME NEW S, NEW n \in Nat, NEW seqs \in Seq(Seq(S)), Len(seqs) = n,
           NEW more \in Seq(Seq(S)), Len(more) = n + 1,
           \A i \in 1 .. n : more[i + 1] = seqs[i]
    PROVE  FlattenSeq(more) = more[1] \o FlattenSeq(seqs)
<1>1. PICK l, x : l = n + 1 /\ x = more[1]
  OBVIOUS
<1>2. l \in Nat /\ Len(more) = l
  BY <1>1
<1>3. x \in Seq(S) /\ \A i \in 1 .. n : seqs[i] \in Seq(S)
  BY <1>1, ElementOfSeq
<1>4. PICK f : Joins(f, seqs, n, S) /\ FlattenSeq(seqs) = f[n]
  BY FlattenSteps
<1>5. PICK g : Joins(g, more, l, S) /\ FlattenSeq(more) = g[l]
  BY <1>2, FlattenSteps
<1>6. PICK T : T = {i \in 0 .. n : g[i + 1] = x \o f[i]}
  OBVIOUS
<1>7. 0 \in T
  <2>1. PICK i : i = 1
    OBVIOUS
  <2>2. i \in 1 .. l /\ i - 1 = 0 /\ 0 + 1 = i /\ 0 \in 0 .. n
    BY <1>1, <2>1
  <2>3. g[i] = g[i - 1] \o more[i] /\ g[0] = << >> /\ f[0] = << >>
    BY <1>4, <1>5, <2>2 DEF Joins
  <2>4. << >> \o x = x /\ x \o << >> = x
    BY <1>3, ConcatEmptySeq
  <2>5. g[i] = x \o f[0]
    BY <1>1, <2>1, <2>2, <2>3, <2>4
  <2> QED BY <1>6, <2>2, <2>5
<1>8. ASSUME NEW i \in 0 .. n - 1, i \in T PROVE i + 1 \in T
  <2>1. PICK j : j = i + 1
    OBVIOUS
  <2>2. /\ j \in 1 .. n /\ j \in 0 .. n /\ j - 1 = i /\ i \in 0 .. n
        /\ j + 1 \in 1 .. l
    BY <1>1, <2>1
  <2>3. g[j + 1] = g[j] \o more[j + 1]
    <3>1. PICK j1 : j1 = j + 1
      OBVIOUS
    <3>2. j1 \in 1 .. l /\ j1 - 1 = j
      BY <2>2, <3>1
    <3>3. g[j1] = g[j1 - 1] \o more[j1]
      BY <1>5, <3>2 DEF Joins
    <3> QED BY <3>1, <3>2, <3>3
  <2>4. f[j] = f[i] \o seqs[j] /\ f[i] \in Seq(S)
    BY <1>4, <2>2 DEF Joins
  <2>5. g[j] = x \o f[i]
    BY <1>6, <1>8, <2>1
  <2>6. (x \o f[i]) \o seqs[j] = x \o (f[i] \o seqs[j])
    <3>1. PICK b, c : b = f[i] /\ c = seqs[j]
      OBVIOUS
    <3>2. x \in Seq(S) /\ b \in Seq(S) /\ c \in Seq(S)
      BY <1>3, <2>2, <2>4, <3>1
    <3>3. Associates(x, b, c)
      BY <3>2, Associative
    <3> QED BY <3>1, <3>3, Zenon DEF Associates
  <2>7. g[j + 1] = x \o f[j]
    BY <2>2, <2>3, <2>4, <2>5, <2>6
  <2> QED BY <1>6, <2>1, <2>2, <2>7
<1>9. \A i \in 0 .. n - 1 : i \in T => i + 1 \in T
  BY <1>8
<1>10. \A i \in 0 .. n : i \in T
  BY <1>7, <1>9, Reaches
<1>11. n \in 0 .. n
  OBVIOUS
<1>12. g[n + 1] = x \o f[n]
  BY <1>6, <1>10, <1>11
<1> QED BY <1>1, <1>4, <1>5, <1>12

\* The values of h at the elements of a list.
MapOf(h, s) == [j \in DOMAIN s |-> h[s[j]]]

IsMapped(t, h, s, S) == t \in Seq(S) /\ Len(t) = Len(s) /\ \A i \in 1 .. Len(s) : t[i] = h[s[i]]

Maps(h, D, S) == \A x \in D : h[x] \in S

LEMMA MapType ==
    ASSUME NEW D, NEW S, NEW h, Maps(h, D, S), NEW s \in Seq(D)
    PROVE  IsMapped(MapOf(h, s), h, s, S)
<1>1. PICK n, t : n = Len(s) /\ t = MapOf(h, s)
  OBVIOUS
<1>2. n \in Nat /\ DOMAIN s = 1 .. n /\ \A i \in 1 .. n : s[i] \in D
  BY <1>1, LenProperties, ElementOfSeq
<1>3. t = [j \in 1 .. n |-> h[s[j]]]
  BY <1>1, <1>2 DEF MapOf
<1>4. t \in [1 .. n -> S]
  BY <1>2, <1>3 DEF Maps
<1> QED BY <1>1, <1>2, <1>3, <1>4, ListOf DEF IsMapped

MapsJoin(h, s, t) == MapOf(h, s \o t) = MapOf(h, s) \o MapOf(h, t)

LEMMA MapJoin ==
    ASSUME NEW D, NEW S, NEW h, Maps(h, D, S), NEW s \in Seq(D), NEW t \in Seq(D)
    PROVE  MapsJoin(h, s, t)
<1>1. PICK st, hs, ht, left, right : /\ st = s \o t /\ hs = MapOf(h, s) /\ ht = MapOf(h, t)
                                     /\ left = MapOf(h, st) /\ right = hs \o ht
  OBVIOUS
<1>2. PICK a, b : a = Len(s) /\ b = Len(t)
  OBVIOUS
<1>3. st \in Seq(D) /\ IsJoin(st, s, t) /\ a \in Nat /\ b \in Nat
  BY <1>1, <1>2, Join
<1>4. /\ hs \in Seq(S) /\ Len(hs) = a /\ \A i \in 1 .. a : hs[i] = h[s[i]]
      /\ ht \in Seq(S) /\ Len(ht) = b /\ \A i \in 1 .. b : ht[i] = h[t[i]]
  BY <1>1, <1>2, MapType DEF IsMapped
<1>5. /\ left \in Seq(S) /\ Len(left) = Len(st) /\ \A i \in 1 .. Len(st) : left[i] = h[st[i]]
  <2>1. left = MapOf(h, st) /\ st \in Seq(D)
    BY <1>1, <1>3
  <2>2. IsMapped(left, h, st, S)
    BY <2>1, MapType
  <2> QED BY <2>2 DEF IsMapped
<1>6. right \in Seq(S) /\ IsJoin(right, hs, ht)
  BY <1>1, <1>4, Join
<1>7. Len(st) = a + b /\ Len(right) = a + b
  BY <1>2, <1>3, <1>4, <1>6 DEF IsJoin
<1>8. ASSUME NEW i \in 1 .. a + b PROVE left[i] = right[i]
  <2>1. /\ left[i] = h[st[i]]
        /\ st[i] = (IF i <= a THEN s[i] ELSE t[i - a])
        /\ right[i] = (IF i <= a THEN hs[i] ELSE ht[i - a])
    BY <1>2, <1>3, <1>4, <1>5, <1>6, <1>7 DEF IsJoin
  <2>2. CASE i <= a
    BY <1>4, <2>1, <2>2
  <2>3. CASE ~ (i <= a)
    <3>1. i - a \in 1 .. b
      BY <1>3, <2>3
    <3> QED BY <1>4, <2>1, <2>3, <3>1
  <2> QED BY <2>2, <2>3
<1>9. left = right
  <2>1. Len(left) = Len(right) /\ \A i \in 1 .. Len(left) : left[i] = right[i]
    BY <1>5, <1>7, <1>8
  <2> QED BY <1>5, <1>6, <2>1, SeqEqual
<1> QED BY <1>1, <1>9, Zenon DEF MapsJoin

LEMMA FlattenMapped ==
    ASSUME NEW D, NEW S, NEW h, Maps(h, D, S), NEW n \in Nat,
           NEW seqs \in Seq(Seq(D)), Len(seqs) = n,
           NEW mapped \in Seq(Seq(S)), Len(mapped) = n,
           \A i \in 1 .. n : mapped[i] = MapOf(h, seqs[i])
    PROVE  FlattenSeq(mapped) = MapOf(h, FlattenSeq(seqs))
<1>1. PICK f : Joins(f, seqs, n, D) /\ FlattenSeq(seqs) = f[n]
  BY FlattenSteps
<1>2. PICK g : Joins(g, mapped, n, S) /\ FlattenSeq(mapped) = g[n]
  BY FlattenSteps
<1>3. PICK T : T = {i \in 0 .. n : g[i] = MapOf(h, f[i])}
  OBVIOUS
<1>4. 0 \in T
  <2>1. PICK none : none = << >>
    OBVIOUS
  <2>2. f[0] = none /\ g[0] = none
    BY <1>1, <1>2, <2>1 DEF Joins
  <2>3. none \in Seq(D) /\ Len(none) = 0 /\ none \in Seq(S)
    BY <2>1, EmptySeq
  <2>4. MapOf(h, none) \in Seq(S) /\ Len(MapOf(h, none)) = 0
    <3>1. none \in Seq(D)
      BY <2>3
    <3>2. IsMapped(MapOf(h, none), h, none, S)
      BY <3>1, MapType
    <3> QED BY <2>3, <3>2 DEF IsMapped
  <2>5. MapOf(h, none) = none
    BY <2>1, <2>4, EmptySeq
  <2> QED BY <1>3, <2>2, <2>5
<1>5. ASSUME NEW i \in 0 .. n - 1, i \in T PROVE i + 1 \in T
  <2>1. PICK j : j = i + 1
    OBVIOUS
  <2>2. j \in 1 .. n /\ j \in 0 .. n /\ j - 1 = i /\ i \in 0 .. n
    BY <2>1
  <2>3. PICK a, b : a = f[i] /\ b = seqs[j]
    OBVIOUS
  <2>4. a \in Seq(D) /\ b \in Seq(D) /\ f[j] = a \o b
    BY <1>1, <2>2, <2>3, ElementOfSeq DEF Joins
  <2>5. g[j] = g[i] \o mapped[j]
    BY <1>2, <2>2 DEF Joins
  <2>6. g[i] = MapOf(h, a) /\ mapped[j] = MapOf(h, b)
    BY <1>3, <1>5, <2>2, <2>3
  <2>7. MapsJoin(h, a, b)
    BY <2>4, MapJoin
  <2>8. g[j] = MapOf(h, f[j])
    BY <2>4, <2>5, <2>6, <2>7, Zenon DEF MapsJoin
  <2> QED BY <1>3, <2>1, <2>2, <2>8
<1>6. \A i \in 0 .. n - 1 : i \in T => i + 1 \in T
  BY <1>5
<1>7. \A i \in 0 .. n : i \in T
  BY <1>4, <1>6, Reaches
<1>8. n \in 0 .. n
  OBVIOUS
<1> QED BY <1>1, <1>2, <1>3, <1>7, <1>8

\* list holds what is in the first i lists of P, once.
Gathers(list, P, i) ==
    /\ \A a \in 1 .. Len(list) : \E j \in 1 .. i : \E b \in DOMAIN P[j] : list[a] = P[j][b]
    /\ \A a, a2 \in 1 .. Len(list) : list[a] = list[a2] => a = a2
    /\ \A j \in 1 .. i : \A b \in DOMAIN P[j] : \E a \in 1 .. Len(list) : list[a] = P[j][b]

LEMMA GathersMore ==
    ASSUME NEW k \in Nat, NEW m \in Nat, NEW P, IsPartition(P, k, m),
           NEW i \in 0 .. k - 1, NEW list \in Seq(1 .. m), Gathers(list, P, i)
    PROVE  Gathers(list \o P[i + 1], P, i + 1)
<1>1. PICK l : l = i + 1
  OBVIOUS
<1>2. l \in 1 .. k /\ \A j : j \in 1 .. l <=> (j \in 1 .. i \/ j = l)
  BY <1>1
<1>0. \A j \in 1 .. i : j \in 1 .. k /\ j # l
  BY <1>1
<1>3. PICK last, all : last = P[l] /\ all = list \o last
  OBVIOUS
<1>4. last \in Seq(1 .. m)
  BY <1>2, <1>3 DEF IsPartition
<1>5. PICK n, c : n = Len(list) /\ c = Len(last)
  OBVIOUS
<1>6. n \in Nat /\ c \in Nat /\ IsJoin(all, list, last)
  BY <1>3, <1>4, <1>5, Join
<1>7. Len(all) = n + c /\ \A a \in 1 .. n + c : all[a] = IF a <= n THEN list[a] ELSE last[a - n]
  BY <1>5, <1>6 DEF IsJoin
<1>8. DOMAIN last = 1 .. c
  BY <1>4, <1>5, LenProperties
<1>9. \A a \in 1 .. n + c : /\ a <= n => a \in 1 .. n /\ all[a] = list[a]
                            /\ ~ (a <= n) => a - n \in DOMAIN P[l] /\ all[a] = P[l][a - n]
  BY <1>3, <1>6, <1>7, <1>8
<1>10. ASSUME NEW a \in 1 .. n + c
       PROVE  \E j \in 1 .. l : \E b \in DOMAIN P[j] : all[a] = P[j][b]
  <2>1. CASE a <= n
    <3>1. PICK j \in 1 .. i : \E b \in DOMAIN P[j] : list[a] = P[j][b]
      BY <1>5, <1>9, <2>1 DEF Gathers
    <3> QED BY <1>2, <1>9, <2>1, <3>1
  <2>2. CASE ~ (a <= n)
    BY <1>2, <1>9, <2>2
  <2> QED BY <2>1, <2>2
<1>11. ASSUME NEW a \in 1 .. n + c, NEW a2 \in 1 .. n + c, a <= n, ~ (a2 <= n), all[a] = all[a2]
       PROVE  FALSE
  <2>1. PICK j \in 1 .. i : \E b \in DOMAIN P[j] : list[a] = P[j][b]
    BY <1>5, <1>9, <1>11 DEF Gathers
  <2>2. PICK b \in DOMAIN P[j] : list[a] = P[j][b]
    BY <2>1
  <2>3. PICK b2 : b2 = a2 - n
    OBVIOUS
  <2>4. b2 \in DOMAIN P[l] /\ P[j][b] = P[l][b2]
    BY <1>9, <1>11, <2>2, <2>3
  <2>5. j \in 1 .. k /\ j # l
    BY <1>0
  <2> QED BY <1>2, <2>4, <2>5 DEF IsPartition
<1>12. ASSUME NEW a \in 1 .. n + c, NEW a2 \in 1 .. n + c, all[a] = all[a2] PROVE a = a2
  <2>1. CASE a <= n /\ a2 <= n
    <3>1. a \in 1 .. n /\ a2 \in 1 .. n /\ list[a] = list[a2]
      BY <1>9, <1>12, <2>1
    <3> QED BY <1>5, <3>1 DEF Gathers
  <2>2. CASE ~ (a <= n) /\ ~ (a2 <= n)
    <3>1. PICK b, b2 : b = a - n /\ b2 = a2 - n
      OBVIOUS
    <3>2. b \in DOMAIN P[l] /\ b2 \in DOMAIN P[l] /\ P[l][b] = P[l][b2]
      BY <1>9, <1>12, <2>2, <3>1
    <3>3. b = b2
      BY <1>2, <3>2 DEF IsPartition
    <3> QED BY <1>6, <3>1, <3>3
  <2>3. CASE a <= n /\ ~ (a2 <= n)
    BY <1>11, <1>12, <2>3
  <2>4. CASE ~ (a <= n) /\ a2 <= n
    BY <1>11, <1>12, <2>4
  <2> QED BY <2>1, <2>2, <2>3, <2>4
<1>13. ASSUME NEW j \in 1 .. l, NEW b \in DOMAIN P[j] PROVE \E a \in 1 .. n + c : all[a] = P[j][b]
  <2>1. CASE j \in 1 .. i
    <3>1. PICK a \in 1 .. n : list[a] = P[j][b]
      BY <1>5, <2>1 DEF Gathers
    <3>2. a \in 1 .. n + c /\ a <= n
      BY <1>6
    <3> QED BY <1>9, <3>1, <3>2
  <2>2. CASE j = l
    <3>1. PICK a : a = n + b
      OBVIOUS
    <3>2. b \in 1 .. c
      BY <1>3, <1>8, <2>2
    <3>3. a \in 1 .. n + c /\ ~ (a <= n) /\ a - n = b
      BY <1>6, <3>1, <3>2
    <3> QED BY <1>9, <2>2, <3>3
  <2> QED BY <1>2, <2>1, <2>2
<1>14. Gathers(all, P, l)
  BY <1>7, <1>10, <1>12, <1>13 DEF Gathers
<1> QED BY <1>1, <1>3, <1>14

\* One after the other the lists of a partition hold every number once.
LEMMA FlattenPartition ==
    ASSUME NEW k \in Nat, NEW m \in Nat, NEW P, IsPartition(P, k, m)
    PROVE  /\ FlattenSeq(P) \in Seq(1 .. m) /\ Len(FlattenSeq(P)) = m
           /\ Enumerates(FlattenSeq(P), m, 1 .. m)
<1>1. P \in Seq(Seq(1 .. m)) /\ Len(P) = k
  BY ListOf DEF IsPartition
<1>2. PICK f : Joins(f, P, k, 1 .. m) /\ FlattenSeq(P) = f[k]
  BY <1>1, FlattenSteps
<1>3. PICK T : T = {i \in 0 .. k : Gathers(f[i], P, i)}
  OBVIOUS
<1>4. 0 \in T
  <2>1. Len(f[0]) = 0
    BY <1>2, EmptySeq DEF Joins
  <2> QED BY <1>3, <2>1 DEF Gathers
<1>5. ASSUME NEW i \in 0 .. k - 1, i \in T PROVE i + 1 \in T
  <2>1. PICK l : l = i + 1
    OBVIOUS
  <2>2. l \in 1 .. k /\ l \in 0 .. k /\ l - 1 = i /\ i \in 0 .. k
    BY <2>1
  <2>3. f[l] = f[i] \o P[l] /\ f[i] \in Seq(1 .. m)
    BY <1>2, <2>2 DEF Joins
  <2>4. Gathers(f[i], P, i)
    BY <1>3, <1>5
  <2>5. Gathers(f[i] \o P[i + 1], P, i + 1)
    BY <2>3, <2>4, GathersMore
  <2> QED BY <1>3, <2>1, <2>2, <2>3, <2>5
<1>6. \A i \in 0 .. k - 1 : i \in T => i + 1 \in T
  BY <1>5
<1>7. \A i \in 0 .. k : i \in T
  BY <1>4, <1>6, Reaches
<1>8. k \in 0 .. k
  OBVIOUS
<1>9. PICK list, n : list = FlattenSeq(P) /\ n = Len(list)
  OBVIOUS
<1>10. list \in Seq(1 .. m) /\ n \in Nat /\ list \in [1 .. n -> 1 .. m]
  BY <1>2, <1>8, <1>9, LenProperties DEF Joins
<1>11. Gathers(list, P, k)
  BY <1>2, <1>3, <1>7, <1>8, <1>9
<1>12. Enumerates(list, n, 1 .. m)
  <2>1. \A i, j \in 1 .. n : list[i] = list[j] => i = j
    BY <1>9, <1>11 DEF Gathers
  <2>2. ASSUME NEW x \in 1 .. m PROVE \E i \in 1 .. n : list[i] = x
    <3>1. PICK j \in 1 .. k : \E b \in DOMAIN P[j] : P[j][b] = x
      BY DEF IsPartition
    <3>2. PICK b \in DOMAIN P[j] : P[j][b] = x
      BY <3>1
    <3> QED BY <1>9, <1>11, <3>2 DEF Gathers
  <2> QED BY <1>10, <2>1, <2>2 DEF Enumerates
<1>13. n = m
  BY <1>10, <1>12, CountUp, EnumeratedCount
<1> QED BY <1>9, <1>10, <1>12, <1>13

\* restore_dynamic_batch puts what was computed in the order of the micro-batches back in the
\* order of the batch.
THEOREM RestoredInOrder ==
    ASSUME NEW S, NEW m \in Nat, NEW batch \in Seq(S), Len(batch) = m, NEW lists,
           NEW indices, indices = FlattenSeq(lists),
           indices \in Seq(1 .. m), Enumerates(indices, m, 1 .. m)
    PROVE  Restored(MapOf(batch, indices), lists) = batch
<1>1. DOMAIN indices = 1 .. m /\ \A i \in 1 .. m : indices[i] \in 1 .. m
  BY DEF Enumerates
<1>2. PICK data : data = MapOf(batch, indices)
  OBVIOUS
<1>3. data = [i \in 1 .. m |-> batch[indices[i]]] /\ DOMAIN data = 1 .. m
  BY <1>1, <1>2 DEF MapOf
<1>4. PICK reverse_idx : reverse_idx = [i \in 1 .. m |-> CHOOSE j \in 1 .. m : indices[j] = i]
  OBVIOUS
<1>5. Restored(data, lists) = [i \in 1 .. m |-> data[reverse_idx[i]]]
  BY <1>1, <1>3, <1>4 DEF Restored
<1>6. ASSUME NEW i \in 1 .. m PROVE data[reverse_idx[i]] = batch[i]
  <2>1. \E j \in 1 .. m : indices[j] = i
    BY DEF Enumerates
  <2>2. reverse_idx[i] \in 1 .. m /\ indices[reverse_idx[i]] = i
    BY <1>4, <2>1
  <2> QED BY <1>3, <2>2
<1>7. batch = [i \in 1 .. m |-> batch[i]]
  BY LenProperties
<1> QED BY <1>2, <1>5, <1>6, <1>7
=============================================================================
