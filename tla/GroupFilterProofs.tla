-------------------------- MODULE GroupFilterProofs --------------------------
(***************************************************************************)
(* What every training batch of the DAPO trainer holds, for any dataset,   *)
(* any sizes and any number of generation batches.                         *)
(*                                                                         *)
(* The argument is about groups: the n rollouts of a prompt stand side by  *)
(* side, filtering takes or leaves whole groups, joining and cutting       *)
(* happen at multiples of n.  The filter is a loop over trajectories, so   *)
(* its lemmas go by induction; SmallestOf and Reaches bring that down to   *)
(* the well-foundedness of < on the naturals.                              *)
(***************************************************************************)
EXTENDS GroupFilter, FiniteSetTheorems, SequenceTheorems, WellFoundedInduction, TLAPS

(* Induction.                                                              *)

\* A set of naturals that is not empty has a smallest element.
LEMMA SmallestOf ==
    ASSUME NEW T, T \subseteq Nat, T # {}
    PROVE  \E x \in T : \A y \in T : x <= y
<1> DEFINE R == {ss \in Nat \X Nat : ss[1] < ss[2]}
<1>1. IsWellFoundedOn(R, Nat)
  BY NatLessThanWellFounded DEF OpToRel
<1> HIDE DEF R
<1>2. PICK x \in T : \A y \in T : ~ (<< y, x >> \in R)
  BY <1>1, WFMin
<1>3. \A y \in T : << y, x >> \in R <=> y < x
  BY DEF R
<1>4. \A y \in T : ~ (y < x)
  BY <1>2, <1>3
<1>5. QED  BY <1>4

\* A set that holds 0 and with i also i + 1 reaches m.
LEMMA Reaches ==
    ASSUME NEW m \in Nat, NEW T, 0 \in T, \A i \in 0 .. m - 1 : i \in T => i + 1 \in T
    PROVE  \A i \in 0 .. m : i \in T
<1> SUFFICES ASSUME NEW j \in 0 .. m, j \notin T PROVE FALSE
  OBVIOUS
<1>1. PICK rest : rest = {i \in 0 .. m : i \notin T}
  OBVIOUS
<1>2. rest \subseteq Nat /\ rest # {}
  BY <1>1
<1>3. PICK k \in rest : \A y \in rest : k <= y
  BY <1>2, SmallestOf
<1>4. k \in 0 .. m /\ k \notin T
  BY <1>1, <1>3
<1>5. k # 0
  BY <1>4
<1>6. k - 1 \in 0 .. m - 1 /\ k - 1 \notin rest
  BY <1>3, <1>4, <1>5
<1>7. QED  BY <1>1, <1>4, <1>6

-----------------------------------------------------------------------------
(* Sequences and counting.                                                 *)

\* A function on 1 .. m is a sequence of length m.
LEMMA SeqOf ==
    ASSUME NEW S, NEW m \in Nat, NEW s \in [1 .. m -> S]
    PROVE  s \in Seq(S) /\ Len(s) = m
<1>1. s \in Seq(S)
  BY SeqDef
<1>2. Len(s) \in Nat /\ DOMAIN s = 1 .. Len(s)
  BY <1>1, LenProperties
<1>3. 1 .. m = 1 .. Len(s)
  BY <1>2
<1>4. Len(s) = m
  <2>1. m \in 1 .. Len(s) \/ m = 0
    BY <1>3
  <2>2. Len(s) \in 1 .. m \/ Len(s) = 0
    BY <1>2, <1>3
  <2> QED BY <1>2, <2>1, <2>2
<1> QED BY <1>1, <1>4

\* Every member of S is among the c values of h.
Listed(S, h, c) == \A u \in S : \E q \in 0 .. c - 1 : h[q] = u

\* A set whose members are all listed among c values has at most c members.
LEMMA ListedCount ==
    ASSUME NEW c \in Nat, NEW S, NEW h, Listed(S, h, c)
    PROVE  IsFiniteSet(S) /\ Cardinality(S) \in Nat /\ Cardinality(S) <= c
<1>1. PICK T : T = {h[q] : q \in 0 .. c - 1}
  OBVIOUS
<1>2. PICK f : f = [q \in 0 .. c - 1 |-> h[q]]
  OBVIOUS
<1>3. f \in [0 .. c - 1 -> T] /\ \A t \in T : \E q \in 0 .. c - 1 : f[q] = t
  BY <1>1, <1>2
<1>4. f \in Surjection(0 .. c - 1, T)
  BY <1>3 DEF Surjection
<1>5. IsFiniteSet(0 .. c - 1) /\ Cardinality(0 .. c - 1) = c
  <2>1. 0 \in Int /\ c - 1 \in Int
    OBVIOUS
  <2>2. /\ IsFiniteSet(0 .. c - 1)
        /\ Cardinality(0 .. c - 1) = IF 0 > c - 1 THEN 0 ELSE c - 1 - 0 + 1
    BY <2>1, FS_Interval
  <2> QED BY <2>2
<1>6. IsFiniteSet(T) /\ Cardinality(T) <= c
  BY <1>4, <1>5, FS_Surjection
<1>7. S \in SUBSET T
  BY <1>1 DEF Listed
<1>8. IsFiniteSet(S) /\ Cardinality(S) <= Cardinality(T)
  BY <1>6, <1>7, FS_Subset
<1>9. Cardinality(S) \in Nat /\ Cardinality(T) \in Nat
  BY <1>6, <1>8, FS_CardinalityType
<1> QED BY <1>6, <1>8, <1>9

\* A finite set that holds the m numbers after a and has at most m members holds
\* nothing else.
LEMMA NothingElse ==
    ASSUME NEW a \in Nat, NEW m \in Nat, NEW S, IsFiniteSet(S),
           a + 1 .. a + m \subseteq S, ~ (Cardinality(S) > m)
    PROVE  S = a + 1 .. a + m
<1>1. IsFiniteSet(a + 1 .. a + m) /\ Cardinality(a + 1 .. a + m) = m
  <2>1. a + 1 \in Int /\ a + m \in Int
    OBVIOUS
  <2>2. /\ IsFiniteSet(a + 1 .. a + m)
        /\ Cardinality(a + 1 .. a + m)
             = IF a + 1 > a + m THEN 0 ELSE (a + m) - (a + 1) + 1
    BY <2>1, FS_Interval
  <2> QED BY <2>2
<1>2. Cardinality(S) \in Nat /\ Cardinality(a + 1 .. a + m) <= Cardinality(S)
  BY FS_CardinalityType, FS_Subset
<1>3. Cardinality(a + 1 .. a + m) = Cardinality(S)
  BY <1>1, <1>2
<1> QED BY <1>3, FS_Subset

-----------------------------------------------------------------------------
(* Positions in a batch of groups.                                         *)

\* Where the r-th rollout of group q stands (q counts from 0, r from 1).
At(q, r) == q * n + r

LEMMA TimesMonotonic ==
    ASSUME NEW a \in Nat, NEW b \in Nat, a <= b, NEW m \in Nat
    PROVE  a * m \in Nat /\ b * m \in Nat /\ a * m <= b * m
<1>1. b - a \in Nat /\ (b - a) * m \in Nat /\ a * m \in Nat /\ b * m \in Nat
  OBVIOUS
<1>2. b * m = a * m + (b - a) * m
  OBVIOUS
<1> QED BY <1>1, <1>2

\* The groups before the c-th are the first c * n positions.
LEMMA AtRange ==
    ASSUME NEW c \in Nat, NEW q \in 0 .. c - 1, NEW r \in 1 .. n
    PROVE  /\ At(q, r) \in 1 .. c * n
           /\ (At(q, r) - 1) \div n = q
<1>1. n \in Nat \ {0} /\ q \in Nat /\ r \in Nat /\ 1 <= r /\ r <= n
  BY FilterAssumption
<1>2. q + 1 \in Nat /\ q + 1 <= c /\ (q + 1) * n = q * n + n
  BY <1>1
<1>3. c * n \in Nat /\ (q + 1) * n <= c * n /\ q * n \in Nat
  BY <1>1, <1>2, TimesMonotonic
<1>4. At(q, r) \in 1 .. c * n
  BY <1>1, <1>2, <1>3 DEF At
<1>5. (q * n + r - 1) \div n = q
  <2>1. PICK d : d = (q * n + r - 1) \div n
    OBVIOUS
  <2>2. q * n + r - 1 \in Nat
    BY <1>1, <1>3
  <2>3. d \in Nat /\ d * n <= q * n + r - 1 /\ q * n + r - 1 < d * n + n
    BY <1>1, <2>1, <2>2
  <2>4. d * n \in Nat /\ (d + 1) * n = d * n + n
    BY <1>1, <2>3
  <2>5. CASE d + 1 <= q
    BY <1>1, <1>3, <2>3, <2>4, <2>5, TimesMonotonic
  <2>6. CASE q + 1 <= d
    BY <1>1, <1>2, <1>3, <2>3, <2>4, <2>6, TimesMonotonic
  <2> QED BY <1>1, <2>1, <2>3, <2>5, <2>6
<1>6. At(q, r) - 1 = q * n + r - 1
  BY <1>1, <1>3 DEF At
<1>7. (At(q, r) - 1) \div n = q
  BY <1>5, <1>6
<1> QED BY <1>4, <1>7

\* Every one of them belongs to one of these groups.
LEMMA AtOnto ==
    ASSUME NEW c \in Nat, NEW i \in 1 .. c * n
    PROVE  /\ (i - 1) \div n \in 0 .. c - 1
           /\ \E r \in 1 .. n : i = At((i - 1) \div n, r)
<1>1. n \in Nat \ {0} /\ c * n \in Nat /\ i \in Nat /\ 1 <= i /\ i <= c * n
  BY FilterAssumption
<1>2. PICK q : q = (i - 1) \div n
  OBVIOUS
<1>3. q \in Nat /\ q * n <= i - 1 /\ i - 1 < q * n + n
  BY <1>1, <1>2
<1>4. q * n \in Nat
  BY <1>1, <1>3
<1>5. q < c
  <2> SUFFICES ASSUME c <= q PROVE FALSE
    BY <1>3
  <2>1. c * n <= q * n
    BY <1>1, <1>3, TimesMonotonic
  <2> QED BY <1>1, <1>3, <1>4, <2>1
<1>6. i - q * n \in 1 .. n /\ i = At(q, i - q * n)
  BY <1>1, <1>3, <1>4 DEF At
<1> QED BY <1>2, <1>3, <1>5, <1>6

\* Groups behind c others are moved by c * n positions.
LEMMA AtShift ==
    ASSUME NEW c \in Nat, NEW q \in Nat, NEW r \in 1 .. n
    PROVE  At(c + q, r) = c * n + At(q, r) /\ At(q, r) \in Nat
<1>1. n \in Nat
  BY FilterAssumption
<1>2. (c + q) * n = c * n + q * n /\ c * n \in Nat /\ q * n \in Nat
  BY <1>1
<1> QED BY <1>1, <1>2 DEF At

-----------------------------------------------------------------------------
(* The loop of the filter.                                                 *)

\* What the loop adds for one trajectory.
Taken(trajectory, kept) ==
    IF trajectory.uid \in kept THEN << trajectory >> ELSE << >>

\* f lists what is taken of the first trajectories of t.
Grows(f, t, kept, S) ==
    /\ f[0] = << >>
    /\ \A i \in 1 .. Len(t) : f[i] = f[i - 1] \o Taken(t[i], kept)
    /\ \A i \in 0 .. Len(t) : f[i] \in Seq(S)

\* kept_trajs is the end of a sequence of lists that begins with the empty one and
\* grows by what is taken of each trajectory.
LEMMA KeptSteps ==
    ASSUME NEW S, NEW t \in Seq(S), NEW kept
    PROVE  \E f : Grows(f, t, kept, S) /\ kept_trajs(t, kept) = f[Len(t)]
<1> DEFINE Lists(f, m) ==
        f = [i \in 0 .. m |-> IF i = 0 THEN << >> ELSE f[i - 1] \o Taken(t[i], kept)]
<1>1. Len(t) \in Nat
  BY LenProperties
<1>2. \E f : Lists(f, Len(t))
  <2>1. PICK T : T = {m \in 0 .. Len(t) : \E f : Lists(f, m)}
    OBVIOUS
  <2>2. 0 \in T
    <3>1. PICK f : f = [i \in 0 .. 0 |-> << >>]
      OBVIOUS
    <3>2. Lists(f, 0)
      BY <3>1
    <3> QED BY <1>1, <2>1, <3>2
  <2>3. ASSUME NEW m \in 0 .. Len(t) - 1, m \in T PROVE m + 1 \in T
    <3>1. PICK f : Lists(f, m)
      BY <2>1, <2>3
    <3>2. PICK g : g = [i \in 0 .. m + 1 |-> IF i <= m THEN f[i]
                                             ELSE f[m] \o Taken(t[m + 1], kept)]
      OBVIOUS
    <3>3. ASSUME NEW i \in 0 .. m + 1
          PROVE  g[i] = IF i = 0 THEN << >> ELSE g[i - 1] \o Taken(t[i], kept)
      <4>1. CASE i = m + 1
        BY <3>2, <4>1
      <4>2. CASE i # m + 1
        <5>1. i \in 0 .. m /\ g[i] = f[i] /\ (i # 0 => g[i - 1] = f[i - 1])
          BY <3>2, <4>2
        <5>2. f[i] = IF i = 0 THEN << >> ELSE f[i - 1] \o Taken(t[i], kept)
          BY <3>1, <5>1
        <5> QED BY <5>1, <5>2
      <4> QED BY <4>1, <4>2
    <3>4. g = [i \in 0 .. m + 1 |-> g[i]]
      BY <3>2
    <3>5. Lists(g, m + 1)
      BY <3>3, <3>4
    <3>6. m + 1 \in 0 .. Len(t)
      BY <1>1
    <3> QED BY <2>1, <3>5, <3>6
  <2>4. \A m \in 0 .. Len(t) - 1 : m \in T => m + 1 \in T
    BY <2>3
  <2>5. \A m \in 0 .. Len(t) : m \in T
    BY <1>1, <2>2, <2>4, Reaches
  <2>6. Len(t) \in 0 .. Len(t)
    BY <1>1
  <2>7. Len(t) \in T
    BY <2>5, <2>6
  <2> QED BY <2>1, <2>7
<1>3. PICK f : Lists(f, Len(t)) /\ kept_trajs(t, kept) = f[Len(t)]
  BY <1>2 DEF kept_trajs, Taken
<1>4. f[0] = << >>
  BY <1>1, <1>3
<1>5. \A i \in 1 .. Len(t) : f[i] = f[i - 1] \o Taken(t[i], kept)
  <2> SUFFICES ASSUME NEW i \in 1 .. Len(t)
               PROVE  f[i] = f[i - 1] \o Taken(t[i], kept)
    OBVIOUS
  <2>1. i \in 0 .. Len(t) /\ i # 0
    BY <1>1
  <2> QED BY <1>3, <2>1
<1>6. \A i \in 0 .. Len(t) : f[i] \in Seq(S)
  <2>1. PICK T : T = {i \in 0 .. Len(t) : f[i] \in Seq(S)}
    OBVIOUS
  <2>2. 0 \in T
    <3>1. << >> \in Seq(S) /\ 0 \in 0 .. Len(t)
      BY <1>1
    <3> QED BY <1>4, <2>1, <3>1
  <2>3. ASSUME NEW i \in 0 .. Len(t) - 1, i \in T PROVE i + 1 \in T
    <3>1. PICK k : k = i + 1
      OBVIOUS
    <3>2. k \in 1 .. Len(t) /\ k \in 0 .. Len(t) /\ k - 1 = i
      BY <1>1, <3>1
    <3>3. f[k] = f[i] \o Taken(t[k], kept)
      BY <1>5, <3>2
    <3>4. t[k] \in S
      BY <3>2, ElementOfSeq
    <3>5. Taken(t[k], kept) \in Seq(S)
      BY <3>4 DEF Taken
    <3>6. f[i] \in Seq(S)
      BY <2>1, <2>3
    <3>7. f[k] \in Seq(S)
      BY <3>3, <3>5, <3>6, ConcatProperties
    <3> QED BY <2>1, <3>1, <3>2, <3>7
  <2>4. \A i \in 0 .. Len(t) : i \in T
    BY <1>1, <2>2, <2>3, Reaches
  <2> QED BY <2>1, <2>4
<1>7. Grows(f, t, kept, S)
  BY <1>4, <1>5, <1>6 DEF Grows
<1> QED BY <1>3, <1>7

\* Of the m trajectories after a none is kept; all are kept.
NoneKept(t, kept, a, m) == \A r \in 1 .. m : t[a + r].uid \notin kept
AllKept(t, kept, a, m) == \A r \in 1 .. m : t[a + r].uid \in kept

\* A run of trajectories none of which is kept adds nothing.
LEMMA LeftRun ==
    ASSUME NEW S, NEW t \in Seq(S), NEW kept, NEW f, Grows(f, t, kept, S),
           NEW a \in Nat, NEW m \in Nat, a + m <= Len(t),
           NoneKept(t, kept, a, m)
    PROVE  f[a + m] = f[a]
<1>1. PICK T : T = {j \in 0 .. m : f[a + j] = f[a]}
  OBVIOUS
<1>2. 0 \in T
  BY <1>1
<1>3. ASSUME NEW j \in 0 .. m - 1, j \in T PROVE j + 1 \in T
  <2>1. PICK k : k = a + (j + 1)
    OBVIOUS
  <2>2. Len(t) \in Nat
    BY LenProperties
  <2>3. /\ k \in 1 .. Len(t) /\ a + j \in 0 .. Len(t) /\ j + 1 \in 1 .. m
        /\ k - 1 = a + j /\ j + 1 \in 0 .. m
    BY <2>1, <2>2
  <2>4. f[k] = f[a + j] \o Taken(t[k], kept)
    BY <2>3 DEF Grows
  <2>5. t[k].uid \notin kept
    BY <2>1, <2>3 DEF NoneKept
  <2>6. Taken(t[k], kept) = << >>
    BY <2>5 DEF Taken
  <2>7. f[a + j] \in Seq(S) /\ f[a + j] = f[a]
    BY <1>1, <1>3, <2>3 DEF Grows
  <2>8. f[k] = f[a + j]
    BY <2>4, <2>6, <2>7, ConcatEmptySeq
  <2> QED BY <1>1, <2>1, <2>3, <2>7, <2>8
<1>4. \A j \in 0 .. m - 1 : j \in T => j + 1 \in T
  BY <1>3
<1>5. \A j \in 0 .. m : j \in T
  BY <1>2, <1>4, Reaches
<1>6. m \in T
  BY <1>5
<1> QED BY <1>1, <1>6

\* after is before with the m trajectories behind a added.
AddsRun(after, before, t, a, m) ==
    /\ Len(after) = Len(before) + m
    /\ \A i \in 1 .. Len(before) : after[i] = before[i]
    /\ \A r \in 1 .. m : after[Len(before) + r] = t[a + r]

\* A run of trajectories all of which are kept is added as it stands.
LEMMA TakenRun ==
    ASSUME NEW S, NEW t \in Seq(S), NEW kept, NEW f, Grows(f, t, kept, S),
           NEW a \in Nat, NEW m \in Nat, a + m <= Len(t),
           AllKept(t, kept, a, m)
    PROVE  AddsRun(f[a + m], f[a], t, a, m)
<1> DEFINE Added(j) ==
        /\ Len(f[a + j]) = Len(f[a]) + j
        /\ \A i \in 1 .. Len(f[a]) : f[a + j][i] = f[a][i]
        /\ \A r \in 1 .. j : f[a + j][Len(f[a]) + r] = t[a + r]
<1>0. Len(t) \in Nat /\ f[a] \in Seq(S) /\ Len(f[a]) \in Nat
  <2>1. Len(t) \in Nat
    BY LenProperties
  <2>2. a \in 0 .. Len(t)
    BY <2>1
  <2> QED BY <2>1, <2>2, LenProperties DEF Grows
<1>1. PICK T : T = {j \in 0 .. m : Added(j)}
  OBVIOUS
<1>2. 0 \in T
  <2>1. a + 0 = a /\ Len(f[a]) + 0 = Len(f[a])
    BY <1>0
  <2>2. Added(0)
    BY <2>1
  <2> QED BY <1>1, <2>2
<1>3. ASSUME NEW j \in 0 .. m - 1, j \in T PROVE j + 1 \in T
  <2>1. /\ a + j + 1 \in 1 .. Len(t) /\ a + j \in 0 .. Len(t) /\ j + 1 \in 1 .. m
        /\ a + j + 1 - 1 = a + j /\ a + (j + 1) = a + j + 1
    BY <1>0
  <2>2. f[a + j + 1] = f[a + j] \o Taken(t[a + j + 1], kept)
    <3>1. PICK k : k = a + j + 1
      OBVIOUS
    <3>2. k \in 1 .. Len(t) /\ k - 1 = a + j
      BY <2>1, <3>1
    <3>3. f[k] = f[a + j] \o Taken(t[k], kept)
      BY <3>2 DEF Grows
    <3> QED BY <3>1, <3>3
  <2>3. t[a + j + 1].uid \in kept
    BY <2>1 DEF AllKept
  <2>4. Taken(t[a + j + 1], kept) = << t[a + j + 1] >>
    BY <2>3 DEF Taken
  <2>5. t[a + j + 1] \in S /\ f[a + j] \in Seq(S)
    BY <2>1, ElementOfSeq DEF Grows
  <2>6. PICK before, elt : before = f[a + j] /\ elt = t[a + j + 1]
    OBVIOUS
  <2>7. PICK len : len = Len(f[a])
    OBVIOUS
  <2>8. /\ Len(before) = len + j /\ len \in Nat
        /\ \A i \in 1 .. len : before[i] = f[a][i]
        /\ \A r \in 1 .. j : before[len + r] = t[a + r]
    BY <1>0, <1>1, <1>3, <2>6, <2>7
  <2>9. f[a + (j + 1)] = before \o << elt >>
    BY <2>1, <2>2, <2>4, <2>6
  <2>10. before \in Seq(S) /\ << elt >> \in Seq(S) /\ Len(<< elt >>) = 1 /\ << elt >>[1] = elt
    BY <2>5, <2>6
  <2>11. /\ Len(before \o << elt >>) = len + j + 1
         /\ \A i \in 1 .. len + j : (before \o << elt >>)[i] = before[i]
         /\ (before \o << elt >>)[len + j + 1] = elt
    BY <2>8, <2>10, ConcatProperties
  <2>12. Len(f[a + (j + 1)]) = len + (j + 1)
    BY <2>8, <2>9, <2>11
  <2>13. \A i \in 1 .. len : f[a + (j + 1)][i] = f[a][i]
    BY <2>8, <2>9, <2>11
  <2>14. ASSUME NEW r \in 1 .. j + 1 PROVE f[a + (j + 1)][len + r] = t[a + r]
    <3>1. CASE r = j + 1
      <4>1. len + r = len + j + 1 /\ a + r = a + j + 1
        BY <2>8, <3>1
      <4> QED BY <2>6, <2>9, <2>11, <4>1
    <3>2. CASE r # j + 1
      <4>1. r \in 1 .. j /\ len + r \in 1 .. len + j
        BY <2>8, <3>2
      <4> QED BY <2>8, <2>9, <2>11, <4>1
    <3> QED BY <3>1, <3>2
  <2>15. Added(j + 1)
    BY <2>7, <2>12, <2>13, <2>14
  <2>16. j + 1 \in 0 .. m
    BY <2>1
  <2> QED BY <1>1, <2>15, <2>16
<1>4. \A j \in 0 .. m - 1 : j \in T => j + 1 \in T
  BY <1>3
<1>5. \A j \in 0 .. m : j \in T
  BY <1>2, <1>4, Reaches
<1>6. m \in T
  BY <1>5
<1> QED BY <1>1, <1>6 DEF AddsRun

-----------------------------------------------------------------------------
(* One generation batch.                                                   *)

\* The n rollouts of every prompt stand side by side.
LEMMA RolloutGroups ==
    ASSUME new_batch \in Seq(Rows), Len(new_batch) = gen_batch_size,
           NEW verdicts \in [1 .. gen_batch_size * n -> BOOLEAN]
    PROVE  /\ Rollouts(verdicts) \in Seq(Trajectories)
           /\ Len(Rollouts(verdicts)) = gen_batch_size * n
           /\ \A p \in 0 .. gen_batch_size - 1 : \A r \in 1 .. n :
                 Rollouts(verdicts)[At(p, r)].uid = new_batch[p + 1]
<1>1. gen_batch_size \in Nat /\ n \in Nat /\ gen_batch_size * n \in Nat
  BY FilterAssumption
<1>2. \A i \in 1 .. gen_batch_size * n : (i - 1) \div n + 1 \in 1 .. Len(new_batch)
  <2> SUFFICES ASSUME NEW i \in 1 .. gen_batch_size * n
               PROVE  (i - 1) \div n + 1 \in 1 .. Len(new_batch)
    OBVIOUS
  <2>1. PICK p : p = (i - 1) \div n
    OBVIOUS
  <2>2. p \in 0 .. gen_batch_size - 1
    BY <1>1, <2>1, AtOnto
  <2>3. p + 1 \in 1 .. gen_batch_size
    BY <1>1, <2>2
  <2> QED BY <2>1, <2>3
<1>3. ASSUME NEW i \in 1 .. gen_batch_size * n
      PROVE  [uid |-> new_batch[(i - 1) \div n + 1], correct |-> verdicts[i]] \in Trajectories
  <2>1. new_batch[(i - 1) \div n + 1] \in Rows
    BY <1>2, ElementOfSeq
  <2> QED BY <2>1 DEF Trajectories
<1>4. Rollouts(verdicts) \in [1 .. gen_batch_size * n -> Trajectories]
  BY <1>3 DEF Rollouts
<1>5. /\ Rollouts(verdicts) \in Seq(Trajectories)
      /\ Len(Rollouts(verdicts)) = gen_batch_size * n
  BY <1>1, <1>4, SeqOf
<1>6. ASSUME NEW p \in 0 .. gen_batch_size - 1, NEW r \in 1 .. n
      PROVE  Rollouts(verdicts)[At(p, r)].uid = new_batch[p + 1]
  <2>1. At(p, r) \in 1 .. gen_batch_size * n /\ (At(p, r) - 1) \div n = p
    BY <1>1, AtRange
  <2>2. Rollouts(verdicts)[At(p, r)].uid = new_batch[(At(p, r) - 1) \div n + 1]
    BY <2>1 DEF Rollouts
  <2> QED BY <2>1, <2>2
<1> QED BY <1>5, <1>6

\* What a list holds of the first k prompts of a generation batch: c groups, each
\* the rollouts of a kept prompt, and a group of each kept prompt.
HoldsGroups(list, c, k, scored, kept) ==
    /\ c \in Nat
    /\ Len(list) = c * n
    /\ \A q \in 0 .. c - 1 : \E p \in 0 .. k - 1 :
          /\ new_batch[p + 1] \in kept
          /\ \A r \in 1 .. n : list[At(q, r)] = scored[At(p, r)]
    /\ \A p \in 0 .. k - 1 : new_batch[p + 1] \in kept =>
          \E q \in 0 .. c - 1 : \A r \in 1 .. n : list[At(q, r)] = scored[At(p, r)]

\* The filter leaves whole groups of kept prompts, and one of each of them.
LEMMA KeptGroups ==
    ASSUME new_batch \in Seq(Rows), Len(new_batch) = gen_batch_size,
           NEW scored \in Seq(Trajectories), Len(scored) = gen_batch_size * n,
           \A p \in 0 .. gen_batch_size - 1 : \A r \in 1 .. n :
               scored[At(p, r)].uid = new_batch[p + 1],
           NEW kept
    PROVE  /\ kept_trajs(scored, kept) \in Seq(Trajectories)
           /\ \E c : HoldsGroups(kept_trajs(scored, kept), c, gen_batch_size, scored, kept)
<1>1. gen_batch_size \in Nat /\ n \in Nat \ {0} /\ gen_batch_size * n \in Nat
  BY FilterAssumption
<1>2. PICK f : /\ Grows(f, scored, kept, Trajectories)
               /\ kept_trajs(scored, kept) = f[Len(scored)]
  BY KeptSteps
<1>3. PICK T : T = {k \in 0 .. gen_batch_size :
                       \E c : HoldsGroups(f[k * n], c, k, scored, kept)}
  OBVIOUS
<1>4. 0 \in T
  <2>1. 0 * n = 0 /\ 0 \in 0 .. gen_batch_size
    BY <1>1
  <2>2. Len(f[0]) = 0
    BY <1>2 DEF Grows
  <2>3. HoldsGroups(f[0], 0, 0, scored, kept)
    BY <2>1, <2>2 DEF HoldsGroups
  <2> QED BY <1>3, <2>1, <2>3
<1>5. ASSUME NEW k \in 0 .. gen_batch_size - 1, k \in T PROVE k + 1 \in T
  <2>1. PICK c : HoldsGroups(f[k * n], c, k, scored, kept)
    BY <1>3, <1>5
  <2>2. PICK a : a = k * n
    OBVIOUS
  <2>3. a \in Nat /\ (k + 1) * n = a + n /\ k + 1 \in 0 .. gen_batch_size
    BY <1>1, <2>2
  <2>4. a + n <= Len(scored)
    <3>1. (k + 1) * n <= gen_batch_size * n
      BY <1>1, TimesMonotonic
    <3> QED BY <2>3, <3>1
  <2>5. \A r \in 1 .. n : At(k, r) = a + r
    BY <2>2 DEF At
  <2>6. \A r \in 1 .. n : scored[a + r].uid = new_batch[k + 1]
    BY <2>5
  <2>7. CASE new_batch[k + 1] \notin kept
    <3>1. f[a + n] = f[a]
      <4>1. NoneKept(scored, kept, a, n)
        BY <2>6, <2>7 DEF NoneKept
      <4>2. n \in Nat /\ a \in Nat
        BY <1>1, <2>3
      <4>3. PICK m : m = n
        OBVIOUS
      <4>4. m \in Nat /\ a + m <= Len(scored) /\ NoneKept(scored, kept, a, m)
        BY <2>4, <4>1, <4>2, <4>3
      <4>5. f[a + m] = f[a]
        BY <1>2, <4>2, <4>4, LeftRun
      <4> QED BY <4>3, <4>5
    <3>2. HoldsGroups(f[a + n], c, k + 1, scored, kept)
      <4>1. PICK list, m : list = f[a + n] /\ m = k + 1
        OBVIOUS
      <4>2. HoldsGroups(list, c, k, scored, kept)
        BY <2>1, <2>2, <3>1, <4>1
      <4>3. /\ c \in Nat /\ Len(list) = c * n
            /\ \A q \in 0 .. c - 1 : \E p \in 0 .. k - 1 :
                  /\ new_batch[p + 1] \in kept
                  /\ \A r \in 1 .. n : list[At(q, r)] = scored[At(p, r)]
            /\ \A p \in 0 .. k - 1 : new_batch[p + 1] \in kept =>
                  \E q \in 0 .. c - 1 : \A r \in 1 .. n : list[At(q, r)] = scored[At(p, r)]
        BY <4>2, Zenon DEF HoldsGroups
      <4>4. ASSUME NEW q \in 0 .. c - 1
            PROVE  \E p \in 0 .. m - 1 :
                      /\ new_batch[p + 1] \in kept
                      /\ \A r \in 1 .. n : list[At(q, r)] = scored[At(p, r)]
        <5>1. PICK p \in 0 .. k - 1 :
                      /\ new_batch[p + 1] \in kept
                      /\ \A r \in 1 .. n : list[At(q, r)] = scored[At(p, r)]
          BY <4>3, Zenon
        <5>2. p \in 0 .. m - 1
          BY <4>1
        <5> QED BY <5>1, <5>2, Zenon
      <4>5. ASSUME NEW p \in 0 .. m - 1, new_batch[p + 1] \in kept
            PROVE  \E q \in 0 .. c - 1 :
                      \A r \in 1 .. n : list[At(q, r)] = scored[At(p, r)]
        <5>1. p # k
          BY <2>7, <4>5
        <5>2. p \in 0 .. k - 1
          BY <4>1, <5>1
        <5> QED BY <4>3, <4>5, <5>2, Zenon
      <4>6. HoldsGroups(list, c, m, scored, kept)
        BY <4>3, <4>4, <4>5, Zenon DEF HoldsGroups
      <4> QED BY <4>1, <4>6
    <3> QED BY <1>3, <2>3, <3>2
  <2>8. CASE new_batch[k + 1] \in kept
    <3>1. c \in Nat /\ Len(f[a]) = c * n /\ c * n \in Nat
      BY <1>1, <2>1, <2>2 DEF HoldsGroups
    <3>2. PICK len : len = c * n
      OBVIOUS
    <3>3. /\ Len(f[a + n]) = len + n
          /\ \A i \in 1 .. len : f[a + n][i] = f[a][i]
          /\ \A r \in 1 .. n : f[a + n][len + r] = scored[a + r]
      <4>1. AllKept(scored, kept, a, n)
        BY <2>6, <2>8 DEF AllKept
      <4>2. /\ Len(f[a + n]) = Len(f[a]) + n
            /\ \A i \in 1 .. Len(f[a]) : f[a + n][i] = f[a][i]
            /\ \A r \in 1 .. n : f[a + n][Len(f[a]) + r] = scored[a + r]
        <5>1. PICK m : m = n
          OBVIOUS
        <5>2. m \in Nat /\ a \in Nat /\ a + m <= Len(scored) /\ AllKept(scored, kept, a, m)
          BY <1>1, <2>3, <2>4, <4>1, <5>1
        <5>3. AddsRun(f[a + m], f[a], scored, a, m)
          BY <1>2, <5>2, TakenRun
        <5> QED BY <5>1, <5>3 DEF AddsRun
      <4> QED BY <3>1, <3>2, <4>2
    <3>4. \A r \in 1 .. n : At(c, r) = len + r
      BY <3>2 DEF At
    <3>5. \A r \in 1 .. n : f[a + n][At(c, r)] = scored[At(k, r)]
      BY <2>5, <3>3, <3>4
    <3>6. \A q \in 0 .. c - 1 : \A r \in 1 .. n : f[a + n][At(q, r)] = f[a][At(q, r)]
      BY <3>1, <3>2, <3>3, AtRange
    <3>7. HoldsGroups(f[a + n], c + 1, k + 1, scored, kept)
      <4>1. c + 1 \in Nat /\ Len(f[a + n]) = (c + 1) * n
        <5>1. (c + 1) * n = c * n + n
          BY <1>1, <3>1
        <5> QED BY <3>1, <3>2, <3>3, <5>1
      <4>2. ASSUME NEW q \in 0 .. c + 1 - 1
            PROVE  \E p \in 0 .. k + 1 - 1 :
                      /\ new_batch[p + 1] \in kept
                      /\ \A r \in 1 .. n : f[a + n][At(q, r)] = scored[At(p, r)]
        <5>1. CASE q = c
          <6>1. k \in 0 .. k + 1 - 1
            OBVIOUS
          <6> QED BY <2>8, <3>5, <5>1, <6>1
        <5>2. CASE q # c
          <6>1. q \in 0 .. c - 1
            BY <3>1, <5>2
          <6>2. PICK p \in 0 .. k - 1 :
                      /\ new_batch[p + 1] \in kept
                      /\ \A r \in 1 .. n : f[a][At(q, r)] = scored[At(p, r)]
            BY <2>1, <2>2, <6>1 DEF HoldsGroups
          <6>3. p \in 0 .. k + 1 - 1
            OBVIOUS
          <6>4. \A r \in 1 .. n : f[a + n][At(q, r)] = scored[At(p, r)]
            BY <3>6, <6>1, <6>2
          <6> QED BY <6>2, <6>3, <6>4
        <5> QED BY <5>1, <5>2
      <4>3. ASSUME NEW p \in 0 .. k + 1 - 1, new_batch[p + 1] \in kept
            PROVE  \E q \in 0 .. c + 1 - 1 :
                      \A r \in 1 .. n : f[a + n][At(q, r)] = scored[At(p, r)]
        <5>1. CASE p = k
          <6>1. c \in 0 .. c + 1 - 1
            BY <3>1
          <6> QED BY <3>5, <5>1, <6>1
        <5>2. CASE p # k
          <6>1. p \in 0 .. k - 1
            BY <5>2
          <6>2. PICK q \in 0 .. c - 1 :
                      \A r \in 1 .. n : f[a][At(q, r)] = scored[At(p, r)]
            BY <2>1, <2>2, <4>3, <6>1 DEF HoldsGroups
          <6>3. q \in 0 .. c + 1 - 1
            BY <3>1
          <6>4. \A r \in 1 .. n : f[a + n][At(q, r)] = scored[At(p, r)]
            BY <3>6, <6>2
          <6> QED BY <6>3, <6>4
        <5> QED BY <5>1, <5>2
      <4> QED
        <5>1. PICK m, d : m = k + 1 /\ d = c + 1
          OBVIOUS
        <5>2. d \in Nat /\ Len(f[a + n]) = d * n
          BY <4>1, <5>1
        <5>3. \A q \in 0 .. d - 1 : \E p \in 0 .. m - 1 :
                /\ new_batch[p + 1] \in kept
                /\ \A r \in 1 .. n : f[a + n][At(q, r)] = scored[At(p, r)]
          <6> SUFFICES ASSUME NEW q \in 0 .. d - 1
                       PROVE  \E p \in 0 .. m - 1 :
                                /\ new_batch[p + 1] \in kept
                                /\ \A r \in 1 .. n :
                                      f[a + n][At(q, r)] = scored[At(p, r)]
            OBVIOUS
          <6>1. q \in 0 .. c + 1 - 1
            BY <3>1, <5>1
          <6>2. PICK p \in 0 .. k + 1 - 1 :
                                /\ new_batch[p + 1] \in kept
                                /\ \A r \in 1 .. n :
                                      f[a + n][At(q, r)] = scored[At(p, r)]
            BY <4>2, <6>1
          <6>3. p \in 0 .. m - 1
            BY <5>1
          <6> QED BY <6>2, <6>3
        <5>4. \A p \in 0 .. m - 1 : new_batch[p + 1] \in kept =>
                \E q \in 0 .. d - 1 :
                    \A r \in 1 .. n : f[a + n][At(q, r)] = scored[At(p, r)]
          <6>1. 0 .. d - 1 = 0 .. c + 1 - 1 /\ 0 .. m - 1 = 0 .. k + 1 - 1
            BY <3>1, <5>1
          <6> QED BY <4>3, <6>1, Zenon
        <5>5. HoldsGroups(f[a + n], d, m, scored, kept)
          BY <5>2, <5>3, <5>4 DEF HoldsGroups
        <5> QED BY <5>1, <5>5
    <3> QED BY <1>3, <2>3, <3>7
  <2> QED BY <2>7, <2>8
<1>6. \A k \in 0 .. gen_batch_size - 1 : k \in T => k + 1 \in T
  BY <1>5
<1>7. \A k \in 0 .. gen_batch_size : k \in T
  BY <1>1, <1>4, <1>6, Reaches
<1>8. gen_batch_size \in T
  BY <1>1, <1>7
<1>9. kept_trajs(scored, kept) = f[gen_batch_size * n]
  BY <1>2
<1>10. kept_trajs(scored, kept) \in Seq(Trajectories)
  <2>1. Len(scored) \in 0 .. Len(scored)
    BY <1>1
  <2> QED BY <1>2, <2>1 DEF Grows
<1> QED BY <1>3, <1>8, <1>9, <1>10

-----------------------------------------------------------------------------
(* The inductive invariant.                                                *)

\* b is made of c groups, each n trajectories of one prompt.
InGroups(b, c) ==
    /\ c \in Nat
    /\ Len(b) = c * n
    /\ \A q \in 0 .. c - 1 : \A r \in 1 .. n : b[At(q, r)].uid = b[At(q, 1)].uid

\* Each of these groups holds a correct and a wrong trajectory, unless its prompt is
\* one of those drawn twice.
HaveBoth(b, c, drawn_twice) ==
    \A q \in 0 .. c - 1 :
        \/ b[At(q, 1)].uid \in drawn_twice
        \/ \E r, s \in 1 .. n : b[At(q, r)].correct /\ ~ b[At(q, s)].correct

\* As long as the batch is accumulated it falls short of a training batch, and a
\* further generation batch is allowed.
StillFilling ==
    /\ phase \in {"sample", "raised"} => num_prompt_in_batch < train_batch_size
    /\ max_num_gen_batches > 0 /\ phase = "sample" => num_gen_batches < max_num_gen_batches

\* The batch is made of whole groups: while it is accumulated at least as many as
\* prompts are counted, afterwards as many as a training batch has.  Until the check
\* has overturned verdicts each of them has both.
WholeGroups ==
    \E c \in 0 .. Len(batch) :
        /\ InGroups(batch, c)
        /\ phase \in {"sample", "raised"} => num_prompt_in_batch <= c
        /\ phase \in {"verify", "update"} => c = train_batch_size
        /\ n > 1 /\ phase # "update" => HaveBoth(batch, c, twice)

IInv == TypeOK /\ StillFilling /\ WholeGroups /\ SingleDrawsAreMixed

-----------------------------------------------------------------------------
(* Groups under joining, cutting and filtering.                            *)

\* Batches of whole groups are joined to a batch of whole groups.
LEMMA JoinedGroups ==
    ASSUME NEW b1 \in Seq(Trajectories), NEW b2 \in Seq(Trajectories),
           NEW c1, InGroups(b1, c1), NEW c2, InGroups(b2, c2)
    PROVE  /\ InGroups(b1 \o b2, c1 + c2)
           /\ \A seen : HaveBoth(b1, c1, seen) /\ HaveBoth(b2, c2, seen)
                           => HaveBoth(b1 \o b2, c1 + c2, seen)
<1>1. PICK b, c : b = b1 \o b2 /\ c = c1 + c2
  OBVIOUS
<1>2. /\ n \in Nat /\ c1 \in Nat /\ c2 \in Nat /\ c \in Nat
      /\ Len(b1) = c1 * n /\ Len(b2) = c2 * n /\ c1 * n \in Nat /\ c2 * n \in Nat
  BY <1>1, FilterAssumption DEF InGroups
<1>3. PICK l1, l2 : l1 = c1 * n /\ l2 = c2 * n
  OBVIOUS
<1>4. c * n = l1 + l2 /\ Len(b) = c * n
  <2>1. (c1 + c2) * n = c1 * n + c2 * n
    BY <1>2
  <2>2. Len(b1 \o b2) = Len(b1) + Len(b2)
    BY ConcatProperties
  <2> QED BY <1>1, <1>2, <1>3, <2>1, <2>2
<1>5. \A i \in 1 .. l1 : b[i] = b1[i]
  BY <1>1, <1>2, <1>3, ConcatProperties
<1>6. \A i \in 1 .. l2 : b[l1 + i] = b2[i]
  <2> SUFFICES ASSUME NEW i \in 1 .. l2 PROVE b[l1 + i] = b2[i]
    OBVIOUS
  <2>1. PICK j : j = l1 + i
    OBVIOUS
  <2>2. j \in 1 .. Len(b1) + Len(b2) /\ ~ (j <= Len(b1)) /\ j - Len(b1) = i
    BY <1>2, <1>3, <2>1
  <2>3. (b1 \o b2)[j] = b2[j - Len(b1)]
    BY <2>2, ConcatProperties
  <2> QED BY <1>1, <2>1, <2>2, <2>3
<1>7. \A q \in 0 .. c1 - 1 : \A r \in 1 .. n : b[At(q, r)] = b1[At(q, r)]
  BY <1>2, <1>3, <1>5, AtRange
<1>8. \A q \in 0 .. c2 - 1 : \A r \in 1 .. n : b[At(c1 + q, r)] = b2[At(q, r)]
  <2> SUFFICES ASSUME NEW q \in 0 .. c2 - 1, NEW r \in 1 .. n
               PROVE  b[At(c1 + q, r)] = b2[At(q, r)]
    OBVIOUS
  <2>1. At(q, r) \in 1 .. l2
    BY <1>2, <1>3, AtRange
  <2>2. q \in Nat
    OBVIOUS
  <2>3. At(c1 + q, r) = l1 + At(q, r)
    BY <1>2, <1>3, <2>2, AtShift
  <2> QED BY <1>6, <2>1, <2>3
<1>9. \A q \in 0 .. c - 1 : q \in 0 .. c1 - 1 \/ \E p \in 0 .. c2 - 1 : q = c1 + p
  <2> SUFFICES ASSUME NEW q \in 0 .. c - 1, q \notin 0 .. c1 - 1
               PROVE  \E p \in 0 .. c2 - 1 : q = c1 + p
    OBVIOUS
  <2>1. q - c1 \in 0 .. c2 - 1 /\ q = c1 + (q - c1)
    BY <1>1, <1>2
  <2> QED BY <2>1
<1>10. 1 \in 1 .. n
  BY FilterAssumption
<1>11. InGroups(b, c)
  <2> SUFFICES ASSUME NEW q \in 0 .. c - 1, NEW r \in 1 .. n
               PROVE  b[At(q, r)].uid = b[At(q, 1)].uid
    BY <1>2, <1>4 DEF InGroups
  <2>1. CASE q \in 0 .. c1 - 1
    BY <1>7, <1>10, <2>1 DEF InGroups
  <2>2. ASSUME NEW p \in 0 .. c2 - 1, q = c1 + p PROVE b[At(q, r)].uid = b[At(q, 1)].uid
    <3>1. b2[At(p, r)].uid = b2[At(p, 1)].uid
      BY DEF InGroups
    <3> QED BY <1>8, <1>10, <2>2, <3>1
  <2> QED BY <1>9, <2>1, <2>2
<1>12. ASSUME NEW seen, HaveBoth(b1, c1, seen), HaveBoth(b2, c2, seen)
       PROVE  HaveBoth(b, c, seen)
  <2> SUFFICES ASSUME NEW q \in 0 .. c - 1
               PROVE  \/ b[At(q, 1)].uid \in seen
                      \/ \E r, s \in 1 .. n : b[At(q, r)].correct /\ ~ b[At(q, s)].correct
    BY DEF HaveBoth
  <2>1. CASE q \in 0 .. c1 - 1
    <3>1. \/ b1[At(q, 1)].uid \in seen
          \/ \E r, s \in 1 .. n : b1[At(q, r)].correct /\ ~ b1[At(q, s)].correct
      BY <1>12, <2>1 DEF HaveBoth
    <3> QED BY <1>7, <1>10, <2>1, <3>1
  <2>2. ASSUME NEW p \in 0 .. c2 - 1, q = c1 + p
        PROVE  \/ b[At(q, 1)].uid \in seen
               \/ \E r, s \in 1 .. n : b[At(q, r)].correct /\ ~ b[At(q, s)].correct
    <3>1. \/ b2[At(p, 1)].uid \in seen
          \/ \E r, s \in 1 .. n : b2[At(p, r)].correct /\ ~ b2[At(p, s)].correct
      BY <1>12 DEF HaveBoth
    <3> QED BY <1>8, <1>10, <2>2, <3>1
  <2> QED BY <1>9, <2>1, <2>2
<1> QED BY <1>1, <1>11, <1>12

\* Cutting a batch of enough groups leaves exactly those of a training batch.
LEMMA CutGroups ==
    ASSUME NEW b \in Seq(Trajectories), NEW c, InGroups(b, c), train_batch_size <= c
    PROVE  /\ Cut(b) \in Seq(Trajectories)
           /\ InGroups(Cut(b), train_batch_size)
           /\ \A seen : HaveBoth(b, c, seen) => HaveBoth(Cut(b), train_batch_size, seen)
<1>1. PICK k, l : k = train_batch_size /\ l = k * n
  OBVIOUS
<1>2. k \in Nat /\ n \in Nat /\ c \in Nat /\ k <= c /\ Len(b) = c * n /\ 1 \in 1 .. n
  BY <1>1, FilterAssumption DEF InGroups
<1>3. l \in Nat /\ l <= Len(b) /\ Len(b) \in Nat
  BY <1>1, <1>2, TimesMonotonic
<1>4. Cut(b) = SubSeq(b, 1, l)
  <2>1. traj_bsz = l
    BY <1>1 DEF traj_bsz
  <2>2. (IF Len(b) < traj_bsz THEN Len(b) ELSE traj_bsz) = l
    BY <1>3, <2>1
  <2> QED BY <2>2 DEF Cut
<1>5. PICK a : a = Cut(b)
  OBVIOUS
<1>6. a \in Seq(Trajectories) /\ Len(a) = l /\ \A i \in 1 .. l : a[i] = b[i]
  <2>1. \A i \in 1 .. l : b[i] \in Trajectories
    BY <1>3, ElementOfSeq
  <2>2. /\ SubSeq(b, 1, l) \in Seq(Trajectories)
        /\ Len(SubSeq(b, 1, l)) = IF 1 <= l THEN l - 1 + 1 ELSE 0
        /\ \A i \in 1 .. l - 1 + 1 : SubSeq(b, 1, l)[i] = b[1 + i - 1]
    BY <1>3, <2>1, SubSeqProperties
  <2> QED BY <1>3, <1>4, <1>5, <2>2
<1>7. \A q \in 0 .. k - 1 : \A r \in 1 .. n : a[At(q, r)] = b[At(q, r)] /\ q \in 0 .. c - 1
  BY <1>1, <1>2, <1>6, AtRange
<1>8. InGroups(a, k)
  BY <1>1, <1>2, <1>6, <1>7 DEF InGroups
<1>9. ASSUME NEW seen, HaveBoth(b, c, seen) PROVE HaveBoth(a, k, seen)
  BY <1>2, <1>7, <1>9 DEF HaveBoth
<1> QED BY <1>1, <1>5, <1>6, <1>8, <1>9

\* What the filter leaves is made of whole groups, at least as many as prompts are
\* kept, each with a correct and a wrong trajectory unless its prompt was drawn twice.
LEMMA FilteredGroups ==
    ASSUME new_batch \in Seq(Rows), Len(new_batch) = gen_batch_size,
           NEW scored \in Seq(Trajectories), Len(scored) = gen_batch_size * n,
           \A p \in 0 .. gen_batch_size - 1 : \A r \in 1 .. n :
               scored[At(p, r)].uid = new_batch[p + 1],
           NEW kept, kept = kept_prompt_uids(scored)
    PROVE  \E c : /\ InGroups(kept_trajs(scored, kept), c)
                  /\ Cardinality(kept) \in 0 .. c
                  /\ n > 1 => HaveBoth(kept_trajs(scored, kept), c,
                                 {uid \in kept : Cardinality(Of(uid, scored)) > n})
<1>1. gen_batch_size \in Nat /\ n \in Nat \ {0} /\ gen_batch_size * n \in Nat /\ 1 \in 1 .. n
  BY FilterAssumption
<1>2. PICK list : list = kept_trajs(scored, kept)
  OBVIOUS
<1>3. PICK c : HoldsGroups(list, c, gen_batch_size, scored, kept)
  BY <1>2, KeptGroups
<1>4. PICK drawn_twice : drawn_twice = {uid \in kept : Cardinality(Of(uid, scored)) > n}
  OBVIOUS
<1>5. c \in Nat /\ Len(list) = c * n
  BY <1>3 DEF HoldsGroups
<1>6. ASSUME NEW q \in 0 .. c - 1
      PROVE  \E p \in 0 .. gen_batch_size - 1 :
                /\ new_batch[p + 1] \in kept
                /\ \A r \in 1 .. n : /\ list[At(q, r)] = scored[At(p, r)]
                                     /\ list[At(q, r)].uid = new_batch[p + 1]
  <2>1. PICK p \in 0 .. gen_batch_size - 1 :
                /\ new_batch[p + 1] \in kept
                /\ \A r \in 1 .. n : list[At(q, r)] = scored[At(p, r)]
    BY <1>3 DEF HoldsGroups
  <2>2. \A r \in 1 .. n : list[At(q, r)].uid = new_batch[p + 1]
    BY <2>1
  <2> QED BY <2>1, <2>2
<1>7. InGroups(list, c)
  <2> SUFFICES ASSUME NEW q \in 0 .. c - 1, NEW r \in 1 .. n
               PROVE  list[At(q, r)].uid = list[At(q, 1)].uid
    BY <1>5 DEF InGroups
  <2> QED BY <1>1, <1>6
<1>8. Cardinality(kept) \in 0 .. c
  <2>1. PICK h : h = [q \in 0 .. c - 1 |-> list[At(q, 1)].uid]
    OBVIOUS
  <2>2. ASSUME NEW u \in kept PROVE \E q \in 0 .. c - 1 : h[q] = u
    <3>1. PICK i \in 1 .. gen_batch_size : u = new_batch[i]
      <4>1. u \in Range(new_batch)
        BY DEF kept_prompt_uids
      <4>2. DOMAIN new_batch = 1 .. gen_batch_size
        BY LenProperties
      <4> QED BY <4>1, <4>2 DEF Range
    <3>2. i - 1 \in 0 .. gen_batch_size - 1 /\ i - 1 + 1 = i
      BY <1>1
    <3>3. PICK p : p = i - 1
      OBVIOUS
    <3>4. p \in 0 .. gen_batch_size - 1 /\ new_batch[p + 1] = u
      BY <3>1, <3>2, <3>3
    <3>5. PICK q \in 0 .. c - 1 : \A r \in 1 .. n : list[At(q, r)] = scored[At(p, r)]
      BY <1>3, <3>4 DEF HoldsGroups
    <3>6. list[At(q, 1)].uid = u
      BY <1>1, <3>4, <3>5
    <3> QED BY <2>1, <3>6
  <2>3. Cardinality(kept) \in Nat /\ Cardinality(kept) <= c
    <3>1. Listed(kept, h, c)
      BY <2>2 DEF Listed
    <3> QED BY <1>5, <3>1, ListedCount
  <2> QED BY <1>5, <2>3
<1>9. ASSUME n > 1 PROVE HaveBoth(list, c, drawn_twice)
  <2> SUFFICES ASSUME NEW q \in 0 .. c - 1, list[At(q, 1)].uid \notin drawn_twice
               PROVE  \E r, s \in 1 .. n : list[At(q, r)].correct /\ ~ list[At(q, s)].correct
    BY DEF HaveBoth
  <2>1. PICK p \in 0 .. gen_batch_size - 1 :
                /\ new_batch[p + 1] \in kept
                /\ \A r \in 1 .. n : /\ list[At(q, r)] = scored[At(p, r)]
                                     /\ list[At(q, r)].uid = new_batch[p + 1]
    BY <1>6
  <2>2. PICK u, a, S : u = new_batch[p + 1] /\ a = p * n /\ S = Of(u, scored)
    OBVIOUS
  <2>3. u \in kept /\ u \notin drawn_twice
    BY <1>1, <2>1, <2>2
  <2>4. DOMAIN scored = 1 .. gen_batch_size * n
    BY LenProperties
  <2>5. IsFiniteSet(S)
    <3>1. IsFiniteSet(1 .. gen_batch_size * n)
      BY <1>1, FS_Interval
    <3>2. S \in SUBSET (1 .. gen_batch_size * n)
      BY <2>2, <2>4 DEF Of
    <3> QED BY <3>1, <3>2, FS_Subset
  <2>6. a \in Nat /\ \A r \in 1 .. n : At(p, r) = a + r
    BY <1>1, <2>2 DEF At
  <2>7. \A r \in 1 .. n : a + r \in S
    <3> SUFFICES ASSUME NEW r \in 1 .. n PROVE a + r \in S
      OBVIOUS
    <3>1. At(p, r) \in 1 .. gen_batch_size * n
      BY <1>1, AtRange
    <3>2. At(p, r) \in S
      BY <2>2, <2>4, <3>1 DEF Of
    <3> QED BY <2>6, <3>2
  <2>8. S = a + 1 .. a + n
    <3>1. ~ (Cardinality(S) > n)
      BY <1>4, <2>2, <2>3
    <3>2. \A i \in a + 1 .. a + n : i - a \in 1 .. n /\ a + (i - a) = i
      BY <1>1, <2>6
    <3>3. a + 1 .. a + n \subseteq S
      BY <2>7, <3>2
    <3>4. n \in Nat
      BY <1>1
    <3> QED BY <2>5, <2>6, <3>1, <3>3, <3>4, NothingElse
  <2>9. Mixed(u, scored)
    <3>1. Cardinality(S) = n
      <4>1. a + 1 \in Int /\ a + n \in Int
        BY <1>1, <2>6
      <4>2. Cardinality(a + 1 .. a + n)
              = IF a + 1 > a + n THEN 0 ELSE (a + n) - (a + 1) + 1
        BY <4>1, FS_Interval
      <4> QED BY <1>1, <2>6, <2>8, <4>2
    <3>2. Cardinality(S) # 1
      BY <1>1, <1>9, <3>1
    <3> QED BY <2>2, <2>3, <3>2 DEF kept_prompt_uids
  <2>10. \A i \in S : \E r \in 1 .. n : list[At(q, r)] = scored[i]
    <3> SUFFICES ASSUME NEW i \in S PROVE \E r \in 1 .. n : list[At(q, r)] = scored[i]
      OBVIOUS
    <3>1. i - a \in 1 .. n /\ a + (i - a) = i
      BY <1>1, <2>6, <2>8
    <3>2. list[At(q, i - a)] = scored[At(p, i - a)] /\ At(p, i - a) = i
      BY <2>1, <2>6, <3>1
    <3> QED BY <3>1, <3>2
  <2>11. \E i, j \in S : scored[i].correct /\ ~ scored[j].correct
    BY <2>2, <2>9 DEF Mixed, CorrectOf
  <2> QED BY <2>10, <2>11
<1> QED BY <1>2, <1>4, <1>7, <1>8, <1>9

\* A prompt of such a group that was not drawn twice has both in the whole batch.
LEMMA GroupMixed ==
    ASSUME NEW b \in Seq(Trajectories), NEW c, InGroups(b, c),
           NEW seen, HaveBoth(b, c, seen),
           NEW i \in DOMAIN b, b[i].uid \notin seen
    PROVE  Mixed(b[i].uid, b)
<1>1. c \in Nat /\ c * n \in Nat /\ DOMAIN b = 1 .. c * n /\ 1 \in 1 .. n
  BY FilterAssumption, LenProperties DEF InGroups
<1>2. PICK q \in 0 .. c - 1, r \in 1 .. n : i = At(q, r)
  BY <1>1, AtOnto
<1>3. \A s \in 1 .. n : b[At(q, s)].uid = b[i].uid
  BY <1>1, <1>2 DEF InGroups
<1>4. PICK x, y \in 1 .. n : b[At(q, x)].correct /\ ~ b[At(q, y)].correct
  BY <1>1, <1>3 DEF HaveBoth
<1>5. At(q, x) \in DOMAIN b /\ At(q, y) \in DOMAIN b
  BY <1>1, AtRange
<1>6. At(q, x) \in CorrectOf(b[i].uid, b)
  BY <1>3, <1>4, <1>5 DEF CorrectOf, Of
<1>7. At(q, y) \in Of(b[i].uid, b) /\ At(q, y) \notin CorrectOf(b[i].uid, b)
  BY <1>3, <1>4, <1>5 DEF CorrectOf, Of
<1> QED BY <1>6, <1>7 DEF Mixed

-----------------------------------------------------------------------------
(* Initial states and steps.                                               *)

LEMMA InitStep == Init => IInv
<1> SUFFICES ASSUME Init PROVE IInv
  OBVIOUS
<1> USE FilterAssumption
<1>1. << >> \in Seq(Trajectories) /\ << >> \in Seq(Rows) /\ Len(<< >>) = 0
  OBVIOUS
<1>2. TypeOK
  BY <1>1 DEF Init, TypeOK
<1>3. StillFilling
  BY DEF Init, StillFilling
<1>4. WholeGroups
  <2>1. InGroups(<< >>, 0)
    BY <1>1 DEF InGroups
  <2>2. HaveBoth(<< >>, 0, twice)
    BY DEF HaveBoth
  <2>3. 0 \in 0 .. Len(batch) /\ batch = << >> /\ phase = "sample" /\ num_prompt_in_batch = 0
    BY <1>1 DEF Init
  <2>4. /\ InGroups(batch, 0) /\ HaveBoth(batch, 0, twice)
        /\ num_prompt_in_batch <= 0 /\ phase \notin {"verify", "update"}
    BY <2>1, <2>2, <2>3
  <2> QED BY <2>3, <2>4 DEF WholeGroups
<1>5. SingleDrawsAreMixed
  BY DEF Init, SingleDrawsAreMixed
<1> QED BY <1>2, <1>3, <1>4, <1>5 DEF IInv

\* A row taken or skipped leaves the batch alone.
LEMMA SampleStep == IInv /\ Sample => IInv'
<1> SUFFICES ASSUME IInv, Sample PROVE IInv'
  OBVIOUS
<1>1. /\ batch' = batch /\ num_prompt_in_batch' = num_prompt_in_batch /\ phase' = phase
      /\ num_gen_batches' = num_gen_batches /\ twice' = twice /\ solved' = solved
  BY DEF Sample
<1>2. due' \subseteq Rows
  BY DEF IInv, TypeOK, Sample
<1>3. new_batch' \in Seq(Rows) /\ Len(new_batch') <= gen_batch_size
  <2>1. new_batch \in Seq(Rows) /\ Len(new_batch) \in Nat /\ Len(new_batch) < gen_batch_size
    BY LenProperties DEF IInv, TypeOK, Sample
  <2>2. PICK row \in Rows : new_batch' = Append(new_batch, row) \/ new_batch' = new_batch
    BY DEF IInv, TypeOK, Sample
  <2>3. CASE new_batch' = Append(new_batch, row)
    <3>1. Append(new_batch, row) \in Seq(Rows)
          /\ Len(Append(new_batch, row)) = Len(new_batch) + 1
      BY <2>1, AppendProperties
    <3> QED BY <2>1, <2>3, <3>1, FilterAssumption
  <2>4. CASE new_batch' = new_batch
    BY <2>1, <2>4, FilterAssumption
  <2> QED BY <2>2, <2>3, <2>4
<1>4. TypeOK'
  BY <1>1, <1>2, <1>3 DEF IInv, TypeOK
<1>5. StillFilling'
  BY <1>1 DEF IInv, StillFilling
<1>6. WholeGroups'
  BY <1>1 DEF IInv, WholeGroups, InGroups, HaveBoth
<1>7. SingleDrawsAreMixed'
  BY <1>1 DEF IInv, SingleDrawsAreMixed, Mixed, CorrectOf, Of
<1> QED BY <1>4, <1>5, <1>6, <1>7 DEF IInv

\* The check keeps uids and positions; what it leaves of the verdicts still has both
\* for every prompt that had both.
LEMMA CheckStep == IInv /\ CheckConsistency => IInv'
<1> SUFFICES ASSUME IInv, CheckConsistency PROVE IInv'
  OBVIOUS
<1>1. /\ due' = due /\ solved' = solved /\ new_batch' = new_batch
      /\ num_prompt_in_batch' = num_prompt_in_batch /\ num_gen_batches' = num_gen_batches
      /\ twice' = twice /\ phase = "verify" /\ phase' = "update"
  BY DEF CheckConsistency
<1>2. PICK rejected : batch' = [i \in DOMAIN batch |->
          [batch[i] EXCEPT !.correct =
              @ /\ (i \in rejected
                      => batch[i].uid \in {uid \in Rows : CorrectOf(uid, batch) \subseteq rejected})]]
  BY DEF CheckConsistency
<1>3. PICK b, new : b = batch /\ new = batch'
  OBVIOUS
<1>4. b \in Seq(Trajectories) /\ Len(b) \in Nat /\ DOMAIN b = 1 .. Len(b)
  BY <1>3, LenProperties DEF IInv, TypeOK
<1>5. \A i \in 1 .. Len(b) : b[i] \in Trajectories
  BY <1>4, ElementOfSeq
<1>6. /\ new \in [1 .. Len(b) -> Trajectories]
      /\ \A i \in 1 .. Len(b) :
            /\ new[i].uid = b[i].uid
            /\ new[i].correct <=>
                  /\ b[i].correct
                  /\ i \in rejected => CorrectOf(b[i].uid, b) \subseteq rejected
  BY <1>2, <1>3, <1>4, <1>5 DEF Trajectories
<1>7. new \in Seq(Trajectories) /\ Len(new) = Len(b)
  BY <1>4, <1>6, SeqOf
<1>8. TypeOK'
  BY <1>1, <1>3, <1>7 DEF IInv, TypeOK
<1>9. StillFilling'
  BY <1>1 DEF StillFilling
<1>10. PICK c \in 0 .. Len(b) :
          /\ InGroups(b, c) /\ c = train_batch_size
          /\ n > 1 => HaveBoth(b, c, twice)
  BY <1>1, <1>3 DEF IInv, WholeGroups
<1>11. InGroups(new, c)
  <2>1. \A q \in 0 .. c - 1 : \A r \in 1 .. n : At(q, r) \in 1 .. Len(b) /\ 1 \in 1 .. n
    BY <1>10, AtRange, FilterAssumption DEF InGroups
  <2> QED BY <1>6, <1>7, <1>10, <2>1 DEF InGroups
<1>12. WholeGroups'
  <2>1. c \in 0 .. Len(batch') /\ InGroups(batch', c)
    BY <1>3, <1>7, <1>11
  <2>2. phase' \notin {"sample", "raised"} /\ ~ (phase' # "update")
    BY <1>1
  <2> QED BY <1>10, <2>1, <2>2 DEF WholeGroups, InGroups
<1>13. ASSUME NEW uid, Mixed(uid, b) PROVE Mixed(uid, new)
  <2>1. DOMAIN new = DOMAIN b
    BY <1>4, <1>6
  <2>2. Of(uid, new) = Of(uid, b)
    BY <1>4, <1>6, <2>1 DEF Of
  <2>3. CorrectOf(uid, new) = {i \in CorrectOf(uid, b) :
                                  i \in rejected => CorrectOf(uid, b) \subseteq rejected}
    <3>1. \A i \in Of(uid, b) : i \in 1 .. Len(b) /\ b[i].uid = uid
      BY <1>4 DEF Of
    <3> QED BY <1>6, <2>2, <3>1 DEF CorrectOf
  <2>4. CorrectOf(uid, b) # {} /\ CorrectOf(uid, b) # Of(uid, b)
        /\ CorrectOf(uid, b) \subseteq Of(uid, b)
    BY <1>13 DEF Mixed, CorrectOf
  <2>5. CorrectOf(uid, new) # {}
    BY <2>3, <2>4
  <2>6. CorrectOf(uid, new) \subseteq CorrectOf(uid, b)
    BY <2>3
  <2> QED BY <2>2, <2>4, <2>5, <2>6 DEF Mixed
<1>14. SingleDrawsAreMixed'
  <2> SUFFICES ASSUME n > 1, NEW i \in DOMAIN new, new[i].uid \notin twice
               PROVE  Mixed(new[i].uid, new)
    BY <1>1, <1>3 DEF SingleDrawsAreMixed, Mixed, CorrectOf, Of
  <2>1. i \in DOMAIN b /\ new[i].uid = b[i].uid
    BY <1>4, <1>6
  <2>2. Mixed(b[i].uid, b)
    BY <1>1, <1>3, <2>1 DEF IInv, SingleDrawsAreMixed
  <2> QED BY <1>13, <2>1, <2>2
<1> QED BY <1>8, <1>9, <1>12, <1>14 DEF IInv

\* The next step starts from an empty batch.
LEMMA UpdateStep == IInv /\ UpdateActor => IInv'
<1> SUFFICES ASSUME IInv, UpdateActor PROVE IInv'
  OBVIOUS
<1> USE FilterAssumption
<1>1. /\ due' = due /\ solved' = solved /\ new_batch' = new_batch /\ batch' = << >>
      /\ num_prompt_in_batch' = 0 /\ num_gen_batches' = 0 /\ phase' = "sample"
      /\ twice' = {}
  BY DEF UpdateActor
<1>2. << >> \in Seq(Trajectories) /\ Len(<< >>) = 0
  OBVIOUS
<1>3. TypeOK'
  BY <1>1, <1>2 DEF IInv, TypeOK
<1>4. StillFilling'
  BY <1>1 DEF StillFilling
<1>5. WholeGroups'
  <2>1. InGroups(<< >>, 0)
    BY <1>2 DEF InGroups
  <2>2. HaveBoth(<< >>, 0, {})
    BY DEF HaveBoth
  <2>3. /\ 0 \in 0 .. Len(batch') /\ InGroups(batch', 0) /\ HaveBoth(batch', 0, twice')
        /\ num_prompt_in_batch' <= 0 /\ phase' \notin {"verify", "update"}
    BY <1>1, <1>2, <2>1, <2>2
  <2> QED BY <2>3 DEF WholeGroups, InGroups, HaveBoth
<1>6. SingleDrawsAreMixed'
  BY <1>1 DEF SingleDrawsAreMixed
<1> QED BY <1>3, <1>4, <1>5, <1>6 DEF IInv

\* A generation batch adds the groups of its kept prompts; what is cut off are whole
\* groups.
LEMMA GenerateStep == IInv /\ GenerateBatch => IInv'
<1> SUFFICES ASSUME IInv,
                    NEW verdicts \in [1 .. gen_batch_size * n -> BOOLEAN],
                    FilterGroups(verdicts)
             PROVE  IInv'
  BY DEF GenerateBatch
<1> USE FilterAssumption
<1>1. PICK scored : scored = Rollouts(verdicts)
  OBVIOUS
<1>2. PICK kept, added : kept = kept_prompt_uids(scored) /\ added = kept_trajs(scored, kept)
  OBVIOUS
<1>3. PICK prompts, tries :
          /\ prompts = num_prompt_in_batch + Cardinality(kept)
          /\ tries = IF max_num_gen_batches > 0 THEN num_gen_batches + 1 ELSE 0
  OBVIOUS
<1>4. PICK drawn_twice : drawn_twice = {uid \in kept : Cardinality(Of(uid, scored)) > n}
  OBVIOUS
<1>5. /\ phase = "sample" /\ Len(new_batch) = gen_batch_size
      /\ solved' = (solved \ Range(new_batch))
                     \cup {uid \in Range(new_batch) : CorrectOf(uid, scored) = Of(uid, scored)}
      /\ num_prompt_in_batch' = prompts /\ num_gen_batches' = tries
      /\ new_batch' = << >> /\ twice' = twice \cup drawn_twice /\ due' = due
  BY <1>1, <1>2, <1>3, <1>4 DEF FilterGroups
<1>6. IF prompts < train_batch_size
      THEN /\ batch' = batch \o added
           /\ phase' = IF max_num_gen_batches > 0 /\ tries >= max_num_gen_batches
                       THEN "raised" ELSE "sample"
      ELSE batch' = Cut(batch \o added) /\ phase' = "verify"
  BY <1>1, <1>2, <1>3 DEF FilterGroups
<1>7. /\ new_batch \in Seq(Rows) /\ batch \in Seq(Trajectories) /\ num_prompt_in_batch \in Nat
      /\ due \subseteq Rows /\ solved \subseteq Rows /\ twice \subseteq Rows
      /\ num_gen_batches \in Nat
  BY DEF IInv, TypeOK
<1>8. /\ scored \in Seq(Trajectories) /\ Len(scored) = gen_batch_size * n
      /\ \A p \in 0 .. gen_batch_size - 1 : \A r \in 1 .. n :
            scored[At(p, r)].uid = new_batch[p + 1]
  BY <1>1, <1>5, <1>7, RolloutGroups
<1>9. Range(new_batch) \subseteq Rows
  BY <1>7, LenProperties, ElementOfSeq DEF Range
<1>10. kept \subseteq Range(new_batch)
  BY <1>2 DEF kept_prompt_uids
<1>11. /\ added \in Seq(Trajectories)
       /\ \E c : /\ InGroups(added, c)
                 /\ Cardinality(kept) \in 0 .. c
                 /\ n > 1 => HaveBoth(added, c, drawn_twice)
  BY <1>2, <1>4, <1>5, <1>7, <1>8, KeptGroups, FilteredGroups
<1>12. PICK c2 : /\ InGroups(added, c2)
                 /\ Cardinality(kept) \in 0 .. c2
                 /\ n > 1 => HaveBoth(added, c2, drawn_twice)
  BY <1>11
<1>13. PICK c1 : /\ InGroups(batch, c1)
                 /\ num_prompt_in_batch <= c1
                 /\ n > 1 => HaveBoth(batch, c1, twice)
  BY <1>5 DEF IInv, WholeGroups
<1>14. Cardinality(kept) \in Nat /\ Cardinality(kept) <= gen_batch_size
  <2>1. DOMAIN new_batch = 1 .. gen_batch_size
    BY <1>5, <1>7, LenProperties
  <2>2. PICK h : h = [q \in 0 .. gen_batch_size - 1 |-> new_batch[q + 1]]
    OBVIOUS
  <2>3. ASSUME NEW u \in kept PROVE \E q \in 0 .. gen_batch_size - 1 : h[q] = u
    <3>1. PICK i \in 1 .. gen_batch_size : u = new_batch[i]
      BY <1>10, <2>1 DEF Range
    <3>2. PICK q : q = i - 1
      OBVIOUS
    <3>3. q \in 0 .. gen_batch_size - 1 /\ q + 1 = i
      BY <3>2
    <3> QED BY <2>2, <3>1, <3>3
  <2>4. Listed(kept, h, gen_batch_size)
    BY <2>3 DEF Listed
  <2> QED BY <2>4, ListedCount
<1>15. PICK joined, c : joined = batch \o added /\ c = c1 + c2
  OBVIOUS
<1>16. joined \in Seq(Trajectories) /\ InGroups(joined, c)
  BY <1>7, <1>11, <1>12, <1>13, <1>15, ConcatProperties, JoinedGroups
<1>17. n > 1 => HaveBoth(joined, c, twice')
  <2> SUFFICES ASSUME n > 1 PROVE HaveBoth(joined, c, twice')
    OBVIOUS
  <2>1. PICK seen : seen = twice \cup drawn_twice
    OBVIOUS
  <2>2. HaveBoth(batch, c1, seen) /\ HaveBoth(added, c2, seen)
    BY <1>12, <1>13, <2>1 DEF HaveBoth
  <2>3. HaveBoth(joined, c, seen)
    BY <1>7, <1>11, <1>12, <1>13, <1>15, <2>2, JoinedGroups
  <2> QED BY <1>5, <2>1, <2>3
<1>18. c1 \in Nat /\ c2 \in Nat /\ c \in Nat /\ prompts \in Nat /\ prompts <= c
  <2>1. c1 \in Nat /\ c2 \in Nat
    BY <1>12, <1>13 DEF InGroups
  <2>2. Cardinality(kept) <= c2
    BY <1>12, <1>14, <2>1
  <2> QED BY <1>3, <1>7, <1>13, <1>14, <1>15, <2>1, <2>2
<1>19. phase' # "update"
  BY <1>6
<1>20. \E d : /\ batch' \in Seq(Trajectories) /\ InGroups(batch', d)
              /\ n > 1 => HaveBoth(batch', d, twice')
              /\ phase' \in {"sample", "raised"} => prompts <= d /\ prompts < train_batch_size
              /\ phase' = "verify" => d = train_batch_size
  <2>1. CASE prompts < train_batch_size
    <3>1. batch' = joined /\ phase' # "verify"
      BY <1>6, <1>15, <2>1
    <3> QED BY <1>16, <1>17, <1>18, <2>1, <3>1
  <2>2. CASE ~ (prompts < train_batch_size)
    <3>1. batch' = Cut(joined) /\ phase' = "verify"
      BY <1>6, <1>15, <2>2
    <3>2. train_batch_size <= c
      BY <1>18, <2>2
    <3>3. /\ Cut(joined) \in Seq(Trajectories) /\ InGroups(Cut(joined), train_batch_size)
          /\ \A seen : HaveBoth(joined, c, seen) => HaveBoth(Cut(joined), train_batch_size, seen)
      BY <1>16, <3>2, CutGroups
    <3> QED BY <1>17, <3>1, <3>3
  <2> QED BY <2>1, <2>2
<1>21. PICK d : /\ batch' \in Seq(Trajectories) /\ InGroups(batch', d)
                /\ n > 1 => HaveBoth(batch', d, twice')
                /\ phase' \in {"sample", "raised"} => prompts <= d /\ prompts < train_batch_size
                /\ phase' = "verify" => d = train_batch_size
  BY <1>20
<1>22. d \in 0 .. Len(batch')
  <2>1. d \in Nat /\ Len(batch') = d * n /\ n \in Nat /\ 1 <= n
    BY <1>21 DEF InGroups
  <2>2. 1 * d <= n * d /\ n * d = d * n /\ 1 * d = d /\ d * n \in Nat
    BY <2>1, TimesMonotonic
  <2> QED BY <2>1, <2>2
<1>23. WholeGroups'
  <2>1. PICK b, tw, ph : b = batch' /\ tw = twice' /\ ph = phase'
    OBVIOUS
  <2>2. /\ d \in 0 .. Len(b) /\ InGroups(b, d)
        /\ n > 1 => HaveBoth(b, d, tw)
        /\ ph \in {"sample", "raised"} => prompts <= d
        /\ ph \in {"verify", "update"} => d = train_batch_size
    BY <1>19, <1>21, <1>22, <2>1
  <2> QED BY <1>5, <2>1, <2>2 DEF WholeGroups, InGroups, HaveBoth
<1>24. StillFilling'
  <2>1. phase' \in {"sample", "raised"} => num_prompt_in_batch' < train_batch_size
    BY <1>5, <1>21
  <2>2. max_num_gen_batches > 0 /\ phase' = "sample" => num_gen_batches' < max_num_gen_batches
    <3> SUFFICES ASSUME max_num_gen_batches > 0, phase' = "sample"
                 PROVE  tries < max_num_gen_batches
      BY <1>5
    <3>1. ~ (tries >= max_num_gen_batches)
      BY <1>6
    <3>2. tries \in Nat
      BY <1>3, <1>7
    <3> QED BY <3>1, <3>2
  <2> QED BY <2>1, <2>2 DEF StillFilling
<1>25. TypeOK'
  <2>1. due' \subseteq Rows /\ solved' \subseteq Rows
    BY <1>5, <1>7, <1>9
  <2>2. new_batch' \in Seq(Rows) /\ Len(new_batch') <= gen_batch_size
    <3>1. << >> \in Seq(Rows) /\ Len(<< >>) = 0
      OBVIOUS
    <3> QED BY <1>5, <3>1
  <2>3. num_prompt_in_batch' \in 0 .. train_batch_size - 1 + gen_batch_size
    <3>1. num_prompt_in_batch < train_batch_size
      BY <1>5 DEF IInv, StillFilling
    <3>2. prompts <= train_batch_size - 1 + gen_batch_size
      BY <1>3, <1>7, <1>14, <3>1
    <3> QED BY <1>5, <1>18, <3>2
  <2>4. num_gen_batches' \in 0 .. max_num_gen_batches
    <3>1. max_num_gen_batches > 0 => num_gen_batches < max_num_gen_batches
      BY <1>5 DEF IInv, StillFilling
    <3>2. tries \in 0 .. max_num_gen_batches
      BY <1>3, <1>7, <3>1
    <3> QED BY <1>5, <3>2
  <2>5. phase' \in {"sample", "raised", "verify", "update"}
    BY <1>6
  <2>6. twice' \subseteq Rows
    BY <1>4, <1>5, <1>7, <1>9, <1>10
  <2> QED BY <1>21, <2>1, <2>2, <2>3, <2>4, <2>5, <2>6 DEF TypeOK
<1>26. SingleDrawsAreMixed'
  <2> SUFFICES ASSUME n > 1, NEW i \in DOMAIN batch', batch'[i].uid \notin twice'
               PROVE  Mixed(batch'[i].uid, batch')
    BY DEF SingleDrawsAreMixed, Mixed, CorrectOf, Of
  <2>1. PICK b, seen : b = batch' /\ seen = twice'
    OBVIOUS
  <2>2. b \in Seq(Trajectories) /\ InGroups(b, d) /\ HaveBoth(b, d, seen)
        /\ i \in DOMAIN b /\ b[i].uid \notin seen
    BY <1>21, <2>1
  <2>3. Mixed(b[i].uid, b)
    BY <2>2, GroupMixed
  <2> QED BY <2>1, <2>3
<1> QED BY <1>23, <1>24, <1>25, <1>26 DEF IInv

\* A stuttering step.
LEMMA StutterStep == IInv /\ UNCHANGED vars => IInv'
<1> SUFFICES ASSUME IInv, UNCHANGED vars PROVE IInv'
  OBVIOUS
<1>1. /\ due' = due /\ solved' = solved /\ new_batch' = new_batch /\ batch' = batch
      /\ num_prompt_in_batch' = num_prompt_in_batch /\ num_gen_batches' = num_gen_batches
      /\ phase' = phase /\ twice' = twice
  BY DEF vars
<1>2. TypeOK' /\ StillFilling'
  BY <1>1 DEF IInv, TypeOK, StillFilling
<1>3. WholeGroups'
  BY <1>1 DEF IInv, WholeGroups, InGroups, HaveBoth
<1>4. SingleDrawsAreMixed'
  BY <1>1 DEF IInv, SingleDrawsAreMixed, Mixed, CorrectOf, Of
<1> QED BY <1>2, <1>3, <1>4 DEF IInv

-----------------------------------------------------------------------------
(* The theorems.                                                           *)

\* The invariant holds in every state of the generation loop.
THEOREM GroupInvariant == Spec => []IInv
<1>1. IInv /\ [Next]_vars => IInv'
  BY SampleStep, GenerateStep, CheckStep, UpdateStep, StutterStep DEF Next
<1> QED BY <1>1, InitStep, PTL DEF Spec

\* Every variable keeps its type: the counter of prompts stays below a training batch
\* and one generation batch, the number of generation batches within its limit.
THEOREM TypeCorrect == Spec => []TypeOK
<1>1. IInv => TypeOK
  BY DEF IInv
<1> QED BY <1>1, GroupInvariant, PTL

\* Whatever is drawn, kept and cut, the batch of every update of dapo_trainer.py holds
\* train_batch_size * n trajectories and the n rollouts of a prompt side by side.
THEOREM BatchesAreWhole == Spec => []BatchIsWhole
<1>1. IInv => BatchIsWhole
  <2> SUFFICES ASSUME IInv, phase \in {"verify", "update"}
               PROVE  /\ Len(batch) = traj_bsz
                      /\ \A k \in 0 .. train_batch_size - 1 :
                            \A i, j \in k * n + 1 .. (k + 1) * n : batch[i].uid = batch[j].uid
    BY DEF BatchIsWhole
  <2>1. InGroups(batch, train_batch_size)
    BY DEF IInv, WholeGroups
  <2>2. Len(batch) = traj_bsz
    BY <2>1 DEF InGroups, traj_bsz
  <2>3. ASSUME NEW k \in 0 .. train_batch_size - 1, NEW i \in k * n + 1 .. (k + 1) * n
        PROVE  batch[i].uid = batch[At(k, 1)].uid
    <3>1. k \in Nat /\ n \in Nat /\ k * n \in Nat /\ (k + 1) * n = k * n + n
      BY FilterAssumption
    <3>2. PICK r : r = i - k * n
      OBVIOUS
    <3>3. r \in 1 .. n /\ k * n + r = i
      BY <3>1, <3>2
    <3>4. At(k, r) = i
      BY <3>3 DEF At
    <3> QED BY <2>1, <3>3, <3>4 DEF InGroups
  <2>4. ASSUME NEW k \in 0 .. train_batch_size - 1,
               NEW i \in k * n + 1 .. (k + 1) * n, NEW j \in k * n + 1 .. (k + 1) * n
        PROVE  batch[i].uid = batch[j].uid
    BY <2>3
  <2> QED BY <2>2, <2>4
<1> QED BY <1>1, GroupInvariant, PTL

\* However generation batches are joined, cut and overturned by the consistency check:
\* a prompt that no generation batch drew twice has a correct and a wrong rollout in
\* the batch of the update, so that its group has an advantage.
THEOREM SingleDrawsStayMixed == Spec => []SingleDrawsAreMixed
<1>1. IInv => SingleDrawsAreMixed
  BY DEF IInv
<1> QED BY <1>1, GroupInvariant, PTL

=============================================================================
