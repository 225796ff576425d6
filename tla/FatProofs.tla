------------------------------ MODULE FatProofs -------------------------------
(***************************************************************************)
(* Proofs about Fat: no two files share a cluster, no cluster leaks, and   *)
(* the files are what FileStore promises.                                  *)
(***************************************************************************)
EXTENDS Fat, FiniteSetTheorems, SequenceTheorems, WellFoundedInduction, TLAPS

-------------------------------------------------------------------------------
(* Induction over the natural numbers, and what it gives for definitions by  *)
(* recursion, in a form that can be used of one set or function at a time    *)

\* Every set of natural numbers has a least element.
LEMMA LeastNatural ==
  ASSUME NEW T \in SUBSET Nat, T # {}
  PROVE  \E m \in T : \A k \in T : m <= k
<1> DEFINE I == {0..n : n \in T}
           R == StrictSubsetOrdering(Nat)
<1>1. IsWellFoundedOn(R, FiniteSubsetsOf(Nat))
  BY FS_StrictSubsetOrderingWellFounded
<1>2. I \subseteq FiniteSubsetsOf(Nat)
  <2> SUFFICES ASSUME NEW n \in T PROVE 0..n \in FiniteSubsetsOf(Nat)
    OBVIOUS
  <2>1. IsFiniteSet(0..n)
    BY FS_Interval
  <2> QED
    BY <2>1 DEF FiniteSubsetsOf
<1>3. I # {}
  OBVIOUS
<1> HIDE DEF I, R
<1>4. PICK x \in I : \A y \in I : <<y, x>> \notin R
  BY <1>1, <1>2, <1>3, WFMin
<1>5. PICK m \in T : x = 0..m
  BY DEF I
<1>6. ASSUME NEW k \in T, k < m PROVE FALSE
  <2>1. 0..k \in I
    BY DEF I
  <2>2. 0..k \subseteq 0..m /\ 0..k # 0..m
    <3>1. m \in 0..m /\ m \notin 0..k
      BY <1>6
    <3> QED
      BY <1>6, <3>1
  <2>3. <<0..k, 0..m>> \in R
    <3>1. 0..k \in SUBSET Nat /\ 0..m \in SUBSET Nat
      OBVIOUS
    <3> QED
      BY <2>2, <3>1 DEF R, StrictSubsetOrdering
  <2> QED
    BY <1>4, <1>5, <2>1, <2>3
<1> QED
  BY <1>6

\* Induction up to n
LEMMA Induction ==
  ASSUME NEW n \in Nat, NEW S, 0 \in S, \A k \in 0..(n - 1) : k \in S => k + 1 \in S
  PROVE  0..n \subseteq S
<1> DEFINE T == (0..n) \ S
<1> SUFFICES ASSUME T # {} PROVE FALSE
  OBVIOUS
<1>1. PICK m \in T : \A k \in T : m <= k
  <2>1. T \in SUBSET Nat
    OBVIOUS
  <2> HIDE DEF T
  <2> QED
    BY <2>1, LeastNatural
<1>2. m # 0
  OBVIOUS
<1>3. m - 1 \in 0..(n - 1) /\ m - 1 \in S
  BY <1>1, <1>2
<1> QED
  BY <1>3

\* g[k] is h applied k times to a.
Iterates(g, n, V, a, h) == /\ g \in [0..n -> V]
                           /\ g[0] = a
                           /\ \A k \in 1..n : g[k] = h[g[k - 1]]

LEMMA Recursion ==
  ASSUME NEW n \in Nat, NEW V, NEW a \in V, NEW h \in [V -> V]
  PROVE  \E g : Iterates(g, n, V, a, h)
<1> DEFINE P(m) == \E g \in [0..m -> V] : g[0] = a /\ \A k \in 1..m : g[k] = h[g[k - 1]]
           S == {m \in 0..n : P(m)}
<1>1. P(0)
  <2> DEFINE g == [k \in 0..0 |-> a]
  <2>1. g \in [0..0 -> V] /\ g[0] = a /\ \A k \in 1..0 : g[k] = h[g[k - 1]]
    OBVIOUS
  <2> QED
    BY <2>1
<1>2. ASSUME NEW m \in 0..(n - 1), P(m) PROVE P(m + 1)
  <2>1. PICK g \in [0..m -> V] : g[0] = a /\ \A k \in 1..m : g[k] = h[g[k - 1]]
    BY <1>2
  <2> DEFINE e == [k \in 0..(m + 1) |-> IF k = m + 1 THEN h[g[m]] ELSE g[k]]
  <2>2. e \in [0..(m + 1) -> V]
    BY <2>1
  <2>3. e[0] = a
    BY <2>1
  <2>4. ASSUME NEW k \in 1..(m + 1) PROVE e[k] = h[e[k - 1]]
    BY <2>1
  <2> HIDE DEF e
  <2> QED
    BY <2>2, <2>3, <2>4
<1>3. 0 \in S
  BY <1>1
<1>4. \A k \in 0..(n - 1) : k \in S => k + 1 \in S
  BY <1>2
<1> HIDE DEF S
<1>5. 0..n \subseteq S
  BY <1>3, <1>4, Induction
<1>6. n \in S
  BY <1>5
<1> QED
  BY <1>6 DEF S, Iterates

-------------------------------------------------------------------------------
(* The recursive definitions of Fat *)

Cluster == 3..Last
Closed(m, S) == \A a \in S : m[a] \in Cluster => m[a] \in S

LEMMA LastType == Last \in Nat /\ Last > 2
  BY FatAssumption

\* Reach as a sequence of sets that grow
LEMMA ReachSteps ==
  ASSUME fat1 \in [Entry -> FatValue], NEW c \in Entry
  PROVE  \E g \in [0..Last -> SUBSET Entry] :
           /\ Reach(c) = g[Last]
           /\ g[0] = {c} \ {0}
           /\ \A k \in 1..Last : g[k] = g[k - 1] \cup ({fat1[d] : d \in g[k - 1]} \cap Cluster)
<1> USE LastType
<1>0. 0..Last = Entry /\ 3..Last = Cluster
  BY DEF Entry, Cluster
<1> DEFINE Grow(T) == T \cup ({fat1[d] : d \in T} \cap 3..Last)
           step[k \in 0..Last] == IF k = 0 THEN {c} \ {0} ELSE Grow(step[k - 1])
           h == [T \in SUBSET Entry |-> Grow(T)]
           a == {c} \ {0}
           V == SUBSET Entry
<1>1. h \in [V -> V]
  <2> SUFFICES ASSUME NEW T \in SUBSET Entry PROVE Grow(T) \in SUBSET Entry
    OBVIOUS
  <2>1. 3..Last \subseteq Entry
    BY DEF Entry
  <2> QED
    BY <2>1
<1>2. a \in V
  OBVIOUS
<1>3. PICK g \in [0..Last -> SUBSET Entry] : g[0] = a /\ \A k \in 1..Last : g[k] = h[g[k - 1]]
  <2> HIDE DEF h, a, V
  <2>1. \E g : Iterates(g, Last, V, a, h)
    BY <1>1, <1>2, Recursion
  <2> QED
    BY <2>1 DEF V, Iterates
<1>4. \A k \in 1..Last : g[k] = Grow(g[k - 1])
  <2> SUFFICES ASSUME NEW k \in 1..Last PROVE g[k] = Grow(g[k - 1])
    OBVIOUS
  <2>1. g[k - 1] \in SUBSET Entry
    BY <1>3
  <2> QED
    BY <1>3, <2>1
<1>5. g = [k \in 0..Last |-> IF k = 0 THEN {c} \ {0} ELSE Grow(g[k - 1])]
  <2> DEFINE e == [k \in 0..Last |-> IF k = 0 THEN {c} \ {0} ELSE Grow(g[k - 1])]
  <2>1. ASSUME NEW k \in 0..Last PROVE g[k] = e[k]
    <3>1. CASE k = 0
      BY <1>3, <3>1
    <3>2. CASE k # 0
      BY <1>4, <3>2
    <3> QED
      BY <3>1, <3>2
  <2> QED
    BY <1>3, <2>1
<1>6. step = [k \in 0..Last |-> IF k = 0 THEN {c} \ {0} ELSE Grow(step[k - 1])]
  <2> HIDE DEF Grow
  <2> QED
    BY <1>5
<1> HIDE DEF step
<1>7. \A k \in 0..Last : step[k] = g[k]
  <2> DEFINE S == {k \in 0..Last : step[k] = g[k]}
  <2>1. 0 \in S
    BY <1>3, <1>6
  <2>2. \A k \in 0..(Last - 1) : k \in S => k + 1 \in S
    <3> SUFFICES ASSUME NEW k \in 0..(Last - 1), k \in S PROVE step[k + 1] = g[k + 1]
      OBVIOUS
    <3>1. step[k + 1] = Grow(step[k])
      BY <1>6
    <3>2. g[k + 1] = Grow(g[k])
      BY <1>4
    <3> QED
      BY <3>1, <3>2
  <2> HIDE DEF S
  <2>3. 0..Last \subseteq S
    BY <2>1, <2>2, Induction
  <2> QED
    BY <2>3 DEF S
<1>8. Reach(c) = step[Last]
  BY DEF Reach, step
<1>9. Reach(c) = g[Last]
  BY <1>7, <1>8
<1>10. \A k \in 1..Last : g[k] = g[k - 1] \cup ({fat1[d] : d \in g[k - 1]} \cap Cluster)
  BY <1>4 DEF Cluster
<1> QED
  BY <1>3, <1>9, <1>10
\* Reach(c) is within every closed set with c.
LEMMA ReachLeast ==
  ASSUME fat1 \in [Entry -> FatValue], NEW c \in Entry,
         NEW S \in SUBSET Entry, Closed(fat1, S), c # 0 => c \in S
  PROVE  Reach(c) \subseteq S
<1>1. PICK g \in [0..Last -> SUBSET Entry] :
           /\ Reach(c) = g[Last]
           /\ g[0] = {c} \ {0}
           /\ \A k \in 1..Last : g[k] = g[k - 1] \cup ({fat1[d] : d \in g[k - 1]} \cap Cluster)
  BY ReachSteps
<1> DEFINE K == {k \in 0..Last : g[k] \subseteq S}
<1>2. 0 \in K
  BY <1>1, LastType
<1>3. \A k \in 0..(Last - 1) : k \in K => k + 1 \in K
  <2> SUFFICES ASSUME NEW k \in 0..(Last - 1), g[k] \subseteq S
               PROVE  g[k + 1] \subseteq S
    BY LastType
  <2>1. g[k + 1] = g[k] \cup ({fat1[d] : d \in g[k]} \cap Cluster)
    BY <1>1, LastType
  <2> QED
    BY <2>1 DEF Closed
<1> HIDE DEF K
<1>4. 0..Last \subseteq K
  BY <1>2, <1>3, Induction, LastType
<1>5. Last \in K
  BY <1>4, LastType
<1> QED
  BY <1>1, <1>5 DEF K

\* Reach(c) is closed: either the k-th set is, or it has more than k elements.
LEMMA ReachClosed ==
  ASSUME fat1 \in [Entry -> FatValue], NEW c \in Entry
  PROVE  /\ Closed(fat1, Reach(c))
         /\ c # 0 => c \in Reach(c)
<1> USE LastType
<1>1. PICK g \in [0..Last -> SUBSET Entry] :
           /\ Reach(c) = g[Last]
           /\ g[0] = {c} \ {0}
           /\ \A k \in 1..Last : g[k] = g[k - 1] \cup ({fat1[d] : d \in g[k - 1]} \cap Cluster)
  BY ReachSteps
<1> DEFINE Big(k) == Cardinality(g[k]) > k
           K == {k \in 0..Last : /\ IsFiniteSet(g[k])
                                 /\ c # 0 => c \in g[k]
                                 /\ g[k] \subseteq Cluster \cup {c}
                                 /\ Closed(fat1, g[k]) \/ Big(k)}
<1>f. IsFiniteSet(Cluster) /\ Cardinality(Cluster) = Last - 2
  BY FS_Interval DEF Cluster
<1>2. 0 \in K
  <2>1. CASE c = 0
    <3>1. g[0] = {}
      BY <1>1, <2>1
    <3>2. IsFiniteSet(g[0]) /\ Closed(fat1, g[0])
      BY <3>1, FS_EmptySet DEF Closed
    <3> QED
      BY <2>1, <3>1, <3>2
  <2>2. CASE c # 0
    <3>1. g[0] = {c}
      BY <1>1, <2>2
    <3>2. IsFiniteSet({c}) /\ Cardinality({c}) = 1
      BY FS_Singleton
    <3>3. IsFiniteSet(g[0]) /\ Big(0)
      BY <3>1, <3>2
    <3>4. c \in g[0] /\ g[0] \subseteq Cluster \cup {c}
      BY <3>1
    <3> HIDE DEF Big
    <3> QED
      BY <3>3, <3>4
  <2> QED
    BY <2>1, <2>2
<1>3. \A k \in 0..(Last - 1) : k \in K => k + 1 \in K
  <2> SUFFICES ASSUME NEW k \in 0..(Last - 1), k \in K
               PROVE  k + 1 \in K
    OBVIOUS
  <2>1. g[k + 1] = g[k] \cup ({fat1[d] : d \in g[k]} \cap Cluster)
    BY <1>1
  <2>2. CASE Closed(fat1, g[k])
    <3>1. g[k + 1] = g[k]
      BY <2>1, <2>2 DEF Closed
    <3> QED
      BY <2>2, <3>1
  <2>3. CASE ~Closed(fat1, g[k])
    <3>1. PICK a \in g[k] : fat1[a] \in Cluster /\ fat1[a] \notin g[k]
      BY <2>3 DEF Closed
    <3>2. fat1[a] \in g[k + 1]
      BY <2>1, <3>1
    <3>3. IsFiniteSet(Cluster \cup {c})
      BY <1>f, FS_AddElement
    <3>4. g[k + 1] \subseteq Cluster \cup {c}
      BY <2>1
    <3>5. IsFiniteSet(g[k + 1])
      BY <3>3, <3>4, FS_Subset
    <3>6. /\ Cardinality(g[k + 1]) \in Nat /\ Cardinality(g[k]) \in Nat
          /\ Cardinality(g[k]) <= Cardinality(g[k + 1])
          /\ Cardinality(g[k]) # Cardinality(g[k + 1])
      <4>1. g[k] \in SUBSET g[k + 1] /\ g[k] # g[k + 1]
        BY <2>1, <3>1, <3>2
      <4> QED
        BY <3>5, <4>1, FS_Subset, FS_CardinalityType
    <3>7. Big(k + 1)
      BY <2>3, <3>6
    <3>8. c # 0 => c \in g[k + 1]
      BY <2>1
    <3> HIDE DEF Big
    <3> QED
      BY <3>4, <3>5, <3>7, <3>8
  <2> QED
    BY <2>2, <2>3
<1> HIDE DEF K
<1>4. 0..Last \subseteq K
  BY <1>2, <1>3, Induction
<1>5. Last \in K
  BY <1>4
<1>6. ~Big(Last)
  <2>1. IsFiniteSet(Cluster \cup {c})
    BY <1>f, FS_AddElement
  <2>2. Cardinality(Cluster \cup {c}) <= Last - 1
    <3>1. Cardinality(Cluster \cup {c}) =
            IF c \in Cluster THEN Cardinality(Cluster) ELSE Cardinality(Cluster) + 1
      BY <1>f, FS_AddElement
    <3> QED
      BY <1>f, <3>1
  <2>3. g[Last] \subseteq Cluster \cup {c}
    BY <1>5 DEF K
  <2>4. Cardinality(g[Last]) <= Cardinality(Cluster \cup {c}) /\ Cardinality(g[Last]) \in Nat
    BY <2>1, <2>3, FS_Subset, FS_CardinalityType
  <2>5. Cardinality(Cluster \cup {c}) \in Nat
    BY <2>1, FS_CardinalityType
  <2> QED
    BY <2>2, <2>4, <2>5
<1> QED
  BY <1>1, <1>5, <1>6 DEF K

\* What getclus() reads is what was written, or no cluster.
LEMMA GetClusCases ==
  /\ \A c : GetClus(c) \in {c, EOC}
  /\ \A c : ~Negative(c) => GetClus(c) = c
  /\ \A c : Negative(c) => GetClus(c) = EOC
  /\ \A c : GetClus(c) \in Cluster => GetClus(c) = c
<1>1. EOC \notin Cluster
  BY FatAssumption DEF EOC, Cluster
<1> QED
  BY <1>1 DEF GetClus

\* w is f's chain on the disk, cluster by cluster, and n its length, at most as
\* long as the disk.
Walks(f, w, n) ==
  /\ w \in [1..(Last + 1) -> FatValue] /\ n \in 0..Last
  /\ w[1] = GetClus(diskdir[f].clus)
  /\ \A k \in 2..(Last + 1) : w[k] = IF w[k - 1] \in Cluster THEN fat1[w[k - 1]] ELSE 0
  /\ \A k \in 1..n : w[k] \in Cluster
  /\ n < Last => w[n + 1] \notin Cluster
  /\ Stored(f) = [k \in 1..n |-> data[w[k]]]

LEMMA StoredSteps ==
  ASSUME fat1 \in [Entry -> FatValue], NEW f \in File, diskdir[f].clus \in Entry
  PROVE  \E w, n : Walks(f, w, n)
<1> USE LastType
<1> DEFINE Next_(v) == IF v \in 3..Last THEN fat1[v] ELSE 0
           walk[k \in 1..(Last + 1)] == IF k = 1 THEN GetClus(diskdir[f].clus) ELSE Next_(walk[k - 1])
           V == FatValue
           a == GetClus(diskdir[f].clus)
           h == [v \in V |-> Next_(v)]
<1>1. h \in [V -> V]
  BY DEF FatValue, Entry, EOC
<1>2. a \in V
  <2>1. a \in {diskdir[f].clus, EOC}
    BY GetClusCases
  <2> QED
    BY <2>1 DEF FatValue, Entry, EOC
<1>3. PICK g : Iterates(g, Last, V, a, h)
  <2> HIDE DEF h, a, V
  <2> QED
    BY <1>1, <1>2, Recursion
<1> DEFINE w == [k \in 1..(Last + 1) |-> g[k - 1]]
<1>4. w \in [1..(Last + 1) -> FatValue] /\ w[1] = GetClus(diskdir[f].clus)
  BY <1>3 DEF Iterates
<1>5. ASSUME NEW k \in 2..(Last + 1) PROVE w[k] = Next_(w[k - 1])
  <2>1. k - 1 \in 1..Last /\ k - 1 \in 1..(Last + 1)
    OBVIOUS
  <2>2. g[k - 1] = h[g[k - 1 - 1]] /\ g[k - 1 - 1] \in V
    BY <1>3, <2>1 DEF Iterates
  <2>3. w[k] = g[k - 1] /\ w[k - 1] = g[k - 1 - 1]
    BY <2>1
  <2> QED
    BY <2>2, <2>3
<1> HIDE DEF w
<1>6. w = [k \in 1..(Last + 1) |-> IF k = 1 THEN GetClus(diskdir[f].clus) ELSE Next_(w[k - 1])]
  <2> DEFINE e == [k \in 1..(Last + 1) |-> IF k = 1 THEN GetClus(diskdir[f].clus) ELSE Next_(w[k - 1])]
  <2>1. ASSUME NEW k \in 1..(Last + 1) PROVE w[k] = e[k]
    <3>1. CASE k = 1
      BY <1>4, <3>1
    <3>2. CASE k # 1
      BY <1>5, <3>2
    <3> QED
      BY <3>1, <3>2
  <2> QED
    BY <1>4, <2>1
<1>7. walk = [k \in 1..(Last + 1) |-> IF k = 1 THEN GetClus(diskdir[f].clus) ELSE Next_(walk[k - 1])]
  <2> HIDE DEF Next_
  <2> QED
    BY <1>6
<1> HIDE DEF walk
<1>8. ASSUME NEW k \in 1..(Last + 1) PROVE walk[k] = w[k]
  <2> DEFINE S == {j \in 0..Last : walk[j + 1] = w[j + 1]}
  <2>1. 0 \in S
    BY <1>6, <1>7
  <2>2. \A j \in 0..(Last - 1) : j \in S => j + 1 \in S
    <3> SUFFICES ASSUME NEW j \in 0..(Last - 1), walk[j + 1] = w[j + 1]
                 PROVE  walk[j + 1 + 1] = w[j + 1 + 1]
      OBVIOUS
    <3>1. walk[j + 1 + 1] = Next_(walk[j + 1])
      BY <1>7
    <3>2. w[j + 1 + 1] = Next_(w[j + 1])
      BY <1>6
    <3> QED
      BY <3>1, <3>2
  <2> HIDE DEF S
  <2>3. 0..Last \subseteq S
    BY <2>1, <2>2, Induction
  <2>4. k - 1 \in S
    BY <2>3
  <2> QED
    BY <2>4 DEF S
<1> DEFINE In == {k \in 1..Last : w[k] \in Cluster}
           Out == {k \in 1..Last : w[k] \notin Cluster} \cup {Last + 1}
<1>9. PICK m \in Out : \A k \in Out : m <= k
  <2>1. Out \in SUBSET Nat /\ Out # {}
    OBVIOUS
  <2> HIDE DEF Out
  <2> QED
    BY <2>1, LeastNatural
<1>10. m \in 1..(Last + 1)
  BY <1>9
<1>11. \A k \in 1..(m - 1) : w[k] \in Cluster
  BY <1>9, <1>10
<1>12. \A k \in m..Last : w[k] \notin Cluster
  <2> DEFINE S == {j \in 0..(Last - m) : w[m + j] \notin Cluster}
  <2> SUFFICES ASSUME m <= Last PROVE \A k \in m..Last : w[k] \notin Cluster
    BY <1>10
  <2>1. 0 \in S
    BY <1>9, <1>10
  <2>2. \A j \in 0..(Last - m - 1) : j \in S => j + 1 \in S
    <3> SUFFICES ASSUME NEW j \in 0..(Last - m - 1), w[m + j] \notin Cluster
                 PROVE  w[m + j + 1] \notin Cluster
      BY <1>10
    <3>1. m + j + 1 \in 2..(Last + 1) /\ m + j + 1 - 1 = m + j
      BY <1>10
    <3>2. w[m + j + 1] = 0
      BY <1>5, <3>1 DEF Cluster
    <3> QED
      BY <3>2 DEF Cluster
  <2>3. Last - m \in Nat
    BY <1>10
  <2> HIDE DEF S
  <2>4. 0..(Last - m) \subseteq S
    BY <2>1, <2>2, <2>3, Induction
  <2> SUFFICES ASSUME NEW k \in m..Last PROVE w[k] \notin Cluster
    OBVIOUS
  <2>5. k - m \in S /\ m + (k - m) = k
    BY <1>10, <2>4
  <2> QED
    BY <2>5 DEF S
<1>13. In = 1..(m - 1)
  BY <1>10, <1>11, <1>12
<1>14. Cardinality(In) = m - 1
  <2>1. Cardinality(1..(m - 1)) = IF 1 > m - 1 THEN 0 ELSE (m - 1) - 1 + 1
    BY <1>10, FS_Interval
  <2> HIDE DEF In
  <2> QED
    BY <1>10, <1>13, <2>1
<1>15. {k \in 1..Last : walk[k] \in 3..Last} = In
  BY <1>8 DEF Cluster
<1>16. Stored(f) = [k \in 1..Cardinality({k \in 1..Last : walk[k] \in 3..Last}) |-> data[walk[k]]]
  BY DEF Stored, walk
<1>17. Stored(f) = [k \in 1..(m - 1) |-> data[w[k]]]
  <2>1. Stored(f) = [k \in 1..(m - 1) |-> data[walk[k]]]
    <3> HIDE DEF In
    <3> QED
      BY <1>14, <1>15, <1>16
  <2>2. \A k \in 1..(m - 1) : walk[k] = w[k]
    BY <1>8, <1>10
  <2> QED
    BY <2>1, <2>2
<1>18. m - 1 \in 0..Last /\ (m - 1 < Last => w[(m - 1) + 1] \notin Cluster)
  BY <1>9, <1>10
<1>19. \A k \in 2..(Last + 1) : w[k] = IF w[k - 1] \in Cluster THEN fat1[w[k - 1]] ELSE 0
  BY <1>5 DEF Cluster
<1> HIDE DEF In, Out
<1> WITNESS w, m - 1
<1> QED
  BY <1>4, <1>11, <1>17, <1>18, <1>19 DEF Walks

\* Stored is a sequence of blocks.
LEMMA StoredType ==
  ASSUME fat1 \in [Entry -> FatValue], data \in [Cluster -> Block],
         NEW f \in File, diskdir[f].clus \in Entry
  PROVE  Stored(f) \in Seq(Block)
<1>1. PICK w, n : Walks(f, w, n)
  BY StoredSteps
<1>2. \A k \in 1..n : data[w[k]] \in Block
  BY <1>1 DEF Walks
<1>3. n \in Nat
  BY <1>1, LastType DEF Walks
<1> DEFINE s == [k \in 1..n |-> data[w[k]]]
<1>4. s \in [1..n -> Block]
  BY <1>2
<1>5. s \in Seq(Block)
  BY <1>3, <1>4, SeqDef
<1> QED
  BY <1>1, <1>5 DEF Walks

-------------------------------------------------------------------------------
(* The inductive invariant *)

Odd == IF created THEN Junk ELSE {}

\* writefat() is two steps, between which the FAT in memory is up to date, and
\* a call of it is a step before: View is the FAT as if it had returned, and
\* Place where its caller goes on then.
View == IF pc = "fat" THEN [fats EXCEPT ![ind] = dt] ELSE fats
Place == IF pc \in {"fat", "fat2"} THEN ret ELSE pc

Callers == {"free", "data", "more", "link"}

\* What the state keeps whatever a step does with the call under way
DiskTypes == /\ fat1 \in [Entry -> FatValue] /\ fat2 \in [Entry -> FatValue]
             /\ fats \in [Entry -> FatValue]
             /\ data \in [Cluster -> Block]
             /\ diskdir \in [File -> [clus : Entry, size : 0..MaxBlocks]]
             /\ dir \in [File -> [clus : Entry, size : 0..MaxBlocks]]
             /\ fats = fat1

CountTypes == /\ ops \in 0..MaxOps /\ crashes \in 0..MaxCrashes
              /\ before \in [File -> Seq(Block)]
              /\ lost \in BOOLEAN /\ created \in BOOLEAN

CallTypes == /\ pc \in PCs /\ ret \in PCs
             /\ file \in File \cup {NoFile} /\ size \in 0..MaxBlocks
             /\ job \in {"dir", "file"}
             /\ clus \in Entry /\ cc \in Entry /\ at \in 0..MaxBlocks
             /\ ind \in Entry /\ dt \in FatValue

\* What keeps the bounds and the types
Flow == /\ pc \in {"fat", "fat2"} => ret \in Callers
        /\ Place # "idle" => ops >= 1 /\ size >= 1 /\ file \in File
        /\ Place = "idle" => file = NoFile
        /\ Place \notin {"idle", "wild"} => at >= 1
        /\ Place \in {"extend", "link"} => at < size /\ job = "file"

TypeInv == DiskTypes /\ CountTypes /\ CallTypes /\ Flow

\* own[c] is the file that c was allocated for last.
Owner == [Cluster -> File \cup {NoFile}]

\* In the FAT m, chains stay within a file and do not meet, no chain runs into
\* a free cluster, and the first cluster of a file in directory d is the file's
\* own and has no other before it.
Values(m) == /\ m[0] = EOC /\ m[1] = EOC /\ m[Root] \in {0, EOC}
             /\ \A a \in Cluster : m[a] \in Cluster \cup {0, EOC}
Links(m, own) == \A a \in Cluster : m[a] \in Cluster => own[m[a]] = own[a] /\ m[m[a]] # 0
Apart(m) == \A a, b \in Cluster : m[a] \in Cluster /\ m[a] = m[b] => a = b
Before(m, c) == {a \in Cluster : m[a] = c}
Heads(m, own, d) == \A f \in File : d[f].clus # 0 => /\ d[f].clus \in Cluster
                                                    /\ own[d[f].clus] = f
                                                    /\ Before(m, d[f].clus) = {}
Sound(m, own, d) == Values(m) /\ Links(m, own) /\ Apart(m) /\ Heads(m, own, d)

First == dir[file].clus

\* The directory in memory, and what of it is on the disk.
OnDisk == \A f \in File : /\ diskdir[f].clus \in {0, dir[f].clus}
                          /\ f # file => diskdir[f].clus = dir[f].clus

\* No file's first cluster is free, but that of the file whose chain is freed.
Marked == /\ \A f \in File : f # file /\ dir[f].clus # 0 => View[dir[f].clus] # 0
          /\ job = "dir" /\ file \in File /\ First # 0 => View[First] # 0
          /\ View[Root] = EOC \/ (job = "dir" /\ Place = "data")

AtIdle == Place = "idle" => dir = diskdir

\* writecluschain() for the directory, and allocfat() before it
DirJob == Place # "idle" /\ job = "dir" =>
            /\ Place \in {"alloc", "free", "data", "more", "wild"}
            /\ clus = Root /\ cc = Root
            /\ First = 0 => Place \in {"alloc", "wild"}
            /\ Place = "alloc" => First = 0
            /\ Place = "more" => dir = diskdir

\* writecluschain() for the file: in the first loop, cc is the rest of its old
\* chain; in the second, clus is the last cluster of the new one, and cc, at the
\* end, the one that is to follow.
FileJob(own) == Place # "idle" /\ job = "file" =>
                  /\ Place \in {"free", "data", "more", "extend", "link", "wild"}
                  /\ dir = diskdir
                  /\ First # 0
                  /\ clus \in Cluster /\ own[clus] = file
                  /\ Place \in {"free", "data"} /\ at = 1 => clus = First
                  /\ Place = "free" => at = 1

FreeLoop(own) == Place = "free" /\ job = "file" =>
                   /\ cc \in Cluster /\ own[cc] = file
                   /\ View[cc] # 0 /\ Before(View, cc) = {}

WriteLoop == job = "file" /\ (Place \in {"more", "extend", "link"} \/ (Place = "data" /\ at > 1))
             => View[clus] = EOC /\ View[First] # 0

LinkNew(own) == Place = "link" =>
                  /\ cc \in Cluster \ {clus} /\ own[cc] = file
                  /\ View[cc] = EOC /\ Before(View, cc) = {}
                  /\ \A f \in File : dir[f].clus # cc

Good(own) == /\ Sound(fats, own, dir) /\ Sound(View, own, dir)
             /\ OnDisk /\ Marked /\ AtIdle
             /\ DirJob /\ FileJob(own) /\ FreeLoop(own) /\ WriteLoop /\ LinkNew(own)

\* Without crashes: the clusters in use are those of chains, and of Odd.
Leads(m, c, U) == \A S \in SUBSET Cluster : Closed(m, S) /\ c \in S => U \subseteq S
Used(m, own, f) == {a \in Cluster : m[a] # 0 /\ own[a] = f}
Mine(own) == Used(View, own, file)

Whole(own) ==
  /\ \A a \in Cluster : View[a] # 0 /\ a \notin Odd => own[a] \in File
  /\ \A a \in Odd : View[a] # 0 /\ own[a] = NoFile
  /\ \A f \in File : f # file \/ job = "dir" =>
       IF dir[f].clus = 0 THEN Used(View, own, f) = {}
       ELSE Leads(View, dir[f].clus, Used(View, own, f))

Rest(own) == job = "file" =>
  /\ Place = "free" => Leads(View, cc, Mine(own))
  /\ Place = "data" /\ at = 1 => Mine(own) \subseteq {clus}
  /\ Place \in {"more", "extend"} \/ (Place = "data" /\ at > 1)
       => Leads(View, First, Mine(own) \cup {clus})
  /\ Place = "link" => Leads(View, First, (Mine(own) \ {cc}) \cup {clus})

Copies == \A e \in Entry \ Odd :
            fat2[e] = fats[e] \/ (pc = "fat2" /\ e \div PerSector = ind \div PerSector)

Inv(own) == Good(own) /\ (crashes = 0 => Whole(own) /\ Rest(own))

IInv == /\ TypeInv
        /\ ~lost => \E own \in Owner : Inv(own)
        /\ crashes = 0 => ~lost /\ Copies

-------------------------------------------------------------------------------
(* Types and control *)

LEMMA Numbers == /\ Last \in Nat /\ Last > 2 /\ PerSector \in Nat \ {0}
                 /\ MaxBlocks \in Nat \ {0} /\ MaxOps \in Nat \ {0} /\ MaxCrashes \in Nat
                 /\ Root \in Entry /\ 0 \in Entry /\ EOC \in FatValue /\ 0 \in FatValue
                 /\ EOC \notin Entry /\ Entry \subseteq FatValue
                 /\ FatValue \ {EOC} = Entry
                 /\ Cluster \subseteq Entry
  BY FatAssumption DEF Root, Entry, EOC, FatValue, Cluster

LEMMA TypeCorrect == TypeInv => TypeOK
  BY DEF TypeInv, TypeOK, DiskTypes, CountTypes, CallTypes, Cluster

LEMMA TypeInit == Init => TypeInv
<1> SUFFICES ASSUME Init PROVE DiskTypes /\ CountTypes /\ CallTypes /\ Flow
  BY DEF TypeInv
<1>1. DiskTypes
  <2>1. \A m : Formatted(m) \in [Entry -> FatValue]
    BY Numbers DEF Formatted
  <2>2. [op |-> 1, at |-> 1] \in Block
    BY Numbers DEF Block
  <2>3. [clus |-> 0, size |-> 0] \in [clus : Entry, size : 0..MaxBlocks]
    BY Numbers
  <2> QED
    BY <2>1, <2>2, <2>3 DEF Init, DiskTypes, Cluster
<1>2. CountTypes
  BY Numbers DEF Init, CountTypes
<1>3. CallTypes
  BY Numbers DEF Init, CallTypes, PCs
<1>4. Flow
  BY DEF Init, Flow, Place
<1> QED
  BY <1>1, <1>2, <1>3, <1>4

\* A sector written to the first copy brings it up to date.
LEMMA SectorWritten ==
  ASSUME NEW m \in [Entry -> FatValue], NEW i \in Entry, NEW v \in FatValue
  PROVE  SectorFrom(m, [m EXCEPT ![i] = v], i) = [m EXCEPT ![i] = v]
<1> DEFINE n == [m EXCEPT ![i] = v]
<1>1. \A e \in Entry : e # i => n[e] = m[e]
  OBVIOUS
<1>2. \A e \in Entry : e \div PerSector # i \div PerSector => e # i
  OBVIOUS
<1>3. n \in [Entry -> FatValue]
  OBVIOUS
<1> HIDE DEF n
<1> QED
  BY <1>1, <1>2, <1>3 DEF SectorFrom

LEMMA TypeFatFirst == TypeInv /\ FatFirst => TypeInv'
<1> SUFFICES ASSUME DiskTypes, CountTypes, CallTypes, Flow, FatFirst
             PROVE  DiskTypes' /\ CountTypes' /\ CallTypes' /\ Flow'
  BY DEF TypeInv
<1>1. DiskTypes'
  <2>1. fats' = [fats EXCEPT ![ind] = dt] /\ fats' \in [Entry -> FatValue]
    BY DEF FatFirst, DiskTypes, CallTypes
  <2>2. fat1' = fats'
    <3>1. SectorFrom(fat1, [fat1 EXCEPT ![ind] = dt], ind) = [fat1 EXCEPT ![ind] = dt]
      BY SectorWritten DEF DiskTypes, CallTypes
    <3> QED
      BY <2>1, <3>1 DEF FatFirst, DiskTypes
  <2> QED
    BY <2>1, <2>2 DEF FatFirst, DiskTypes
<1>2. CountTypes'
  BY DEF FatFirst, CountTypes, history
<1>3. CallTypes'
  BY DEF FatFirst, CallTypes, call, chain, PCs
<1>4. Flow'
  BY DEF FatFirst, Flow, Place, call, chain, history
<1> QED
  BY <1>1, <1>2, <1>3, <1>4

LEMMA TypeFatSecond == TypeInv /\ FatSecond => TypeInv'
<1> SUFFICES ASSUME DiskTypes, CountTypes, CallTypes, Flow, FatSecond
             PROVE  DiskTypes' /\ CountTypes' /\ CallTypes' /\ Flow'
  BY DEF TypeInv
<1>1. DiskTypes'
  BY DEF FatSecond, DiskTypes, SectorFrom
<1>2. CountTypes'
  BY DEF FatSecond, CountTypes, history
<1>3. CallTypes'
  BY DEF FatSecond, CallTypes, call, chain, PCs
<1>4. Flow'
  BY DEF FatSecond, Flow, Place, call, chain, history, Callers
<1> QED
  BY <1>1, <1>2, <1>3, <1>4

LEMMA TypeWriteF ==
  ASSUME TypeInv, NEW f \in File, NEW n \in 1..MaxBlocks, WriteF(f, n)
  PROVE  TypeInv'
<1> SUFFICES ASSUME DiskTypes, CountTypes, CallTypes, Flow
             PROVE  DiskTypes' /\ CountTypes' /\ CallTypes' /\ Flow'
  BY DEF TypeInv
<1>1. DiskTypes'
  <2>1. dir' = [dir EXCEPT ![f].size = n]
    BY DEF WriteF
  <2>2. dir' \in [File -> [clus : Entry, size : 0..MaxBlocks]]
    BY <2>1, Numbers DEF DiskTypes
  <2> QED
    BY <2>2 DEF WriteF, DiskTypes, disk
<1>2. CountTypes'
  <2>1. before' \in [File -> Seq(Block)]
    <3>1. \A g \in File : Stored(g) \in Seq(Block)
      BY StoredType DEF DiskTypes
    <3> QED
      BY <3>1 DEF WriteF
  <2>2. ops' \in 0..MaxOps
    BY Numbers DEF WriteF, CountTypes
  <2> QED
    BY <2>1, <2>2 DEF WriteF, CountTypes
<1>3. CallTypes'
  BY Numbers DEF WriteF, CallTypes, PCs
<1>4. Flow'
  BY Numbers DEF WriteF, Flow, Place, CountTypes
<1> QED
  BY <1>1, <1>2, <1>3, <1>4

\* The steps of writef() up to a call of writefat(), or without one
LEMMA TypeStepOn ==
  ASSUME TypeInv, \/ DiskFull \/ AllocFirst \/ FreeChain \/ FreedAlready \/ WriteData
                  \/ Extend \/ AllocNext \/ LinkNext \/ DirDone \/ Misread \/ FileDone
  PROVE  TypeInv'
<1> SUFFICES ASSUME DiskTypes, CountTypes, CallTypes, Flow
             PROVE  DiskTypes' /\ CountTypes' /\ CallTypes' /\ Flow'
  BY DEF TypeInv
<1> USE DEF Flow, Place, Callers, PCs
<1>1. CASE DiskFull
  <2>1. DiskTypes' /\ CountTypes'
    BY <1>1 DEF DiskFull, DiskTypes, CountTypes, disk, history
  <2>2. CallTypes' /\ Flow'
    BY <1>1 DEF DiskFull, CallTypes, call, chain, history
  <2> QED
    BY <2>1, <2>2
<1>2. CASE AllocFirst
  <2>0. PICK c \in Entry : dir' = [dir EXCEPT ![file].clus = c] /\ Call(c, EOC, "free")
    BY <1>2 DEF AllocFirst
  <2>1. DiskTypes'
    <3>1. dir' \in [File -> [clus : Entry, size : 0..MaxBlocks]]
      BY <2>0, <1>2 DEF AllocFirst, DiskTypes
    <3> QED
      BY <1>2, <3>1 DEF AllocFirst, DiskTypes, disk
  <2>2. CountTypes'
    BY <1>2 DEF AllocFirst, CountTypes, history
  <2>3. CallTypes' /\ Flow'
    BY <1>2, <2>0, Numbers DEF AllocFirst, Call, CallTypes, call, chain, history
  <2> QED
    BY <2>1, <2>2, <2>3
<1>3. CASE FreeChain
  <2>1. DiskTypes' /\ CountTypes'
    BY <1>3 DEF FreeChain, Call, DiskTypes, CountTypes, disk, history
  <2>2. cc' \in Entry
    <3>1. fats[cc] \in FatValue
      BY DEF DiskTypes, CallTypes
    <3> QED
      BY <1>3, <3>1, Numbers DEF FreeChain, CallTypes
  <2>3. CallTypes' /\ Flow'
    BY <1>3, <2>2, Numbers DEF FreeChain, Call, CallTypes, call, history
  <2> QED
    BY <2>1, <2>3
<1>4. CASE FreedAlready
  <2>1. DiskTypes' /\ CountTypes'
    BY <1>4 DEF FreedAlready, DiskTypes, CountTypes, disk, history
  <2>2. CallTypes' /\ Flow'
    BY <1>4 DEF FreedAlready, CallTypes, call, chain, history
  <2> QED
    BY <2>1, <2>2
<1>5. CASE WriteData
  <2>1. DiskTypes'
    <3>1. job # "dir" => [op |-> ops, at |-> at] \in Block
      BY <1>5, Numbers DEF WriteData, CallTypes, CountTypes, Block
    <3>2. data' \in [Cluster -> Block] /\ diskdir' \in [File -> [clus : Entry, size : 0..MaxBlocks]]
      BY <1>5, <3>1 DEF WriteData, DiskTypes
    <3> QED
      BY <1>5, <3>2 DEF WriteData, DiskTypes
  <2>2. CountTypes'
    BY <1>5 DEF WriteData, CountTypes, history
  <2>3. CallTypes' /\ Flow'
    BY <1>5, Numbers DEF WriteData, Call, CallTypes, call, chain, history
  <2> QED
    BY <2>1, <2>2, <2>3
<1>6. CASE Extend
  <2>1. DiskTypes' /\ CountTypes'
    BY <1>6 DEF Extend, DiskTypes, CountTypes, disk, history
  <2>2. CallTypes' /\ Flow'
    BY <1>6 DEF Extend, CallTypes, call, chain, history
  <2> QED
    BY <2>1, <2>2
<1>7. CASE AllocNext
  <2>0. PICK c \in Entry : cc' = c /\ Call(c, EOC, "link")
    BY <1>7 DEF AllocNext
  <2>1. DiskTypes' /\ CountTypes'
    BY <1>7 DEF AllocNext, DiskTypes, CountTypes, disk, history
  <2>2. CallTypes' /\ Flow'
    BY <1>7, <2>0, Numbers DEF AllocNext, Call, CallTypes, call, history
  <2> QED
    BY <2>1, <2>2
<1>8. CASE LinkNext
  <2>1. DiskTypes' /\ CountTypes'
    BY <1>8 DEF LinkNext, Call, DiskTypes, CountTypes, disk, history
  <2>2. at' \in 1..MaxBlocks
    BY <1>8, Numbers DEF LinkNext, CallTypes
  <2>3. cc \in FatValue
    BY Numbers DEF CallTypes
  <2>4. CallTypes' /\ Flow'
    BY <1>8, <2>2, <2>3 DEF LinkNext, Call, CallTypes, call, history
  <2> QED
    BY <2>1, <2>4
<1>9. CASE DirDone
  <2>1. DiskTypes' /\ CountTypes'
    BY <1>9 DEF DirDone, DiskTypes, CountTypes, disk, history
  <2>2. dir[file].clus \in Entry
    BY <1>9 DEF DirDone, DiskTypes
  <2>3. CallTypes' /\ Flow'
    BY <1>9, <2>2, Numbers DEF DirDone, CallTypes, history
  <2> QED
    BY <2>1, <2>3
<1>10. CASE Misread
  <2>1. DiskTypes' /\ CountTypes'
    BY <1>10 DEF Misread, DiskTypes, CountTypes, disk, history
  <2>2. CallTypes' /\ Flow'
    BY <1>10 DEF Misread, CallTypes, call, chain, history
  <2> QED
    BY <2>1, <2>2
<1>11. CASE FileDone
  <2>1. DiskTypes' /\ CountTypes'
    BY <1>11 DEF FileDone, Reset, DiskTypes, CountTypes, disk, history
  <2>2. CallTypes' /\ Flow'
    BY <1>11, Numbers DEF FileDone, Reset, CallTypes
  <2> QED
    BY <2>1, <2>2
<1> QED
  BY <1>1, <1>2, <1>3, <1>4, <1>5, <1>6, <1>7, <1>8, <1>9, <1>10, <1>11

LEMMA TypeCrash == TypeInv /\ Crash => TypeInv'
<1> SUFFICES ASSUME DiskTypes, CountTypes, CallTypes, Flow, Crash
             PROVE  DiskTypes' /\ CountTypes' /\ CallTypes' /\ Flow'
  BY DEF TypeInv
<1>1. DiskTypes'
  BY DEF Crash, DiskTypes, disk
<1>2. CountTypes'
  BY Numbers DEF Crash, CountTypes
<1>3. CallTypes' /\ Flow'
  BY Numbers DEF Crash, Reset, CallTypes, Flow, Place, PCs
<1> QED
  BY <1>1, <1>2, <1>3

LEMMA TypeNext == TypeInv /\ [Next]_vars => TypeInv'
<1> SUFFICES ASSUME TypeInv, [Next]_vars PROVE TypeInv'
  OBVIOUS
<1>1. CASE UNCHANGED vars
  <2>1. DiskTypes' /\ CountTypes' /\ CallTypes' /\ Flow'
    BY <1>1 DEF TypeInv, vars, disk, call, chain, history, DiskTypes, CountTypes, CallTypes, Flow, Place
  <2> QED
    BY <2>1 DEF TypeInv
<1> QED
  BY <1>1, TypeFatFirst, TypeFatSecond, TypeWriteF, TypeStepOn, TypeCrash DEF Next, Step

-------------------------------------------------------------------------------
(* What a single write does to a sound FAT *)

Fats == [Entry -> FatValue]

LEMMA EndIsNone == EOC \notin Cluster /\ 0 \notin Cluster /\ Root \notin Cluster
  BY FatAssumption DEF EOC, Cluster, Root

\* A cluster that no other leads to may be freed, and Root too.
LEMMA SoundFree ==
  ASSUME NEW m \in Fats, NEW own, NEW d, NEW c \in Cluster \cup {Root},
         Sound(m, own, d), Before(m, c) = {}
  PROVE  Sound([m EXCEPT ![c] = 0], own, d)
<1> DEFINE n == [m EXCEPT ![c] = 0]
<1> USE Numbers, EndIsNone
<1>1. n[c] = 0 /\ \A a \in Entry : a # c => n[a] = m[a]
  BY DEF Fats
<1>2. \A a \in Cluster : n[a] \in Cluster => a # c /\ n[a] = m[a] /\ n[a] # c
  BY <1>1 DEF Before
<1>3. c \notin {0, 1}
  BY DEF Root, Cluster
<1> HIDE DEF n
<1>4. Values(n)
  BY <1>1, <1>3 DEF Sound, Values, Root, Cluster, Entry
<1>5. Links(n, own)
  BY <1>1, <1>2 DEF Sound, Links
<1>6. Apart(n)
  BY <1>2 DEF Sound, Apart
<1>7. Heads(n, own, d)
  <2>1. \A a, h \in Cluster : n[a] = h => m[a] = h
    BY <1>2
  <2> QED
    BY <2>1 DEF Sound, Heads, Before
<1> QED
  BY <1>4, <1>5, <1>6, <1>7 DEF Sound, n

\* Any cluster may become the end of its chain.
LEMMA SoundEnd ==
  ASSUME NEW m \in Fats, NEW own, NEW d, NEW c \in Cluster \cup {Root}, Sound(m, own, d)
  PROVE  Sound([m EXCEPT ![c] = EOC], own, d)
<1> DEFINE n == [m EXCEPT ![c] = EOC]
<1> USE Numbers, EndIsNone
<1>1. n[c] = EOC /\ \A a \in Entry : a # c => n[a] = m[a]
  BY DEF Fats
<1>2. \A a \in Cluster : n[a] \in Cluster => a # c /\ n[a] = m[a]
  BY <1>1
<1>3. c \notin {0, 1} /\ EOC # 0
  BY DEF Root, Cluster, EOC
<1> HIDE DEF n
<1>4. Values(n)
  BY <1>1, <1>3 DEF Sound, Values, Root, Cluster, Entry
<1>5. Links(n, own)
  BY <1>1, <1>2, <1>3 DEF Sound, Links
<1>6. Apart(n)
  BY <1>2 DEF Sound, Apart
<1>7. Heads(n, own, d)
  <2>1. \A a, h \in Cluster : n[a] = h => m[a] = h
    BY <1>2
  <2> QED
    BY <2>1 DEF Sound, Heads, Before
<1> QED
  BY <1>4, <1>5, <1>6, <1>7 DEF Sound, n

\* The end of a chain may be linked to a cluster of the same file that is not
\* free, if no other leads there and it is no file's first.
LEMMA SoundLink ==
  ASSUME NEW m \in Fats, NEW own, NEW d, NEW c \in Cluster, NEW x \in Cluster,
         Sound(m, own, d), c # x, own[c] = own[x], m[x] # 0, Before(m, x) = {},
         \A f \in File : d[f].clus # x
  PROVE  Sound([m EXCEPT ![c] = x], own, d)
<1> DEFINE n == [m EXCEPT ![c] = x]
<1> USE Numbers, EndIsNone
<1>1. n[c] = x /\ n[x] = m[x] /\ \A a \in Entry : a # c => n[a] = m[a]
  BY DEF Fats
<1>2. c \notin {0, 1, Root} /\ x # 0
  BY DEF Root, Cluster
<1> HIDE DEF n
<1>3. Values(n)
  BY <1>1, <1>2 DEF Sound, Values, Root, Cluster, Entry
<1>4. Links(n, own)
  <2> SUFFICES ASSUME NEW a \in Cluster, n[a] \in Cluster
               PROVE  own[n[a]] = own[a] /\ n[n[a]] # 0
    BY DEF Links
  <2>1. CASE a = c
    BY <1>1, <2>1
  <2>2. CASE a # c
    <3>1. n[a] = m[a] /\ own[m[a]] = own[a] /\ m[m[a]] # 0
      BY <1>1, <2>2 DEF Sound, Links
    <3>2. n[n[a]] # 0
      BY <1>1, <1>2, <3>1
    <3> QED
      BY <3>1, <3>2
  <2> QED
    BY <2>1, <2>2
<1>5. Apart(n)
  <2>1. \A a \in Cluster : a # c => n[a] = m[a] /\ m[a] # x
    BY <1>1 DEF Before
  <2> QED
    BY <1>1, <2>1 DEF Sound, Apart
<1>6. Heads(n, own, d)
  <2> SUFFICES ASSUME NEW f \in File, d[f].clus # 0, NEW a \in Cluster, n[a] = d[f].clus
               PROVE  FALSE
    BY DEF Sound, Heads, Before
  <2>1. CASE a = c
    BY <1>1, <2>1
  <2>2. CASE a # c
    BY <1>1, <2>2 DEF Sound, Heads, Before
  <2> QED
    BY <2>1, <2>2
<1> QED
  BY <1>3, <1>4, <1>5, <1>6 DEF Sound, n

\* A free cluster may be given to any file: nothing leads to it.
LEMMA SoundGive ==
  ASSUME NEW m \in Fats, NEW own \in Owner, NEW d, NEW c \in Cluster, NEW f \in File,
         Sound(m, own, d), m[c] = 0, \A g \in File : d[g].clus # c
  PROVE  Before(m, c) = {} /\ Sound(m, [own EXCEPT ![c] = f], d)
<1> DEFINE o == [own EXCEPT ![c] = f]
<1> USE Numbers, EndIsNone
<1>1. \A a \in Cluster : a # c => o[a] = own[a]
  BY DEF Owner
<1>2. \A a \in Cluster : m[a] \in Cluster => a # c /\ m[a] # c
  BY DEF Sound, Links
<1> HIDE DEF o
<1>3. Links(m, o)
  BY <1>1, <1>2 DEF Sound, Links
<1>4. Heads(m, o, d)
  BY <1>1 DEF Sound, Heads
<1> QED
  BY <1>2, <1>3, <1>4 DEF Sound, Before, o

\* What holds of the directory in memory holds of that on the disk.
LEMMA SoundDisk ==
  ASSUME NEW m, NEW own, Sound(m, own, dir), OnDisk
  PROVE  Sound(m, own, diskdir)
<1>1. \A f \in File : diskdir[f].clus # 0 => diskdir[f].clus = dir[f].clus
  BY DEF OnDisk
<1> QED
  BY <1>1 DEF Sound, Heads

-------------------------------------------------------------------------------
(* What it does to chains *)

\* A write that neither breaks a link nor makes one
LEMMA LeadsSame ==
  ASSUME NEW m \in Fats, NEW c \in Entry, NEW v \in FatValue, NEW h, NEW U,
         c \notin Cluster \/ (m[c] \notin Cluster /\ v \notin Cluster), Leads(m, h, U)
  PROVE  Leads([m EXCEPT ![c] = v], h, U)
<1> DEFINE n == [m EXCEPT ![c] = v]
<1>1. \A a \in Cluster : n[a] \in Cluster \/ m[a] \in Cluster => n[a] = m[a]
  BY Numbers DEF Fats
<1> HIDE DEF n
<1>2. \A S \in SUBSET Cluster : Closed(n, S) => Closed(m, S)
  BY <1>1 DEF Closed
<1> QED
  BY <1>2 DEF Leads, n

\* A write into a chain of another file
LEMMA LeadsOther ==
  ASSUME NEW m \in Fats, NEW own, NEW d, NEW c \in Cluster, NEW v \in FatValue,
         NEW h \in Cluster, NEW U, NEW f, Links(m, own), own[h] = f, own[c] # f, Leads(m, h, U)
  PROVE  Leads([m EXCEPT ![c] = v], h, U)
<1> DEFINE n == [m EXCEPT ![c] = v]
<1>1. \A a \in Cluster : a # c => n[a] = m[a]
  BY Numbers DEF Fats
<1> HIDE DEF n
<1> SUFFICES ASSUME NEW S \in SUBSET Cluster, Closed(n, S), h \in S
             PROVE  U \subseteq S
  BY DEF Leads, n
<1> DEFINE T == {a \in S : own[a] = f}
<1>2. Closed(m, T)
  <2> SUFFICES ASSUME NEW a \in S, own[a] = f, m[a] \in Cluster PROVE m[a] \in S /\ own[m[a]] = f
    BY DEF Closed
  <2>1. n[a] = m[a]
    BY <1>1
  <2> QED
    BY <2>1 DEF Closed, Links
<1>3. T \in SUBSET Cluster /\ h \in T
  OBVIOUS
<1> HIDE DEF T
<1>4. U \subseteq T
  BY <1>2, <1>3 DEF Leads
<1> QED
  BY <1>4 DEF T

\* The first cluster of a chain is freed.
LEMMA LeadsFree ==
  ASSUME NEW m \in Fats, NEW c \in Cluster, NEW U, m[c] \in Cluster, Leads(m, c, U)
  PROVE  Leads([m EXCEPT ![c] = 0], m[c], U \ {c})
<1> DEFINE n == [m EXCEPT ![c] = 0]
<1>1. \A a \in Cluster : a # c => n[a] = m[a]
  BY Numbers DEF Fats
<1> HIDE DEF n
<1> SUFFICES ASSUME NEW S \in SUBSET Cluster, Closed(n, S), m[c] \in S
             PROVE  U \ {c} \subseteq S
  BY DEF Leads, n
<1>2. Closed(m, S \cup {c})
  BY <1>1 DEF Closed
<1>3. S \cup {c} \in SUBSET Cluster /\ c \in S \cup {c}
  OBVIOUS
<1>4. U \subseteq S \cup {c}
  BY <1>2, <1>3 DEF Leads
<1> QED
  BY <1>4

\* A chain of one cluster
LEMMA LeadsOne ==
  ASSUME NEW m, NEW c \in Cluster, NEW U, m[c] \notin Cluster, Leads(m, c, U)
  PROVE  U \subseteq {c}
<1>1. {c} \in SUBSET Cluster /\ Closed(m, {c})
  BY DEF Closed
<1> QED
  BY <1>1 DEF Leads

\* The last cluster is linked to another one.
LEMMA LeadsLink ==
  ASSUME NEW m \in Fats, NEW c \in Cluster, NEW x \in Cluster, NEW h, NEW U,
         m[c] \notin Cluster, Leads(m, h, U), c \in U
  PROVE  Leads([m EXCEPT ![c] = x], h, U \cup {x})
<1> DEFINE n == [m EXCEPT ![c] = x]
<1>1. n[c] = x /\ \A a \in Cluster : m[a] \in Cluster => n[a] = m[a]
  BY Numbers DEF Fats
<1> HIDE DEF n
<1> SUFFICES ASSUME NEW S \in SUBSET Cluster, Closed(n, S), h \in S
             PROVE  U \cup {x} \subseteq S
  BY DEF Leads, n
<1>2. Closed(m, S)
  BY <1>1 DEF Closed
<1>3. U \subseteq S
  BY <1>2 DEF Leads
<1>4. x \in S
  BY <1>1, <1>3 DEF Closed
<1> QED
  BY <1>3, <1>4

-------------------------------------------------------------------------------
(* Views *)

LEMMA CallView ==
  ASSUME pc \notin {"fat", "fat2"}, NEW i, NEW v, NEW t, Call(i, v, t), UNCHANGED fats
  PROVE  /\ View = fats /\ Place = pc
         /\ View' = [fats EXCEPT ![i] = v] /\ Place' = t
  BY DEF Call, View, Place

LEMMA StepView ==
  ASSUME pc \notin {"fat", "fat2"}, pc' \notin {"fat", "fat2"}, UNCHANGED fats
  PROVE  /\ View = fats /\ Place = pc
         /\ View' = fats /\ Place' = pc'
  BY DEF View, Place

\* writefat() itself changes nothing that can be told apart.
LEMMA InvWriteFat ==
  ASSUME TypeInv, NEW own \in Owner, Inv(own), FatFirst \/ FatSecond
  PROVE  Inv(own)'
<1>1. View' = View /\ Place' = Place
  BY DEF TypeInv, Flow, FatFirst, FatSecond, View, Place, Callers
<1>2. fats' \in {fats, View}
  BY DEF FatFirst, FatSecond, View
<1>3. UNCHANGED <<dir, diskdir, job, file, clus, at, cc, crashes, created>>
  BY DEF FatFirst, FatSecond, call, chain, history
<1>4. Good(own)'
  <2>1. Sound(fats', own, dir) /\ Sound(View', own, dir)
    BY <1>1, <1>2 DEF Inv, Good
  <2>2. OnDisk' /\ Marked' /\ AtIdle' /\ DirJob' /\ FileJob(own)'
    BY <1>1, <1>3 DEF Inv, Good, OnDisk, Marked, AtIdle, DirJob, FileJob, First
  <2>3. FreeLoop(own)' /\ WriteLoop' /\ LinkNew(own)'
    BY <1>1, <1>3 DEF Inv, Good, FreeLoop, WriteLoop, LinkNew, First
  <2> QED
    BY <1>3, <2>1, <2>2, <2>3 DEF Good
<1>5. crashes' = 0 => Whole(own)' /\ Rest(own)'
  <2>1. crashes = 0 => Whole(own)'
    BY <1>1, <1>3 DEF Inv, Whole, Odd
  <2>2. crashes = 0 => Rest(own)'
    BY <1>1, <1>3 DEF Inv, Rest, Mine, First
  <2> QED
    BY <1>3, <2>1, <2>2
<1> QED
  BY <1>4, <1>5 DEF Inv

-------------------------------------------------------------------------------
(* The steps of writef() *)

LEMMA InvWriteF ==
  ASSUME TypeInv, NEW own \in Owner, Inv(own),
         NEW f \in File, NEW n \in 1..MaxBlocks, WriteF(f, n)
  PROVE  Inv(own)'
<1>1. /\ View = fats /\ Place = "idle" /\ View' = fats /\ fats' = fats
      /\ Place' = IF dir[f].clus = 0 THEN "alloc" ELSE "free"
  BY DEF WriteF, View, Place
<1>2. file = NoFile /\ file' = f /\ f # NoFile /\ NoFile \notin File
  BY <1>1, FileAssumption DEF TypeInv, Flow, WriteF
<1>3. \A g \in File : dir'[g].clus = dir[g].clus
  BY DEF WriteF, TypeInv, DiskTypes
<1>4. UNCHANGED <<diskdir, created, crashes>> /\ job' = "dir" /\ clus' = Root /\ cc' = Root
  BY DEF WriteF, disk
<1>5. Good(own)'
  <2>1. Sound(fats, own, dir')
    BY <1>3 DEF Inv, Good, Sound, Heads
  <2>2. OnDisk'
    BY <1>1, <1>3, <1>4 DEF Inv, Good, AtIdle, OnDisk
  <2>3. Marked'
    <3>1. \A g \in File : dir[g].clus # 0 => fats[dir[g].clus] # 0
      BY <1>1, <1>2 DEF Inv, Good, Marked
    <3>2. fats[Root] = EOC
      BY DEF WriteF
    <3> QED
      BY <1>1, <1>2, <1>3, <3>1, <3>2 DEF Marked, First
  <2>4. DirJob'
    BY <1>1, <1>2, <1>3, <1>4 DEF DirJob, First
  <2>5. AtIdle' /\ FileJob(own)' /\ FreeLoop(own)' /\ WriteLoop' /\ LinkNew(own)'
    BY <1>1, <1>4 DEF AtIdle, FileJob, FreeLoop, WriteLoop, LinkNew
  <2> QED
    BY <1>1, <2>1, <2>2, <2>3, <2>4, <2>5 DEF Good
<1>6. crashes' = 0 => Whole(own)' /\ Rest(own)'
  <2>1. crashes = 0 => Whole(own)'
    BY <1>1, <1>2, <1>3, <1>4 DEF Inv, Whole, Odd
  <2>2. Rest(own)'
    BY <1>4 DEF Rest
  <2> QED
    BY <1>4, <2>1, <2>2
<1> QED
  BY <1>5, <1>6 DEF Inv

LEMMA InvDiskFull ==
  ASSUME TypeInv, NEW own \in Owner, Inv(own), DiskFull
  PROVE  Inv(own)'
<1>1. /\ View = fats /\ Place = pc /\ View' = fats /\ fats' = fats
      /\ Place \in {"alloc", "extend"} /\ Place' = "wild"
  BY DEF DiskFull, View, Place
<1>2. UNCHANGED <<dir, diskdir, job, file, clus, at, cc, crashes, created>>
  BY DEF DiskFull, disk, call, chain, history
<1>3. Good(own)'
  <2>1. OnDisk' /\ Marked' /\ AtIdle'
    BY <1>1, <1>2 DEF Inv, Good, OnDisk, Marked, AtIdle, First
  <2>2. DirJob' /\ FileJob(own)'
    BY <1>1, <1>2 DEF Inv, Good, DirJob, FileJob, First
  <2>3. FreeLoop(own)' /\ WriteLoop' /\ LinkNew(own)'
    BY <1>1, <1>2 DEF FreeLoop, WriteLoop, LinkNew
  <2> QED
    BY <1>1, <1>2, <2>1, <2>2, <2>3 DEF Inv, Good
<1>4. crashes' = 0 => Whole(own)' /\ Rest(own)'
  BY <1>1, <1>2 DEF Inv, Whole, Rest, Odd
<1> QED
  BY <1>3, <1>4 DEF Inv

LEMMA InvMisread ==
  ASSUME TypeInv, NEW own \in Owner, Inv(own), Misread
  PROVE  Inv(own)'
<1>1. /\ View = fats /\ Place = pc /\ View' = fats /\ fats' = fats
      /\ Place = "more" /\ Place' = "wild"
  BY DEF Misread, View, Place
<1>2. UNCHANGED <<dir, diskdir, job, file, clus, at, cc, crashes, created>>
  BY DEF Misread, disk, call, chain, history
<1>3. Good(own)'
  <2>1. OnDisk' /\ Marked' /\ AtIdle'
    BY <1>1, <1>2 DEF Inv, Good, OnDisk, Marked, AtIdle, First
  <2>2. DirJob' /\ FileJob(own)'
    BY <1>1, <1>2 DEF Inv, Good, DirJob, FileJob, First
  <2>3. FreeLoop(own)' /\ WriteLoop' /\ LinkNew(own)'
    BY <1>1, <1>2 DEF FreeLoop, WriteLoop, LinkNew
  <2> QED
    BY <1>1, <1>2, <2>1, <2>2, <2>3 DEF Inv, Good
<1>4. crashes' = 0 => Whole(own)' /\ Rest(own)'
  BY <1>1, <1>2 DEF Inv, Whole, Rest, Odd
<1> QED
  BY <1>3, <1>4 DEF Inv

\* A free entry is a cluster that no file begins with.
LEMMA FreeCluster ==
  ASSUME TypeInv, NEW own \in Owner, Good(own), NEW c \in Entry, Free(c), View = fats,
         \/ Place = "alloc" /\ job = "dir"
         \/ Place = "extend" /\ job = "file"
  PROVE  /\ c \in Cluster /\ fats[c] = 0
         /\ \A f \in File : dir[f].clus # c
<1>1. c \in Cluster /\ fats[c] = 0
  <2>1. fats[Root] = EOC /\ fats[0] = EOC /\ fats[1] = EOC /\ EOC # 0
    BY FatAssumption DEF Good, Marked, Sound, Values, EOC
  <2> QED
    BY <2>1, FatAssumption DEF Free, Cluster, Root, Entry
<1>2. file \in File /\ c # 0
  BY <1>1 DEF TypeInv, Flow, Cluster
<1>3. \A f \in File : f # file /\ dir[f].clus # 0 => fats[dir[f].clus] # 0
  BY DEF Good, Marked
<1>4. dir[file].clus # 0 => fats[dir[file].clus] # 0
  <2>1. CASE Place = "alloc" /\ job = "dir"
    BY <1>2, <2>1 DEF Good, Marked, First
  <2>2. CASE Place = "extend" /\ job = "file"
    BY <2>2 DEF Good, WriteLoop, First
  <2> QED
    BY <2>1, <2>2
<1> QED
  BY <1>1, <1>2, <1>3, <1>4

\* Of a step that gives the cluster c to file: own becomes o.
Given(own, o, c) ==
  /\ \A a \in Cluster : View'[a] # 0 /\ a \notin Odd' => o[a] \in File
  /\ \A a \in Odd' : View'[a] # 0 /\ o[a] = NoFile
  /\ \A f \in File : f # file => Used(View', o, f) = Used(View, own, f)
  /\ Used(View', o, file) = Used(View, own, file) \cup {c}
  /\ \A f \in File : f # file =>
       IF dir'[f].clus = 0 THEN Used(View', o, f) = {}
       ELSE Leads(View', dir'[f].clus, Used(View', o, f))

\* A cluster that is given to a file is marked at the same time, in View.
LEMMA WholeGive ==
  ASSUME TypeInv, NEW own \in Owner, NEW c \in Cluster, fats[c] = 0, View = fats,
         Good(own), Whole(own), file \in File,
         View' = [fats EXCEPT ![c] = EOC], created' = created, file' = file,
         NEW o \in Owner, o = [own EXCEPT ![c] = file],
         \A f \in File : f # file => dir'[f].clus = dir[f].clus
  PROVE  Given(own, o, c)
<1> USE EndIsNone
<1>0. EOC # 0 /\ c \notin Odd
  BY FatAssumption DEF EOC, Whole
<1>1. /\ View'[c] = EOC /\ o[c] = file
      /\ \A a \in Cluster : a # c => View'[a] = View[a] /\ o[a] = own[a]
  BY Numbers DEF TypeInv, DiskTypes, Owner
<1>2. Odd' = Odd /\ Odd \subseteq Cluster
  BY DEF Odd, Junk, Cluster
<1>3. \A a \in Cluster : View'[a] # 0 /\ a \notin Odd' => o[a] \in File
  BY <1>1, <1>2 DEF Whole
<1>4. \A a \in Odd' : View'[a] # 0 /\ o[a] = NoFile
  BY <1>0, <1>1, <1>2 DEF Whole
<1>5. \A f \in File : f # file => Used(View', o, f) = Used(View, own, f)
  BY <1>1 DEF Used
<1>6. Used(View', o, file) = Used(View, own, file) \cup {c}
  BY <1>0, <1>1 DEF Used
<1>7. ASSUME NEW f \in File, f # file, dir[f].clus # 0
      PROVE  Leads(View', dir[f].clus, Used(View, own, f))
  <2>1. Leads(fats, dir[f].clus, Used(View, own, f))
    BY <1>7 DEF Whole
  <2>2. fats \in Fats /\ c \in Entry /\ EOC \in FatValue
    BY Numbers DEF TypeInv, DiskTypes, Fats
  <2> QED
    BY <2>1, <2>2, LeadsSame
<1>8. ASSUME NEW f \in File, f # file
      PROVE  IF dir'[f].clus = 0 THEN Used(View', o, f) = {}
             ELSE Leads(View', dir'[f].clus, Used(View', o, f))
  <2>1. dir'[f].clus = dir[f].clus /\ Used(View', o, f) = Used(View, own, f)
    BY <1>5, <1>8
  <2>2. CASE dir[f].clus = 0
    BY <1>8, <2>1, <2>2 DEF Whole
  <2>3. CASE dir[f].clus # 0
    BY <1>7, <1>8, <2>1, <2>3
  <2> QED
    BY <2>2, <2>3
<1> QED
  BY <1>3, <1>4, <1>5, <1>6, <1>8 DEF Given

LEMMA InvAllocFirst ==
  ASSUME TypeInv, NEW own \in Owner, Inv(own), AllocFirst
  PROVE  \E o \in Owner : Inv(o)'
<1>1. PICK c \in Entry : /\ FirstFree(c)
                         /\ dir' = [dir EXCEPT ![file].clus = c]
                         /\ Call(c, EOC, "free")
  BY DEF AllocFirst
<1>2. /\ View = fats /\ Place = "alloc" /\ fats' = fats
      /\ View' = [fats EXCEPT ![c] = EOC] /\ Place' = "free"
  BY <1>1, CallView DEF AllocFirst, disk
<1>3. UNCHANGED <<diskdir, job, file, clus, at, cc, crashes, created>>
  BY DEF AllocFirst, disk, call, chain, history
<1>4. file \in File /\ job = "dir" /\ First = 0 /\ clus = Root /\ cc = Root
  BY <1>2 DEF TypeInv, Flow, CallTypes, Inv, Good, DirJob, FileJob
<1>5. c \in Cluster /\ fats[c] = 0 /\ \A f \in File : dir[f].clus # c
  BY <1>1, <1>2, <1>4, FreeCluster DEF Inv, FirstFree
<1>o. PICK o \in Owner : o = [own EXCEPT ![c] = file]
  <2>1. [own EXCEPT ![c] = file] \in Owner
    BY <1>4, <1>5 DEF Owner
  <2> QED
    BY <2>1
<1>6. o[c] = file /\ \A a \in Cluster : a # c => o[a] = own[a]
  BY <1>o, <1>4, <1>5 DEF Owner
<1>7. fats \in Fats /\ Before(fats, c) = {} /\ Sound(fats, o, dir)
  BY <1>o, <1>4, <1>5, SoundGive DEF TypeInv, DiskTypes, Fats, Inv, Good
<1>8. dir'[file].clus = c /\ \A f \in File : f # file => dir'[f].clus = dir[f].clus
  BY <1>1, <1>4 DEF TypeInv, DiskTypes
<1>9. Sound(fats, o, dir')
  BY <1>5, <1>6, <1>7, <1>8 DEF Sound, Heads
<1>10. Sound(View', o, dir')
  BY <1>2, <1>5, <1>7, <1>9, SoundEnd
<1>11. /\ View'[c] = EOC /\ EOC # 0
       /\ \A a \in Entry : a # c => View'[a] = fats[a]
  BY <1>2, <1>7, FatAssumption DEF Fats, EOC
<1>12. Good(o)'
  <2>1. OnDisk'
    BY <1>3, <1>4, <1>8 DEF Inv, Good, OnDisk, First
  <2>2. Marked'
    <3>1. \A f \in File : f # file /\ dir[f].clus # 0 => View'[dir[f].clus] # 0
      BY <1>2, <1>5, <1>11 DEF Inv, Good, Marked, Sound, Heads, Cluster, Entry
    <3>2. View'[Root] = EOC
      BY <1>2, <1>5, <1>11, EndIsNone, Numbers DEF Inv, Good, Marked
    <3> QED
      BY <1>3, <1>8, <1>11, <3>1, <3>2 DEF Marked, First
  <2>3. DirJob'
    BY <1>2, <1>3, <1>4, <1>5, <1>8, EndIsNone DEF DirJob, First
  <2>4. AtIdle' /\ FileJob(o)' /\ FreeLoop(o)' /\ WriteLoop' /\ LinkNew(o)'
    BY <1>2, <1>3, <1>4 DEF AtIdle, FileJob, FreeLoop, WriteLoop, LinkNew
  <2> QED
    BY <1>2, <1>9, <1>10, <2>1, <2>2, <2>3, <2>4 DEF Good
<1>13. crashes = 0 => Whole(o)'
  <2> SUFFICES ASSUME crashes = 0 PROVE Whole(o)'
    OBVIOUS
  <2>1. Whole(own) /\ Good(own)
    BY DEF Inv
  <2>2. Given(own, o, c)
    BY <1>o, <1>2, <1>3, <1>4, <1>5, <1>8, <2>1, WholeGive
  <2>3. Used(View', o, file) = {c}
    BY <1>4, <2>1, <2>2 DEF Whole, First, Given
  <2>4. dir'[file].clus # 0 /\ Leads(View', dir'[file].clus, Used(View', o, file))
    BY <1>5, <1>8, <2>3, EndIsNone DEF Leads
  <2> QED
    BY <1>3, <2>2, <2>4 DEF Whole, Given
<1>14. Rest(o)'
  BY <1>3, <1>4 DEF Rest
<1> QED
  BY <1>3, <1>6, <1>12, <1>13, <1>14 DEF Inv

LEMMA InvFreeDir ==
  ASSUME TypeInv, NEW own \in Owner, Inv(own), FreeChain, job = "dir"
  PROVE  Inv(own)'
<1>1. Place = "free" /\ View = fats
  BY DEF FreeChain, View, Place
<1>2. cc = Root /\ clus = Root /\ First # 0 /\ fats[Root] = EOC /\ file \in File
  BY <1>1 DEF Inv, Good, DirJob, Marked, TypeInv, Flow
<1>3. /\ View' = [fats EXCEPT ![Root] = 0] /\ Place' = "data" /\ fats' = fats
      /\ cc' = Root
  BY <1>2, CallView DEF FreeChain
<1>4. UNCHANGED <<dir, diskdir, job, file, clus, at, crashes, created>>
  BY DEF FreeChain, disk, call, history
<1>5. fats \in Fats /\ Sound(fats, own, dir)
  BY DEF TypeInv, DiskTypes, Fats, Inv, Good
<1>6. Before(fats, Root) = {}
  <2>1. \A a \in Cluster : fats[a] \in Cluster \cup {0, EOC}
    BY <1>5 DEF Sound, Values
  <2>2. Root \notin Cluster \cup {0, EOC}
    BY EndIsNone, FatAssumption DEF Root, EOC
  <2> QED
    BY <2>1, <2>2 DEF Before
<1>7. Sound(View', own, dir)
  BY <1>3, <1>5, <1>6, SoundFree
<1>8. \A a \in Cluster : View'[a] = fats[a]
  BY <1>3, <1>5, Numbers, EndIsNone DEF Fats
<1>9. Good(own)'
  <2>1. OnDisk' /\ AtIdle' /\ DirJob' /\ FileJob(own)'
    BY <1>1, <1>2, <1>3, <1>4 DEF Inv, Good, OnDisk, AtIdle, DirJob, FileJob, First
  <2>2. Marked'
    BY <1>1, <1>3, <1>4, <1>5, <1>8 DEF Inv, Good, Marked, First, Sound, Heads
  <2>3. FreeLoop(own)' /\ WriteLoop' /\ LinkNew(own)'
    BY <1>3, <1>4 DEF FreeLoop, WriteLoop, LinkNew
  <2> QED
    BY <1>3, <1>4, <1>5, <1>7, <2>1, <2>2, <2>3 DEF Good
<1>10. crashes = 0 => Whole(own)'
  <2> SUFFICES ASSUME crashes = 0, Whole(own) PROVE Whole(own)'
    BY DEF Inv
  <2>1. Odd' = Odd /\ Odd \subseteq Cluster
    BY <1>4 DEF Odd, Junk, Cluster
  <2>2. /\ \A a \in Cluster : View'[a] # 0 /\ a \notin Odd' => own[a] \in File
        /\ \A a \in Odd' : View'[a] # 0 /\ own[a] = NoFile
    BY <1>1, <1>8, <2>1 DEF Whole
  <2>3. \A f : Used(View', own, f) = Used(View, own, f)
    BY <1>1, <1>8 DEF Used
  <2>4. \A h, U : Leads(View, h, U) => Leads(View', h, U)
    BY <1>1, <1>3, <1>5, LeadsSame, Numbers, EndIsNone
  <2> QED
    BY <1>4, <2>2, <2>3, <2>4 DEF Whole
<1>11. Rest(own)'
  BY <1>4 DEF Rest
<1> QED
  BY <1>4, <1>9, <1>10, <1>11 DEF Inv

LEMMA InvFreeFile ==
  ASSUME TypeInv, NEW own \in Owner, Inv(own), FreeChain, job = "file"
  PROVE  Inv(own)'
<1>1. Place = "free" /\ View = fats
  BY DEF FreeChain, View, Place
<1>2. /\ cc \in Cluster /\ own[cc] = file /\ fats[cc] # 0 /\ Before(fats, cc) = {}
      /\ clus = First /\ at = 1 /\ file \in File
  BY <1>1 DEF Inv, Good, FileJob, FreeLoop, TypeInv, Flow
<1>3. fats \in Fats /\ Sound(fats, own, dir)
  BY DEF TypeInv, DiskTypes, Fats, Inv, Good
<1>4. fats[cc] = EOC \/ fats[cc] \in Cluster
  BY <1>2, <1>3 DEF Sound, Values
<1>5. /\ View' = [fats EXCEPT ![cc] = 0] /\ fats' = fats
      /\ Place' = IF fats[cc] = EOC THEN "data" ELSE "free"
      /\ cc' = IF fats[cc] = EOC THEN cc ELSE fats[cc]
  BY CallView DEF FreeChain
<1>6. UNCHANGED <<dir, diskdir, job, file, clus, at, crashes, created>>
  BY DEF FreeChain, disk, call, history
<1>7. Sound(View', own, dir)
  BY <1>2, <1>3, <1>5, SoundFree
<1>8. View'[cc] = 0 /\ \A a \in Entry : a # cc => View'[a] = fats[a]
  BY <1>2, <1>3, <1>5, Numbers DEF Fats
<1>9. Good(own)'
  <2>1. OnDisk' /\ AtIdle' /\ DirJob' /\ FileJob(own)'
    BY <1>1, <1>2, <1>5, <1>6 DEF Inv, Good, OnDisk, AtIdle, DirJob, FileJob, First
  <2>2. Marked'
    <3>1. \A f \in File : f # file /\ dir[f].clus # 0 => View'[dir[f].clus] # 0
      <4> SUFFICES ASSUME NEW f \in File, f # file, dir[f].clus # 0
                   PROVE  View'[dir[f].clus] # 0
        OBVIOUS
      <4>1. dir[f].clus \in Cluster /\ own[dir[f].clus] = f
        BY <1>3 DEF Sound, Heads
      <4>2. dir[f].clus # cc
        BY <1>2, <4>1
      <4> QED
        BY <1>1, <1>8, <4>1, <4>2, Numbers DEF Inv, Good, Marked
    <3>2. View'[Root] = EOC
      BY <1>1, <1>2, <1>8, EndIsNone, Numbers DEF Inv, Good, Marked
    <3> QED
      BY <1>6, <3>1, <3>2 DEF Marked
  <2>3. FreeLoop(own)'
    <3> SUFFICES ASSUME fats[cc] \in Cluster
                 PROVE  /\ own[fats[cc]] = file
                        /\ View'[fats[cc]] # 0 /\ Before(View', fats[cc]) = {}
      BY <1>4, <1>5, <1>6 DEF FreeLoop
    <3>1. own[fats[cc]] = file /\ fats[fats[cc]] # 0
      BY <1>2, <1>3 DEF Sound, Links
    <3>2. fats[cc] # cc
      BY <1>2 DEF Before
    <3>3. \A a \in Cluster : View'[a] # fats[cc]
      <4> SUFFICES ASSUME NEW a \in Cluster, View'[a] = fats[cc] PROVE FALSE
        OBVIOUS
      <4>1. a # cc
        BY <1>8, EndIsNone
      <4>2. fats[a] = fats[cc]
        BY <1>8, <4>1, Numbers
      <4> QED
        BY <1>2, <1>3, <4>1, <4>2 DEF Sound, Apart
    <3> QED
      BY <1>8, <3>1, <3>2, <3>3, Numbers DEF Before
  <2>4. WriteLoop' /\ LinkNew(own)'
    BY <1>2, <1>5, <1>6 DEF WriteLoop, LinkNew
  <2> QED
    BY <1>3, <1>5, <1>6, <1>7, <2>1, <2>2, <2>3, <2>4 DEF Good
<1>10. crashes = 0 => Whole(own)' /\ Rest(own)'
  <2> SUFFICES ASSUME crashes = 0, Whole(own), Rest(own) PROVE Whole(own)' /\ Rest(own)'
    BY DEF Inv
  <2>1. Odd' = Odd /\ Odd \subseteq Cluster /\ cc \notin Odd
    BY <1>2, <1>6, FileAssumption DEF Odd, Junk, Cluster, Whole
  <2>2. /\ \A a \in Cluster : View'[a] # 0 /\ a \notin Odd' => own[a] \in File
        /\ \A a \in Odd' : View'[a] # 0 /\ own[a] = NoFile
    BY <1>1, <1>8, <2>1, Numbers DEF Whole
  <2>3. \A f : f # file => Used(View', own, f) = Used(View, own, f)
    BY <1>1, <1>2, <1>8, Numbers DEF Used
  <2>4. ASSUME NEW f \in File, f # file
        PROVE  IF dir[f].clus = 0 THEN Used(View', own, f) = {}
               ELSE Leads(View', dir[f].clus, Used(View', own, f))
    <3>1. CASE dir[f].clus = 0
      BY <2>3, <2>4, <3>1 DEF Whole
    <3>2. CASE dir[f].clus # 0
      <4>1. dir[f].clus \in Cluster /\ own[dir[f].clus] = f /\ Links(fats, own)
        BY <1>3, <3>2 DEF Sound, Heads
      <4>2. Leads(fats, dir[f].clus, Used(View, own, f))
        BY <1>1, <2>4, <3>2 DEF Whole
      <4>3. own[cc] # f
        BY <1>2, <2>4
      <4>4. Leads(View', dir[f].clus, Used(View, own, f))
        BY <1>2, <1>3, <1>5, <4>1, <4>2, <4>3, LeadsOther, Numbers
      <4> QED
        BY <2>3, <2>4, <3>2, <4>4
    <3> QED
      BY <3>1, <3>2
  <2>5. Whole(own)'
    BY <1>6, <2>2, <2>4 DEF Whole
  <2>6. Leads(fats, cc, Mine(own)) /\ Mine(own)' = Mine(own) \ {cc}
    <3>1. Leads(fats, cc, Mine(own))
      BY <1>1 DEF Rest
    <3>2. Used(View', own, file) = Used(fats, own, file) \ {cc}
      BY <1>8, Numbers DEF Used
    <3> QED
      BY <1>1, <1>6, <3>1, <3>2 DEF Mine
  <2>7. Rest(own)'
    <3>1. CASE fats[cc] = EOC
      <4>1. Mine(own) \subseteq {cc}
        BY <1>2, <2>6, <3>1, LeadsOne, EndIsNone
      <4> QED
        BY <1>2, <1>5, <1>6, <2>6, <3>1, <4>1 DEF Rest
    <3>2. CASE fats[cc] \in Cluster
      <4>1. Leads(View', fats[cc], Mine(own) \ {cc})
        BY <1>2, <1>3, <1>5, <2>6, <3>2, LeadsFree
      <4>2. Place' = "free" /\ cc' = fats[cc]
        BY <1>5, <3>2, EndIsNone
      <4> QED
        BY <2>6, <4>1, <4>2 DEF Rest
    <3> QED
      BY <1>4, <3>1, <3>2
  <2> QED
    BY <2>5, <2>7
<1> QED
  BY <1>6, <1>9, <1>10 DEF Inv

\* While no chain is lost, the first loop never meets a free cluster.
LEMMA NeverFreed ==
  ASSUME TypeInv, NEW own \in Owner, Inv(own), FreedAlready
  PROVE  FALSE
<1>1. pc = "free" /\ Place = "free" /\ View = fats /\ fats[cc] = 0 /\ EOC # 0 /\ Place # "idle"
  BY FatAssumption DEF FreedAlready, View, Place, EOC
<1>2. CASE job = "dir"
  BY <1>1, <1>2 DEF Inv, Good, DirJob, Marked
<1>3. CASE job = "file"
  BY <1>1, <1>3 DEF Inv, Good, FreeLoop
<1> QED
  BY <1>2, <1>3 DEF TypeInv, CallTypes

LEMMA InvDataDir ==
  ASSUME TypeInv, NEW own \in Owner, Inv(own), WriteData, job = "dir"
  PROVE  Inv(own)'
<1>1. Place = "data" /\ View = fats
  BY DEF WriteData, View, Place
<1>2. clus = Root /\ cc = Root /\ First # 0 /\ file \in File
  BY <1>1 DEF Inv, Good, DirJob, TypeInv, Flow
<1>3. View' = [fats EXCEPT ![Root] = EOC] /\ Place' = "more" /\ fats' = fats
  BY <1>2, CallView DEF WriteData
<1>4. UNCHANGED <<dir, job, file, clus, cc, at, crashes, created>> /\ diskdir' = dir
  BY DEF WriteData, call, chain, history
<1>5. fats \in Fats /\ Sound(fats, own, dir)
  BY DEF TypeInv, DiskTypes, Fats, Inv, Good
<1>6. Sound(View', own, dir)
  BY <1>3, <1>5, SoundEnd
<1>7. View'[Root] = EOC /\ \A a \in Cluster : View'[a] = fats[a]
  BY <1>3, <1>5, Numbers, EndIsNone DEF Fats
<1>8. Good(own)'
  <2>1. OnDisk' /\ AtIdle' /\ DirJob' /\ FileJob(own)'
    BY <1>2, <1>3, <1>4 DEF OnDisk, AtIdle, DirJob, FileJob, First
  <2>2. Marked'
    BY <1>1, <1>4, <1>5, <1>7 DEF Inv, Good, Marked, First, Sound, Heads
  <2>3. FreeLoop(own)' /\ WriteLoop' /\ LinkNew(own)'
    BY <1>3, <1>4 DEF FreeLoop, WriteLoop, LinkNew
  <2> QED
    BY <1>3, <1>4, <1>5, <1>6, <2>1, <2>2, <2>3 DEF Good
<1>9. crashes = 0 => Whole(own)'
  <2> SUFFICES ASSUME crashes = 0, Whole(own) PROVE Whole(own)'
    BY DEF Inv
  <2>1. Odd' = Odd /\ Odd \subseteq Cluster
    BY <1>4 DEF Odd, Junk, Cluster
  <2>2. /\ \A a \in Cluster : View'[a] # 0 /\ a \notin Odd' => own[a] \in File
        /\ \A a \in Odd' : View'[a] # 0 /\ own[a] = NoFile
    BY <1>1, <1>7, <2>1 DEF Whole
  <2>3. \A f : Used(View', own, f) = Used(View, own, f)
    BY <1>1, <1>7 DEF Used
  <2>4. \A h, U : Leads(View, h, U) => Leads(View', h, U)
    BY <1>1, <1>3, <1>5, LeadsSame, Numbers, EndIsNone
  <2> QED
    BY <1>4, <2>2, <2>3, <2>4 DEF Whole
<1>10. Rest(own)'
  BY <1>4 DEF Rest
<1> QED
  BY <1>4, <1>8, <1>9, <1>10 DEF Inv

LEMMA InvDataFile ==
  ASSUME TypeInv, NEW own \in Owner, Inv(own), WriteData, job = "file"
  PROVE  Inv(own)'
<1>1. Place = "data" /\ View = fats
  BY DEF WriteData, View, Place
<1>2. /\ clus \in Cluster /\ own[clus] = file /\ file \in File /\ First # 0 /\ dir = diskdir
      /\ at = 1 \/ at > 1
      /\ at = 1 => clus = First
      /\ at > 1 => fats[clus] = EOC /\ fats[First] # 0
  BY <1>1 DEF Inv, Good, FileJob, WriteLoop, TypeInv, Flow, CallTypes
<1>3. View' = [fats EXCEPT ![clus] = EOC] /\ Place' = "more" /\ fats' = fats
  BY CallView DEF WriteData
<1>4. UNCHANGED <<dir, diskdir, job, file, clus, cc, at, crashes, created>>
  BY DEF WriteData, call, chain, history
<1>5. fats \in Fats /\ Sound(fats, own, dir) /\ First \in Cluster /\ EOC # 0
  <2>1. fats \in Fats /\ Sound(fats, own, dir)
    BY DEF TypeInv, DiskTypes, Fats, Inv, Good
  <2>2. First \in Cluster
    BY <1>2, <2>1 DEF Sound, Heads, First
  <2>3. EOC # 0
    BY FatAssumption DEF EOC
  <2> QED
    BY <2>1, <2>2, <2>3
<1>6. Sound(View', own, dir)
  BY <1>2, <1>3, <1>5, SoundEnd
<1>7. View'[clus] = EOC /\ \A a \in Entry : a # clus => View'[a] = fats[a]
  BY <1>2, <1>3, <1>5, Numbers DEF Fats
<1>8. Good(own)'
  <2>1. OnDisk' /\ AtIdle' /\ DirJob' /\ FileJob(own)'
    BY <1>1, <1>2, <1>3, <1>4 DEF OnDisk, AtIdle, DirJob, FileJob, First
  <2>2. Marked'
    <3>1. View'[Root] = EOC
      BY <1>1, <1>2, <1>7, EndIsNone, Numbers DEF Inv, Good, Marked
    <3>2. \A f \in File : f # file /\ dir[f].clus # 0 => View'[dir[f].clus] # 0
      BY <1>1, <1>5, <1>7, Numbers DEF Inv, Good, Marked, Sound, Heads
    <3> QED
      BY <1>4, <3>1, <3>2 DEF Marked
  <2>3. WriteLoop'
    BY <1>2, <1>4, <1>5, <1>7, Numbers DEF WriteLoop, First
  <2>4. FreeLoop(own)' /\ LinkNew(own)'
    BY <1>3 DEF FreeLoop, LinkNew
  <2> QED
    BY <1>3, <1>4, <1>5, <1>6, <2>1, <2>2, <2>3, <2>4 DEF Good
<1>9. crashes = 0 => Whole(own)' /\ Rest(own)'
  <2> SUFFICES ASSUME crashes = 0, Whole(own), Rest(own) PROVE Whole(own)' /\ Rest(own)'
    BY DEF Inv
  <2>1. Odd' = Odd /\ Odd \subseteq Cluster /\ clus \notin Odd
    BY <1>2, <1>4, FileAssumption DEF Odd, Junk, Cluster, Whole
  <2>2. /\ \A a \in Cluster : View'[a] # 0 /\ a \notin Odd' => own[a] \in File
        /\ \A a \in Odd' : View'[a] # 0 /\ own[a] = NoFile
    BY <1>1, <1>2, <1>7, <2>1, Numbers DEF Whole
  <2>3. \A f : f # file => Used(View', own, f) = Used(View, own, f)
    BY <1>1, <1>2, <1>7, Numbers DEF Used
  <2>4. Used(View', own, file) = Used(View, own, file) \cup {clus}
    BY <1>1, <1>2, <1>5, <1>7, Numbers DEF Used
  <2>5. ASSUME NEW f \in File, f # file
        PROVE  IF dir[f].clus = 0 THEN Used(View', own, f) = {}
               ELSE Leads(View', dir[f].clus, Used(View', own, f))
    <3>1. CASE dir[f].clus = 0
      BY <2>3, <2>5, <3>1 DEF Whole
    <3>2. CASE dir[f].clus # 0
      <4>1. dir[f].clus \in Cluster /\ own[dir[f].clus] = f /\ Links(fats, own)
        BY <1>5, <3>2 DEF Sound, Heads
      <4>2. Leads(fats, dir[f].clus, Used(View, own, f))
        BY <1>1, <2>5, <3>2 DEF Whole
      <4>3. own[clus] # f
        BY <1>2, <2>5
      <4>4. Leads(View', dir[f].clus, Used(View, own, f))
        BY <1>2, <1>3, <1>5, <4>1, <4>2, <4>3, LeadsOther, Numbers
      <4> QED
        BY <2>3, <2>5, <3>2, <4>4
    <3> QED
      BY <3>1, <3>2
  <2>6. Whole(own)'
    BY <1>4, <2>2, <2>5 DEF Whole
  <2>7. Leads(View', First, Mine(own) \cup {clus})
    <3>1. CASE at = 1
      BY <1>1, <1>2, <3>1 DEF Rest, Leads
    <3>2. CASE at > 1
      <4>1. View' = fats
        BY <1>2, <1>3, <1>5, <3>2 DEF Fats
      <4> QED
        BY <1>1, <3>2, <4>1 DEF Rest
    <3> QED
      BY <1>2, <3>1, <3>2
  <2>8. Mine(own)' \cup {clus} = Mine(own) \cup {clus}
    BY <1>4, <2>4 DEF Mine
  <2>9. Rest(own)'
    BY <1>3, <1>4, <2>7, <2>8 DEF Rest, First
  <2> QED
    BY <2>6, <2>9
<1> QED
  BY <1>4, <1>8, <1>9 DEF Inv

LEMMA InvExtend ==
  ASSUME TypeInv, NEW own \in Owner, Inv(own), Extend
  PROVE  Inv(own)'
<1>1. /\ View = fats /\ Place = "more" /\ View' = fats /\ fats' = fats
      /\ Place' = "extend" /\ job = "file"
  BY DEF Extend, View, Place
<1>2. UNCHANGED <<dir, diskdir, job, file, clus, at, cc, crashes, created>>
  BY DEF Extend, disk, call, chain, history
<1>3. Good(own)'
  <2>1. OnDisk' /\ Marked' /\ AtIdle'
    BY <1>1, <1>2 DEF Inv, Good, OnDisk, Marked, AtIdle, First
  <2>2. DirJob' /\ FileJob(own)'
    BY <1>1, <1>2 DEF Inv, Good, DirJob, FileJob, First
  <2>3. FreeLoop(own)' /\ WriteLoop' /\ LinkNew(own)'
    BY <1>1, <1>2 DEF Inv, Good, FreeLoop, WriteLoop, LinkNew, First
  <2> QED
    BY <1>1, <1>2, <2>1, <2>2, <2>3 DEF Inv, Good
<1>4. crashes' = 0 => Whole(own)' /\ Rest(own)'
  <2> SUFFICES ASSUME crashes = 0, Whole(own), Rest(own) PROVE Whole(own)' /\ Rest(own)'
    BY <1>2 DEF Inv
  <2>1. Whole(own)'
    BY <1>1, <1>2 DEF Whole, Odd
  <2>2. Rest(own)'
    BY <1>1, <1>2 DEF Rest, Mine, First
  <2> QED
    BY <2>1, <2>2
<1> QED
  BY <1>3, <1>4 DEF Inv

LEMMA InvAllocNext ==
  ASSUME TypeInv, NEW own \in Owner, Inv(own), AllocNext
  PROVE  \E o \in Owner : Inv(o)'
<1>1. PICK c \in Entry : FirstFree(c) /\ cc' = c /\ Call(c, EOC, "link")
  BY DEF AllocNext
<1>2. /\ View = fats /\ Place = "extend" /\ fats' = fats
      /\ View' = [fats EXCEPT ![c] = EOC] /\ Place' = "link"
  BY <1>1, CallView DEF AllocNext
<1>3. UNCHANGED <<dir, diskdir, job, file, clus, at, crashes, created>>
  BY DEF AllocNext, disk, call, history
<1>4. /\ file \in File /\ job = "file" /\ First # 0 /\ dir = diskdir
      /\ clus \in Cluster /\ own[clus] = file /\ fats[clus] = EOC /\ fats[First] # 0
  BY <1>2 DEF TypeInv, Flow, Inv, Good, FileJob, WriteLoop
<1>5. c \in Cluster /\ fats[c] = 0 /\ \A f \in File : dir[f].clus # c
  BY <1>1, <1>2, <1>4, FreeCluster DEF Inv, FirstFree
<1>o. PICK o \in Owner : o = [own EXCEPT ![c] = file]
  <2>1. [own EXCEPT ![c] = file] \in Owner
    BY <1>4, <1>5 DEF Owner
  <2> QED
    BY <2>1
<1>6. o[c] = file /\ \A a \in Cluster : a # c => o[a] = own[a]
  BY <1>o, <1>4, <1>5 DEF Owner
<1>7. fats \in Fats /\ Before(fats, c) = {} /\ Sound(fats, o, dir)
  BY <1>o, <1>4, <1>5, SoundGive DEF TypeInv, DiskTypes, Fats, Inv, Good
<1>8. Sound(View', o, dir)
  BY <1>2, <1>5, <1>7, SoundEnd
<1>9. /\ View'[c] = EOC /\ EOC # 0
      /\ \A a \in Entry : a # c => View'[a] = fats[a]
  BY <1>2, <1>7, FatAssumption DEF Fats, EOC
<1>10. clus # c /\ First # c /\ First \in Cluster
  BY <1>4, <1>5, <1>7, <1>9 DEF Sound, Heads, First
<1>11. Good(o)'
  <2>1. OnDisk' /\ AtIdle' /\ DirJob' /\ FreeLoop(o)'
    BY <1>2, <1>3, <1>4 DEF OnDisk, AtIdle, DirJob, FreeLoop
  <2>2. Marked'
    <3>1. \A f \in File : f # file /\ dir[f].clus # 0 => View'[dir[f].clus] # 0
      BY <1>2, <1>5, <1>7, <1>9, Numbers DEF Inv, Good, Marked, Sound, Heads
    <3>2. View'[Root] = EOC
      BY <1>2, <1>5, <1>9, EndIsNone, Numbers DEF Inv, Good, Marked
    <3> QED
      BY <1>3, <1>4, <3>1, <3>2 DEF Marked
  <2>3. FileJob(o)'
    BY <1>2, <1>3, <1>4, <1>6, <1>10 DEF FileJob, First
  <2>4. WriteLoop'
    BY <1>3, <1>4, <1>9, <1>10, Numbers DEF WriteLoop, First
  <2>5. LinkNew(o)'
    <3>1. Before(View', c) = {}
      BY <1>5, <1>7, <1>9, EndIsNone, Numbers DEF Before
    <3> QED
      BY <1>1, <1>3, <1>5, <1>6, <1>9, <1>10, <3>1 DEF LinkNew
  <2> QED
    BY <1>2, <1>3, <1>7, <1>8, <2>1, <2>2, <2>3, <2>4, <2>5 DEF Good
<1>12. crashes = 0 => Whole(o)' /\ Rest(o)'
  <2> SUFFICES ASSUME crashes = 0 PROVE Whole(o)' /\ Rest(o)'
    OBVIOUS
  <2>1. Whole(own) /\ Rest(own) /\ Good(own)
    BY DEF Inv
  <2>2. Given(own, o, c)
    BY <1>o, <1>2, <1>3, <1>4, <1>5, <2>1, WholeGive
  <2>3. Whole(o)'
    BY <1>3, <1>4, <2>2 DEF Whole, Given
  <2>4. (Mine(o)' \ {c}) \cup {clus} = Mine(own) \cup {clus}
    <3>1. c \notin Used(View, own, file)
      BY <1>2, <1>5 DEF Used
    <3> QED
      BY <1>3, <2>2, <3>1 DEF Given, Mine
  <2>5. Leads(fats, First, Mine(own) \cup {clus})
    BY <1>2, <1>4, <2>1 DEF Rest
  <2>6. Leads(View', First, Mine(own) \cup {clus})
    BY <1>2, <1>5, <1>7, <2>5, LeadsSame, Numbers, EndIsNone
  <2>7. Rest(o)'
    BY <1>1, <1>2, <1>3, <2>4, <2>6 DEF Rest, First
  <2> QED
    BY <2>3, <2>7
<1> QED
  BY <1>3, <1>11, <1>12 DEF Inv

LEMMA InvLinkNext ==
  ASSUME TypeInv, NEW own \in Owner, Inv(own), LinkNext
  PROVE  Inv(own)'
<1>1. /\ View = fats /\ Place = "link" /\ fats' = fats
      /\ View' = [fats EXCEPT ![clus] = cc] /\ Place' = "data"
  BY CallView DEF LinkNext
<1>2. /\ UNCHANGED <<dir, diskdir, job, file, cc, crashes, created>>
      /\ clus' = cc /\ at' = at + 1
  BY DEF LinkNext, disk, call, history
<1>3. /\ file \in File /\ job = "file" /\ First # 0 /\ dir = diskdir
      /\ clus \in Cluster /\ own[clus] = file /\ fats[clus] = EOC /\ fats[First] # 0
      /\ cc \in Cluster /\ cc # clus /\ own[cc] = file /\ fats[cc] = EOC
      /\ Before(fats, cc) = {} /\ \A f \in File : dir[f].clus # cc
      /\ at' > 1
  BY <1>1, <1>2 DEF TypeInv, Flow, CallTypes, Inv, Good, FileJob, WriteLoop, LinkNew
<1>4. EOC # 0 /\ cc # 0 /\ fats[cc] # 0
  BY <1>3, EndIsNone, FatAssumption DEF EOC
<1>5. fats \in Fats /\ Sound(fats, own, dir)
  BY DEF TypeInv, DiskTypes, Fats, Inv, Good
<1>6. Sound(View', own, dir)
  BY <1>1, <1>3, <1>4, <1>5, SoundLink
<1>7. View'[clus] = cc /\ \A a \in Entry : a # clus => View'[a] = fats[a]
  BY <1>1, <1>3, <1>5, Numbers DEF Fats
<1>8. \A a \in Entry : View'[a] = 0 <=> fats[a] = 0
  BY <1>3, <1>4, <1>7
<1>9. First \in Cluster
  BY <1>3, <1>5 DEF Sound, Heads, First
<1>10. Good(own)'
  <2>1. OnDisk' /\ AtIdle' /\ DirJob' /\ FreeLoop(own)' /\ LinkNew(own)'
    BY <1>1, <1>2, <1>3 DEF OnDisk, AtIdle, DirJob, FreeLoop, LinkNew
  <2>2. Marked'
    <3>1. \A f \in File : f # file /\ dir[f].clus # 0 => View'[dir[f].clus] # 0
      BY <1>1, <1>5, <1>8, Numbers DEF Inv, Good, Marked, Sound, Heads
    <3>2. View'[Root] = EOC
      BY <1>1, <1>3, <1>7, EndIsNone, Numbers DEF Inv, Good, Marked
    <3> QED
      BY <1>2, <1>3, <3>1, <3>2 DEF Marked
  <2>3. FileJob(own)'
    BY <1>1, <1>2, <1>3 DEF FileJob, First
  <2>4. WriteLoop'
    <3>1. View'[cc] = EOC /\ View'[First] # 0
      BY <1>3, <1>7, <1>8, <1>9, Numbers
    <3> QED
      BY <1>2, <3>1 DEF WriteLoop, First
  <2> QED
    BY <1>1, <1>2, <1>5, <1>6, <2>1, <2>2, <2>3, <2>4 DEF Good
<1>11. crashes = 0 => Whole(own)' /\ Rest(own)'
  <2> SUFFICES ASSUME crashes = 0, Whole(own), Rest(own) PROVE Whole(own)' /\ Rest(own)'
    BY DEF Inv
  <2>1. Odd' = Odd /\ Odd \subseteq Cluster
    BY <1>2 DEF Odd, Junk, Cluster
  <2>2. /\ \A a \in Cluster : View'[a] # 0 /\ a \notin Odd' => own[a] \in File
        /\ \A a \in Odd' : View'[a] # 0 /\ own[a] = NoFile
    BY <1>1, <1>8, <2>1, Numbers DEF Whole
  <2>3. \A f : Used(View', own, f) = Used(View, own, f)
    BY <1>1, <1>8, Numbers DEF Used
  <2>4. ASSUME NEW f \in File, f # file
        PROVE  IF dir[f].clus = 0 THEN Used(View', own, f) = {}
               ELSE Leads(View', dir[f].clus, Used(View', own, f))
    <3>1. CASE dir[f].clus = 0
      BY <2>3, <2>4, <3>1 DEF Whole
    <3>2. CASE dir[f].clus # 0
      <4>1. dir[f].clus \in Cluster /\ own[dir[f].clus] = f /\ Links(fats, own)
        BY <1>5, <3>2 DEF Sound, Heads
      <4>2. Leads(fats, dir[f].clus, Used(View, own, f))
        BY <1>1, <2>4, <3>2 DEF Whole
      <4>3. own[clus] # f
        BY <1>3, <2>4
      <4>4. Leads(View', dir[f].clus, Used(View, own, f))
        BY <1>1, <1>3, <1>5, <4>1, <4>2, <4>3, LeadsOther, Numbers
      <4> QED
        BY <2>3, <2>4, <3>2, <4>4
    <3> QED
      BY <3>1, <3>2
  <2>5. Whole(own)'
    BY <1>2, <1>3, <2>2, <2>4 DEF Whole
  <2>6. Leads(View', First, Mine(own) \cup {cc})
    <3>1. Leads(fats, First, (Mine(own) \ {cc}) \cup {clus})
      BY <1>1, <1>3 DEF Rest
    <3> DEFINE U == (Mine(own) \ {cc}) \cup {clus}
    <3>2. fats[clus] \notin Cluster /\ clus \in U /\ Leads(fats, First, U)
      BY <1>3, <3>1, EndIsNone
    <3> HIDE DEF U
    <3>3. Leads(View', First, U \cup {cc})
      BY <1>1, <1>3, <1>5, <3>2, LeadsLink
    <3> QED
      BY <3>3 DEF Leads, U
  <2>7. Mine(own)' = Mine(own)
    BY <1>2, <2>3 DEF Mine
  <2>8. Rest(own)'
    BY <1>1, <1>2, <1>3, <2>6, <2>7 DEF Rest, First
  <2> QED
    BY <2>5, <2>8
<1> QED
  BY <1>2, <1>10, <1>11 DEF Inv

LEMMA InvDirDone ==
  ASSUME TypeInv, NEW own \in Owner, Inv(own), DirDone
  PROVE  Inv(own)'
<1>1. /\ View = fats /\ Place = "more" /\ View' = fats /\ fats' = fats
      /\ Place' = "free" /\ job = "dir"
  BY DEF DirDone, View, Place
<1>2. /\ UNCHANGED <<dir, diskdir, file, crashes, created>>
      /\ job' = "file" /\ clus' = First /\ cc' = First /\ at' = 1
  BY DEF DirDone, disk, history, First
<1>3. First # 0 /\ dir = diskdir /\ file \in File
  BY <1>1 DEF Inv, Good, DirJob, TypeInv, Flow
<1>4. Sound(fats, own, dir) /\ fats[First] # 0 /\ fats[Root] = EOC
  BY <1>1, <1>3 DEF Inv, Good, Marked
<1>5. First \in Cluster /\ own[First] = file /\ Before(fats, First) = {}
  BY <1>3, <1>4 DEF Sound, Heads, First
<1>6. Good(own)'
  <2>1. OnDisk' /\ AtIdle' /\ Marked'
    BY <1>1, <1>2, <1>3, <1>4 DEF Inv, Good, OnDisk, AtIdle, Marked, First
  <2>2. DirJob' /\ FileJob(own)'
    BY <1>1, <1>2, <1>3, <1>5 DEF DirJob, FileJob, First
  <2>3. FreeLoop(own)' /\ WriteLoop' /\ LinkNew(own)'
    BY <1>1, <1>2, <1>4, <1>5 DEF FreeLoop, WriteLoop, LinkNew
  <2> QED
    BY <1>1, <1>2, <1>4, <2>1, <2>2, <2>3 DEF Good
<1>7. crashes = 0 => Whole(own)' /\ Rest(own)'
  <2> SUFFICES ASSUME crashes = 0, Whole(own) PROVE Whole(own)' /\ Rest(own)'
    BY DEF Inv
  <2>1. Whole(own)'
    BY <1>1, <1>2 DEF Whole, Odd
  <2>2. Leads(fats, First, Used(fats, own, file))
    BY <1>1, <1>3 DEF Whole, First
  <2>3. Rest(own)'
    BY <1>1, <1>2, <2>2 DEF Rest, Mine
  <2> QED
    BY <2>1, <2>3
<1> QED
  BY <1>2, <1>6, <1>7 DEF Inv

LEMMA InvFileDone ==
  ASSUME TypeInv, NEW own \in Owner, Inv(own), FileDone
  PROVE  Inv(own)'
<1>1. /\ View = fats /\ Place = "more" /\ View' = fats /\ fats' = fats
      /\ Place' = "idle" /\ job = "file"
  BY DEF FileDone, Reset, View, Place
<1>2. UNCHANGED <<dir, diskdir, crashes, created>> /\ job' = "dir" /\ file' = NoFile
  BY DEF FileDone, Reset, disk, history
<1>3. First # 0 /\ dir = diskdir /\ file \in File /\ fats[First] # 0
  BY <1>1 DEF Inv, Good, FileJob, WriteLoop, TypeInv, Flow
<1>4. Sound(fats, own, dir)
  BY DEF Inv, Good
<1>5. Good(own)'
  <2>1. OnDisk' /\ AtIdle'
    BY <1>2, <1>3 DEF OnDisk, AtIdle
  <2>2. Marked'
    <3>1. \A f \in File : dir[f].clus # 0 => fats[dir[f].clus] # 0
      BY <1>1, <1>3 DEF Inv, Good, Marked, First
    <3>2. fats[Root] = EOC
      BY <1>1 DEF Inv, Good, Marked
    <3> QED
      BY <1>1, <1>2, <3>1, <3>2, FileAssumption DEF Marked
  <2>3. DirJob' /\ FileJob(own)' /\ FreeLoop(own)' /\ WriteLoop' /\ LinkNew(own)'
    BY <1>1, <1>2 DEF DirJob, FileJob, FreeLoop, WriteLoop, LinkNew
  <2> QED
    BY <1>1, <1>2, <1>4, <2>1, <2>2, <2>3 DEF Good
<1>6. crashes = 0 => Whole(own)' /\ Rest(own)'
  <2> SUFFICES ASSUME crashes = 0, Whole(own), Rest(own) PROVE Whole(own)' /\ Rest(own)'
    BY DEF Inv
  <2>1. Leads(fats, First, Used(fats, own, file))
    BY <1>1 DEF Rest, Mine, Leads
  <2>2. ASSUME NEW f \in File
        PROVE  IF dir[f].clus = 0 THEN Used(fats, own, f) = {}
               ELSE Leads(fats, dir[f].clus, Used(fats, own, f))
    <3>1. CASE f = file
      BY <1>3, <2>1, <3>1 DEF First
    <3>2. CASE f # file
      BY <1>1, <3>2 DEF Whole
    <3> QED
      BY <3>1, <3>2
  <2>3. /\ \A a \in Cluster : fats[a] # 0 /\ a \notin Odd => own[a] \in File
        /\ \A a \in Odd : fats[a] # 0 /\ own[a] = NoFile
    BY <1>1 DEF Whole
  <2>4. Odd' = Odd
    BY <1>2 DEF Odd
  <2>5. Whole(own)'
    BY <1>1, <1>2, <2>2, <2>3, <2>4 DEF Whole
  <2>6. Rest(own)'
    BY <1>2 DEF Rest
  <2> QED
    BY <2>5, <2>6
<1> QED
  BY <1>2, <1>5, <1>6 DEF Inv

\* After a crash the files are those of the directory on the disk; unless one
\* of them begins with a free cluster, they do not meet.
LEMMA InvCrash ==
  ASSUME TypeInv, NEW own \in Owner, Inv(own), Crash, ~lost'
  PROVE  Inv(own)'
<1>1. /\ fats' = fats /\ View' = fats /\ Place' = "idle" /\ job' = "dir" /\ file' = NoFile
      /\ dir' = diskdir /\ diskdir' = diskdir
  BY DEF Crash, Reset, View, Place, TypeInv, DiskTypes, disk
<1>2. crashes' # 0
  BY Numbers DEF Crash, TypeInv, CountTypes
<1>3. Sound(fats, own, diskdir)
  BY SoundDisk DEF Inv, Good
<1>4. OnDisk' /\ AtIdle'
  BY <1>1 DEF OnDisk, AtIdle
<1>5. Marked'
  <2>1. fats[Root] # 0 /\ \A f \in File : diskdir[f].clus # 0 => fats[diskdir[f].clus] # 0
    BY DEF Crash, ChainLost, TypeInv, DiskTypes
  <2>2. fats[Root] = EOC
    BY <1>3, <2>1 DEF Sound, Values
  <2> QED
    BY <1>1, <2>1, <2>2, FileAssumption DEF Marked
<1>6. DirJob' /\ FileJob(own)' /\ FreeLoop(own)' /\ WriteLoop' /\ LinkNew(own)'
  BY <1>1 DEF DirJob, FileJob, FreeLoop, WriteLoop, LinkNew
<1>7. Good(own)'
  BY <1>1, <1>3, <1>4, <1>5, <1>6 DEF Good
<1> QED
  BY <1>2, <1>7 DEF Inv

-------------------------------------------------------------------------------
(* The invariant *)

LEMMA CopiesNext ==
  ASSUME TypeInv, [Next]_vars, crashes' = 0, crashes = 0 => Copies
  PROVE  Copies' /\ lost' = lost /\ crashes = 0
<1>1. /\ ~Crash
      /\ UNCHANGED <<lost, created, crashes>>
  <2>1. ~Crash
    BY Numbers DEF Crash, TypeInv, CountTypes
  <2> QED
    BY <2>1 DEF Next, Step, vars, history, WriteF, FatFirst, FatSecond, DiskFull, AllocFirst,
       FreeChain, FreedAlready, WriteData, Extend, AllocNext, LinkNext, DirDone, Misread, FileDone
<1>2. Odd' = Odd
  BY <1>1 DEF Odd
<1>3. CASE FatFirst
  <2>1. \A e \in Entry \ Odd : fat2[e] = fats[e]
    BY <1>1, <1>3 DEF Copies, FatFirst
  <2>2. fats' = [fats EXCEPT ![ind] = dt] /\ fat2' = fat2 /\ pc' = "fat2" /\ ind' = ind
    BY <1>3 DEF FatFirst
  <2>3. \A e \in Entry : e # ind => fats'[e] = fats[e]
    BY <2>2 DEF TypeInv, DiskTypes
  <2> QED
    BY <1>1, <1>2, <2>1, <2>2, <2>3 DEF Copies
<1>4. CASE FatSecond
  <2>1. fats' = fats /\ fat2' = SectorFrom(fat2, fats, ind)
    BY <1>4 DEF FatSecond
  <2>2. \A e \in Entry \ Odd : fat2[e] = fats[e] \/ e \div PerSector = ind \div PerSector
    BY <1>1 DEF Copies
  <2> QED
    BY <1>1, <1>2, <2>1, <2>2 DEF Copies, SectorFrom
<1>5. CASE UNCHANGED vars
  BY <1>1, <1>5 DEF Copies, Odd, vars, disk, history
<1>6. CASE ~FatFirst /\ ~FatSecond /\ Next
  <2>1. pc # "fat2" /\ UNCHANGED <<fats, fat2>>
    BY <1>1, <1>6 DEF Next, Step, disk, WriteF, DiskFull, AllocFirst,
       FreeChain, FreedAlready, WriteData, Extend, AllocNext, LinkNext, DirDone, Misread, FileDone
  <2> QED
    BY <1>1, <1>2, <2>1 DEF Copies
<1> QED
  BY <1>1, <1>3, <1>4, <1>5, <1>6

LEMMA InvNext ==
  ASSUME TypeInv, [Next]_vars, NEW own \in Owner, Inv(own), ~lost'
  PROVE  \E o \in Owner : Inv(o)'
<1>1. CASE UNCHANGED vars
  <2>1. View' = View /\ Place' = Place
    BY <1>1 DEF vars, View, Place
  <2>2. UNCHANGED <<dir, diskdir, fats, job, file, clus, at, cc, crashes, created>>
    BY <1>1 DEF vars, disk, call, chain, history
  <2>3. Good(own)'
    <3>1. Sound(fats', own, dir') /\ Sound(View', own, dir')
      BY <2>1, <2>2 DEF Inv, Good
    <3>2. OnDisk' /\ Marked' /\ AtIdle' /\ DirJob' /\ FileJob(own)'
      BY <2>1, <2>2 DEF Inv, Good, OnDisk, Marked, AtIdle, DirJob, FileJob, First
    <3>3. FreeLoop(own)' /\ WriteLoop' /\ LinkNew(own)'
      BY <2>1, <2>2 DEF Inv, Good, FreeLoop, WriteLoop, LinkNew, First
    <3> QED
      BY <3>1, <3>2, <3>3 DEF Good
  <2>4. crashes = 0 => Whole(own)'
    BY <2>1, <2>2 DEF Inv, Whole, Odd
  <2>5. crashes = 0 => Rest(own)'
    BY <2>1, <2>2 DEF Inv, Rest, Mine, First
  <2> QED
    BY <2>2, <2>3, <2>4, <2>5 DEF Inv
<1>2. CASE Crash
  BY <1>2, InvCrash
<1>3. CASE \E f \in File, n \in 1..MaxBlocks : WriteF(f, n)
  BY <1>3, InvWriteF
<1>4. CASE Step
  <2>1. CASE FatFirst \/ FatSecond
    BY <2>1, InvWriteFat
  <2>2. CASE FreeChain \/ FreedAlready
    BY <2>2, InvFreeDir, InvFreeFile, NeverFreed DEF TypeInv, CallTypes
  <2>3. CASE WriteData
    BY <2>3, InvDataDir, InvDataFile DEF TypeInv, CallTypes
  <2>4. CASE DiskFull \/ Extend \/ Misread
    BY <2>4, InvDiskFull, InvExtend, InvMisread
  <2>5. CASE AllocFirst \/ AllocNext
    BY <2>5, InvAllocFirst, InvAllocNext
  <2>6. CASE LinkNext
    BY <2>6, InvLinkNext
  <2>7. CASE DirDone \/ FileDone
    BY <2>7, InvDirDone, InvFileDone
  <2> QED
    BY <1>4, <2>1, <2>2, <2>3, <2>4, <2>5, <2>6, <2>7 DEF Step
<1> QED
  BY <1>1, <1>2, <1>3, <1>4 DEF Next

LEMMA IInvInit == Init => IInv
<1> SUFFICES ASSUME Init PROVE IInv
  OBVIOUS
<1>1. TypeInv
  BY TypeInit
<1>2. PICK own \in Owner : own = [c \in Cluster |-> NoFile]
  <2>1. [c \in Cluster |-> NoFile] \in Owner
    BY DEF Owner
  <2> QED
    BY <2>1
<1>3. View = fats /\ Place = "idle" /\ job = "dir" /\ file = NoFile /\ dir = diskdir
  BY DEF Init, View, Place
<1>4. \A f \in File : dir[f].clus = 0
  BY DEF Init
<1>5. /\ \A e \in Entry : fats[e] = IF e <= Root \/ e \in Odd THEN EOC ELSE 0
      /\ \A e \in Entry : fat2[e] = IF e <= Root THEN EOC ELSE 0
  BY DEF Init, Formatted, Odd
<1>6. /\ \A a \in Cluster : fats[a] = IF a \in Odd THEN EOC ELSE 0
      /\ fats[0] = EOC /\ fats[1] = EOC /\ fats[Root] = EOC
  <2>1. \A a \in Cluster : a \in Entry /\ ~(a <= Root)
    BY Numbers DEF Cluster, Root
  <2>2. 0 <= Root /\ 1 <= Root /\ Root <= Root /\ 1 \in Entry
    BY Numbers DEF Root, Entry
  <2> QED
    BY <1>5, <2>1, <2>2, Numbers
<1>7. EOC # 0 /\ Odd \subseteq Cluster
  BY FatAssumption DEF EOC, Odd, Junk, Cluster
<1>8. Good(own)
  <2>1. Sound(fats, own, dir)
    BY <1>4, <1>6, EndIsNone DEF Sound, Values, Links, Apart, Heads
  <2>2. OnDisk /\ Marked /\ AtIdle
    BY <1>3, <1>4, <1>6, FileAssumption DEF OnDisk, Marked, AtIdle
  <2>3. DirJob /\ FileJob(own) /\ FreeLoop(own) /\ WriteLoop /\ LinkNew(own)
    BY <1>3 DEF DirJob, FileJob, FreeLoop, WriteLoop, LinkNew
  <2> QED
    BY <1>3, <2>1, <2>2, <2>3 DEF Good
<1>9. Whole(own)
  <2>1. /\ \A a \in Cluster : fats[a] # 0 /\ a \notin Odd => own[a] \in File
        /\ \A a \in Odd : fats[a] # 0 /\ own[a] = NoFile
    BY <1>2, <1>6, <1>7
  <2>2. \A f \in File : Used(fats, own, f) = {}
    BY <1>2, FileAssumption DEF Used
  <2> QED
    BY <1>3, <1>4, <2>1, <2>2 DEF Whole
<1>10. Rest(own)
  BY <1>3 DEF Rest
<1>11. Copies
  <2>1. \A e \in Entry \ Odd : fat2[e] = fats[e]
    BY <1>5
  <2> QED
    BY <2>1 DEF Copies
<1>12. ~lost
  BY DEF Init
<1> QED
  BY <1>1, <1>8, <1>9, <1>10, <1>11, <1>12 DEF IInv, Inv

LEMMA IInvNext == IInv /\ [Next]_vars => IInv'
<1> SUFFICES ASSUME IInv, [Next]_vars PROVE IInv'
  OBVIOUS
<1>1. TypeInv /\ TypeInv'
  BY TypeNext DEF IInv
<1>2. ~lost' => ~lost
  BY DEF Next, Step, vars, history, WriteF, FatFirst, FatSecond, DiskFull, AllocFirst, Crash,
     FreeChain, FreedAlready, WriteData, Extend, AllocNext, LinkNext, DirDone, Misread, FileDone
<1>3. ~lost' => \E own \in Owner : Inv(own)'
  BY <1>1, <1>2, InvNext DEF IInv
<1>4. crashes' = 0 => ~lost' /\ Copies'
  BY <1>1, CopiesNext DEF IInv
<1> QED
  BY <1>1, <1>3, <1>4 DEF IInv

\* The types, who owns which cluster, and what the copies agree on are kept.
THEOREM Inductive == Spec => []IInv
  BY IInvInit, IInvNext, PTL DEF Spec

-------------------------------------------------------------------------------
(* The properties *)

\* The clusters of a file's chain on the disk are its own, and none is free
\* unless the first one is.
LEMMA ReachOwn ==
  ASSUME TypeInv, NEW own \in Owner, Good(own), NEW f \in File
  PROVE  /\ Reach(diskdir[f].clus) \subseteq {c \in Cluster : own[c] = f}
         /\ diskdir[f].clus # 0 /\ fat1[diskdir[f].clus] # 0
              => Reach(diskdir[f].clus) \subseteq {c \in Cluster : fat1[c] # 0}
<1>1. fat1 \in [Entry -> FatValue] /\ fat1 = fats /\ diskdir[f].clus \in Entry
  BY DEF TypeInv, DiskTypes
<1>2. Sound(fat1, own, diskdir)
  BY <1>1, SoundDisk DEF Good
<1>3. diskdir[f].clus # 0 => diskdir[f].clus \in Cluster /\ own[diskdir[f].clus] = f
  BY <1>2 DEF Sound, Heads
<1> DEFINE Own == {c \in Cluster : own[c] = f}
           Taken == {c \in Cluster : fat1[c] # 0}
<1>4. Closed(fat1, Own) /\ Closed(fat1, Taken)
  BY <1>2 DEF Sound, Links, Closed
<1>5. Own \in SUBSET Entry /\ Taken \in SUBSET Entry
  BY Numbers
<1>6. diskdir[f].clus # 0 => diskdir[f].clus \in Own
  BY <1>3
<1>7. diskdir[f].clus # 0 /\ fat1[diskdir[f].clus] # 0 => diskdir[f].clus \in Taken
  BY <1>3
<1> HIDE DEF Own, Taken
<1>8. Reach(diskdir[f].clus) \subseteq Own
  BY <1>1, <1>4, <1>5, <1>6, ReachLeast
<1>9. diskdir[f].clus # 0 /\ fat1[diskdir[f].clus] # 0 => Reach(diskdir[f].clus) \subseteq Taken
  BY <1>1, <1>4, <1>5, <1>7, ReachLeast
<1> QED
  BY <1>8, <1>9 DEF Own, Taken

\* What is written to one file never lands in another, unless a crash has left
\* a file that begins with a free cluster.
THEOREM Apartness == Spec => []ChainsApart
<1>1. IInv => ChainsApart
  <2> SUFFICES ASSUME IInv PROVE ChainsApart
    OBVIOUS
  <2>1. TypeInv /\ TypeOK
    BY TypeCorrect DEF IInv
  <2>2. ASSUME ~lost, NEW f \in File, NEW g \in File, f # g
        PROVE  Reach(diskdir[f].clus) \cap Reach(diskdir[g].clus) = {}
    <3>1. PICK own \in Owner : Good(own)
      BY <2>2 DEF IInv, Inv
    <3>2. /\ Reach(diskdir[f].clus) \subseteq {c \in Cluster : own[c] = f}
          /\ Reach(diskdir[g].clus) \subseteq {c \in Cluster : own[c] = g}
      BY <2>1, <3>1, ReachOwn
    <3> QED
      BY <2>2, <3>2
  <2> QED
    BY <2>1, <2>2 DEF ChainsApart
<1> QED
  BY <1>1, Inductive, PTL

\* Between calls, without a crash, the clusters in use are those of the files,
\* and both copies of the FAT and the FAT in memory agree.
THEOREM NothingLeaks == Spec => []NoLeak
<1>1. IInv => NoLeak
  <2> SUFFICES ASSUME IInv, pc = "idle", crashes = 0
               PROVE  /\ fats = fat1 /\ dir = diskdir
                      /\ \A e \in Entry \ Odd : fat2[e] = fat1[e]
                      /\ {c \in 3..Last : fat1[c] # 0} =
                             Odd \cup UNION {Reach(diskdir[f].clus) : f \in File}
    BY DEF NoLeak, Odd
  <2>1. TypeInv /\ Copies /\ fats = fat1 /\ View = fat1 /\ Place = "idle"
    BY DEF IInv, TypeInv, DiskTypes, View, Place
  <2>2. PICK own \in Owner : Good(own) /\ Whole(own)
    BY DEF IInv, Inv
  <2>3. dir = diskdir /\ \A f \in File : f # file
    BY <2>1, <2>2, FileAssumption DEF Good, AtIdle, TypeInv, Flow
  <2>4. \A e \in Entry \ Odd : fat2[e] = fat1[e]
    BY <2>1 DEF Copies
  <2>5. ASSUME NEW c \in Cluster, fat1[c] # 0, c \notin Odd
        PROVE  \E f \in File : c \in Reach(diskdir[f].clus)
    <3>1. own[c] \in File /\ c \in Used(fat1, own, own[c])
      BY <2>1, <2>2, <2>5 DEF Whole, Used
    <3> DEFINE h == diskdir[own[c]].clus
    <3>2. h # 0 /\ Leads(fat1, h, Used(fat1, own, own[c]))
      BY <2>1, <2>2, <2>3, <3>1 DEF Whole
    <3>3. Reach(h) \in SUBSET Cluster
      BY <2>1, <2>2, <3>1, ReachOwn
    <3>4. Closed(fat1, Reach(h)) /\ h \in Reach(h)
      BY <2>1, <3>1, <3>2, ReachClosed DEF TypeInv, DiskTypes
    <3>5. c \in Reach(h)
      BY <3>1, <3>2, <3>3, <3>4 DEF Leads
    <3> QED
      BY <3>1, <3>5
  <2>6. ASSUME NEW f \in File
        PROVE  Reach(diskdir[f].clus) \subseteq {c \in Cluster : fat1[c] # 0}
    <3>1. CASE diskdir[f].clus = 0
      <4>1. Closed(fat1, {}) /\ {} \in SUBSET Entry /\ 0 \in Entry
        BY Numbers DEF Closed
      <4>2. Reach(0) \subseteq {}
        BY <2>1, <4>1, ReachLeast DEF TypeInv, DiskTypes
      <4> QED
        BY <3>1, <4>2
    <3>2. CASE diskdir[f].clus # 0
      <4>1. fat1[diskdir[f].clus] # 0
        BY <2>1, <2>2, <2>3, <3>2 DEF Good, Marked
      <4> QED
        BY <2>1, <2>2, <3>2, <4>1, ReachOwn
    <3> QED
      BY <3>1, <3>2
  <2>7. Odd \subseteq {c \in Cluster : fat1[c] # 0}
    BY <2>1, <2>2 DEF Whole, Odd, Junk, Cluster
  <2>8. {c \in Cluster : fat1[c] # 0} = Odd \cup UNION {Reach(diskdir[f].clus) : f \in File}
    BY <2>5, <2>6, <2>7
  <2> QED
    BY <2>1, <2>3, <2>4, <2>8 DEF Cluster
<1> QED
  BY <1>1, Inductive, PTL

-------------------------------------------------------------------------------
(* What a file holds *)

\* w is the walk over the FAT m from c, and n its length, at most as long as
\* the disk; s is what it finds in data D.
WalkOf(m, c, w, n) ==
  /\ w \in [1..(Last + 1) -> FatValue] /\ n \in 0..Last
  /\ w[1] = c
  /\ \A k \in 2..(Last + 1) : w[k] = IF w[k - 1] \in Cluster THEN m[w[k - 1]] ELSE 0
  /\ \A k \in 1..n : w[k] \in Cluster
  /\ n < Last => w[n + 1] \notin Cluster

Contents(m, D, c, s) == \E w, n : WalkOf(m, c, w, n) /\ s = [k \in 1..n |-> D[w[k]]]

LEMMA StoredContents ==
  DiskTypes => \A f \in File : Contents(fat1, data, GetClus(diskdir[f].clus), Stored(f))
<1> SUFFICES ASSUME DiskTypes, NEW f \in File
             PROVE  Contents(fat1, data, GetClus(diskdir[f].clus), Stored(f))
  OBVIOUS
<1>1. PICK w, n : Walks(f, w, n)
  BY StoredSteps DEF DiskTypes
<1>2. WalkOf(fat1, GetClus(diskdir[f].clus), w, n) /\ Stored(f) = [k \in 1..n |-> data[w[k]]]
  BY <1>1 DEF Walks, WalkOf
<1> QED
  BY <1>2 DEF Contents

\* What is found from c depends on what can be reached from c.
LEMMA ContentsSame ==
  ASSUME NEW m, NEW D, NEW c, NEW s, Contents(m, D, c, s),
         NEW m2, NEW D2, NEW s2, Contents(m2, D2, c, s2),
         NEW S, c \in Cluster => c \in S, Closed(m, S),
         \A a \in S : m2[a] = m[a] /\ D2[a] = D[a]
  PROVE  s = s2
<1> USE LastType
<1>1. PICK w, n : WalkOf(m, c, w, n) /\ s = [k \in 1..n |-> D[w[k]]]
  BY DEF Contents
<1>2. PICK w2, n2 : WalkOf(m2, c, w2, n2) /\ s2 = [k \in 1..n2 |-> D2[w2[k]]]
  BY DEF Contents
<1> DEFINE T == {k \in 0..Last : w2[k + 1] = w[k + 1] /\ (w[k + 1] \in Cluster => w[k + 1] \in S)}
<1>3. 0 \in T
  BY <1>1, <1>2 DEF WalkOf
<1>4. ASSUME NEW k \in 0..(Last - 1), k \in T PROVE k + 1 \in T
  <2>1. k + 2 \in 2..(Last + 1) /\ k + 2 - 1 = k + 1 /\ k + 1 + 1 = k + 2 /\ k + 1 \in 0..Last
    OBVIOUS
  <2>2. /\ w[k + 2] = IF w[k + 1] \in Cluster THEN m[w[k + 1]] ELSE 0
        /\ w2[k + 2] = IF w2[k + 1] \in Cluster THEN m2[w2[k + 1]] ELSE 0
    BY <1>1, <1>2, <2>1 DEF WalkOf
  <2>3. w2[k + 1] = w[k + 1] /\ (w[k + 1] \in Cluster => w[k + 1] \in S)
    BY <1>4
  <2>4. CASE w[k + 1] \in Cluster
    <3>1. w[k + 1] \in S /\ w[k + 2] = m[w[k + 1]] /\ w2[k + 2] = w[k + 2]
      BY <2>2, <2>3, <2>4
    <3>2. w[k + 2] \in Cluster => w[k + 2] \in S
      BY <3>1 DEF Closed
    <3> QED
      BY <2>1, <3>1, <3>2
  <2>5. CASE w[k + 1] \notin Cluster
    <3>1. w[k + 2] = 0 /\ w2[k + 2] = 0 /\ 0 \notin Cluster
      BY <2>2, <2>3, <2>5, EndIsNone
    <3> QED
      BY <2>1, <3>1
  <2> QED
    BY <2>4, <2>5
<1> HIDE DEF T
<1>5. 0..Last \subseteq T
  BY <1>3, <1>4, Induction
<1>6. ASSUME NEW k \in 1..(Last + 1)
      PROVE  w2[k] = w[k] /\ (w[k] \in Cluster => w[k] \in S)
  <2>1. k - 1 \in T /\ k - 1 + 1 = k
    BY <1>5
  <2> QED
    BY <2>1 DEF T
<1>7. n \in 0..Last /\ n2 \in 0..Last
  BY <1>1, <1>2 DEF WalkOf
<1>8. n = n2
  <2>1. ~(n < n2)
    <3> SUFFICES ASSUME n < n2 PROVE FALSE
      OBVIOUS
    <3>1. n + 1 \in 1..n2 /\ n < Last /\ n + 1 \in 1..(Last + 1)
      BY <1>7
    <3> QED
      BY <1>1, <1>2, <1>6, <3>1 DEF WalkOf
  <2>2. ~(n2 < n)
    <3> SUFFICES ASSUME n2 < n PROVE FALSE
      OBVIOUS
    <3>1. n2 + 1 \in 1..n /\ n2 < Last /\ n2 + 1 \in 1..(Last + 1)
      BY <1>7
    <3> QED
      BY <1>1, <1>2, <1>6, <3>1 DEF WalkOf
  <2> QED
    BY <1>7, <2>1, <2>2
<1>9. ASSUME NEW k \in 1..n PROVE D2[w2[k]] = D[w[k]]
  <2>1. k \in 1..(Last + 1) /\ w[k] \in Cluster
    BY <1>1, <1>7 DEF WalkOf
  <2>2. w2[k] = w[k] /\ w[k] \in S
    BY <1>6, <2>1
  <2> QED
    BY <2>2
<1> QED
  BY <1>1, <1>2, <1>8, <1>9

\* A chain that ends where c does not lead.
LEMMA ContentsNone ==
  ASSUME NEW m, NEW D, NEW c, NEW s, Contents(m, D, c, s), c \notin Cluster
  PROVE  s = <<>>
<1>1. PICK w, n : WalkOf(m, c, w, n) /\ s = [k \in 1..n |-> D[w[k]]]
  BY DEF Contents
<1>2. n = 0
  BY <1>1, LastType DEF WalkOf
<1> QED
  BY <1>1, <1>2

\* What is found along a chain without repetitions
LEMMA ContentsChain ==
  ASSUME NEW m, NEW D, NEW c, NEW s, Contents(m, D, c, s),
         NEW n \in Nat, n # 0, NEW q \in [1..n -> Cluster],
         \A i, j \in 1..n : q[i] = q[j] => i = j,
         q[1] = c, \A i \in 1..(n - 1) : m[q[i]] = q[i + 1], m[q[n]] \notin Cluster
  PROVE  s = [k \in 1..n |-> D[q[k]]]
<1> USE LastType
<1>1. PICK w, l : WalkOf(m, c, w, l) /\ s = [k \in 1..l |-> D[w[k]]]
  BY DEF Contents
<1>2. n <= Last
  <2>1. q \in Injection(1..n, Cluster)
    BY DEF Injection, IsInjective
  <2>2. IsFiniteSet(Cluster) /\ Cardinality(Cluster) = Last - 2
    BY FS_Interval DEF Cluster
  <2>3. Cardinality(1..n) <= Cardinality(Cluster)
    BY <2>1, <2>2, FS_Injection
  <2>4. Cardinality(1..n) = n
    BY FS_Interval
  <2> QED
    BY <2>2, <2>3, <2>4
<1> DEFINE T == {k \in 0..(n - 1) : w[k + 1] = q[k + 1]}
<1>3. 0 \in T
  BY <1>1 DEF WalkOf
<1>4. ASSUME NEW k \in 0..(n - 1 - 1), k \in T PROVE k + 1 \in T
  <2>1. k + 2 \in 2..(Last + 1) /\ k + 2 - 1 = k + 1 /\ k + 1 + 1 = k + 2 /\ k + 1 \in 1..(n - 1)
    BY <1>2
  <2>2. w[k + 2] = IF w[k + 1] \in Cluster THEN m[w[k + 1]] ELSE 0
    BY <1>1, <2>1 DEF WalkOf
  <2>3. w[k + 1] = q[k + 1] /\ q[k + 1] \in Cluster /\ m[q[k + 1]] = q[k + 2]
    BY <1>4, <2>1
  <2> QED
    BY <2>1, <2>2, <2>3
<1> HIDE DEF T
<1>5. 0..(n - 1) \subseteq T
  <2>1. n - 1 \in Nat
    OBVIOUS
  <2> QED
    BY <1>3, <1>4, <2>1, Induction
<1>6. ASSUME NEW k \in 1..n PROVE w[k] = q[k]
  <2>1. k - 1 \in T /\ k - 1 + 1 = k
    BY <1>5
  <2> QED
    BY <2>1 DEF T
<1>7. w[n + 1] \notin Cluster /\ \A k \in 1..n : w[k] \in Cluster
  <2>1. n + 1 \in 2..(Last + 1) /\ n + 1 - 1 = n /\ n \in 1..n
    BY <1>2
  <2>2. w[n + 1] = IF w[n] \in Cluster THEN m[w[n]] ELSE 0
    BY <1>1, <2>1 DEF WalkOf
  <2> QED
    BY <1>6, <2>1, <2>2
<1>8. l = n
  <2>1. l \in 0..Last
    BY <1>1 DEF WalkOf
  <2>2. ~(l < n)
    <3> SUFFICES ASSUME l < n PROVE FALSE
      OBVIOUS
    <3>1. l + 1 \in 1..n /\ l < Last
      BY <1>2, <2>1
    <3> QED
      BY <1>1, <1>7, <3>1 DEF WalkOf
  <2>3. ~(n < l)
    <3> SUFFICES ASSUME n < l PROVE FALSE
      OBVIOUS
    <3>1. n + 1 \in 1..l
      BY <2>1
    <3> QED
      BY <1>1, <1>7, <3>1 DEF WalkOf
  <2> QED
    BY <2>1, <2>2, <2>3
<1> QED
  BY <1>1, <1>6, <1>8

LEMMA ContentsOne ==
  ASSUME NEW m, NEW D, NEW c \in Cluster, NEW s, Contents(m, D, c, s), m[c] \notin Cluster
  PROVE  s = <<D[c]>>
<1>1. PICK n \in Nat : n = 1
  OBVIOUS
<1>2. PICK q \in [1..n -> Cluster] : \A i \in 1..n : q[i] = c
  <2> DEFINE r == [i \in 1..n |-> c]
  <2>1. r \in [1..n -> Cluster] /\ \A i \in 1..n : r[i] = c
    OBVIOUS
  <2> HIDE DEF r
  <2> QED
    BY <2>1
<1>3. n # 0 /\ (\A i, j \in 1..n : i = j) /\ 1 \in 1..n /\ n \in 1..n
  BY <1>1
<1>4. \A i \in 1..(n - 1) : m[q[i]] = q[i + 1]
  BY <1>1
<1>5. \A i, j \in 1..n : q[i] = q[j] => i = j
  BY <1>3
<1>6. s = [k \in 1..n |-> D[q[k]]]
  BY <1>2, <1>3, <1>4, <1>5, ContentsChain
<1>7. s = [k \in 1..n |-> D[c]]
  BY <1>2, <1>6
<1> QED
  BY <1>1, <1>7

LEMMA StoredContentsNext ==
  DiskTypes' => \A f \in File : Contents(fat1', data', GetClus(diskdir'[f].clus), Stored(f)')
<1>1. (DiskTypes => \A f \in File : Contents(fat1, data, GetClus(diskdir[f].clus), Stored(f)))'
  BY StoredContents, PTL
<1> QED
  BY <1>1

\* A file whose chain and blocks a step leaves alone
LEMMA StoredSame ==
  ASSUME DiskTypes, DiskTypes', NEW g \in File, diskdir'[g].clus = diskdir[g].clus,
         NEW S \in SUBSET Cluster, Closed(fat1, S),
         diskdir[g].clus # 0 => diskdir[g].clus \in S,
         \A a \in S : fat1'[a] = fat1[a] /\ data'[a] = data[a]
  PROVE  Stored(g)' = Stored(g)
<1>1. /\ Contents(fat1, data, GetClus(diskdir[g].clus), Stored(g))
      /\ Contents(fat1', data', GetClus(diskdir[g].clus), Stored(g)')
  BY StoredContents, StoredContentsNext
<1>2. GetClus(diskdir[g].clus) \in Cluster => GetClus(diskdir[g].clus) \in S
  BY EndIsNone, GetClusCases
<1> QED
  BY <1>1, <1>2, ContentsSame

\* It holds the same, too, if nothing but the second FAT and the call changes.
LEMMA StoredStill ==
  ASSUME DiskTypes, DiskTypes', NEW g \in File, diskdir'[g].clus = diskdir[g].clus,
         UNCHANGED <<fat1, data>>
  PROVE  Stored(g)' = Stored(g)
<1>1. Closed(fat1, Cluster) /\ Cluster \in SUBSET Cluster
  BY DEF Closed
<1>2. /\ Contents(fat1, data, GetClus(diskdir[g].clus), Stored(g))
      /\ Contents(fat1, data, GetClus(diskdir[g].clus), Stored(g)')
  BY StoredContents, StoredContentsNext
<1> QED
  BY <1>1, <1>2, ContentsSame

-------------------------------------------------------------------------------
(* What the files hold while writef() is under way                          *)

\* The i-th block of the call under way
New(i) == [op |-> ops, at |-> i]

\* In the FAT m, c is the first and e the last of n clusters, of which the first
\* h hold, in D, the blocks of call o.
Chain(m, D, o, c, n, e, h) ==
  \E q \in [1..n -> Cluster] :
    /\ \A i, j \in 1..n : q[i] = q[j] => i = j
    /\ q[1] = c /\ q[n] = e
    /\ \A i \in 1..(n - 1) : m[q[i]] = q[i + 1]
    /\ m[e] = EOC
    /\ \A i \in 1..h : D[q[i]] = [op |-> o, at |-> i]
Written(n, e, h) == Chain(fat1, data, ops, First, n, e, h)

Kept == \A g \in File : g # file => Stored(g) = before[g]
\* x is on no chain that starts where g's does.
Clear(x, g) == \E S \in SUBSET Cluster : /\ Closed(fat1, S)
                                         /\ diskdir[g].clus # 0 => diskdir[g].clus \in S
                                         /\ x \notin S
Aside == pc = "fat" => \A g \in File : g # file \/ job = "dir" => Clear(ind, g)

Intact == \/ Stored(file) = before[file]
          \/ before[file] = <<>> /\ \E b \in Block : Stored(file) = <<b>>
Newborn == job = "dir" /\ diskdir[file].clus = 0 /\ First # 0 => View[First] = EOC
Gone == First # 0 /\ fat1[First] = 0

Freeing == Place = "free" \/ (Place = "data" /\ at = 1) =>
             /\ pc = "fat" => dt = 0
             /\ \/ Gone
                \/ /\ Intact
                   /\ \/ pc = "free" /\ cc = First
                      \/ pc = "fat" /\ ind = First

AtFirst == pc = "fat" /\ Place = "more" /\ at = 1
FirstBlock == AtFirst => Gone /\ ind = First /\ clus = First /\ dt = EOC /\ data[First] = New(1)

Writing == Place \in {"more", "extend", "link"} /\ ~AtFirst =>
             /\ Written(at, clus, at)
             /\ pc = "fat" => dt = EOC /\ IF Place = "link" THEN fat1[ind] = 0 ELSE ind = clus

Linking == Place = "data" /\ at > 1 =>
             IF pc = "fat" THEN /\ Written(at - 1, ind, at - 1)
                                /\ dt = clus /\ clus # ind /\ fat1[clus] = EOC
             ELSE Written(at, clus, at - 1)

Progress == /\ at <= size /\ Kept /\ Aside
            /\ job = "dir" => Intact /\ Newborn
            /\ job = "file" => Freeing /\ FirstBlock /\ Writing /\ Linking

Content == ~lost /\ pc \notin {"idle", "wild"} => Progress

-------------------------------------------------------------------------------
(* The steps of writef(), and what they do to the files                     *)

\* A cluster that is the file's, or nobody's, or no cluster at all, is on no
\* other file's chain.
LEMMA ClearOf ==
  ASSUME TypeInv, NEW own \in Owner, Good(own), NEW g \in File, g # file, NEW x,
         x \notin Cluster \/ own[x] = file \/ (View = fats /\ fats[x] = 0)
  PROVE  Clear(x, g)
<1> DEFINE S == {a \in Cluster : own[a] = g /\ fat1[a] # 0}
           T == {a \in Cluster : own[a] = g}
<1>1. fat1 = fats /\ Sound(fat1, own, diskdir)
  BY SoundDisk DEF Good, TypeInv, DiskTypes
<1>2. Closed(fat1, S) /\ Closed(fat1, T)
  BY <1>1 DEF Sound, Links, Closed
<1>3. diskdir[g].clus # 0 => diskdir[g].clus \in T
  BY <1>1 DEF Sound, Heads
<1>4. View = fats /\ diskdir[g].clus # 0 => diskdir[g].clus \in S
  BY <1>1, <1>3 DEF Good, OnDisk, Marked
<1>5. S \in SUBSET Cluster /\ T \in SUBSET Cluster
  OBVIOUS
<1>6. CASE x \notin Cluster \/ own[x] = file
  BY <1>2, <1>3, <1>5, <1>6 DEF Clear
<1>7. CASE View = fats /\ fats[x] = 0
  <2>1. x \notin S
    BY <1>1, <1>7
  <2> HIDE DEF S
  <2> QED
    BY <1>2, <1>4, <1>5, <1>7, <2>1 DEF Clear
<1> QED
  BY <1>6, <1>7

\* A file without a cluster has no chain.
LEMMA ClearNone ==
  ASSUME NEW g, NEW x, diskdir[g].clus = 0
  PROVE  Clear(x, g)
<1>1. {} \in SUBSET Cluster /\ Closed(fat1, {})
  BY DEF Closed
<1> QED
  BY <1>1 DEF Clear

\* A write to an entry that is on no chain of g's, or to a block there
LEMMA StoredClear ==
  ASSUME DiskTypes, DiskTypes', NEW g \in File, diskdir'[g].clus = diskdir[g].clus,
         NEW x, Clear(x, g),
         \A a \in Cluster : a # x => fat1'[a] = fat1[a] /\ data'[a] = data[a]
  PROVE  Stored(g)' = Stored(g)
<1>1. PICK S \in SUBSET Cluster : /\ Closed(fat1, S)
                                  /\ diskdir[g].clus # 0 => diskdir[g].clus \in S
                                  /\ x \notin S
  BY DEF Clear
<1>2. \A a \in S : fat1'[a] = fat1[a] /\ data'[a] = data[a]
  BY <1>1
<1> QED
  BY <1>1, <1>2, StoredSame

-------------------------------------------------------------------------------
(* How the new chain grows                                                  *)

\* A write to a free cluster, or of what is there already
LEMMA ChainSame ==
  ASSUME NEW m, NEW D, NEW o, NEW c, NEW n \in Nat \ {0}, NEW e, NEW h,
         Chain(m, D, o, c, n, e, h),
         NEW m2, \A a \in Cluster : m[a] # 0 => m2[a] = m[a]
  PROVE  Chain(m2, D, o, c, n, e, h)
<1>1. PICK q \in [1..n -> Cluster] :
        /\ \A i, j \in 1..n : q[i] = q[j] => i = j
        /\ q[1] = c /\ q[n] = e
        /\ \A i \in 1..(n - 1) : m[q[i]] = q[i + 1]
        /\ m[e] = EOC
        /\ \A i \in 1..h : D[q[i]] = [op |-> o, at |-> i]
  BY DEF Chain
<1>2. EOC # 0 /\ e \in Cluster
  BY <1>1, FatAssumption DEF EOC
<1>3. m2[e] = EOC
  BY <1>1, <1>2
<1>4. ASSUME NEW i \in 1..(n - 1) PROVE m2[q[i]] = q[i + 1]
  <2>1. i \in 1..n /\ i + 1 \in 1..n
    OBVIOUS
  <2>2. q[i] \in Cluster /\ q[i + 1] \in Cluster /\ q[i + 1] # 0
    BY <2>1, EndIsNone
  <2> QED
    BY <1>1, <2>2
<1> QED
  BY <1>1, <1>3, <1>4 DEF Chain

LEMMA ChainFirst ==
  ASSUME NEW m, NEW D, NEW o, NEW c \in Cluster, m[c] = EOC, D[c] = [op |-> o, at |-> 1]
  PROVE  Chain(m, D, o, c, 1, c, 1)
<1>1. PICK q \in [1..1 -> Cluster] : q[1] = c
  <2> DEFINE r == [i \in 1..1 |-> c]
  <2>1. r \in [1..1 -> Cluster] /\ r[1] = c
    OBVIOUS
  <2> HIDE DEF r
  <2> QED
    BY <2>1
<1>2. \A i \in 1..1 : i = 1
  OBVIOUS
<1>3. \A i \in 1..(1 - 1) : FALSE
  OBVIOUS
<1>4. \A i \in 1..1 : D[q[i]] = [op |-> o, at |-> i]
  BY <1>1, <1>2
<1>5. \A i, j \in 1..1 : q[i] = q[j] => i = j
  BY <1>2
<1> QED
  BY <1>1, <1>3, <1>4, <1>5 DEF Chain

\* The last cluster gets its block.
LEMMA ChainData ==
  ASSUME NEW m, NEW D, NEW o, NEW c, NEW n \in Nat \ {0}, NEW e,
         Chain(m, D, o, c, n, e, n - 1),
         NEW D2, D2[e] = [op |-> o, at |-> n], \A a \in Cluster : a # e => D2[a] = D[a]
  PROVE  Chain(m, D2, o, c, n, e, n)
<1>1. PICK q \in [1..n -> Cluster] :
        /\ \A i, j \in 1..n : q[i] = q[j] => i = j
        /\ q[1] = c /\ q[n] = e
        /\ \A i \in 1..(n - 1) : m[q[i]] = q[i + 1]
        /\ m[e] = EOC
        /\ \A i \in 1..(n - 1) : D[q[i]] = [op |-> o, at |-> i]
  BY DEF Chain
<1>2. ASSUME NEW i \in 1..n PROVE D2[q[i]] = [op |-> o, at |-> i]
  <2>1. CASE i = n
    BY <1>1, <2>1
  <2>2. CASE i # n
    <3>1. i \in 1..(n - 1) /\ n \in 1..n
      BY <2>2
    <3>2. q[i] \in Cluster /\ q[i] # e
      BY <1>1, <2>2, <3>1
    <3> QED
      BY <1>1, <3>1, <3>2
  <2> QED
    BY <2>1, <2>2
<1> QED
  BY <1>1, <1>2 DEF Chain

\* Another cluster is linked to the end.
LEMMA ChainLink ==
  ASSUME NEW m, NEW D, NEW o, NEW c, NEW n \in Nat \ {0}, NEW e, NEW h \in Nat, h <= n,
         Chain(m, D, o, c, n, e, h), NEW x \in Cluster, x # e, m[x] = EOC,
         NEW m2, m2[e] = x, \A a \in Cluster : a # e => m2[a] = m[a]
  PROVE  Chain(m2, D, o, c, n + 1, x, h)
<1>1. PICK q \in [1..n -> Cluster] :
        /\ \A i, j \in 1..n : q[i] = q[j] => i = j
        /\ q[1] = c /\ q[n] = e
        /\ \A i \in 1..(n - 1) : m[q[i]] = q[i + 1]
        /\ m[e] = EOC
        /\ \A i \in 1..h : D[q[i]] = [op |-> o, at |-> i]
  BY DEF Chain
<1>2. \A i \in 1..n : q[i] \in Cluster /\ q[i] # x
  <2> SUFFICES ASSUME NEW i \in 1..n, q[i] = x PROVE FALSE
    OBVIOUS
  <2>1. CASE i = n
    BY <1>1, <2>1
  <2>2. CASE i # n
    <3>1. i \in 1..(n - 1) /\ i + 1 \in 1..n
      BY <2>2
    <3>2. m[q[i]] = q[i + 1] /\ q[i + 1] \in Cluster
      BY <1>1, <3>1
    <3> QED
      BY <3>2, EndIsNone
  <2> QED
    BY <2>1, <2>2
<1>3. PICK r \in [1..(n + 1) -> Cluster] : r[n + 1] = x /\ \A i \in 1..n : r[i] = q[i]
  <2> DEFINE r == [i \in 1..(n + 1) |-> IF i = n + 1 THEN x ELSE q[i]]
  <2>1. r \in [1..(n + 1) -> Cluster] /\ r[n + 1] = x /\ \A i \in 1..n : r[i] = q[i]
    BY <1>2
  <2> QED
    BY <2>1
<1>4. \A i \in 1..(n + 1) : i = n + 1 \/ i \in 1..n
  OBVIOUS
<1>5. \A i, j \in 1..(n + 1) : r[i] = r[j] => i = j
  BY <1>1, <1>2, <1>3, <1>4
<1>6. ASSUME NEW i \in 1..n PROVE m2[r[i]] = r[i + 1]
  <2>1. CASE i = n
    BY <1>1, <1>3, <2>1
  <2>2. CASE i # n
    <3>1. i \in 1..(n - 1) /\ i + 1 \in 1..n /\ n \in 1..n
      BY <2>2
    <3>2. q[i] # e /\ q[i] \in Cluster
      BY <1>1, <2>2, <3>1
    <3> QED
      BY <1>1, <1>3, <3>1, <3>2
  <2> QED
    BY <2>1, <2>2
<1>7. r[1] = c /\ m2[x] = EOC
  <2>1. 1 \in 1..n
    OBVIOUS
  <2> QED
    BY <1>1, <1>3, <2>1
<1>8. \A i \in 1..h : D[r[i]] = [op |-> o, at |-> i]
  <2>1. \A i \in 1..h : i \in 1..n
    OBVIOUS
  <2> QED
    BY <1>1, <1>3, <2>1
<1>9. \A i \in 1..((n + 1) - 1) : m2[r[i]] = r[i + 1]
  <2>1. (n + 1) - 1 = n
    OBVIOUS
  <2> QED
    BY <1>6, <2>1
<1>10. r \in [1..(n + 1) -> Cluster] /\ r[n + 1] = x
  BY <1>3
<1> QED
  BY <1>5, <1>7, <1>8, <1>9, <1>10, Zenon DEF Chain

\* What is found along it
Begins(s, o, h) == \A i \in 1..h : s[i] = [op |-> o, at |-> i]

LEMMA ChainContents ==
  ASSUME NEW m, NEW V, NEW D \in [Cluster -> V], NEW o, NEW c, NEW n \in Nat \ {0}, NEW e,
         NEW h \in Nat, h <= n, Chain(m, D, o, c, n, e, h), NEW s, Contents(m, D, c, s)
  PROVE  s \in [1..n -> V] /\ Begins(s, o, h)
<1>1. PICK q \in [1..n -> Cluster] :
        /\ \A i, j \in 1..n : q[i] = q[j] => i = j
        /\ q[1] = c /\ q[n] = e
        /\ \A i \in 1..(n - 1) : m[q[i]] = q[i + 1]
        /\ m[e] = EOC
        /\ \A i \in 1..h : D[q[i]] = [op |-> o, at |-> i]
  BY DEF Chain
<1>2. m[q[n]] \notin Cluster /\ n \in Nat /\ n # 0
  BY <1>1, EndIsNone
<1>3. s = [k \in 1..n |-> D[q[k]]]
  BY <1>1, <1>2, ContentsChain
<1>4. \A i \in 1..h : i \in 1..n
  OBVIOUS
<1>5. s \in [1..n -> V]
  BY <1>3
<1>6. \A i \in 1..h : s[i] = [op |-> o, at |-> i]
  BY <1>1, <1>3, <1>4
<1> QED
  BY <1>5, <1>6 DEF Begins

-------------------------------------------------------------------------------
(* What the steps of writef() do to the files                               *)

\* Steps that leave the disk alone, but for directory entries of other files
LEMMA KeptStill ==
  ASSUME TypeInv, TypeInv', Kept, UNCHANGED <<fat1, data, before, file>>,
         \A g \in File : g # file => diskdir'[g].clus = diskdir[g].clus
  PROVE  Kept'
<1>1. ASSUME NEW g \in File, g # file PROVE Stored(g)' = Stored(g)
  BY <1>1, StoredStill DEF TypeInv
<1> QED
  BY <1>1 DEF Kept

LEMMA IntactStill ==
  ASSUME TypeInv, TypeInv', Intact, file \in File, UNCHANGED <<fat1, data, before, file>>,
         diskdir'[file].clus = diskdir[file].clus
  PROVE  Intact'
<1>1. Stored(file)' = Stored(file)
  <2>1. PICK f \in File : f = file
    OBVIOUS
  <2>2. Stored(f)' = Stored(f)
    BY <2>1, StoredStill DEF TypeInv
  <2> QED
    BY <2>1, <2>2
<1>2. CASE Stored(file) = before[file]
  BY <1>1, <1>2 DEF Intact
<1>3. CASE before[file] = <<>> /\ \E b \in Block : Stored(file) = <<b>>
  BY <1>1, <1>3 DEF Intact
<1> QED
  BY <1>2, <1>3 DEF Intact

\* Where writef() has not put its call away
LEMMA InCall ==
  ASSUME TypeInv, NEW own \in Owner, Inv(own), Place \notin {"idle", "wild"}
  PROVE  /\ file \in File /\ at \in Nat \ {0} /\ ind \in Entry
         /\ fat1 = fats /\ fat1 \in Fats /\ Good(own)
         /\ diskdir[file].clus # 0 => diskdir[file].clus = First
         /\ First \in Entry /\ (First # 0 => First \in Cluster)
         /\ job = "file" => /\ First # 0 /\ First \in Cluster /\ dir = diskdir
                            /\ clus \in Cluster /\ own[clus] = file
<1>1. /\ file \in File /\ at \in Nat \ {0} /\ ind \in Entry /\ First \in Entry
      /\ fat1 = fats /\ fat1 \in Fats /\ Good(own)
  BY Numbers DEF TypeInv, Flow, CallTypes, DiskTypes, Fats, Inv, First
<1>2. diskdir[file].clus # 0 => diskdir[file].clus = First
  BY <1>1 DEF Good, OnDisk, First
<1>3. First # 0 => First \in Cluster
  BY <1>1 DEF Good, Sound, Heads, First
<1>4. job = "file" => First # 0 /\ dir = diskdir /\ clus \in Cluster /\ own[clus] = file
  BY <1>1 DEF Good, FileJob
<1> QED
  BY <1>1, <1>2, <1>3, <1>4

\* The sector of entry ind is written from a FAT that differs only there.
LEMMA FirstCopy ==
  ASSUME TypeInv, FatFirst
  PROVE  fat1'[ind] = dt /\ \A e \in Entry : e # ind => fat1'[e] = fat1[e]
<1>1. /\ fat1 = fats /\ fats \in [Entry -> FatValue] /\ ind \in Entry
      /\ fats' = [fats EXCEPT ![ind] = dt]
  BY DEF FatFirst, TypeInv, DiskTypes, CallTypes
<1>2. \A e \in Entry : fat1'[e] = IF e \div PerSector = ind \div PerSector THEN fats'[e] ELSE fat1[e]
  BY DEF FatFirst, SectorFrom
<1>3. \A e \in Entry : e # ind => fats'[e] = fats[e]
  BY <1>1
<1> QED
  BY <1>1, <1>2, <1>3

LEMMA ProgressFatFirst ==
  ASSUME TypeInv, TypeInv', NEW own \in Owner, Inv(own), Progress, FatFirst
  PROVE  Progress'
<1>1. View' = View /\ Place' = Place /\ Place = ret /\ pc = "fat" /\ pc' = "fat2" /\ Place \in Callers
  BY DEF TypeInv, Flow, FatFirst, View, Place, Callers
<1>2. UNCHANGED <<data, diskdir, dir, file, size, job, clus, at, cc, ind, dt, ops, before>>
  BY DEF FatFirst, call, chain, history
<1>3. UNCHANGED First
  BY <1>2 DEF First
<1>4. fat1'[ind] = dt /\ \A e \in Entry : e # ind => fat1'[e] = fat1[e]
  BY FirstCopy
<1>5. Place \notin {"idle", "wild"}
  BY <1>1 DEF Callers
<1>6. /\ file \in File /\ at \in Nat \ {0} /\ ind \in Entry /\ fat1 \in Fats /\ Good(own)
      /\ First \in Entry /\ (First # 0 => First \in Cluster)
      /\ job = "file" => First # 0 /\ clus \in Cluster
  BY <1>5, InCall
<1>7. \A a \in Cluster : a # ind => fat1'[a] = fat1[a] /\ data'[a] = data[a]
  BY <1>2, <1>4, Numbers
<1>8. ASSUME NEW g \in File, g # file \/ job = "dir" PROVE Stored(g)' = Stored(g)
  <2>1. Clear(ind, g)
    BY <1>1, <1>8 DEF Progress, Aside
  <2> QED
    BY <1>2, <1>7, <2>1, StoredClear DEF TypeInv
<1>9. at' <= size' /\ Kept' /\ Aside'
  BY <1>1, <1>2, <1>8 DEF Progress, Kept, Aside
<1>10. ASSUME job = "dir" PROVE Intact' /\ Newborn'
  <2>1. Stored(file)' = Stored(file)
    <3>1. PICK f \in File : f = file
      BY <1>6
    <3>2. Stored(f)' = Stored(f)
      BY <1>8, <1>10
    <3> QED
      BY <1>2, <3>1, <3>2
  <2>2. Intact'
    BY <1>2, <1>10, <2>1 DEF Progress, Intact
  <2>3. Newborn'
    BY <1>1, <1>2, <1>3, <1>10 DEF Progress, Newborn
  <2> QED
    BY <2>2, <2>3
<1>11. ASSUME job = "file" PROVE Freeing' /\ FirstBlock' /\ Writing' /\ Linking'
  <2>0. Freeing /\ FirstBlock /\ Writing /\ Linking /\ First \in Cluster /\ clus \in Cluster
    BY <1>6, <1>11 DEF Progress
  <2>1. Freeing'
    <3> SUFFICES ASSUME Place = "free" \/ (Place = "data" /\ at = 1) PROVE Gone'
      BY <1>1, <1>2 DEF Freeing
    <3>1. dt = 0 /\ (Gone \/ ind = First)
      BY <1>1, <2>0 DEF Freeing
    <3>2. ind # First => fat1'[First] = fat1[First]
      BY <1>4, <1>6
    <3>3. First # 0 /\ fat1'[First] = 0
      BY <1>4, <1>6, <1>11, <3>1, <3>2 DEF Gone
    <3> QED
      BY <1>3, <3>3 DEF Gone
  <2>2. FirstBlock'
    BY <1>1 DEF FirstBlock, AtFirst
  <2>3. ASSUME Place \in {"more", "extend", "link"} PROVE Chain(fat1', data, ops, First, at, clus, at)
    <3>1. CASE AtFirst
      <4>1. ind = First /\ clus = First /\ dt = EOC /\ data[First] = New(1) /\ at = 1
        BY <2>0, <3>1 DEF FirstBlock, AtFirst
      <4> QED
        BY <1>4, <2>0, <4>1, ChainFirst DEF New
    <3>2. CASE ~AtFirst
      <4>1. /\ Chain(fat1, data, ops, First, at, clus, at) /\ dt = EOC
            /\ fat1[ind] = 0 \/ ind = clus
        BY <1>1, <2>0, <2>3, <3>2 DEF Writing, Written
      <4>2. ind = clus => fat1[ind] = EOC
        BY <4>1 DEF Chain
      <4>3. \A a \in Cluster : fat1[a] # 0 => fat1'[a] = fat1[a]
        BY <1>4, <4>1, <4>2, Numbers
      <4> QED
        BY <1>6, <4>1, <4>3, ChainSame
    <3> QED
      BY <3>1, <3>2
  <2>4. Writing'
    BY <1>1, <1>2, <1>3, <2>3 DEF Writing, Written
  <2>5. Linking'
    <3> SUFFICES ASSUME Place = "data", at > 1 PROVE Chain(fat1', data, ops, First, at, clus, at - 1)
      BY <1>1, <1>2, <1>3 DEF Linking, Written
    <3>1. /\ Chain(fat1, data, ops, First, at - 1, ind, at - 1)
          /\ dt = clus /\ clus # ind /\ fat1[clus] = EOC
      BY <1>1, <2>0 DEF Linking, Written
    <3>2. at - 1 \in Nat \ {0} /\ at - 1 + 1 = at
      BY <1>6
    <3>3. \A a \in Cluster : a # ind => fat1'[a] = fat1[a]
      BY <1>7
    <3>4. Chain(fat1', data, ops, First, at - 1 + 1, clus, at - 1)
      BY <1>4, <2>0, <3>1, <3>2, <3>3, ChainLink
    <3> QED
      BY <3>2, <3>4
  <2> QED
    BY <2>1, <2>2, <2>4, <2>5
<1>12. job' = job
  BY <1>2
<1> QED
  BY <1>9, <1>10, <1>11, <1>12 DEF Progress

LEMMA ProgressFatSecond ==
  ASSUME TypeInv, TypeInv', NEW own \in Owner, Inv(own), Progress, FatSecond
  PROVE  Progress'
<1>1. View' = View /\ Place' = Place /\ Place = ret /\ pc = "fat2" /\ pc' = ret /\ Place \in Callers
  BY DEF TypeInv, Flow, FatSecond, View, Place, Callers
<1>2. UNCHANGED <<fat1, data, diskdir, dir, file, size, job, clus, at, cc, ind, dt, ops, before>>
  BY DEF FatSecond, call, chain, history
<1>3. UNCHANGED First
  BY <1>2 DEF First
<1>4. pc' \notin {"fat", "fat2"} /\ Place \notin {"idle", "wild"}
  BY <1>1 DEF Callers
<1>5. file \in File
  BY <1>4, InCall
<1>6. at' <= size' /\ Kept' /\ Aside'
  BY <1>2, <1>4, KeptStill DEF Progress, Aside
<1>7. ASSUME job = "dir" PROVE Intact' /\ Newborn'
  BY <1>1, <1>2, <1>3, <1>5, <1>7, IntactStill DEF Progress, Newborn
<1>8. ASSUME job = "file" PROVE Freeing' /\ FirstBlock' /\ Writing' /\ Linking'
  <2>0. Freeing /\ FirstBlock /\ Writing /\ Linking
    BY <1>8 DEF Progress
  <2>1. Freeing'
    BY <1>1, <1>2, <1>3, <1>4, <2>0 DEF Freeing, Gone
  <2>2. FirstBlock'
    BY <1>4 DEF FirstBlock, AtFirst
  <2>3. Writing'
    BY <1>1, <1>2, <1>3, <1>4, <2>0 DEF Writing, Written, AtFirst
  <2>4. Linking'
    BY <1>1, <1>2, <1>3, <1>4, <2>0 DEF Linking, Written
  <2> QED
    BY <2>1, <2>2, <2>3, <2>4
<1>9. job' = job
  BY <1>2
<1> QED
  BY <1>6, <1>7, <1>8, <1>9 DEF Progress

\* No chain has a cluster that is not in the FAT.
LEMMA ClearRoot ==
  ASSUME TypeInv, NEW own \in Owner, Good(own), NEW g \in File, NEW x, x \notin Cluster
  PROVE  Clear(x, g)
<1>1. Sound(fats, own, diskdir)
  BY SoundDisk DEF Good
<1>2. diskdir[g].clus # 0 => diskdir[g].clus \in Cluster
  BY <1>1 DEF Sound, Heads
<1>3. Closed(fat1, Cluster)
  BY DEF Closed
<1> QED
  BY <1>2, <1>3 DEF Clear

LEMMA ProgressWriteF ==
  ASSUME TypeInv, TypeInv', NEW own \in Owner, Inv(own),
         NEW f \in File, NEW n \in 1..MaxBlocks, WriteF(f, n)
  PROVE  Progress'
<1>1. /\ Place = "idle" /\ Place' \in {"alloc", "free"} /\ pc' \notin {"fat", "fat2"}
      /\ pc = "idle"
  BY DEF WriteF, View, Place
<1>2. UNCHANGED <<fat1, data, diskdir>> /\ file' = f /\ job' = "dir" /\ at' = 1 /\ size' = n
  BY DEF WriteF, disk
<1>3. ASSUME NEW g \in File PROVE Stored(g)' = before'[g]
  <2>1. before'[g] = Stored(g)
    BY DEF WriteF
  <2>2. Stored(g)' = Stored(g)
    BY <1>2, StoredStill DEF TypeInv
  <2> QED
    BY <2>1, <2>2
<1>4. at' <= size' /\ Kept' /\ Aside'
  BY <1>1, <1>2, <1>3 DEF Kept, Aside
<1>5. Intact'
  BY <1>2, <1>3 DEF Intact
<1>6. Newborn'
  <2>1. dir'[f].clus = dir[f].clus /\ dir = diskdir
    BY <1>1 DEF WriteF, TypeInv, DiskTypes, Inv, Good, AtIdle
  <2> QED
    BY <1>2, <2>1 DEF Newborn, First
<1> QED
  BY <1>2, <1>4, <1>5, <1>6 DEF Progress

LEMMA ProgressAllocFirst ==
  ASSUME TypeInv, TypeInv', NEW own \in Owner, Inv(own), Progress, AllocFirst
  PROVE  Progress'
<1>1. PICK c \in Entry : /\ FirstFree(c)
                         /\ dir' = [dir EXCEPT ![file].clus = c]
                         /\ Call(c, EOC, "free")
  BY DEF AllocFirst
<1>2. /\ View = fats /\ Place = "alloc" /\ View' = [fats EXCEPT ![c] = EOC]
      /\ ind' = c
  BY <1>1, CallView DEF AllocFirst, disk, Call
<1>3. UNCHANGED <<fat1, data, diskdir, job, file, size, at, before>>
  BY DEF AllocFirst, disk, call, chain, history
<1>4. file \in File /\ job = "dir" /\ First = 0 /\ diskdir[file].clus = 0 /\ Good(own)
  <2>1. file \in File /\ job = "dir" /\ First = 0
    BY <1>2 DEF TypeInv, Flow, CallTypes, Inv, Good, DirJob, FileJob
  <2> QED
    BY <2>1 DEF Inv, Good, OnDisk, First
<1>5. fats[c] = 0
  BY <1>1, <1>2, <1>4, FreeCluster DEF FirstFree
<1>6. Kept' /\ Intact'
  BY <1>3, <1>4, KeptStill, IntactStill DEF Progress
<1>7. Aside'
  <2>1. \A g \in File : Clear(c, g)
    BY <1>2, <1>4, <1>5, ClearOf, ClearNone
  <2> QED
    BY <1>2, <1>3, <2>1 DEF Aside, Clear
<1>8. Newborn'
  <2>1. dir'[file].clus = c /\ View'[c] = EOC
    BY <1>1, <1>2, <1>4 DEF TypeInv, DiskTypes
  <2> QED
    BY <1>3, <2>1 DEF Newborn, First
<1> QED
  BY <1>3, <1>4, <1>6, <1>7, <1>8 DEF Progress

LEMMA ProgressFreeDir ==
  ASSUME TypeInv, TypeInv', NEW own \in Owner, Inv(own), Progress, FreeChain, job = "dir"
  PROVE  Progress'
<1>1. Place = "free" /\ View = fats
  BY DEF FreeChain, View, Place
<1>2. cc = Root /\ file \in File /\ Good(own)
  BY <1>1 DEF Inv, Good, DirJob, TypeInv, Flow
<1>3. View' = [fats EXCEPT ![Root] = 0] /\ ind' = Root
  BY <1>2, CallView DEF FreeChain, Call
<1>4. UNCHANGED <<fat1, data, diskdir, dir, job, file, size, at, before>>
  BY DEF FreeChain, disk, call, history
<1>5. Kept' /\ Intact'
  BY <1>2, <1>4, KeptStill, IntactStill DEF Progress
<1>6. Aside'
  <2>1. \A g \in File : Clear(Root, g)
    BY <1>2, ClearRoot, EndIsNone
  <2> QED
    BY <1>3, <1>4, <2>1 DEF Aside, Clear
<1>7. Newborn'
  <2>1. First # 0 => First \in Cluster
    BY <1>2 DEF Good, Sound, Heads, First
  <2>2. First # 0 => View'[First] = View[First]
    BY <1>1, <1>3, <2>1, EndIsNone, Numbers DEF TypeInv, DiskTypes
  <2> QED
    BY <1>4, <2>2 DEF Progress, Newborn, First
<1> QED
  BY <1>4, <1>5, <1>6, <1>7 DEF Progress

LEMMA ProgressFreeFile ==
  ASSUME TypeInv, TypeInv', NEW own \in Owner, Inv(own), Progress, FreeChain, job = "file"
  PROVE  Progress'
<1>1. Place = "free" /\ View = fats /\ pc = "free"
  BY DEF FreeChain, View, Place
<1>2. at = 1 /\ file \in File /\ Good(own) /\ own[cc] = file
  BY <1>1 DEF Inv, Good, FileJob, FreeLoop, TypeInv, Flow
<1>3. ind' = cc /\ dt' = 0 /\ pc' = "fat" /\ Place' \in {"free", "data"}
  BY CallView DEF FreeChain, Call
<1>4. UNCHANGED <<fat1, data, diskdir, dir, job, file, size, at, before>>
  BY DEF FreeChain, disk, call, history
<1>5. Kept' /\ (Intact => Intact')
  BY <1>2, <1>4, KeptStill, IntactStill DEF Progress
<1>6. Aside'
  <2>1. \A g \in File : g # file => Clear(cc, g)
    BY <1>2, ClearOf
  <2> QED
    BY <1>3, <1>4, <2>1 DEF Aside, Clear
<1>7. Freeing'
  <2>1. Gone \/ (Intact /\ cc = First)
    BY <1>1 DEF Progress, Freeing
  <2> QED
    BY <1>3, <1>4, <1>5, <2>1 DEF Freeing, Gone, First
<1>8. FirstBlock' /\ Writing' /\ Linking'
  BY <1>2, <1>3, <1>4 DEF FirstBlock, AtFirst, Writing, Linking
<1> QED
  BY <1>4, <1>5, <1>6, <1>7, <1>8 DEF Progress

\* The directory on the disk gets an entry for a file that had no cluster; the
\* one it has now, marked before, ends its chain.
LEMMA ProgressDataDir ==
  ASSUME TypeInv, TypeInv', NEW own \in Owner, Inv(own), Progress, WriteData, job = "dir"
  PROVE  Progress'
<1>1. Place = "data" /\ View = fats
  BY DEF WriteData, View, Place
<1>2. clus = Root /\ First # 0 /\ file \in File /\ Good(own)
  BY <1>1 DEF Inv, Good, DirJob, TypeInv, Flow
<1>3. ind' = Root
  BY <1>2 DEF WriteData, Call
<1>4. UNCHANGED <<fat1, data, dir, job, file, size, at, before>> /\ diskdir' = dir
  BY DEF WriteData, call, chain, history
<1>5. /\ \A g \in File : g # file => diskdir'[g].clus = diskdir[g].clus
      /\ diskdir[file].clus \in {0, First} /\ diskdir'[file].clus = First
  BY <1>2, <1>4 DEF Good, OnDisk, First
<1>6. Kept'
  BY <1>4, <1>5, KeptStill DEF Progress
<1>7. Intact'
  <2>1. CASE diskdir[file].clus = First
    BY <1>2, <1>4, <1>5, <2>1, IntactStill DEF Progress
  <2>2. CASE diskdir[file].clus = 0
    <3>1. PICK f \in File : f = file
      BY <1>2
    <3>2. /\ Contents(fat1, data, GetClus(0), Stored(f))
          /\ Contents(fat1, data, GetClus(First), Stored(f)')
      BY <1>4, <1>5, <2>2, <3>1, StoredContents, StoredContentsNext DEF TypeInv
    <3>3. Stored(f) = <<>>
      <4>1. GetClus(0) \notin Cluster
        BY EndIsNone, GetClusCases
      <4> QED
        BY <3>2, <4>1, ContentsNone
    <3>4. before[file] = <<>>
      <4>1. Stored(file) = <<>>
        BY <3>1, <3>3
      <4>2. \A b \in Block : <<>> # <<b>>
        OBVIOUS
      <4> QED
        BY <1>4, <4>1, <4>2 DEF Progress, Intact
    <3>5. First \in Cluster /\ fat1[First] = EOC /\ fat1[First] \notin Cluster
      BY <1>1, <1>2, <1>4, <2>2, EndIsNone DEF Progress, Newborn, Good, Sound, Heads, First,
         TypeInv, DiskTypes
    <3>0. CASE Negative(First)
      <4>1. GetClus(First) \notin Cluster
        BY <3>0, EndIsNone, GetClusCases
      <4>2. Stored(f)' = <<>>
        BY <3>2, <4>1, ContentsNone
      <4>3. Stored(file)' = before'[file']
        BY <1>4, <3>1, <3>4, <4>2
      <4> QED
        BY <4>3 DEF Intact
    <3>b. CASE ~Negative(First)
      <4>1. GetClus(First) = First
        BY <3>b, GetClusCases
      <4>2. Contents(fat1, data, First, Stored(f)')
        BY <3>2, <4>1
      <4>3. Stored(f)' = <<data[First]>>
        BY <3>5, <4>2, ContentsOne
      <4>4. data[First] \in Block
        BY <3>5 DEF TypeInv, DiskTypes
      <4>5. Stored(file)' = <<data[First]>>
        BY <1>4, <3>1, <4>3
      <4> QED
        BY <1>4, <3>4, <4>4, <4>5 DEF Intact
    <3> QED
      BY <3>0, <3>b
  <2> QED
    BY <1>5, <2>1, <2>2
<1>8. Aside'
  <2>1. \A g \in File : diskdir'[g].clus # 0 => diskdir'[g].clus \in Cluster
    BY <1>2, <1>4 DEF Good, Sound, Heads
  <2>2. Closed(fat1', Cluster)
    BY DEF Closed
  <2> QED
    BY <1>3, <2>1, <2>2, EndIsNone DEF Aside, Clear
<1>9. Newborn'
  BY <1>4, <1>5 DEF Newborn, First
<1> QED
  BY <1>4, <1>6, <1>7, <1>8, <1>9 DEF Progress

LEMMA ProgressDataFile ==
  ASSUME TypeInv, TypeInv', NEW own \in Owner, Inv(own), Progress, WriteData, job = "file"
  PROVE  Progress'
<1>1. Place = "data" /\ View = fats /\ pc = "data"
  BY DEF WriteData, View, Place
<1>2. /\ clus \in Cluster /\ own[clus] = file /\ file \in File /\ Good(own)
      /\ First \in Cluster /\ at \in Nat \ {0} /\ (at = 1 => clus = First)
  BY <1>1, InCall DEF Good, FileJob
<1>3. /\ ind' = clus /\ dt' = EOC /\ pc' = "fat" /\ Place' = "more" /\ ret' = "more"
      /\ data' = [data EXCEPT ![clus] = New(at)]
  BY CallView DEF WriteData, Call, New
<1>4. UNCHANGED <<fat1, diskdir, dir, job, file, size, at, clus, ops, before>>
  BY DEF WriteData, call, chain, history
<1>5. data'[clus] = New(at) /\ \A a \in Cluster : a # clus => data'[a] = data[a]
  BY <1>2, <1>3 DEF TypeInv, DiskTypes
<1>6. \A g \in File : g # file => Clear(clus, g)
  BY <1>2, ClearOf
<1>7. Kept'
  <2>1. ASSUME NEW g \in File, g # file PROVE Stored(g)' = Stored(g)
    BY <1>4, <1>5, <1>6, <2>1, StoredClear DEF TypeInv
  <2> QED
    BY <1>4, <2>1 DEF Progress, Kept
<1>8. Aside'
  BY <1>3, <1>4, <1>6 DEF Aside, Clear
<1>9. Freeing' /\ Linking'
  BY <1>3 DEF Freeing, Linking
<1>10. FirstBlock'
  <2> SUFFICES ASSUME at = 1 PROVE FirstBlock'
    BY <1>4 DEF FirstBlock, AtFirst
  <2>1. Gone
    BY <1>1, <1>4 DEF Progress, Freeing
  <2>2. clus = First /\ data'[First] = New(1)
    BY <1>2, <1>5
  <2> QED
    BY <1>3, <1>4, <2>1, <2>2 DEF FirstBlock, Gone, First, New
<1>11. Writing'
  <2> SUFFICES ASSUME at > 1 PROVE Written(at, clus, at)'
    BY <1>2, <1>3, <1>4 DEF Writing, AtFirst
  <2>1. Chain(fat1, data, ops, First, at, clus, at - 1)
    BY <1>1, <1>4 DEF Progress, Linking, Written
  <2>2. Chain(fat1, data', ops, First, at, clus, at)
    BY <1>2, <1>5, <2>1, ChainData DEF New
  <2> QED
    BY <1>4, <2>2 DEF Written, First
<1> QED
  BY <1>4, <1>7, <1>8, <1>9, <1>10, <1>11 DEF Progress

LEMMA ProgressExtend ==
  ASSUME TypeInv, TypeInv', NEW own \in Owner, Inv(own), Progress, Extend
  PROVE  Progress'
<1>1. Place = "more" /\ pc = "more" /\ Place' = "extend" /\ pc' = "extend" /\ job = "file"
  BY DEF Extend, Place
<1>2. UNCHANGED <<fat1, data, diskdir, dir, job, file, size, at, clus, ops, before>>
  BY DEF Extend, disk, call, chain, history
<1>3. Kept' /\ Aside'
  BY <1>1, <1>2, KeptStill DEF Progress, Aside
<1>4. Freeing' /\ Linking' /\ FirstBlock'
  BY <1>1 DEF Freeing, Linking, FirstBlock, AtFirst
<1>5. Writing'
  BY <1>1, <1>2 DEF Progress, Writing, Written, AtFirst, First
<1> QED
  BY <1>1, <1>2, <1>3, <1>4, <1>5 DEF Progress

LEMMA ProgressAllocNext ==
  ASSUME TypeInv, TypeInv', NEW own \in Owner, Inv(own), Progress, AllocNext
  PROVE  Progress'
<1>1. PICK c \in Entry : FirstFree(c) /\ cc' = c /\ Call(c, EOC, "link")
  BY DEF AllocNext
<1>2. View = fats /\ Place = "extend" /\ Place' = "link" /\ pc = "extend"
  BY <1>1, CallView DEF AllocNext, disk
<1>3. UNCHANGED <<fat1, data, diskdir, dir, job, file, size, at, clus, ops, before>>
  BY DEF AllocNext, disk, call, history
<1>4. job = "file" /\ Good(own)
  BY <1>2 DEF TypeInv, Flow, Inv
<1>5. fats[c] = 0 /\ fat1[c] = 0
  BY <1>1, <1>2, <1>4, FreeCluster DEF FirstFree, TypeInv, DiskTypes
<1>6. ind' = c /\ dt' = EOC /\ pc' = "fat"
  BY <1>1 DEF Call
<1>7. Kept'
  BY <1>3, KeptStill DEF Progress
<1>8. Aside'
  <2>1. \A g \in File : g # file => Clear(c, g)
    BY <1>2, <1>4, <1>5, ClearOf
  <2> QED
    BY <1>3, <1>4, <1>6, <2>1 DEF Aside, Clear
<1>9. Freeing' /\ Linking' /\ FirstBlock'
  BY <1>2 DEF Freeing, Linking, FirstBlock, AtFirst
<1>10. Writing'
  <2>1. Written(at, clus, at)
    BY <1>2, <1>4 DEF Progress, Writing, AtFirst
  <2> QED
    BY <1>2, <1>3, <1>5, <1>6, <2>1 DEF Writing, Written, First
<1> QED
  BY <1>3, <1>4, <1>7, <1>8, <1>9, <1>10 DEF Progress

LEMMA ProgressLinkNext ==
  ASSUME TypeInv, TypeInv', NEW own \in Owner, Inv(own), Progress, LinkNext
  PROVE  Progress'
<1>1. View = fats /\ Place = "link" /\ Place' = "data" /\ pc = "link"
  BY CallView DEF LinkNext
<1>2. UNCHANGED <<fat1, data, diskdir, dir, job, file, size, ops, before>>
  BY DEF LinkNext, disk, call, history
<1>3. clus' = cc /\ at' = at + 1 /\ ind' = clus /\ dt' = cc /\ pc' = "fat"
  BY DEF LinkNext, Call
<1>4. /\ job = "file" /\ Good(own) /\ own[clus] = file /\ cc # clus /\ fat1[cc] = EOC
      /\ at \in Nat \ {0} /\ at < size
  BY <1>1, InCall DEF TypeInv, Flow, DiskTypes, Good, LinkNew
<1>5. at' <= size' /\ at' > 1 /\ at' - 1 = at
  BY <1>2, <1>3, <1>4 DEF TypeInv, CallTypes
<1>6. Kept'
  BY <1>2, KeptStill DEF Progress
<1>7. Aside'
  <2>1. \A g \in File : g # file => Clear(clus, g)
    BY <1>4, ClearOf
  <2> QED
    BY <1>2, <1>3, <1>4, <2>1 DEF Aside, Clear
<1>8. Freeing' /\ Writing' /\ FirstBlock'
  BY <1>1, <1>5 DEF Freeing, Writing, FirstBlock, AtFirst
<1>9. Linking'
  <2>1. Chain(fat1, data, ops, First, at, clus, at)
    BY <1>1, <1>4 DEF Progress, Writing, AtFirst, Written
  <2> QED
    BY <1>2, <1>3, <1>4, <1>5, <2>1 DEF Linking, Written, First
<1> QED
  BY <1>2, <1>4, <1>5, <1>6, <1>7, <1>8, <1>9 DEF Progress

LEMMA ProgressDirDone ==
  ASSUME TypeInv, TypeInv', NEW own \in Owner, Inv(own), Progress, DirDone
  PROVE  Progress'
<1>1. Place = "more" /\ Place' = "free" /\ pc' = "free" /\ job = "dir" /\ job' = "file"
  BY DEF DirDone, Place
<1>2. UNCHANGED <<fat1, data, diskdir, dir, file, size, ops, before>>
  BY DEF DirDone, disk, history
<1>3. at' = 1 /\ cc' = First /\ file \in File /\ size >= 1
  BY <1>1 DEF DirDone, TypeInv, Flow, First
<1>4. Kept' /\ Aside' /\ Intact'
  BY <1>1, <1>2, <1>3, KeptStill, IntactStill DEF Progress, Aside
<1>5. Freeing'
  BY <1>1, <1>2, <1>3, <1>4 DEF Freeing, First
<1>6. Linking' /\ Writing' /\ FirstBlock'
  BY <1>1 DEF Linking, Writing, FirstBlock, AtFirst
<1> QED
  BY <1>1, <1>2, <1>3, <1>4, <1>5, <1>6 DEF Progress

LEMMA ContentNext ==
  ASSUME IInv, IInv', Content, [Next]_vars
  PROVE  Content'
<1> SUFFICES ASSUME ~lost', pc' \notin {"idle", "wild"} PROVE Progress'
  BY DEF Content
<1>1. TypeInv /\ TypeInv' /\ ~lost
  <2>1. ~lost
    BY DEF Next, Step, vars, history, WriteF, FatFirst, FatSecond, DiskFull, AllocFirst, Crash,
       FreeChain, FreedAlready, WriteData, Extend, AllocNext, LinkNext, DirDone, Misread, FileDone
  <2> QED
    BY <2>1 DEF IInv
<1>2. PICK own \in Owner : Inv(own)
  BY <1>1 DEF IInv
<1>3. CASE UNCHANGED vars
  <2>1. UNCHANGED <<fat1, data, diskdir, fats, dir, pc, file, size, job, clus, at, cc,
                    ind, dt, ret, ops, before>>
    BY <1>3 DEF vars, disk, call, chain, history
  <2>2. Progress /\ pc \notin {"idle", "wild"}
    BY <1>1, <2>1 DEF Content
  <2>3. Place' = Place /\ View' = View /\ First' = First /\ file \in File
    BY <1>1, <2>1, <2>2 DEF Place, View, First, TypeInv, Flow, Callers
  <2>4. Kept' /\ (Intact => Intact')
    BY <1>1, <2>1, <2>2, <2>3, KeptStill, IntactStill DEF Progress
  <2>5. Aside' /\ (job = "dir" => Newborn')
    BY <2>1, <2>2, <2>3 DEF Progress, Aside, Clear, Newborn
  <2>6. job = "file" => Freeing' /\ FirstBlock'
    BY <2>1, <2>2, <2>3, <2>4 DEF Progress, Freeing, FirstBlock, Gone, AtFirst, New
  <2>7. job = "file" => Writing' /\ Linking'
    BY <2>1, <2>2, <2>3 DEF Progress, Writing, Linking, AtFirst, Written
  <2> QED
    BY <2>1, <2>2, <2>4, <2>5, <2>6, <2>7 DEF Progress
<1>4. CASE \E f \in File, n \in 1..MaxBlocks : WriteF(f, n)
  BY <1>1, <1>2, <1>4, ProgressWriteF
<1>5. ~Crash
  BY DEF Crash, Reset
<1>6. CASE Step
  <2>1. CASE FatFirst \/ FatSecond
    <3>1. Progress
      BY <1>1, <2>1 DEF Content, FatFirst, FatSecond
    <3> QED
      BY <1>1, <1>2, <2>1, <3>1, ProgressFatFirst, ProgressFatSecond
  <2>2. CASE FreeChain \/ FreedAlready
    <3>1. Progress
      BY <1>1, <2>2 DEF Content, FreeChain, FreedAlready
    <3> QED
      BY <1>1, <1>2, <2>2, <3>1, ProgressFreeDir, ProgressFreeFile, NeverFreed DEF TypeInv, CallTypes
  <2>3. CASE WriteData
    <3>1. Progress
      BY <1>1, <2>3 DEF Content, WriteData
    <3> QED
      BY <1>1, <1>2, <2>3, <3>1, ProgressDataDir, ProgressDataFile DEF TypeInv, CallTypes
  <2>4. CASE AllocFirst \/ AllocNext
    <3>1. Progress
      BY <1>1, <2>4 DEF Content, AllocFirst, AllocNext
    <3> QED
      BY <1>1, <1>2, <2>4, <3>1, ProgressAllocFirst, ProgressAllocNext
  <2>5. CASE Extend \/ LinkNext \/ DirDone
    <3>1. Progress
      BY <1>1, <2>5 DEF Content, Extend, LinkNext, DirDone
    <3> QED
      BY <1>1, <1>2, <2>5, <3>1, ProgressExtend, ProgressLinkNext, ProgressDirDone
  <2>6. ~DiskFull /\ ~Misread /\ ~FileDone
    BY DEF DiskFull, Misread, FileDone, Reset
  <2> QED
    BY <1>6, <2>1, <2>2, <2>3, <2>4, <2>5, <2>6 DEF Step
<1> QED
  BY <1>3, <1>4, <1>5, <1>6 DEF Next

\* writef() gets to the file's blocks only if getclus() reads its first cluster.
Plain == ~lost /\ job = "file" => ~Negative(First)

LEMMA PlainNext ==
  ASSUME IInv, Plain, [Next]_vars
  PROVE  Plain'
<1> SUFFICES ASSUME ~lost', job' = "file" PROVE ~Negative(First')
  BY DEF Plain, First
<1>1. TypeInv /\ ~lost
  <2>1. ~lost
    BY DEF Next, Step, vars, history, WriteF, FatFirst, FatSecond, DiskFull, AllocFirst, Crash,
       FreeChain, FreedAlready, WriteData, Extend, AllocNext, LinkNext, DirDone, Misread, FileDone
  <2> QED
    BY <2>1 DEF IInv
<1>2. PICK own \in Owner : Inv(own)
  BY <1>1 DEF IInv
<1>3. CASE DirDone
  BY <1>3 DEF DirDone, First
<1>4. CASE AllocFirst
  <2>1. pc = "alloc" /\ job = "file"
    BY <1>4 DEF AllocFirst, call
  <2> QED
    BY <1>2, <2>1 DEF Inv, Good, FileJob, Place
<1>5. CASE ~DirDone /\ ~AllocFirst
  <2>1. job = "file" /\ First' = First
    BY <1>5 DEF Next, Step, vars, disk, call, WriteF, FatFirst, FatSecond, DiskFull, Crash, Reset,
       FreeChain, FreedAlready, WriteData, Extend, AllocNext, LinkNext, Misread, FileDone, First
  <2> QED
    BY <1>1, <2>1 DEF Plain
<1> QED
  BY <1>3, <1>4, <1>5

-------------------------------------------------------------------------------
(* The refinement *)

LEMMA TextType ==
  ASSUME NEW k \in 1..MaxOps, NEW n \in 0..MaxBlocks
  PROVE  /\ Text(k, n) \in Seq(Block) /\ Len(Text(k, n)) = n
         /\ \A i \in 1..n : Text(k, n)[i] = [op |-> k, at |-> i]
         /\ \A l \in 0..n : SubSeq(Text(k, n), 1, l) = Text(k, l)
<1>1. n \in Nat /\ \A i \in 1..n : [op |-> k, at |-> i] \in Block
  BY Numbers DEF Block
<1>2. Text(k, n) \in [1..n -> Block]
  BY <1>1 DEF Text
<1>3. Text(k, n) \in Seq(Block)
  BY <1>1, <1>2, SeqDef
<1>4. Len(Text(k, n)) = n
  BY <1>1, <1>2, <1>3, LenProperties
<1>5. ASSUME NEW l \in 0..n PROVE SubSeq(Text(k, n), 1, l) = Text(k, l)
  <2>1. PICK s \in Seq(Block) : s = Text(k, n)
    BY <1>3
  <2>2. Len(s) = n
    BY <1>4, <2>1
  <2>3. SubSeq(s, 1, l) = [i \in 1..l |-> s[i]]
    BY <1>1, <2>2
  <2>4. \A i \in 1..l : s[i] = [op |-> k, at |-> i]
    BY <1>1, <2>1 DEF Text
  <2> QED
    BY <2>1, <2>3, <2>4 DEF Text
<1> QED
  BY <1>3, <1>4, <1>5 DEF Text

\* What the file holds when a crash comes: what it held, or a new block without
\* one before it, or a beginning of the new ones, its last cluster not written
\* yet or written.
LEMMA CrashContent ==
  ASSUME TypeInv, NEW own \in Owner, Inv(own), Progress, pc \notin {"idle", "wild"},
         ~ChainLost(file)
  PROVE  \/ Intact
         \/ job = "file" /\ \E n \in 1..size, h \in 1..size : \E e :
                               h \in {n - 1, n} /\ Written(n, e, h)
<1>1. Place \notin {"idle", "wild"} /\ job \in {"dir", "file"}
  BY DEF TypeInv, Flow, CallTypes, Place, Callers
<1>2. /\ file \in File /\ at \in Nat \ {0} /\ Good(own)
      /\ job = "file" => First # 0 /\ dir = diskdir
  BY <1>1, InCall
<1>3. at <= size /\ size \in Nat
  BY DEF Progress, TypeInv, CallTypes
<1>4. CASE job = "dir"
  BY <1>4 DEF Progress
<1>5. CASE job = "file"
  <2>1. ~Gone
    BY <1>2, <1>5 DEF ChainLost, Gone, First
  <2>2. Place \in {"free", "data", "more", "extend", "link"} /\ Freeing /\ FirstBlock
        /\ Writing /\ Linking
    BY <1>1, <1>2, <1>5 DEF Progress, Good, FileJob
  <2>3. CASE Place = "free" \/ (Place = "data" /\ at = 1)
    BY <2>1, <2>2, <2>3 DEF Freeing
  <2>4. CASE Place = "data" /\ at > 1
    <3>1. \/ Written(at - 1, ind, at - 1)
          \/ Written(at, clus, at - 1)
      BY <2>2, <2>4 DEF Linking
    <3>2. at - 1 \in 1..size /\ at \in 1..size
      BY <1>2, <1>3, <2>4
    <3> QED
      BY <1>5, <3>1, <3>2
  <2>5. CASE Place \in {"more", "extend", "link"}
    <3>1. Written(at, clus, at)
      BY <2>1, <2>2, <2>5 DEF Writing, FirstBlock
    <3>2. at \in 1..size
      BY <1>2, <1>3
    <3> QED
      BY <1>5, <3>1, <3>2
  <2> QED
    BY <1>2, <2>2, <2>3, <2>4, <2>5
<1> QED
  BY <1>1, <1>4, <1>5

Held == IF pc = "idle" THEN [f \in File |-> Stored(f)] ELSE before
Sought == IF file = NoFile THEN <<>> ELSE Text(ops, size)

LEMMA StoreBegins ==
  ASSUME TypeInv, TypeInv', NEW f \in File, NEW n \in 1..MaxBlocks, WriteF(f, n)
  PROVE  Store!Begin(f)
<1>1. file = NoFile /\ file' = f /\ Held' = Held /\ crashes' = crashes /\ lost' = lost
  BY DEF WriteF, TypeInv, Flow, Place, Held
<1>2. Sought' \in Seq(Block)
  <2>1. Sought' = Text(ops', size') /\ ops' \in 1..MaxOps /\ size' \in 0..MaxBlocks
    BY <1>1, FileAssumption DEF Sought, WriteF, TypeInv, CountTypes, CallTypes
  <2> QED
    BY <2>1, TextType
<1> QED
  BY <1>1, <1>2 DEF Store!Begin, Held, Sought

\* What writef() leaves behind when it returns
LEMMA StoreEnds ==
  ASSUME TypeInv, TypeInv', NEW own \in Owner, Inv(own), Progress, ~Negative(First), FileDone
  PROVE  Store!End
<1>1. /\ pc = "more" /\ Place = "more" /\ pc' = "idle" /\ file' = NoFile /\ job = "file"
      /\ UNCHANGED <<fat1, data, diskdir, before, crashes, lost>> /\ at >= size
  BY DEF FileDone, Reset, Place, disk, history
<1>2. /\ file \in File /\ size \in Nat \ {0} /\ dir = diskdir /\ at = size
      /\ ops \in 1..MaxOps /\ size \in 0..MaxBlocks
  <2>1. at <= size /\ size \in 0..MaxBlocks /\ at \in 0..MaxBlocks
    BY DEF Progress, TypeInv, CallTypes
  <2> QED
    BY <1>1, <2>1, InCall, Numbers DEF TypeInv, Flow, CountTypes
<1>3. PICK f \in File : f = file
  BY <1>2
<1>4. Stored(f) = Text(ops, size)
  <2>1. Chain(fat1, data, ops, First, size, clus, size)
    BY <1>1, <1>2 DEF Progress, Writing, AtFirst, Written
  <2>2. Contents(fat1, data, First, Stored(f))
    BY <1>2, <1>3, StoredContents, GetClusCases DEF TypeInv, First
  <2>3. PICK n \in Nat \ {0} : n = size
    BY <1>2
  <2>4. Chain(fat1, data, ops, First, n, clus, n) /\ n \in Nat /\ n <= n
    BY <2>1, <2>3
  <2>5. data \in [Cluster -> Block]
    BY DEF TypeInv, DiskTypes
  <2>6. Stored(f) \in [1..n -> Block] /\ Begins(Stored(f), ops, n)
    BY <2>2, <2>4, <2>5, ChainContents
  <2>7. \A i \in 1..n : Stored(f)[i] = [op |-> ops, at |-> i]
    BY <2>6 DEF Begins
  <2> QED
    BY <2>3, <2>6, <2>7 DEF Text
<1>5. ASSUME NEW g \in File PROVE Held'[g] = IF g = file THEN Sought ELSE Held[g]
  <2>1. Stored(g)' = Stored(g)
    BY <1>1, StoredStill DEF TypeInv
  <2>2. Held'[g] = Stored(g) /\ Held[g] = before[g] /\ Sought = Text(ops, size)
    BY <1>1, <1>2, <2>1, FileAssumption DEF Held, Sought
  <2> QED
    BY <1>3, <1>4, <2>2 DEF Progress, Kept
<1>6. Held' = [Held EXCEPT ![file] = Sought]
  <2>1. Held \in [File -> Seq(Block)]
    BY <1>1 DEF Held, TypeInv, CountTypes
  <2>2. Held' = [g \in File |-> Held'[g]]
    BY <1>1 DEF Held
  <2> QED
    BY <1>5, <2>1, <2>2
<1>7. file # NoFile /\ Sought' = <<>>
  BY <1>1, <1>2, FileAssumption DEF Sought
<1> QED
  BY <1>1, <1>6, <1>7 DEF Store!End, Held, Sought
LEMMA TextPrefixes ==
  ASSUME NEW k \in 1..MaxOps, NEW n \in 0..MaxBlocks, NEW l \in 0..n
  PROVE  /\ Text(k, l) \in Store!Prefixes(Text(k, n))
         /\ l # n => \A b \in Block : Append(Text(k, l), b) \in Store!Torn(Text(k, n))
<1>1. Text(k, l) \in Store!Prefixes(Text(k, n))
  <2>1. l \in 0..Len(Text(k, n)) /\ Text(k, l) = SubSeq(Text(k, n), 1, l)
    BY TextType
  <2> QED
    BY <2>1 DEF Store!Prefixes
<1>2. l # n => Text(k, l) # Text(k, n)
  <2>1. l \in 0..MaxBlocks
    BY Numbers
  <2>2. Len(Text(k, l)) = l /\ Len(Text(k, n)) = n
    BY <2>1, TextType
  <2> QED
    BY <2>2
<1> QED
  BY <1>1, <1>2 DEF Store!Torn

\* What a crash leaves of the file is what FileStore allows.
LEMMA CrashKeeps ==
  ASSUME TypeInv, NEW own \in Owner, Inv(own), Progress, pc \notin {"idle", "wild"},
         ~ChainLost(file), job = "file" => ~Negative(First), NEW s, s = Stored(file)
  PROVE  /\ \/ s = before[file]
            \/ s \in Store!Prefixes(Text(ops, size)) \ {<<>>}
            \/ s \in Store!Torn(Text(ops, size))
         /\ before[file] # <<>> /\ s # before[file] => Head(s) = Head(Text(ops, size))
<1>1. file \in File /\ size \in 1..MaxBlocks /\ ops \in 1..MaxOps /\ size \in 0..MaxBlocks
  <2>1. Place # "idle"
    BY DEF TypeInv, Flow, Place, Callers
  <2> QED
    BY <2>1, Numbers DEF TypeInv, Flow, CountTypes, CallTypes
<1>2. CASE Intact
  <2>1. CASE s = before[file]
    BY <2>1
  <2>2. CASE s # before[file]
    <3>1. PICK b \in Block : before[file] = <<>> /\ s = <<b>>
      BY <1>2, <2>2 DEF Intact
    <3>2. 0 \in 0..size /\ 0 # size /\ Text(ops, 0) = <<>>
      BY <1>1 DEF Text
    <3>3. Append(<<>>, b) \in Store!Torn(Text(ops, size))
      BY <1>1, <3>2, TextPrefixes
    <3>4. Append(<<>>, b) = <<b>>
      OBVIOUS
    <3> QED
      BY <3>1, <3>3, <3>4
  <2> QED
    BY <2>1, <2>2
<1>3. CASE job = "file" /\ \E n \in 1..size, h \in 1..size : \E e :
                             h \in {n - 1, n} /\ Written(n, e, h)
  <2>0. PICK n \in 1..size, h \in 1..size : \E e : h \in {n - 1, n} /\ Written(n, e, h)
    BY <1>3
  <2>1. PICK e : h \in {n - 1, n} /\ Written(n, e, h)
    BY <2>0
  <2>2. PICK f \in File : f = file
    BY <1>1
  <2>3. diskdir[f].clus = First
    <3>1. Place \notin {"idle", "wild"}
      BY DEF TypeInv, Flow, Place, Callers
    <3> QED
      BY <1>3, <2>2, <3>1, InCall DEF First
  <2>4. Contents(fat1, data, First, s) /\ data \in [Cluster -> Block]
    <3>1. GetClus(First) = First
      BY <1>3, GetClusCases
    <3> QED
      BY <2>2, <2>3, <3>1, StoredContents DEF TypeInv, DiskTypes
  <2>5. n \in Nat \ {0} /\ h \in Nat /\ h <= n /\ h \in 0..MaxBlocks /\ h \in 0..size
        /\ n \in 0..MaxBlocks /\ n \in 0..size
    BY <1>1, <2>1, Numbers
  <2>6. s \in [1..n -> Block] /\ Begins(s, ops, h)
    BY <2>1, <2>4, <2>5, ChainContents DEF Written
  <2>7. s \in Seq(Block) /\ Len(s) = n /\ s # <<>>
    <3>1. n \in Nat
      BY <2>5
    <3>2. s \in Seq(Block)
      BY <2>6, <3>1, SeqDef
    <3>3. Len(s) = n
      BY <2>6, <3>1, <3>2, LenProperties
    <3> QED
      BY <2>5, <3>2, <3>3
  <2>8. Head(s) = Head(Text(ops, size))
    <3>0. 1 \in 1..h
      BY <1>1, <2>1
    <3>1. s[1] = [op |-> ops, at |-> 1]
      BY <2>6, <3>0 DEF Begins
    <3>2. PICK t \in Seq(Block) : t = Text(ops, size)
      BY <1>1, TextType
    <3>3. Len(t) = size /\ t[1] = [op |-> ops, at |-> 1]
      BY <1>1, <3>2, TextType
    <3>4. Head(t) = t[1] /\ Head(s) = s[1]
      BY <1>1, <2>7, <3>3
    <3> QED
      BY <3>1, <3>2, <3>3, <3>4
  <2>9. CASE h = n
    <3>1. s = Text(ops, n)
      BY <2>6, <2>9 DEF Begins, Text
    <3>2. s \in Store!Prefixes(Text(ops, size))
      BY <1>1, <2>5, <3>1, TextPrefixes
    <3> QED
      BY <2>7, <2>8, <3>2
  <2>10. CASE h = n - 1
    <3>1. PICK t \in Seq(Block) : t = Text(ops, h) /\ Len(t) = h
      BY <1>1, <2>5, TextType
    <3>2. s[n] \in Block
      BY <2>5, <2>6
    <3>3. s = Append(t, s[n])
      <4>1. \A i \in 1..h : t[i] = [op |-> ops, at |-> i]
        BY <3>1 DEF Text
      <4>2. \A i \in 1..h : s[i] = t[i]
        BY <2>6, <4>1 DEF Begins
      <4>3. Append(t, s[n]) = [i \in 1..n |-> IF i = n THEN s[n] ELSE t[i]]
        BY <2>5, <2>10, <3>1
      <4>4. \A i \in 1..n : i = n \/ i \in 1..h
        BY <2>5, <2>10
      <4> QED
        BY <2>6, <4>2, <4>3, <4>4
    <3>4. h # size
      BY <1>1, <2>1, <2>10
    <3>5. s \in Store!Torn(Text(ops, size))
      BY <1>1, <2>5, <3>1, <3>2, <3>3, <3>4, TextPrefixes
    <3> QED
      BY <2>8, <3>5
  <2> QED
    BY <2>1, <2>9, <2>10
<1> QED
  BY <1>2, <1>3, CrashContent
LEMMA StoreCrashes ==
  ASSUME TypeInv, TypeInv', NEW own \in Owner, Inv(own), Progress, Crash, ~lost, ~lost',
         job = "file" => ~Negative(First)
  PROVE  Store!Crash
<1>1. /\ pc' = "idle" /\ file' = NoFile /\ pc \notin {"idle", "wild"}
      /\ UNCHANGED <<fat1, data, diskdir, before, lost>> /\ crashes' = crashes + 1
      /\ \A f \in File : ~ChainLost(f)
  BY DEF Crash, Reset, disk, TypeInv, CountTypes
<1>2. file \in File
  <2>1. Place # "idle"
    BY <1>1 DEF TypeInv, Flow, Place, Callers
  <2> QED
    BY <2>1 DEF TypeInv, Flow
<1>3. file # NoFile /\ Held = before /\ Sought = Text(ops, size) /\ Sought' = <<>>
  BY <1>1, <1>2, FileAssumption DEF Held, Sought
<1>4. PICK f \in File : \E s : f = file /\ s = Stored(f)
  BY <1>2
<1>s. PICK s : f = file /\ s = Stored(f)
  BY <1>4
<1>5. ASSUME NEW g \in File PROVE Held'[g] = IF g = file THEN s ELSE before[g]
  <2>1. Stored(g)' = Stored(g)
    BY <1>1, StoredStill DEF TypeInv
  <2>2. Held'[g] = Stored(g)
    BY <1>1, <2>1 DEF Held
  <2> QED
    BY <1>s, <2>2 DEF Progress, Kept
<1>6. Held' = [before EXCEPT ![file] = s]
  <2>1. before \in [File -> Seq(Block)]
    BY DEF TypeInv, CountTypes
  <2>2. Held' = [g \in File |-> Held'[g]]
    BY <1>1 DEF Held
  <2> QED
    BY <1>5, <2>1, <2>2
<1>7. /\ \/ s = before[file]
         \/ s \in Store!Prefixes(Sought) \ {<<>>}
         \/ s \in Store!Torn(Sought)
      /\ before[file] # <<>> /\ s # before[file] => Head(s) = Head(Sought)
  <2>1. s = Stored(file) /\ ~ChainLost(file)
    BY <1>1, <1>2, <1>s
  <2> QED
    BY <1>1, <1>3, <2>1, CrashKeeps
<1> QED
  BY <1>1, <1>3, <1>6, <1>7 DEF Store!Crash, Held, Sought

\* A step that neither begins, ends nor stops a call changes nothing there.
LEMMA StoreStutters ==
  ASSUME TypeInv, TypeInv',
         UNCHANGED vars \/ FatFirst \/ FatSecond \/ DiskFull \/ AllocFirst \/ FreeChain
         \/ FreedAlready \/ WriteData \/ Extend \/ AllocNext \/ LinkNext \/ DirDone \/ Misread
  PROVE  UNCHANGED <<Held, file, Sought, crashes, lost>>
<1>1. UNCHANGED <<file, ops, size, before, crashes, lost>>
  BY DEF vars, call, history, FatFirst, FatSecond, DiskFull, AllocFirst, FreeChain,
     FreedAlready, WriteData, Extend, AllocNext, LinkNext, DirDone, Misread
<1>2. UNCHANGED Sought
  BY <1>1 DEF Sought
<1>3. CASE UNCHANGED vars
  <2>1. UNCHANGED <<fat1, data, diskdir, pc>>
    BY <1>3 DEF vars, disk
  <2>2. \A g \in File : Stored(g)' = Stored(g)
    BY <2>1, StoredStill DEF TypeInv
  <2> QED
    BY <1>1, <1>2, <2>1, <2>2 DEF Held
<1>4. CASE ~UNCHANGED vars
  <2>1. pc # "idle" /\ pc' # "idle"
    BY <1>4 DEF FatFirst, FatSecond, DiskFull, AllocFirst, FreeChain, FreedAlready, WriteData,
       Extend, AllocNext, LinkNext, DirDone, Misread, Call, TypeInv, Flow, Place, Callers
  <2> QED
    BY <1>1, <1>2, <2>1 DEF Held
<1> QED
  BY <1>3, <1>4

LEMMA StoreStep ==
  ASSUME IInv, IInv', Content, Plain, [Next]_vars
  PROVE  [Store!Next]_<<Held, file, Sought, crashes, lost>>
<1>1. TypeInv /\ TypeInv'
  BY DEF IInv
<1>2. CASE lost
  <2>1. lost'
    BY <1>2 DEF Next, Step, vars, history, WriteF, FatFirst, FatSecond, DiskFull, AllocFirst, Crash,
       FreeChain, FreedAlready, WriteData, Extend, AllocNext, LinkNext, DirDone, Misread, FileDone
  <2> QED
    BY <1>2, <2>1 DEF Store!Next
<1>3. CASE ~lost
  <2>1. PICK own \in Owner : Inv(own)
    BY <1>3 DEF IInv
  <2>2. CASE \E f \in File, n \in 1..MaxBlocks : WriteF(f, n)
    BY <1>1, <2>2, StoreBegins DEF Store!Next
  <2>3. CASE FileDone
    <3>1. Progress
      BY <1>3, <2>3 DEF Content, FileDone
    <3>2. ~Negative(First)
      BY <1>3, <2>3 DEF Plain, FileDone
    <3> QED
      BY <1>1, <2>1, <2>3, <3>1, <3>2, StoreEnds DEF Store!Next
  <2>4. CASE Crash
    <3>1. Progress
      BY <1>3, <2>4 DEF Content, Crash
    <3>2. CASE lost'
      <4>1. crashes' = crashes + 1 /\ pc \notin {"idle", "wild"}
        BY <2>4 DEF Crash
      <4>2. file # NoFile
        <5>1. Place # "idle"
          BY <1>1, <4>1 DEF TypeInv, Flow, Place, Callers
        <5> QED
          BY <1>1, <5>1, FileAssumption DEF TypeInv, Flow
      <4>3. Store!Lose
        BY <3>2, <4>1, <4>2 DEF Store!Lose
      <4> QED
        BY <4>3 DEF Store!Next
    <3>3. CASE ~lost'
      BY <1>1, <1>3, <2>1, <2>4, <3>1, <3>3, StoreCrashes DEF Store!Next, Plain
    <3> QED
      BY <3>2, <3>3
  <2>5. CASE UNCHANGED vars \/ (Next /\ ~Crash /\ ~FileDone
                               /\ ~\E f \in File, n \in 1..MaxBlocks : WriteF(f, n))
    BY <1>1, <2>5, StoreStutters DEF Next, Step
  <2> QED
    BY <2>2, <2>3, <2>4, <2>5
<1> QED
  BY <1>2, <1>3

\* writef() puts one file's new blocks in place of its old ones and leaves the
\* other files alone; a crash within it leaves the old blocks, or a beginning of
\* the new ones with at most one old block behind it.  A file whose first cluster
\* getclus() misreads (bit 15 set) holds nothing, and its writef() goes astray
\* behind the directory's cluster: it never ends in the model.
THEOREM StoreImplemented == Spec => ImplementsStore
<1>1. Init => Store!Init
  <2> SUFFICES ASSUME Init PROVE Store!Init
    OBVIOUS
  <2>1. pc = "idle" /\ file = NoFile /\ crashes = 0 /\ lost = FALSE
        /\ \A f \in File : diskdir[f].clus = 0
    BY DEF Init
  <2>2. ASSUME NEW f \in File PROVE Stored(f) = <<>>
    <3>1. Contents(fat1, data, GetClus(0), Stored(f))
      BY <2>1, TypeInit, StoredContents DEF TypeInv
    <3>2. GetClus(0) \notin Cluster
      BY EndIsNone, GetClusCases
    <3> QED
      BY <3>1, <3>2, ContentsNone
  <2> QED
    BY <2>1, <2>2 DEF Store!Init
<1>2. Init => IInv /\ Content /\ Plain
  BY IInvInit DEF Content, Plain, Init
<1>3. IInv /\ Content /\ Plain /\ [Next]_vars => IInv' /\ Content' /\ Plain'
  BY IInvNext, ContentNext, PlainNext
<1>4. IInv /\ IInv' /\ Content /\ Plain /\ [Next]_vars
        => [Store!Next]_<<Held, file, Sought, crashes, lost>>
  BY StoreStep
<1> QED
  BY <1>1, <1>2, <1>3, <1>4, PTL DEF Spec, ImplementsStore, Store!Spec, Store!vars, Held, Sought
===============================================================================
