----------------------------- MODULE Batch_proofs -----------------------------
(***************************************************************************)
(* Proofs about Batch, for any list of evaluations, any sets of serials and *)
(* any sizes: an evaluation is in one place for each of its devices, from   *)
(* the bundle to the caller, whoever answers first.                         *)
(***************************************************************************)
EXTENDS Batch, TLAPS, FiniteSetTheorems, SequenceTheorems

USE EvaluationsAssumption, SizesAssumption, FactoryAssumption

-----------------------------------------------------------------------------
(* The inductive invariant.                                                *)

Listed(r, x) == \E i \in 1..Len(r) : r[i] = x

Once(r) == \A i, j \in 1..Len(r) : r[i] = r[j] => i = j

Queued(p) == p[2] \in queue

Batched(p) == sender = "wait" /\ p[2] \in batch

Awaited(p) == p[2] \in awaiting[p[1]]

Pending(p) == Listed(results, p)

\* A pair moves from the bundle to the batch, is awaited, has a result and is yielded;
\* it is always in one of these places, and in one only.
OnePlace ==
    \A p \in Pairs :
       /\ Queued(p) \/ Batched(p) \/ Awaited(p) \/ Pending(p) \/ yielded[p] = 1
       /\ Queued(p) => ~Batched(p) /\ ~Awaited(p) /\ ~Pending(p) /\ yielded[p] = 0
       /\ Batched(p) => ~Awaited(p) /\ ~Pending(p) /\ yielded[p] = 0
       /\ Awaited(p) => ~Pending(p) /\ yielded[p] = 0
       /\ Pending(p) => yielded[p] = 0
       /\ yielded[p] <= 1

\* A pair has one result in the list.
OneResult == Once(results)

\* The sender ends with the bundle, and the iteration when nothing is left to answer.
Ended ==
    /\ empty => sender = "done"
    /\ receiver = "done" => empty /\ Idle /\ results = <<>>

IInv == TypeOK /\ OnePlace /\ OneResult /\ Ended /\ Balanced

\* What the bundle gives out ends with the bundle, when each of its queues that has
\* evaluations left can be reached.
Reached == queue # {} => LiveKeys(queue) # {}

-----------------------------------------------------------------------------
(* Numbers, sequences and finite sets.                                     *)

\* A set of natural numbers has a least one.
LEMMA LeastNatural ==
    ASSUME NEW T \in SUBSET Nat, T # {}
    PROVE  \E x \in T : \A y \in T : x <= y
<1> DEFINE R == {ss \in Nat \X Nat : ss[1] < ss[2]}
<1>1. IsWellFoundedOn(R, Nat)
  BY NatLessThanWellFounded DEF OpToRel
<1>2. \A x, y \in Nat : <<y, x>> \in R <=> y < x
  OBVIOUS
<1> HIDE DEF R
<1>3. PICK x \in T : \A y \in T : ~(<<y, x>> \in R)
  BY <1>1, WFMin
<1>4. x \in Nat /\ \A y \in T : y \in Nat /\ ~(y < x)
  BY <1>2, <1>3
<1>5. \A y \in T : x <= y
  BY <1>4
<1> QED
  BY <1>5

\* A bounded set of natural numbers has a greatest one.
LEMMA GreatestNatural ==
    ASSUME NEW n \in Nat, NEW T \in SUBSET (0..n), T # {}
    PROVE  \E x \in T : \A y \in T : y <= x
<1> DEFINE U == {n - y : y \in T}
<1>1. U \in SUBSET Nat /\ U # {}
  <2>1. \A y \in T : n - y \in Nat
    OBVIOUS
  <2> QED
    BY <2>1
<1>2. PICK u \in U : \A v \in U : u <= v
  <2> HIDE DEF U
  <2> QED
    BY <1>1, LeastNatural
<1>3. PICK x \in T : u = n - x
  BY <1>2
<1>4. ASSUME NEW y \in T
      PROVE  y <= x
  <2>1. n - x <= n - y
    BY <1>2, <1>3, <1>4
  <2> QED
    BY <2>1
<1> QED
  BY <1>4

LEMMA SizesType ==
    /\ BatchSize \in Nat /\ TargetBatches \in Nat
    /\ TargetBatches * BatchSize \in Nat
    /\ (TargetBatches + 1) * BatchSize = TargetBatches * BatchSize + BatchSize
    /\ 0 < BatchSize /\ BatchSize <= TargetBatches * BatchSize
BY SMT

LEMMA EvaluationsFinite ==
    /\ IsFiniteSet(Range(Evaluations))
    /\ \A S \in SUBSET Range(Evaluations) : IsFiniteSet(S) /\ Cardinality(S) \in Nat
<1> DEFINE D == 1..Len(Evaluations)
<1>1. D = DOMAIN Evaluations /\ Len(Evaluations) \in Nat
  BY LenProperties
<1>2. IsFiniteSet(D)
  BY <1>1, FS_Interval
<1>3. Evaluations \in Surjection(D, Range(Evaluations))
  BY <1>1 DEF Surjection, Range
<1>4. IsFiniteSet(Range(Evaluations))
  <2> HIDE DEF D
  <2> QED
    BY <1>2, <1>3, FS_Surjection
<1> QED
  BY <1>4, FS_Subset, FS_CardinalityType

LEMMA PairsFinite ==
    ASSUME NEW S \in SUBSET Pairs
    PROVE  IsFiniteSet(S)
<1>1. IsFiniteSet(Serials \X Range(Evaluations))
  BY EvaluationsFinite, FS_Product
<1>2. S \in SUBSET (Serials \X Range(Evaluations))
  BY DEF Pairs
<1> QED
  BY <1>1, <1>2, FS_Subset

\* SetToSeq has each member of a finite set once.
LEMMA SetToSeqLists ==
    ASSUME NEW S, IsFiniteSet(S)
    PROVE  /\ SetToSeq(S) \in Seq(S)
           /\ Once(SetToSeq(S))
           /\ \A x : x \in S <=> Listed(SetToSeq(S), x)
<1> DEFINE n == Cardinality(S)
           f == SetToSeq(S)
<1>1. n \in Nat /\ ExistsBijection(1..n, S)
  BY FS_CardinalityType
<1>2. \E g \in [1..n -> S] : IsInjective(g)
  BY <1>1 DEF ExistsBijection, Bijection, Injection
<1>3. f \in [1..n -> S] /\ IsInjective(f)
  BY <1>2 DEF SetToSeq
<1>4. f \in Injection(1..n, S)
  BY <1>3 DEF Injection
<1>5. Cardinality(1..n) = n
  BY <1>1, FS_Interval
<1>6. f \in Surjection(1..n, S)
  <2> HIDE DEF f
  <2> QED
    BY <1>4, <1>5, FS_Injection
<1>7. f \in Seq(S) /\ Len(f) = n
  <2> HIDE DEF f, n
  <2> QED
    BY <1>1, <1>3
<1>8. \A x : x \in S <=> Listed(f, x)
  <2> HIDE DEF f, n
  <2>1. \A x \in S : \E i \in 1..n : f[i] = x
    BY <1>6 DEF Surjection
  <2>2. \A i \in 1..n : f[i] \in S
    BY <1>3
  <2> QED
    BY <1>7, <2>1, <2>2 DEF Listed
<1>9. Once(f)
  <2> HIDE DEF f, n
  <2> QED
    BY <1>3, <1>7 DEF IsInjective, Once
<1> QED
  BY <1>7, <1>8, <1>9

\* The list of results, when one result comes to its end ...
LEMMA Appended ==
    ASSUME NEW S, NEW r \in Seq(S), NEW x \in S, Once(r), ~Listed(r, x)
    PROVE  /\ Append(r, x) \in Seq(S) /\ Once(Append(r, x))
           /\ \A y \in S : Listed(Append(r, x), y) <=> y = x \/ Listed(r, y)
<1> DEFINE t == Append(r, x)
           n == Len(r)
<1>1. n \in Nat /\ t \in Seq(S) /\ Len(t) = n + 1
  OBVIOUS
<1>2. \A i \in 1..n : t[i] = r[i]
  OBVIOUS
<1>3. t[n + 1] = x
  OBVIOUS
<1>4. \A i \in 1..n + 1 : i \in 1..n \/ i = n + 1
  BY <1>1
<1> HIDE DEF t, n
<1>5. \A y : (\E i \in 1..n + 1 : t[i] = y) <=> y = x \/ \E i \in 1..n : r[i] = y
  <2>1. 1..n \subseteq 1..n + 1 /\ n + 1 \in 1..n + 1
    BY <1>1
  <2> QED
    BY <1>2, <1>3, <1>4, <2>1
<1>6. \A i, j \in 1..n + 1 : t[i] = t[j] => i = j
  BY <1>2, <1>3, <1>4 DEF n, Once, Listed
<1>7. \A y \in S : Listed(t, y) <=> y = x \/ Listed(r, y)
  BY <1>1, <1>5 DEF n, Listed
<1>8. Once(t)
  BY <1>1, <1>6 DEF Once
<1> QED
  BY <1>1, <1>7, <1>8 DEF t

\* ... or several, ...
LEMMA Extended ==
    ASSUME NEW S, NEW r \in Seq(S), NEW q \in Seq(S), Once(r), Once(q),
           \A y \in S : ~(Listed(r, y) /\ Listed(q, y))
    PROVE  /\ r \o q \in Seq(S) /\ Once(r \o q)
           /\ \A y \in S : Listed(r \o q, y) <=> Listed(r, y) \/ Listed(q, y)
<1> DEFINE t == r \o q
           n == Len(r)
           m == Len(q)
<1>1. n \in Nat /\ m \in Nat /\ t \in Seq(S) /\ Len(t) = n + m
  BY ConcatProperties
<1>2. \A i \in 1..n + m : t[i] = IF i <= n THEN r[i] ELSE q[i - n]
  BY ConcatProperties
<1>3. \A i, j \in 1..n : r[i] = r[j] => i = j
  BY DEF Once
<1>4. \A i, j \in 1..m : q[i] = q[j] => i = j
  BY DEF Once
<1>5. \A i \in 1..n, j \in 1..m : r[i] # q[j]
  <2>1. \A i \in 1..n : r[i] \in S
    OBVIOUS
  <2> QED
    BY <2>1 DEF Listed
<1> HIDE DEF t, n, m
<1>6. \A i \in 1..n : i \in 1..n + m /\ t[i] = r[i]
  BY <1>1, <1>2
<1>7. \A i \in 1..m : n + i \in 1..n + m /\ t[n + i] = q[i]
  <2> TAKE i \in 1..m
  <2>1. n + i \in 1..n + m /\ ~(n + i <= n) /\ (n + i) - n = i
    BY <1>1
  <2>2. t[n + i] = q[(n + i) - n]
    BY <1>2, <2>1
  <2> QED
    BY <2>1, <2>2
<1>8. \A i \in 1..n + m : i \in 1..n \/ \E j \in 1..m : i = n + j
  <2> TAKE i \in 1..n + m
  <2>1. CASE i <= n
    BY <2>1, <1>1
  <2>2. CASE ~(i <= n)
    <3>1. i - n \in 1..m /\ i = n + (i - n)
      BY <2>2, <1>1
    <3> QED
      BY <3>1
  <2> QED
    BY <2>1, <2>2
<1>9. \A y : (\E i \in 1..n + m : t[i] = y) <=>
                  (\E i \in 1..n : r[i] = y) \/ (\E i \in 1..m : q[i] = y)
  <2> TAKE y
  <2>1. ASSUME NEW i \in 1..n + m, t[i] = y
        PROVE  (\E j \in 1..n : r[j] = y) \/ (\E j \in 1..m : q[j] = y)
    BY <2>1, <1>6, <1>7, <1>8
  <2>2. ASSUME NEW i \in 1..n, r[i] = y
        PROVE  \E j \in 1..n + m : t[j] = y
    BY <2>2, <1>6
  <2>3. ASSUME NEW i \in 1..m, q[i] = y
        PROVE  \E j \in 1..n + m : t[j] = y
    BY <2>3, <1>7
  <2> QED
    BY <2>1, <2>2, <2>3
<1>10. \A i, j \in 1..n + m : t[i] = t[j] => i = j
  BY <1>3, <1>4, <1>5, <1>6, <1>7, <1>8
<1>11. \A y \in S : Listed(t, y) <=> Listed(r, y) \/ Listed(q, y)
  BY <1>1, <1>9 DEF n, m, Listed
<1>12. Once(t)
  BY <1>1, <1>10 DEF Once
<1> QED
  BY <1>1, <1>11, <1>12 DEF t

\* ... and when its head is taken.
LEMMA Shortened ==
    ASSUME NEW S, NEW r \in Seq(S), r # <<>>, Once(r)
    PROVE  /\ Head(r) \in S /\ Listed(r, Head(r))
           /\ Tail(r) \in Seq(S) /\ Once(Tail(r))
           /\ \A y \in S : Listed(Tail(r), y) <=> y # Head(r) /\ Listed(r, y)
<1> DEFINE t == Tail(r)
           n == Len(r)
<1>1. n \in Nat /\ n # 0 /\ t \in Seq(S) /\ Len(t) = n - 1 /\ Head(r) \in S
  BY HeadTailProperties, EmptySeq
<1>2. \A i \in 1..n - 1 : t[i] = r[i + 1]
  BY HeadTailProperties
<1>3. Head(r) = r[1]
  OBVIOUS
<1>4. \A i, j \in 1..n : r[i] = r[j] => i = j
  BY DEF Once
<1> HIDE DEF t, n
<1>5. 1 \in 1..n
  BY <1>1
<1>6. \A i \in 1..n - 1 : i + 1 \in 1..n /\ i + 1 # 1
  BY <1>1
<1>7. \A i \in 1..n : i = 1 \/ \E j \in 1..n - 1 : i = j + 1
  <2> TAKE i \in 1..n
  <2>1. i = 1 \/ (i - 1 \in 1..n - 1 /\ i = (i - 1) + 1)
    BY <1>1
  <2> QED
    BY <2>1
<1>8. \A y : (\E i \in 1..n - 1 : t[i] = y) <=> y # r[1] /\ \E i \in 1..n : r[i] = y
  <2> TAKE y
  <2>1. ASSUME NEW i \in 1..n - 1, t[i] = y
        PROVE  y # r[1] /\ \E j \in 1..n : r[j] = y
    <3>1. i + 1 \in 1..n /\ i + 1 # 1 /\ r[i + 1] = y
      BY <1>2, <1>6, <2>1
    <3> QED
      BY <1>4, <1>5, <3>1
  <2>2. ASSUME NEW i \in 1..n, r[i] = y, y # r[1]
        PROVE  \E j \in 1..n - 1 : t[j] = y
    BY <1>2, <1>7, <2>2
  <2> QED
    BY <2>1, <2>2
<1>9. \A i, j \in 1..n - 1 : t[i] = t[j] => i = j
  <2> TAKE i, j \in 1..n - 1
  <2>1. t[i] = t[j] => i + 1 = j + 1
    BY <1>2, <1>4, <1>6
  <2>2. i + 1 = j + 1 => i = j
    BY <1>1
  <2> QED
    BY <2>1, <2>2
<1>10. \A y \in S : Listed(t, y) <=> y # Head(r) /\ Listed(r, y)
  BY <1>1, <1>3, <1>8 DEF n, Listed
<1>11. Once(t) /\ Listed(r, Head(r))
  BY <1>1, <1>3, <1>5, <1>9 DEF n, Once, Listed
<1> QED
  BY <1>1, <1>10, <1>11 DEF t

-----------------------------------------------------------------------------
(* EvaluationBundle.                                                       *)

\* Keys are finite: frozensets of reserved devices.
LEMMA KeysFinite ==
    \A k \in Keys : /\ k \in SUBSET Serials /\ k # {}
                    /\ Cardinality(k) \in 0..Cardinality(Serials)
<1> SUFFICES ASSUME NEW k \in Keys
             PROVE  k \in SUBSET Serials /\ k # {} /\ Cardinality(k) \in 0..Cardinality(Serials)
  OBVIOUS
<1>1. k \in SUBSET Serials /\ k # {}
  BY DEF Keys
<1>2. Cardinality(k) <= Cardinality(Serials) /\ IsFiniteSet(k)
  BY <1>1, FS_Subset
<1>3. Cardinality(k) \in Nat /\ Cardinality(Serials) \in Nat
  BY <1>2, FS_CardinalityType
<1> QED
  BY <1>1, <1>2, <1>3

\* The first use of a key.
Opens(i) == /\ i \in 1..Len(Evaluations)
            /\ \A j \in 1..i - 1 : SerialsOf[Evaluations[j]] # SerialsOf[Evaluations[i]]

LEMMA KeyOpens ==
    ASSUME NEW k \in Keys
    PROVE  \E i \in 1..Len(Evaluations) : Opens(i) /\ SerialsOf[Evaluations[i]] = k
<1> DEFINE D == 1..Len(Evaluations)
           T == {i \in D : SerialsOf[Evaluations[i]] = k}
<1>1. D = DOMAIN Evaluations /\ D \in SUBSET Nat /\ Len(Evaluations) \in Nat
  BY LenProperties
<1>2. T \in SUBSET Nat /\ T # {}
  BY <1>1 DEF Keys, Range
<1>3. PICK i \in T : \A j \in T : i <= j
  <2> HIDE DEF T
  <2> QED
    BY <1>2, LeastNatural
<1>4. \A j \in 1..i - 1 : j \in D /\ ~(i <= j)
  BY <1>1, <1>3
<1>5. \A j \in 1..i - 1 : SerialsOf[Evaluations[j]] # k
  BY <1>3, <1>4
<1> QED
  BY <1>3, <1>5 DEF Opens

\* Of any keys, one is searched last.
LEMMA SearchedLast ==
    ASSUME NEW K \in SUBSET Keys, K # {}
    PROVE  \E k \in K : \A l \in K : l = k \/ SearchedBefore(l, k)
<1> DEFINE N == Cardinality(Serials)
           C == {Cardinality(k) : k \in K}
<1>1. N \in Nat /\ \A k \in K : Cardinality(k) \in 0..N
  BY KeysFinite, FS_CardinalityType
<1>2. PICK c \in C : \A d \in C : d <= c
  <2>1. C \in SUBSET (0..N) /\ C # {}
    BY <1>1
  <2> HIDE DEF C, N
  <2> QED
    BY <1>1, <2>1, GreatestNatural
<1> DEFINE F == {i \in 1..Len(Evaluations) : /\ Opens(i) /\ SerialsOf[Evaluations[i]] \in K
                                             /\ Cardinality(SerialsOf[Evaluations[i]]) = c}
<1>3. Len(Evaluations) \in Nat /\ DOMAIN Evaluations = 1..Len(Evaluations)
  BY LenProperties
<1>4. \A k \in K : Cardinality(k) = c => \E i \in F : SerialsOf[Evaluations[i]] = k
  BY KeyOpens
<1>5. PICK m \in F : \A i \in F : i <= m
  <2>1. F \in SUBSET (0..Len(Evaluations)) /\ F # {}
    BY <1>2, <1>3, <1>4
  <2> HIDE DEF F
  <2> QED
    BY <1>3, <2>1, GreatestNatural
<1> DEFINE k == SerialsOf[Evaluations[m]]
<1>6. k \in K /\ Cardinality(k) = c
  OBVIOUS
<1>7. ASSUME NEW l \in K, l # k
      PROVE  SearchedBefore(l, k)
  <2>1. CASE Cardinality(l) # c
    <3>1. Cardinality(l) < c
      <4>1. Cardinality(l) \in Nat /\ c \in Nat
        BY <1>1, <1>2
      <4>2. Cardinality(l) <= c
        BY <1>2, <1>7
      <4> QED
        BY <2>1, <4>1, <4>2
    <3> QED
      BY <1>6, <3>1 DEF SearchedBefore
  <2>2. CASE Cardinality(l) = c
    <3>1. PICK i \in F : SerialsOf[Evaluations[i]] = l
      BY <1>4, <2>2
    <3>2. i < m /\ i \in DOMAIN Evaluations
      BY <1>3, <1>5, <1>7, <3>1
    <3>3. \A j \in 1..i : j \in 1..m - 1
      BY <1>3, <3>2
    <3>4. \A j \in 1..i : SerialsOf[Evaluations[j]] # k
      BY <3>3 DEF Opens
    <3>5. UsedBefore(l, k)
      BY <3>1, <3>2, <3>4 DEF UsedBefore
    <3> QED
      BY <1>6, <2>2, <3>5 DEF SearchedBefore
  <2> QED
    BY <2>1, <2>2
<1> QED
  BY <1>6, <1>7

\* Of any keys, one is searched first.
LEMMA SearchedFirst ==
    ASSUME NEW K \in SUBSET Keys, K # {}
    PROVE  \E k \in K : \A l \in K : l = k \/ SearchedBefore(k, l)
<1> DEFINE C == {Cardinality(k) : k \in K}
<1>1. \A k \in K : Cardinality(k) \in Nat
  BY KeysFinite, FS_CardinalityType
<1>2. PICK c \in C : \A d \in C : c <= d
  <2>1. C \in SUBSET Nat /\ C # {}
    BY <1>1
  <2> HIDE DEF C
  <2> QED
    BY <2>1, LeastNatural
<1> DEFINE F == {i \in 1..Len(Evaluations) : /\ Opens(i) /\ SerialsOf[Evaluations[i]] \in K
                                             /\ Cardinality(SerialsOf[Evaluations[i]]) = c}
<1>3. Len(Evaluations) \in Nat /\ DOMAIN Evaluations = 1..Len(Evaluations)
  BY LenProperties
<1>4. \A k \in K : Cardinality(k) = c => \E i \in F : SerialsOf[Evaluations[i]] = k
  BY KeyOpens
<1>5. PICK m \in F : \A i \in F : m <= i
  <2>1. F \in SUBSET Nat /\ F # {}
    BY <1>2, <1>3, <1>4
  <2> HIDE DEF F
  <2> QED
    BY <2>1, LeastNatural
<1> DEFINE k == SerialsOf[Evaluations[m]]
<1>6. k \in K /\ Cardinality(k) = c
  OBVIOUS
<1>7. ASSUME NEW l \in K, l # k
      PROVE  SearchedBefore(k, l)
  <2>1. CASE Cardinality(l) # c
    <3>1. c < Cardinality(l)
      <4>1. Cardinality(l) \in Nat /\ c \in Nat
        BY <1>1, <1>2
      <4>2. c <= Cardinality(l)
        BY <1>2, <1>7
      <4> QED
        BY <2>1, <4>1, <4>2
    <3> QED
      BY <1>6, <3>1 DEF SearchedBefore
  <2>2. CASE Cardinality(l) = c
    <3>1. PICK i \in F : SerialsOf[Evaluations[i]] = l
      BY <1>4, <2>2
    <3>2. m < i /\ m \in DOMAIN Evaluations
      BY <1>3, <1>5, <1>7, <3>1
    <3>3. \A j \in 1..m : j \in 1..i - 1
      BY <1>3, <3>2
    <3>4. \A j \in 1..m : SerialsOf[Evaluations[j]] # l
      BY <3>1, <3>3 DEF Opens
    <3>5. UsedBefore(k, l)
      BY <3>2, <3>4 DEF UsedBefore
    <3> QED
      BY <1>6, <2>2, <3>5 DEF SearchedBefore
  <2> QED
    BY <2>1, <2>2
<1> QED
  BY <1>6, <1>7

\* The search order is strict.
LEMMA SearchedOnce ==
    ASSUME NEW k \in Keys, NEW l \in Keys, SearchedBefore(k, l)
    PROVE  ~SearchedBefore(l, k)
<1>1. Cardinality(k) \in Nat /\ Cardinality(l) \in Nat
  BY KeysFinite, FS_CardinalityType
<1>2. ~(UsedBefore(k, l) /\ UsedBefore(l, k))
  <2> SUFFICES ASSUME NEW i \in DOMAIN Evaluations, SerialsOf[Evaluations[i]] = k,
                      \A n \in 1..i : SerialsOf[Evaluations[n]] # l,
                      NEW j \in DOMAIN Evaluations, SerialsOf[Evaluations[j]] = l,
                      \A n \in 1..j : SerialsOf[Evaluations[n]] # k
               PROVE  FALSE
    BY DEF UsedBefore
  <2>1. i \in Nat /\ j \in Nat /\ 1 <= i /\ 1 <= j
    BY LenProperties
  <2>2. i \in 1..j \/ j \in 1..i
    BY <2>1
  <2> QED
    BY <2>2
<1> QED
  BY <1>1, <1>2 DEF SearchedBefore

\* The evaluations that count for Filled.
UpTo(b, k, s) == {e \in b : /\ s \in SerialsOf[e]
                            /\ SerialsOf[e] = k \/ SearchedBefore(SerialsOf[e], k)}

LEMMA FilledIs ==
    ASSUME NEW b \in SUBSET Range(Evaluations), NEW k, NEW s
    PROVE  /\ Filled(b, k, s) = Cardinality(UpTo(b, k, s)) /\ IsFiniteSet(UpTo(b, k, s))
           /\ Filled(b, k, s) \in Nat
<1>1. UpTo(b, k, s) \in SUBSET Range(Evaluations)
  BY DEF UpTo
<1>2. Filled(b, k, s) = Cardinality(UpTo(b, k, s))
  BY DEF Filled, UpTo
<1> QED
  BY <1>1, <1>2, EvaluationsFinite

\* The last set of serials that has a device counts what the others have.
LEMMA AllFits ==
    ASSUME NEW b \in SUBSET Range(Evaluations),
           \A e \in b : \A s \in SerialsOf[e] : Filled(b, SerialsOf[e], s) <= BatchSize,
           NEW s \in Serials
    PROVE  Cardinality({e \in b : s \in SerialsOf[e]}) <= BatchSize
<1> DEFINE S == {e \in b : s \in SerialsOf[e]}
           K == {SerialsOf[e] : e \in S}
<1>1. CASE S = {}
  <2>1. Cardinality(S) = 0
    BY <1>1, FS_EmptySet
  <2> QED
    BY <2>1
<1>2. CASE S # {}
  <2>1. K \in SUBSET Keys /\ K # {}
    BY <1>2 DEF Keys
  <2>2. PICK k \in K : \A l \in K : l = k \/ SearchedBefore(l, k)
    <3> HIDE DEF K
    <3> QED
      BY <2>1, SearchedLast
  <2>3. Filled(b, k, s) <= BatchSize
    BY <2>2
  <2>4. S = UpTo(b, k, s)
    BY <2>2 DEF UpTo
  <2> QED
    BY <2>3, <2>4, FilledIs
<1> QED
  BY <1>1, <1>2

\* A batch has no more than batch_size evaluations for a device.
LEMMA BatchFits ==
    ASSUME NEW q \in SUBSET Range(Evaluations), NEW b \in SUBSET q, IsBatch(b, q),
           NEW s \in Serials
    PROVE  Cardinality({e \in b : s \in SerialsOf[e]}) <= BatchSize
<1>1. \A e \in b : \A u \in SerialsOf[e] : Filled(b, SerialsOf[e], u) <= BatchSize
  BY DEF IsBatch
<1> QED
  BY <1>1, AllFits

\* A batch is empty only if no set of serials can be reached.
LEMMA BatchEmpty ==
    ASSUME NEW q, IsBatch({}, q)
    PROVE  LiveKeys(q) = {}
<1> SUFFICES ASSUME NEW k \in LiveKeys(q)
             PROVE  FALSE
  OBVIOUS
<1>1. Of(q, k) # {} /\ k \in Keys
  BY DEF LiveKeys
<1>2. Of(q \ {}, k) # {}
  BY <1>1 DEF Of
<1>3. PICK s \in k : Filled({}, k, s) = BatchSize
  BY <1>2 DEF IsBatch
<1>4. Filled({}, k, s) = 0
  <2>1. {e \in {} : s \in SerialsOf[e] /\ (SerialsOf[e] = k \/ SearchedBefore(SerialsOf[e], k))} = {}
    OBVIOUS
  <2> QED
    BY <2>1, FS_EmptySet DEF Filled
<1> QED
  BY <1>3, <1>4

\* Of two batches, neither takes more from a queue than the other.
LEMMA NoneTakesMore ==
    ASSUME NEW q \in SUBSET Range(Evaluations),
           NEW b \in SUBSET q, IsBatch(b, q), NEW c \in SUBSET q, IsBatch(c, q),
           NEW k \in LiveKeys(q), \A l \in LiveKeys(q) : SearchedBefore(l, k) => Of(b, l) = Of(c, l),
           Of(b, k) \subseteq Of(c, k)
    PROVE  Of(b, k) = Of(c, k)
<1> SUFFICES ASSUME NEW e \in Of(c, k), e \notin Of(b, k)
             PROVE  FALSE
  OBVIOUS
<1>1. e \in Of(q \ b, k) /\ e \in Range(Evaluations) /\ SerialsOf[e] = k
  BY DEF Of
<1>2. PICK s \in k : Filled(b, k, s) = BatchSize
  BY <1>1 DEF IsBatch
<1>3. Filled(c, k, s) <= BatchSize
  BY DEF IsBatch
<1>4. UpTo(b, k, s) \cup {e} \subseteq UpTo(c, k, s)
  <2>1. ASSUME NEW f \in UpTo(b, k, s)
        PROVE  f \in c
    <3>1. SerialsOf[f] \in LiveKeys(q) /\ f \in Of(b, SerialsOf[f])
      BY <2>1 DEF IsBatch, UpTo, Of
    <3>2. f \in Of(c, SerialsOf[f])
      BY <2>1, <3>1 DEF UpTo
    <3> QED
      BY <3>2 DEF Of
  <2> QED
    BY <1>1, <2>1 DEF UpTo, Of
<1>5. e \notin UpTo(b, k, s)
  BY <1>1 DEF UpTo, Of
<1>6. /\ IsFiniteSet(UpTo(b, k, s)) /\ Filled(b, k, s) = Cardinality(UpTo(b, k, s))
      /\ IsFiniteSet(UpTo(c, k, s)) /\ Filled(c, k, s) = Cardinality(UpTo(c, k, s))
      /\ Filled(b, k, s) \in Nat /\ Filled(c, k, s) \in Nat
  BY FilledIs
<1>7. Cardinality(UpTo(b, k, s) \cup {e}) = Filled(b, k, s) + 1
  BY <1>5, <1>6, FS_AddElement
<1>8. Cardinality(UpTo(b, k, s) \cup {e}) <= Filled(c, k, s)
  BY <1>4, <1>6, FS_Subset
<1> QED
  BY <1>2, <1>3, <1>6, <1>7, <1>8

\* The list has no evaluation twice.
LEMMA ListedOnce ==
    ASSUME NEW e, NEW f, ListedBefore(e, f)
    PROVE  ~ListedBefore(f, e)
<1> SUFFICES ASSUME NEW i \in DOMAIN Evaluations, NEW j \in DOMAIN Evaluations, i < j,
                    Evaluations[i] = e, Evaluations[j] = f,
                    NEW m \in DOMAIN Evaluations, NEW n \in DOMAIN Evaluations, m < n,
                    Evaluations[m] = f, Evaluations[n] = e
             PROVE  FALSE
  BY DEF ListedBefore
<1>1. i = n /\ j = m
  BY DEF IsInjective
<1>2. i \in Nat /\ j \in Nat
  BY LenProperties
<1> QED
  BY <1>1, <1>2

\* A bundle has one next batch.
THEOREM BatchIsUnique ==
    ASSUME NEW q \in SUBSET Range(Evaluations),
           NEW b \in SUBSET q, IsBatch(b, q), NEW c \in SUBSET q, IsBatch(c, q)
    PROVE  b = c
<1> DEFINE K == {k \in LiveKeys(q) : Of(b, k) # Of(c, k)}
<1>1. CASE K = {}
  <2>1. \A e \in b : SerialsOf[e] \in LiveKeys(q) /\ e \in Of(b, SerialsOf[e])
    BY DEF IsBatch, Of
  <2>2. \A e \in c : SerialsOf[e] \in LiveKeys(q) /\ e \in Of(c, SerialsOf[e])
    BY DEF IsBatch, Of
  <2> QED
    BY <1>1, <2>1, <2>2 DEF Of
<1>2. CASE K # {}
  <2>1. K \in SUBSET Keys
    BY DEF LiveKeys
  <2>2. PICK k \in K : \A l \in K : l = k \/ SearchedBefore(k, l)
    <3> HIDE DEF K
    <3> QED
      BY <1>2, <2>1, SearchedFirst
  <2>3. ASSUME NEW l \in LiveKeys(q), SearchedBefore(l, k)
        PROVE  Of(b, l) = Of(c, l)
    <3>1. l \in Keys /\ k \in Keys
      BY <2>1, <2>2 DEF LiveKeys
    <3>2. ~SearchedBefore(k, l)
      BY <2>3, <3>1, SearchedOnce
    <3>3. l # k
      BY <2>3, <3>2
    <3> QED
      BY <2>2, <3>2, <3>3
  <2>4. Of(b, k) \subseteq Of(c, k) \/ Of(c, k) \subseteq Of(b, k)
    <3> SUFFICES ASSUME NEW e \in Of(b, k), e \notin Of(c, k), NEW f \in Of(c, k), f \notin Of(b, k)
                 PROVE  FALSE
      OBVIOUS
    <3>1. e \in Of(q \ c, k) /\ f \in Of(q \ b, k)
      BY DEF Of
    <3>2. ListedBefore(f, e) /\ ListedBefore(e, f)
      BY <3>1 DEF IsBatch
    <3> QED
      BY <3>2, ListedOnce
  <2>5. Of(b, k) = Of(c, k)
    BY <2>3, <2>4, NoneTakesMore
  <2> QED
    BY <2>5
<1> QED
  BY <1>1, <1>2

\* What IsBatch says of one key.
Served(b, q, k) ==
    /\ \A e \in Of(b, k), f \in Of(q \ b, k) : ListedBefore(f, e)
    /\ \A s \in k : Filled(b, k, s) <= BatchSize
    /\ Of(q \ b, k) = {} \/ \E s \in k : Filled(b, k, s) = BatchSize

\* The batch after the keys of D have been searched.
PartOf(b, q, D) ==
    /\ \A k \in D, l \in LiveKeys(q) : SearchedBefore(l, k) => l \in D
    /\ \A e \in b : SerialsOf[e] \in D
    /\ \A k \in D : Served(b, q, k)

\* What is taken when the evaluations of key k from position t on are.
From(q, k, t) == {e \in Of(q, k) : \E i \in t..Len(Evaluations) : Evaluations[i] = e}

\* Evaluations of k, which is not of the keys searched so far, disturb none of them.
LEMMA StillServed ==
    ASSUME NEW q \in SUBSET Range(Evaluations), NEW D \in SUBSET LiveKeys(q),
           NEW b \in SUBSET q, PartOf(b, q, D),
           NEW k \in LiveKeys(q) \ D, NEW T \in SUBSET Of(q, k),
           NEW l \in D
    PROVE  Served(b \cup T, q, l)
<1>1. l # k /\ ~SearchedBefore(k, l)
  BY DEF PartOf
<1>2. Of(b \cup T, l) = Of(b, l) /\ Of(q \ (b \cup T), l) = Of(q \ b, l)
  BY <1>1 DEF Of
<1>3. \A s : UpTo(b \cup T, l, s) = UpTo(b, l, s)
  BY <1>1 DEF UpTo, Of
<1>4. \A s : Filled(b \cup T, l, s) = Filled(b, l, s)
  BY <1>3 DEF Filled, UpTo
<1>5. Served(b, q, l)
  BY DEF PartOf
<1> QED
  BY <1>2, <1>4, <1>5 DEF Served

\* One element makes a finite set larger by one at most.
LEMMA OneMore ==
    ASSUME NEW A, NEW x, IsFiniteSet(A)
    PROVE  IsFiniteSet(A \cup {x}) /\ Cardinality(A \cup {x}) <= Cardinality(A) + 1
<1>1. Cardinality(A) \in Nat
  BY FS_CardinalityType
<1>2. CASE x \in A
  <2>1. A \cup {x} = A
    BY <1>2
  <2>2. Cardinality(A) <= Cardinality(A) + 1
    BY <1>1
  <2> QED
    BY <2>1, <2>2
<1>3. CASE x \notin A
  <2>1. IsFiniteSet(A \cup {x})
    BY FS_AddElement
  <2>2. Cardinality(A \cup {x}) = Cardinality(A) + 1
    BY <1>3, FS_AddElement
  <2>3. Cardinality(A) + 1 <= Cardinality(A) + 1
    BY <1>1
  <2> QED
    BY <2>1, <2>2, <2>3
<1> QED
  BY <1>2, <1>3

\* The next key can be searched: as many of its last evaluations are taken as fit.
LEMMA CanBeServed ==
    ASSUME NEW q \in SUBSET Range(Evaluations), NEW D \in SUBSET LiveKeys(q),
           NEW b \in SUBSET q, PartOf(b, q, D),
           NEW k \in LiveKeys(q) \ D
    PROVE  \E T \in SUBSET Of(q, k) : Served(b \cup T, q, k)
<1> DEFINE L == Len(Evaluations)
           C(t) == b \cup From(q, k, t)
           F == {t \in 1..L + 1 : \A s \in k : Filled(C(t), k, s) <= BatchSize}
<1>1. L \in Nat /\ DOMAIN Evaluations = 1..L
  BY LenProperties
<1>2. \A t : From(q, k, t) \in SUBSET Of(q, k) /\ C(t) \in SUBSET q
  BY DEF From, Of
<1>3. k \in SUBSET Serials /\ \A e \in b : SerialsOf[e] # k
  BY KeysFinite DEF LiveKeys, PartOf
<1>4. L + 1 \in F
  <2>1. C(L + 1) = b
    BY <1>1 DEF From
  <2>2. \A e \in b : \A s \in SerialsOf[e] : Filled(b, SerialsOf[e], s) <= BatchSize
    BY DEF PartOf, Served
  <2>3. ASSUME NEW s \in k
        PROVE  Filled(b, k, s) <= BatchSize
    <3> DEFINE S == {e \in b : s \in SerialsOf[e]}
    <3>1. s \in Serials /\ S \in SUBSET Range(Evaluations)
      BY <1>3
    <3>2. Cardinality(S) <= BatchSize
      BY <2>2, <3>1, AllFits
    <3>3. UpTo(b, k, s) \subseteq S
      BY DEF UpTo
    <3>4. IsFiniteSet(S) /\ Cardinality(S) \in Nat
      BY <3>1, EvaluationsFinite
    <3>5. Cardinality(UpTo(b, k, s)) <= Cardinality(S)
      <4> HIDE DEF S
      <4> QED
        BY <3>3, <3>4, FS_Subset
    <3>6. Filled(b, k, s) = Cardinality(UpTo(b, k, s)) /\ Filled(b, k, s) \in Nat
      BY FilledIs
    <3> HIDE DEF S
    <3> QED
      BY <3>2, <3>4, <3>5, <3>6, SizesType
  <2>4. L + 1 \in 1..L + 1
    <3> HIDE DEF L
    <3> QED
      BY <1>1
  <2>5. \A s \in k : Filled(C(L + 1), k, s) <= BatchSize
    BY <2>1, <2>3
  <2> HIDE DEF L, C
  <2> QED
    BY <2>4, <2>5
<1>5. PICK t \in F : \A u \in F : t <= u
  <2>1. F \in SUBSET Nat /\ F # {}
    <3>1. 1..L + 1 \in SUBSET Nat
      <4> HIDE DEF L
      <4> QED
        BY <1>1
    <3>2. F \subseteq 1..L + 1
      OBVIOUS
    <3> HIDE DEF F, L
    <3> QED
      BY <1>4, <3>1, <3>2
  <2> HIDE DEF F
  <2> QED
    BY <2>1, LeastNatural
<1>6. t \in 1..L + 1 /\ \A s \in k : Filled(C(t), k, s) <= BatchSize
  BY <1>5
<1>7. Of(C(t), k) = From(q, k, t)
  BY <1>3 DEF Of, From
<1>8. \A f \in Of(q \ C(t), k) : \E j \in 1..L : j < t /\ Evaluations[j] = f
  <2> TAKE f \in Of(q \ C(t), k)
  <2>1. f \in Of(q, k) /\ f \notin From(q, k, t)
    BY DEF Of
  <2>2. PICK j \in 1..L : Evaluations[j] = f
    BY <1>1, <2>1 DEF Of, Range
  <2>3. j \notin t..L
    BY <2>1, <2>2 DEF From
  <2> QED
    BY <1>1, <1>6, <2>2, <2>3
<1>9. \A e \in Of(C(t), k), f \in Of(q \ C(t), k) : ListedBefore(f, e)
  <2> TAKE e \in Of(C(t), k), f \in Of(q \ C(t), k)
  <2>1. PICK i \in t..L : Evaluations[i] = e
    BY <1>7 DEF From
  <2>2. PICK j \in 1..L : j < t /\ Evaluations[j] = f
    BY <1>8
  <2>3. i \in 1..L /\ j < i
    BY <1>1, <1>6, <2>1, <2>2
  <2> QED
    BY <1>1, <2>1, <2>2, <2>3 DEF ListedBefore
<1>10. CASE t = 1
  <2>1. \A j \in 1..L : ~(j < t)
    BY <1>1, <1>10
  <2> HIDE DEF C, L
  <2>2. Of(q \ C(t), k) = {}
    BY <1>8, <2>1
  <2> QED
    BY <1>2, <1>6, <1>9, <2>2 DEF Served, C
<1>11. CASE t # 1
  <2>1. t - 1 \in 1..L + 1 /\ t - 1 \notin F
    <3> HIDE DEF C, L
    <3>1. t - 1 \in 1..L + 1 /\ t - 1 < t
      BY <1>1, <1>6, <1>11
    <3>2. ~(t <= t - 1)
      BY <1>1, <1>6
    <3> HIDE DEF F
    <3> QED
      BY <1>5, <3>1, <3>2
  <2>2. PICK s \in k : ~(Filled(C(t - 1), k, s) <= BatchSize)
    BY <2>1
  <2> DEFINE x == Evaluations[t - 1]
             A == UpTo(C(t), k, s)
  <2>3. From(q, k, t - 1) \subseteq From(q, k, t) \cup {x}
    <3>1. \A i \in t - 1..L : i = t - 1 \/ i \in t..L
      BY <1>1, <1>6
    <3> QED
      BY <3>1 DEF From
  <2>4. UpTo(C(t - 1), k, s) \subseteq A \cup {x}
    BY <2>3 DEF UpTo
  <2>5. C(t) \in SUBSET Range(Evaluations) /\ C(t - 1) \in SUBSET Range(Evaluations)
    BY <1>2
  <2>6. /\ Filled(C(t), k, s) = Cardinality(A) /\ Filled(C(t), k, s) \in Nat
        /\ IsFiniteSet(A)
        /\ Filled(C(t - 1), k, s) = Cardinality(UpTo(C(t - 1), k, s))
        /\ Filled(C(t - 1), k, s) \in Nat
    <3> HIDE DEF C
    <3> QED
      BY <2>5, FilledIs
  <2> HIDE DEF A, x, C
  <2>7. IsFiniteSet(A \cup {x}) /\ Cardinality(A \cup {x}) <= Cardinality(A) + 1
    BY <2>6, OneMore
  <2>8. Filled(C(t - 1), k, s) <= Cardinality(A \cup {x})
    BY <2>4, <2>6, <2>7, FS_Subset
  <2>9. Cardinality(A \cup {x}) \in Nat
    BY <2>7, FS_CardinalityType
  <2>10. Filled(C(t), k, s) = BatchSize
    <3>1. Filled(C(t), k, s) <= BatchSize
      BY <1>6
    <3> QED
      BY <2>2, <2>6, <2>7, <2>8, <2>9, <3>1, SizesType
  <2> QED
    BY <1>2, <1>6, <1>9, <2>10 DEF Served, C
<1> QED
  BY <1>10, <1>11

\* A bundle has a next batch, for any overlapping sets of serials.
THEOREM BatchExists ==
    ASSUME NEW q \in SUBSET Range(Evaluations)
    PROVE  \E b \in SUBSET q : IsBatch(b, q)
<1> DEFINE Live == LiveKeys(q)
           N == Cardinality(Live)
           S == {n \in 0..N : \E D \in SUBSET Live, b \in SUBSET q :
                                 PartOf(b, q, D) /\ Cardinality(D) = n}
<1>1. IsFiniteSet(Live) /\ N \in Nat
  <2>1. SerialsOf \in Surjection(Range(Evaluations), Keys)
    BY DEF Surjection, Keys
  <2>2. IsFiniteSet(Keys)
    BY <2>1, EvaluationsFinite, FS_Surjection
  <2>3. Live \in SUBSET Keys
    BY DEF LiveKeys
  <2> HIDE DEF Live
  <2> QED
    BY <2>2, <2>3, FS_Subset, FS_CardinalityType
<1>2. 0 \in S
  <2>1. PartOf({}, q, {})
    BY DEF PartOf
  <2> HIDE DEF Live
  <2> QED
    BY <1>1, <2>1, FS_EmptySet
<1>3. PICK n \in S : \A m \in S : m <= n
  <2>1. S \in SUBSET (0..N) /\ S # {}
    BY <1>2
  <2> HIDE DEF S, N
  <2> QED
    BY <1>1, <2>1, GreatestNatural
<1>4. PICK D \in SUBSET Live, b \in SUBSET q : PartOf(b, q, D) /\ Cardinality(D) = n
  BY <1>3
<1>5. CASE D = Live
  <2>1. IsBatch(b, q)
    BY <1>4, <1>5 DEF PartOf, Served, IsBatch
  <2> QED
    BY <2>1
<1>6. CASE D # Live
  <2>1. Live \ D \in SUBSET Keys /\ Live \ D # {}
    BY <1>6 DEF LiveKeys
  <2>2. PICK k \in Live \ D : \A l \in Live \ D : l = k \/ SearchedBefore(k, l)
    <3> HIDE DEF Live
    <3> QED
      BY <2>1, SearchedFirst
  <2>3. PICK T \in SUBSET Of(q, k) : Served(b \cup T, q, k)
    BY <1>4, <2>2, CanBeServed
  <2>4. PartOf(b \cup T, q, D \cup {k})
    <3>1. ASSUME NEW l \in Live, SearchedBefore(l, k)
          PROVE  l \in D
      <4>1. l \in Keys /\ k \in Keys
        BY <2>2 DEF LiveKeys
      <4>2. ~SearchedBefore(k, l)
        BY <3>1, <4>1, SearchedOnce
      <4> QED
        BY <2>2, <3>1, <4>2
    <3>2. \A e \in b \cup T : SerialsOf[e] \in D \cup {k}
      BY <1>4 DEF PartOf, Of
    <3>3. \A l \in D : Served(b \cup T, q, l)
      BY <1>4, <2>2, StillServed
    <3> QED
      BY <1>4, <2>3, <3>1, <3>2, <3>3 DEF PartOf
  <2>5. D \cup {k} \in SUBSET Live /\ b \cup T \in SUBSET q
    BY <2>2 DEF Of
  <2>6. Cardinality(D \cup {k}) = n + 1 /\ Cardinality(D \cup {k}) <= N
    <3>1. IsFiniteSet(D)
      BY <1>1, FS_Subset
    <3> HIDE DEF Live
    <3> QED
      BY <1>1, <1>4, <2>2, <2>5, <3>1, FS_AddElement, FS_Subset
  <2>7. n + 1 \in S
    <3>1. n + 1 \in 0..N
      BY <1>1, <1>3, <2>6
    <3> HIDE DEF Live, N
    <3> QED
      BY <2>4, <2>5, <2>6, <3>1
  <2> QED
    BY <1>1, <1>3, <2>7
<1> QED
  BY <1>5, <1>6

-----------------------------------------------------------------------------
(* The steps.                                                              *)

LEMMA PairsType == \A p \in Pairs : p[1] \in Serials /\ p[2] \in Range(Evaluations)
BY DEF Pairs

LEMMA InitInv == Init => IInv
<1> SUFFICES ASSUME Init PROVE IInv
  OBVIOUS
<1> USE DEF Init
<1>1. TypeOK
  <2>1. \A s \in Serials : Cardinality({e \in batch : s \in SerialsOf[e]}) <= BatchSize
    <3> TAKE s \in Serials
    <3>1. {e \in batch : s \in SerialsOf[e]} = {}
      OBVIOUS
    <3> QED
      BY <3>1, FS_EmptySet, SizesType
  <2>2. results \in Seq(Pairs) /\ yielded \in [Pairs -> Nat]
    BY EmptySeq
  <2>3. awaiting \in [Serials -> SUBSET Range(Evaluations)]
    OBVIOUS
  <2>4. queue \in SUBSET Range(Evaluations) /\ batch \in SUBSET Range(Evaluations)
    OBVIOUS
  <2> HIDE DEF Init
  <2>5. /\ empty \in BOOLEAN
        /\ lock \in {None, "sender", "receiver", "watchdog"}
        /\ sender \in {"next", "wait", "send", "done"}
        /\ receiver \in {"wait", "yield", "done"}
        /\ watchdog \in {"sleep", "reboot", "end", "fail", "stopped", "dead"}
        /\ expired \in SUBSET Serials /\ failing \in SUBSET Pairs
        /\ broken \in SUBSET Serials /\ sent \in SUBSET Pairs
    BY DEF Init
  <2> QED
    BY <2>1, <2>2, <2>3, <2>4, <2>5 DEF TypeOK
<1>2. OnePlace
  BY PairsType DEF OnePlace, Queued, Batched, Awaited, Pending, Listed
<1>3. OneResult /\ Ended
  BY DEF OneResult, Once, Ended
<1>4. Balanced
  <2> SUFFICES ASSUME NEW s \in Serials
               PROVE  Cardinality(awaiting[s]) < (TargetBatches + 1) * BatchSize
    BY DEF Balanced
  <2>1. Cardinality(awaiting[s]) = 0
    BY FS_EmptySet
  <2> QED
    BY <2>1, SizesType
<1> QED
  BY <1>1, <1>2, <1>3, <1>4 DEF IInv

\* Nothing moves when only locks, locals of the watchdog and messages change.
LEMMA Unmoved ==
    ASSUME OnePlace, OneResult, Balanced, sender' = "wait" <=> sender = "wait",
           UNCHANGED <<queue, batch, results, awaiting, yielded>>
    PROVE  OnePlace' /\ OneResult' /\ Balanced'
BY DEF OnePlace, OneResult, Balanced, Queued, Batched, Awaited, Pending

\* Answers bring no device nearer to its threshold.
LEMMA Fewer ==
    ASSUME TypeOK, Balanced, \A s \in Serials : awaiting'[s] \subseteq awaiting[s]
    PROVE  Balanced'
<1> SUFFICES ASSUME Factory = "balanced", NEW s \in Serials
             PROVE  Cardinality(awaiting'[s]) < (TargetBatches + 1) * BatchSize
  BY DEF Balanced
<1>1. awaiting[s] \in SUBSET Range(Evaluations)
  BY DEF TypeOK
<1>2. IsFiniteSet(awaiting[s]) /\ Cardinality(awaiting[s]) \in Nat
  BY <1>1, EvaluationsFinite
<1>3. Cardinality(awaiting'[s]) <= Cardinality(awaiting[s])
  BY <1>2, FS_Subset
<1>4. Cardinality(awaiting'[s]) \in Nat
  BY <1>1, EvaluationsFinite
<1>5. Cardinality(awaiting[s]) < (TargetBatches + 1) * BatchSize
  BY DEF Balanced
<1> QED
  BY <1>2, <1>3, <1>4, <1>5, SizesType

\* processResult moves a pair that is awaited, and no other.
LEMMA ProcessStep ==
    ASSUME IInv, NEW p \in Pairs, Process(p),
           UNCHANGED <<queue, empty, sender, batch, receiver, yielded>>
    PROVE  /\ results' \in Seq(Pairs) /\ awaiting' \in [Serials -> SUBSET Range(Evaluations)]
           /\ OnePlace' /\ OneResult' /\ Ended' /\ Balanced'
<1> USE PairsType
<1>0. TypeOK /\ OnePlace /\ OneResult /\ Ended /\ Balanced
  BY DEF IInv
<1>1. CASE p[2] \notin awaiting[p[1]]
  <2>1. UNCHANGED <<awaiting, results>>
    BY <1>1 DEF Process
  <2>2. OnePlace' /\ OneResult' /\ Balanced'
    BY <1>0, <2>1, Unmoved
  <2>3. Ended'
    BY <1>0, <2>1 DEF Ended, Idle
  <2> QED
    BY <1>0, <2>1, <2>2, <2>3 DEF TypeOK
<1>2. CASE p[2] \in awaiting[p[1]]
  <2>1. /\ awaiting' = [awaiting EXCEPT ![p[1]] = @ \ {p[2]}]
        /\ results' = Append(results, p)
    BY <1>2 DEF Process
  <2>2. /\ awaiting \in [Serials -> SUBSET Range(Evaluations)] /\ results \in Seq(Pairs)
        /\ awaiting' \in [Serials -> SUBSET Range(Evaluations)]
        /\ \A s \in Serials : awaiting'[s] \subseteq awaiting[s]
    BY <1>0, <2>1 DEF TypeOK
  <2>3. ~Pending(p)
    BY <1>0, <1>2 DEF OnePlace, Awaited
  <2>4. /\ results' \in Seq(Pairs)
        /\ \A r \in Pairs : Pending(r)' <=> r = p \/ Pending(r)
        /\ OneResult'
    <3>1. ~Listed(results, p) /\ Once(results)
      BY <1>0, <2>3 DEF Pending, OneResult
    <3> QED
      BY <2>1, <2>2, <3>1, Appended DEF Pending, OneResult
  <2>5. \A r \in Pairs : Awaited(r)' <=> Awaited(r) /\ r # p
    <3> TAKE r \in Pairs
    <3>1. r # p <=> r[1] # p[1] \/ r[2] # p[2]
      BY DEF Pairs
    <3> QED
      BY <2>1, <2>2, <3>1 DEF Awaited
  <2>6. Awaited(p)
    BY <1>2 DEF Awaited
  <2>7. \A r \in Pairs : (Queued(r)' <=> Queued(r)) /\ (Batched(r)' <=> Batched(r))
    BY DEF Queued, Batched
  <2>8. OnePlace'
    <3> SUFFICES ASSUME NEW r \in Pairs
                 PROVE  /\ Queued(r)' \/ Batched(r)' \/ Awaited(r)' \/ Pending(r)' \/ yielded'[r] = 1
                        /\ Queued(r)' => ~Batched(r)' /\ ~Awaited(r)' /\ ~Pending(r)' /\ yielded'[r] = 0
                        /\ Batched(r)' => ~Awaited(r)' /\ ~Pending(r)' /\ yielded'[r] = 0
                        /\ Awaited(r)' => ~Pending(r)' /\ yielded'[r] = 0
                        /\ Pending(r)' => yielded'[r] = 0
                        /\ yielded'[r] <= 1
      BY DEF OnePlace
    <3> QED
      BY <1>0, <2>4, <2>5, <2>6, <2>7 DEF OnePlace
  <2>9. receiver # "done"
    BY <1>0, <1>2 DEF Ended, Idle
  <2> QED
    BY <1>0, <2>2, <2>4, <2>8, <2>9, Fewer DEF Ended
<1> QED
  BY <1>1, <1>2

LEMMA NextInv ==
    ASSUME IInv, SenderNext
    PROVE  IInv'
<1> USE PairsType DEF bundle, client, monitor
<1>0. TypeOK /\ OnePlace /\ OneResult /\ Ended /\ Balanced
  BY DEF IInv
<1>1. PICK b \in SUBSET queue :
         /\ IsBatch(b, queue) /\ batch' = b /\ queue' = queue \ b
         /\ empty' = (b = {}) /\ sender' = IF b = {} THEN "done" ELSE "wait"
  BY DEF SenderNext
<1>2. sender = "next" /\ UNCHANGED <<lock, receiver, results, awaiting, monitor, sent, yielded>>
  BY DEF SenderNext
<1>3. TypeOK'
  <2>1. queue \in SUBSET Range(Evaluations)
    BY <1>0 DEF TypeOK
  <2>2. \A s \in Serials : Cardinality({e \in b : s \in SerialsOf[e]}) <= BatchSize
    BY <1>1, <2>1, BatchFits
  <2> QED
    BY <1>0, <1>1, <1>2, <2>1, <2>2 DEF TypeOK
<1>4. OnePlace'
  <2>1. \A p \in Pairs : /\ Queued(p)' <=> Queued(p) /\ p[2] \notin b
                         /\ Batched(p)' <=> p[2] \in b
                         /\ ~Batched(p)
                         /\ p[2] \in b => Queued(p)
                         /\ Awaited(p)' <=> Awaited(p)
                         /\ Pending(p)' <=> Pending(p)
    BY <1>1, <1>2 DEF Queued, Batched, Awaited, Pending
  <2> QED
    BY <1>0, <1>2, <2>1 DEF OnePlace
<1>5. OneResult' /\ Balanced'
  BY <1>0, <1>2 DEF OneResult, Balanced
<1>6. Ended'
  BY <1>0, <1>1, <1>2 DEF Ended, Idle
<1> QED
  BY <1>3, <1>4, <1>5, <1>6 DEF IInv

\* A batch is added below the threshold, or when nothing is awaited.
LEMMA AddedIsBalanced ==
    ASSUME TypeOK, Balanced, Ready,
           \A s \in Serials :
              awaiting'[s] \subseteq awaiting[s] \cup {e \in batch : s \in SerialsOf[e]}
    PROVE  Balanced'
<1> SUFFICES ASSUME Factory = "balanced", NEW s \in Serials
             PROVE  Cardinality(awaiting'[s]) < (TargetBatches + 1) * BatchSize
  BY DEF Balanced
<1> DEFINE A == awaiting[s]
           B == {e \in batch : s \in SerialsOf[e]}
           T == TargetBatches * BatchSize
<1>1. /\ \A u \in Serials : awaiting[u] \in SUBSET Range(Evaluations)
      /\ B \in SUBSET Range(Evaluations) /\ Cardinality(B) <= BatchSize
  BY DEF TypeOK
<1>2. /\ \A u \in Serials : IsFiniteSet(awaiting[u]) /\ Cardinality(awaiting[u]) \in Nat
      /\ IsFiniteSet(B) /\ Cardinality(B) \in Nat
  BY <1>1, EvaluationsFinite
<1>3. Cardinality(awaiting'[s]) <= Cardinality(A) + Cardinality(B)
  <2>1. IsFiniteSet(A \cup B) /\ IsFiniteSet(A \cap B)
    BY <1>2, FS_Union, FS_Intersection
  <2>2. Cardinality(A \cup B) = Cardinality(A) + Cardinality(B) - Cardinality(A \cap B)
    BY <1>2, FS_Union
  <2>3. Cardinality(A \cap B) \in Nat /\ Cardinality(A \cup B) \in Nat
    BY <2>1, FS_CardinalityType
  <2>4. Cardinality(awaiting'[s]) <= Cardinality(A \cup B)
    BY <2>1, FS_Subset
  <2>5. Cardinality(awaiting'[s]) \in Nat
    BY <2>1, FS_Subset, FS_CardinalityType
  <2> QED
    BY <1>2, <2>2, <2>3, <2>4, <2>5
<1>4. Cardinality(awaiting'[s]) \in Nat
  <2>1. awaiting'[s] \in SUBSET Range(Evaluations)
    BY <1>1
  <2> QED
    BY <2>1, EvaluationsFinite
<1>5. Cardinality(A) < T
  <2>1. CASE Idle
    <3>1. Cardinality(A) = 0
      BY <2>1, FS_EmptySet DEF Idle
    <3> QED
      BY <3>1, SizesType
  <2>2. CASE ~Idle
    <3>1. TargetBatches # Highest \div BatchSize
      BY <2>2 DEF Ready
    <3> DEFINE C == {Cardinality(awaiting[u]) : u \in Serials}
               Top == T + BatchSize
    <3>2. Top \in Nat /\ \A u \in Serials : Cardinality(awaiting[u]) < Top
      BY SizesType DEF Balanced
    <3>3. C \in SUBSET (0..Top) /\ C # {}
      BY <1>2, <3>2
    <3>4. \E n \in C : \A m \in C : m <= n
      <4> HIDE DEF C, Top
      <4> QED
        BY <3>2, <3>3, GreatestNatural
    <3>5. \E n \in C : \A u \in Serials : Cardinality(awaiting[u]) <= n
      BY <3>4
    <3>6. Highest \in C /\ \A u \in Serials : Cardinality(awaiting[u]) <= Highest
      BY <3>5 DEF Highest
    <3>7. Highest \in Nat /\ Highest < Top /\ Cardinality(A) <= Highest
      BY <1>2, <3>2, <3>6
    <3>8. Highest < T
      <4> HIDE DEF C
      <4>1. SUFFICES ASSUME T <= Highest
                     PROVE  Highest \div BatchSize = TargetBatches
        BY <3>1, <3>7, SizesType
      <4> QED
        BY <3>7, <4>1, SizesType
    <3> QED
      BY <1>2, <3>7, <3>8, SizesType
  <2> QED
    BY <2>1, <2>2
<1> QED
  BY <1>1, <1>2, <1>3, <1>4, <1>5, SizesType

\* The batch goes to the devices that it is for; what is for a broken one has a result.
LEMMA AddsInv ==
    ASSUME IInv, SenderAdds
    PROVE  IInv'
<1> USE PairsType DEF bundle, monitor
<1>0. TypeOK /\ OnePlace /\ OneResult /\ Ended /\ Balanced
  BY DEF IInv
<1> DEFINE bad == {p \in BatchPairs : p[1] \in broken}
           new(s) == {e \in Range(Evaluations) : <<s, e>> \in BatchPairs \ bad}
<1>1. /\ sender = "wait" /\ Ready /\ sender' = "send" /\ lock' = "sender"
      /\ awaiting' = [s \in Serials |-> awaiting[s] \cup new(s)]
      /\ results' = results \o SetToSeq(bad)
      /\ UNCHANGED <<bundle, batch, receiver, monitor, sent, yielded>>
  BY DEF SenderAdds
<1>2. bad \in SUBSET Pairs /\ IsFiniteSet(bad)
  <2>1. bad \in SUBSET Pairs
    BY DEF BatchPairs
  <2> HIDE DEF bad
  <2> QED
    BY <2>1, PairsFinite
<1>3. /\ awaiting \in [Serials -> SUBSET Range(Evaluations)] /\ results \in Seq(Pairs)
      /\ batch \in SUBSET Range(Evaluations)
  BY <1>0 DEF TypeOK
<1>4. \A s \in Serials : new(s) \subseteq {e \in batch : s \in SerialsOf[e]}
  BY DEF BatchPairs, Pairs
<1>5. \A p \in Pairs : p \in bad <=> p[2] \in batch /\ p[1] \in broken
  BY DEF BatchPairs
<1>6. \A p \in Pairs : Awaited(p)' <=> Awaited(p) \/ (p[2] \in batch /\ p \notin bad)
  <2> TAKE p \in Pairs
  <2>1. p[2] \in new(p[1]) <=> (p[2] \in batch /\ p \notin bad)
    <3>1. p = <<p[1], p[2]>> /\ p[2] \in Range(Evaluations)
      BY DEF Pairs
    <3>2. p \in BatchPairs <=> p[2] \in batch
      BY DEF BatchPairs
    <3> QED
      BY <3>1, <3>2
  <2>2. awaiting'[p[1]] = awaiting[p[1]] \cup new(p[1])
    BY <1>1
  <2> HIDE DEF new, bad
  <2> QED
    BY <2>1, <2>2 DEF Awaited
<1>7. /\ results' \in Seq(Pairs) /\ OneResult'
      /\ \A p \in Pairs : Pending(p)' <=> Pending(p) \/ p \in bad
  <2> DEFINE q == SetToSeq(bad)
  <2>1. q \in Seq(bad) /\ Once(q) /\ \A x : x \in bad <=> Listed(q, x)
    <3> HIDE DEF bad
    <3> QED
      BY <1>2, SetToSeqLists
  <2> HIDE DEF q, bad
  <2>2. q \in Seq(Pairs)
    BY <1>2, <2>1, SeqMonotonic
  <2>3. \A p \in Pairs : ~(Listed(results, p) /\ Listed(q, p))
    BY <1>0, <1>1, <1>5, <2>1 DEF OnePlace, Batched, Pending
  <2>4. results' = results \o q /\ Once(results)
    BY <1>0, <1>1 DEF q, OneResult
  <2> QED
    BY <1>3, <2>1, <2>2, <2>3, <2>4, Extended DEF Pending, OneResult
<1>8. awaiting' \in [Serials -> SUBSET Range(Evaluations)]
  BY <1>1, <1>3
<1>9. TypeOK'
  <2> HIDE DEF bad, new
  <2> QED
    BY <1>0, <1>1, <1>7, <1>8 DEF TypeOK
<1> HIDE DEF bad, new
<1>10. OnePlace'
  <2>1. \A p \in Pairs : /\ Queued(p)' <=> Queued(p)
                         /\ Batched(p) <=> p[2] \in batch
                         /\ ~Batched(p)'
                         /\ p \in bad => p[2] \in batch
    BY <1>1, <1>5 DEF Queued, Batched
  <2> QED
    BY <1>0, <1>1, <1>6, <1>7, <2>1 DEF OnePlace
<1>11. Ended'
  BY <1>0, <1>1 DEF Ended
<1>12. Balanced'
  <2>1. \A s \in Serials :
           awaiting'[s] \subseteq awaiting[s] \cup {e \in batch : s \in SerialsOf[e]}
    BY <1>1, <1>4
  <2> QED
    BY <1>0, <1>1, <2>1, AddedIsBalanced
<1> QED
  BY <1>7, <1>9, <1>10, <1>11, <1>12 DEF IInv

LEMMA SendsInv ==
    ASSUME IInv, SenderSends
    PROVE  IInv'
<1> USE DEF bundle, monitor
<1>0. TypeOK /\ OnePlace /\ OneResult /\ Ended /\ Balanced
  BY DEF IInv
<1>1. /\ sender = "send" /\ sender' = "next" /\ lock' = None
      /\ UNCHANGED <<bundle, batch, receiver, results, awaiting, monitor, yielded>>
  BY DEF SenderSends
<1>2. sent' \in SUBSET Pairs
  <2>1. sent \in SUBSET Pairs
    BY <1>0 DEF TypeOK
  <2> QED
    BY <2>1 DEF SenderSends, BatchPairs
<1>3. TypeOK'
  BY <1>0, <1>1, <1>2 DEF TypeOK
<1>4. OnePlace' /\ OneResult' /\ Balanced'
  BY <1>0, <1>1, Unmoved
<1>5. Ended'
  BY <1>0, <1>1 DEF Ended, Idle
<1> QED
  BY <1>3, <1>4, <1>5 DEF IInv

LEMMA WakesInv ==
    ASSUME IInv, ReceiverWakes
    PROVE  IInv'
<1> USE DEF bundle, monitor, ReceiverWakes
<1>0. TypeOK /\ OnePlace /\ OneResult /\ Ended /\ Balanced
  BY DEF IInv
<1>1. TypeOK'
  BY <1>0 DEF TypeOK
<1>2. OnePlace' /\ OneResult' /\ Balanced'
  BY <1>0, Unmoved
<1>3. Ended'
  BY <1>0 DEF Ended, Idle
<1> QED
  BY <1>1, <1>2, <1>3 DEF IInv

\* The pair at the head of the list goes to the caller.
LEMMA YieldsInv ==
    ASSUME IInv, ReceiverYields
    PROVE  IInv'
<1> USE DEF bundle, client, monitor
<1>0. TypeOK /\ OnePlace /\ OneResult /\ Ended /\ Balanced
  BY DEF IInv
<1> DEFINE h == Head(results)
<1>1. /\ receiver = "yield" /\ results # <<>>
      /\ yielded' = [yielded EXCEPT ![h] = @ + 1]
      /\ results' = Tail(results)
      /\ UNCHANGED <<bundle, client, awaiting, monitor, sent>>
  BY DEF ReceiverYields
<1>2. results \in Seq(Pairs) /\ yielded \in [Pairs -> Nat]
  BY <1>0 DEF TypeOK
<1>3. /\ h \in Pairs /\ results' \in Seq(Pairs) /\ OneResult' /\ Pending(h)
      /\ \A p \in Pairs : Pending(p)' <=> p # h /\ Pending(p)
  <2>1. Once(results)
    BY <1>0 DEF OneResult
  <2> QED
    BY <1>1, <1>2, <2>1, Shortened DEF Pending, OneResult
<1> HIDE DEF h
<1>4. /\ yielded' \in [Pairs -> Nat] /\ yielded'[h] = 1
      /\ \A p \in Pairs : p # h => yielded'[p] = yielded[p]
  <2>1. yielded[h] = 0
    BY <1>0, <1>3 DEF OnePlace
  <2> QED
    BY <1>1, <1>2, <1>3, <2>1
<1>5. TypeOK'
  BY <1>0, <1>1, <1>3, <1>4 DEF TypeOK
<1>6. OnePlace'
  <2> SUFFICES ASSUME NEW p \in Pairs
               PROVE  /\ Queued(p)' \/ Batched(p)' \/ Awaited(p)' \/ Pending(p)' \/ yielded'[p] = 1
                      /\ Queued(p)' => ~Batched(p)' /\ ~Awaited(p)' /\ ~Pending(p)' /\ yielded'[p] = 0
                      /\ Batched(p)' => ~Awaited(p)' /\ ~Pending(p)' /\ yielded'[p] = 0
                      /\ Awaited(p)' => ~Pending(p)' /\ yielded'[p] = 0
                      /\ Pending(p)' => yielded'[p] = 0
                      /\ yielded'[p] <= 1
    BY DEF OnePlace
  <2>1. /\ Queued(p)' <=> Queued(p)
        /\ Batched(p)' <=> Batched(p)
        /\ Awaited(p)' <=> Awaited(p)
    BY <1>1 DEF Queued, Batched, Awaited
  <2>2. CASE p = h
    BY <1>0, <1>3, <1>4, <2>1, <2>2 DEF OnePlace
  <2>3. CASE p # h
    BY <1>0, <1>3, <1>4, <2>1, <2>3 DEF OnePlace
  <2> QED
    BY <2>2, <2>3
<1>7. Ended' /\ Balanced'
  BY <1>0, <1>1 DEF Ended, Balanced, Idle
<1> QED
  BY <1>3, <1>5, <1>6, <1>7 DEF IInv

LEMMA ChecksInv ==
    ASSUME IInv, ReceiverChecks
    PROVE  IInv'
<1> USE DEF bundle, monitor, ReceiverChecks
<1>0. TypeOK /\ OnePlace /\ OneResult /\ Ended /\ Balanced
  BY DEF IInv
<1>1. TypeOK'
  BY <1>0 DEF TypeOK
<1>2. OnePlace' /\ OneResult' /\ Balanced'
  BY <1>0, Unmoved
<1>3. Ended'
  BY <1>0 DEF Ended, Idle
<1> QED
  BY <1>1, <1>2, <1>3 DEF IInv

LEMMA RebootsInv ==
    ASSUME IInv, WatchdogReboots
    PROVE  IInv'
<1> USE DEF bundle, client
<1>0. TypeOK /\ OnePlace /\ OneResult /\ Ended /\ Balanced
  BY DEF IInv
<1>1. /\ watchdog' = "reboot" /\ lock' = "watchdog" /\ expired' \in SUBSET Serials
      /\ UNCHANGED <<bundle, sender, batch, receiver, results, awaiting, failing, broken,
                     sent, yielded>>
  BY DEF WatchdogReboots
<1>2. TypeOK'
  BY <1>0, <1>1 DEF TypeOK
<1>3. OnePlace' /\ OneResult' /\ Balanced'
  BY <1>0, <1>1, Unmoved
<1>4. Ended'
  BY <1>0, <1>1 DEF Ended, Idle
<1> QED
  BY <1>2, <1>3, <1>4 DEF IInv

LEMMA WakesUpInv ==
    ASSUME IInv, WatchdogWakes
    PROVE  IInv'
<1> USE DEF bundle, client
<1>0. TypeOK /\ OnePlace /\ OneResult /\ Ended /\ Balanced
  BY DEF IInv
<1>1. /\ UNCHANGED <<queue, empty, sender, batch, receiver, results, awaiting, sent, yielded>>
      /\ watchdog' \in {"end", "fail", "dead"} /\ lock' \in {None, lock}
  BY DEF WatchdogWakes
<1>2. /\ expired' \in SUBSET Serials /\ failing' \in SUBSET Pairs
      /\ broken' \in SUBSET Serials
  BY <1>0 DEF WatchdogWakes, TypeOK
<1>3. TypeOK'
  BY <1>0, <1>1, <1>2 DEF TypeOK
<1>4. OnePlace' /\ OneResult' /\ Balanced'
  BY <1>0, <1>1, Unmoved
<1>5. Ended'
  BY <1>0, <1>1 DEF Ended, Idle
<1> QED
  BY <1>3, <1>4, <1>5 DEF IInv

LEMMA EndsInv ==
    ASSUME IInv, NEW s \in Serials, WatchdogEnds(s)
    PROVE  IInv'
<1> USE DEF bundle, client
<1>0. TypeOK /\ OnePlace /\ OneResult /\ Ended /\ Balanced
  BY DEF IInv
<1>1. /\ UNCHANGED <<queue, empty, sender, batch, receiver, results, awaiting, sent, yielded>>
      /\ watchdog' \in {"end", "fail", "dead"} /\ lock' \in {None, lock}
  BY DEF WatchdogEnds
<1>2. /\ expired' \in SUBSET Serials /\ failing' \in SUBSET Pairs
      /\ broken' \in SUBSET Serials
  BY <1>0 DEF WatchdogEnds, TypeOK
<1>3. TypeOK'
  BY <1>0, <1>1, <1>2 DEF TypeOK
<1>4. OnePlace' /\ OneResult' /\ Balanced'
  BY <1>0, <1>1, Unmoved
<1>5. Ended'
  BY <1>0, <1>1 DEF Ended, Idle
<1> QED
  BY <1>3, <1>4, <1>5 DEF IInv

LEMMA DoneInv ==
    ASSUME IInv, WatchdogDone
    PROVE  IInv'
<1> USE DEF bundle, client
<1>0. TypeOK /\ OnePlace /\ OneResult /\ Ended /\ Balanced
  BY DEF IInv
<1>1. /\ UNCHANGED <<queue, empty, sender, batch, receiver, results, awaiting, sent, yielded>>
      /\ watchdog' \in {"end", "fail", "dead"} /\ lock' \in {None, lock}
  BY DEF WatchdogDone
<1>2. /\ expired' \in SUBSET Serials /\ failing' \in SUBSET Pairs
      /\ broken' \in SUBSET Serials
  BY <1>0 DEF WatchdogDone, TypeOK
<1>3. TypeOK'
  BY <1>0, <1>1, <1>2 DEF TypeOK
<1>4. OnePlace' /\ OneResult' /\ Balanced'
  BY <1>0, <1>1, Unmoved
<1>5. Ended'
  BY <1>0, <1>1 DEF Ended, Idle
<1> QED
  BY <1>3, <1>4, <1>5 DEF IInv

LEMMA DiesInv ==
    ASSUME IInv, WatchdogDies
    PROVE  IInv'
<1> USE DEF bundle, client
<1>0. TypeOK /\ OnePlace /\ OneResult /\ Ended /\ Balanced
  BY DEF IInv
<1>1. /\ UNCHANGED <<queue, empty, sender, batch, receiver, results, awaiting, sent, yielded>>
      /\ watchdog' \in {"end", "fail", "dead"} /\ lock' \in {None, lock}
  BY DEF WatchdogDies
<1>2. /\ expired' \in SUBSET Serials /\ failing' \in SUBSET Pairs
      /\ broken' \in SUBSET Serials
  BY <1>0 DEF WatchdogDies, TypeOK
<1>3. TypeOK'
  BY <1>0, <1>1, <1>2 DEF TypeOK
<1>4. OnePlace' /\ OneResult' /\ Balanced'
  BY <1>0, <1>1, Unmoved
<1>5. Ended'
  BY <1>0, <1>1 DEF Ended, Idle
<1> QED
  BY <1>3, <1>4, <1>5 DEF IInv

LEMMA FailsInv ==
    ASSUME IInv, WatchdogFails
    PROVE  IInv'
<1> USE DEF bundle, client
<1>0. TypeOK /\ OnePlace /\ OneResult /\ Ended /\ Balanced
  BY DEF IInv
<1>1. UNCHANGED <<bundle, client, expired, broken, sent, yielded>>
  BY DEF WatchdogFails
<1>2. ASSUME NEW p \in failing,
             Process(p), failing' = failing \ {p}, UNCHANGED watchdog
      PROVE  IInv'
  <2>1. p \in Pairs
    BY <1>0 DEF TypeOK
  <2>2. /\ results' \in Seq(Pairs) /\ awaiting' \in [Serials -> SUBSET Range(Evaluations)]
        /\ OnePlace' /\ OneResult' /\ Ended' /\ Balanced'
    BY <1>1, <1>2, <2>1, ProcessStep
  <2>3. TypeOK'
    BY <1>0, <1>1, <1>2, <2>2 DEF TypeOK
  <2> QED
    BY <2>2, <2>3 DEF IInv
<1>3. ASSUME watchdog' \in {"stopped", "sleep"}, UNCHANGED <<awaiting, results, failing>>
      PROVE  IInv'
  <2>1. TypeOK'
    BY <1>0, <1>1, <1>3 DEF TypeOK
  <2>2. OnePlace' /\ OneResult' /\ Balanced'
    BY <1>0, <1>1, <1>3, Unmoved
  <2>3. Ended'
    BY <1>0, <1>1, <1>3 DEF Ended, Idle
  <2> QED
    BY <2>1, <2>2, <2>3 DEF IInv
<1> QED
  BY <1>2, <1>3 DEF WatchdogFails

LEMMA AnswerInv ==
    ASSUME IInv, NEW p \in Pairs, Answer(p)
    PROVE  IInv'
<1> USE DEF bundle, client, monitor
<1>1. TypeOK /\ Process(p) /\ UNCHANGED <<bundle, client, monitor, sent, yielded>>
  BY DEF IInv, Answer
<1>2. /\ results' \in Seq(Pairs) /\ awaiting' \in [Serials -> SUBSET Range(Evaluations)]
      /\ OnePlace' /\ OneResult' /\ Ended' /\ Balanced'
  BY <1>1, ProcessStep
<1>3. TypeOK'
  BY <1>1, <1>2 DEF TypeOK
<1> QED
  BY <1>2, <1>3 DEF IInv

LEMMA StutterInv ==
    ASSUME IInv, UNCHANGED vars
    PROVE  IInv'
BY DEF IInv, TypeOK, OnePlace, OneResult, Ended, Balanced, Queued, Batched, Awaited, Pending,
       Idle, vars, bundle, client, monitor

-----------------------------------------------------------------------------
(* The theorems.                                                           *)

\* The inductive invariant: a pair has one place, whatever is lost, late or given up.
THEOREM Invariance == Spec => []IInv
<1>1. IInv /\ [Next]_vars => IInv'
  <2> SUFFICES ASSUME IInv, [Next]_vars PROVE IInv'
    OBVIOUS
  <2>1. CASE SenderStep
    BY <2>1, NextInv, AddsInv, SendsInv DEF SenderStep
  <2>2. CASE ReceiverStep
    BY <2>2, WakesInv, YieldsInv, ChecksInv DEF ReceiverStep
  <2>3. CASE WatchdogReboots \/ WatchdogStep
    BY <2>3, RebootsInv, WakesUpInv, EndsInv, DoneInv, DiesInv, FailsInv DEF WatchdogStep
  <2>4. CASE \E p \in Pairs : Answer(p)
    BY <2>4, AnswerInv
  <2>5. CASE UNCHANGED vars
    BY <2>5, StutterInv
  <2> QED
    BY <2>1, <2>2, <2>3, <2>4, <2>5 DEF Next
<1> QED
  BY InitInv, <1>1, PTL DEF Spec

\* Type correctness; with it, no batch has more than batch_size evaluations for a device,
\* though EvaluationBundle counts the evaluations of overlapping sets of serials.
THEOREM TypeCorrect == Spec => []TypeOK
<1>1. IInv => TypeOK
  BY DEF IInv
<1> QED
  BY <1>1, Invariance, PTL

\* The caller has one result for an evaluation on a device at most, even when a device
\* that was given up answers after all.
THEOREM YieldedOnceHolds == Spec => []YieldedOnce
<1>1. IInv => YieldedOnce
  BY DEF IInv, OnePlace, YieldedOnce
<1> QED
  BY <1>1, Invariance, PTL

\* A BalancedBatchFactory never has target_batches + 1 full batches at a device.
THEOREM BalancedHolds == Spec => []Balanced
<1>1. IInv => Balanced
  BY DEF IInv
<1> QED
  BY <1>1, Invariance, PTL

\* When getResults returns, what has no result is still in the bundle: nothing that
\* getBatches has taken from it is lost (_addBatch, processResult).
THEOREM OnlyBundleIsLeftHolds == Spec => []OnlyBundleIsLeft
<1>1. IInv => OnlyBundleIsLeft
  <2> SUFFICES ASSUME IInv, receiver = "done", NEW p \in Pairs
               PROVE  yielded[p] > 0 \/ p[2] \in queue
    BY DEF OnlyBundleIsLeft
  <2>1. ~Batched(p) /\ ~Awaited(p) /\ ~Pending(p)
    <3>1. sender = "done" /\ Idle /\ results = <<>>
      BY DEF IInv, Ended
    <3>2. ~Listed(results, p)
      BY <3>1 DEF Listed
    <3> QED
      BY <3>1, <3>2, PairsType DEF Idle, Batched, Awaited, Pending
  <2> QED
    BY <2>1 DEF IInv, OnePlace, Queued
<1> QED
  BY <1>1, Invariance, PTL

\* While a set of serials that has evaluations left can be reached, the sender does not
\* end before it has sent them all.
LEMMA EmptiedHolds == Spec /\ []Reached => [](empty => queue = {})
<1> DEFINE Emptied == empty => queue = {}
<1>1. Init => Emptied
  BY DEF Init
<1>2. IInv /\ Reached /\ Emptied /\ [Next]_vars => Emptied'
  <2> SUFFICES ASSUME IInv, Reached, Emptied, [Next]_vars PROVE Emptied'
    OBVIOUS
  <2>1. CASE SenderNext
    <3>1. PICK b \in SUBSET queue :
             IsBatch(b, queue) /\ queue' = queue \ b /\ empty' = (b = {})
      BY <2>1 DEF SenderNext
    <3>2. b = {} => queue = {}
      BY <3>1, BatchEmpty DEF Reached
    <3> QED
      BY <3>1, <3>2
  <2>2. CASE ~SenderNext
    <3>1. UNCHANGED <<queue, empty>>
      BY <2>2 DEF Next, SenderStep, SenderAdds, SenderSends, ReceiverStep, ReceiverWakes,
             ReceiverYields, ReceiverChecks, WatchdogReboots, WatchdogStep, WatchdogWakes,
             WatchdogEnds, WatchdogDone, WatchdogDies, WatchdogFails, Answer, vars, bundle
    <3> QED
      BY <3>1
  <2> QED
    BY <2>1, <2>2
<1> QED
  BY <1>1, <1>2, Invariance, PTL DEF Spec

\* When getResults returns, the caller has had every result, if no set of serials that
\* has evaluations left is ever hidden behind an empty queue (MappedQueues.__iter__).
THEOREM CompleteIfReached == Spec /\ []Reached => []Complete
<1>1. OnlyBundleIsLeft /\ (empty => queue = {}) /\ IInv => Complete
  <2> SUFFICES ASSUME OnlyBundleIsLeft, empty => queue = {}, IInv, receiver = "done",
                      NEW p \in Pairs
               PROVE  yielded[p] > 0
    BY DEF Complete
  <2>1. queue = {}
    BY DEF IInv, Ended
  <2> QED
    BY <2>1 DEF OnlyBundleIsLeft
<1> QED
  BY <1>1, OnlyBundleIsLeftHolds, EmptiedHolds, Invariance, PTL

\* A list whose evaluations are all for the same devices.
OneSet == \A e, f \in Range(Evaluations) : SerialsOf[e] = SerialsOf[f]

\* Such a list is never cut short: the caller has every result when getResults returns.
THEOREM CompleteForOneSet == ASSUME OneSet PROVE Spec => []Complete
<1>1. IInv => Reached
  <2> SUFFICES ASSUME TypeOK, NEW e \in queue PROVE LiveKeys(queue) # {}
    BY DEF IInv, Reached
  <2>1. e \in Range(Evaluations)
    BY DEF TypeOK
  <2>2. \A l \in Keys : l = SerialsOf[e]
    BY <2>1 DEF Keys, OneSet
  <2>3. SerialsOf[e] \in Keys /\ e \in Of(queue, SerialsOf[e])
    BY <2>1 DEF Keys, Of
  <2>4. SerialsOf[e] \in LiveKeys(queue)
    BY <2>2, <2>3 DEF LiveKeys
  <2> QED
    BY <2>4
<1> QED
  BY <1>1, Invariance, CompleteIfReached, PTL

===============================================================================
