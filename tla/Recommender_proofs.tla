------------------------- MODULE Recommender_proofs -------------------------
(***************************************************************************)
(* Theorems about Recommender, for any offers, scores and requests: what   *)
(* recommend and frontier answer is right in the state they answer in.     *)
(***************************************************************************)
EXTENDS Recommender, FiniteSetTheorems, SequenceTheorems, TLAPS

-----------------------------------------------------------------------------
(***************************************************************************)
(* Orders, what is listed in an order, and slices of sequences.            *)
(***************************************************************************)

\* An order is a set of pairs whose first comes before the second.
Irreflexive(S, before) == \A d \in S : <<d, d>> \notin before
Transitive(S, before) == \A d, e, f \in S :
    <<d, e>> \in before /\ <<e, f>> \in before => <<d, f>> \in before
Total(S, before) == \A d, e \in S : d = e \/ <<d, e>> \in before \/ <<e, d>> \in before

\* Nothing of S comes twice, and what comes first is decided.
StrictlyOrdered(S, before) ==
    Irreflexive(S, before) /\ Transitive(S, before) /\ Total(S, before)

\* What comes before d.
Ahead(S, before, d) == {e \in S : <<e, d>> \in before}

\* A finite set that is not empty has an element nothing of it comes before.
LEMMA FirstExists ==
    ASSUME NEW S, IsFiniteSet(S), S # {}, NEW before,
           Irreflexive(S, before), Transitive(S, before)
    PROVE  \E d \in S : \A e \in S : <<e, d>> \notin before
<1> DEFINE T == {Ahead(S, before, d) : d \in S}
<1>1. IsWellFoundedOn(StrictSubsetOrdering(S), FiniteSubsetsOf(S))
  BY FS_StrictSubsetOrderingWellFounded
<1>2. T \subseteq FiniteSubsetsOf(S)
  <2>1. \A d \in S : Ahead(S, before, d) \in SUBSET S
    BY DEF Ahead
  <2> QED
    BY <2>1, FS_Subset DEF FiniteSubsetsOf
<1>3. T # {}
  OBVIOUS
<1> HIDE DEF T
<1>4. PICK A \in T : \A B \in T : ~(<<B, A>> \in StrictSubsetOrdering(S))
  BY <1>1, <1>2, <1>3, WFMin
<1>5. PICK d \in S : A = Ahead(S, before, d)
  BY <1>4 DEF T
<1>6. ASSUME NEW e \in S, <<e, d>> \in before PROVE FALSE
  <2>1. Ahead(S, before, e) \in T
    BY DEF T
  <2>2. /\ Ahead(S, before, e) \in SUBSET S
        /\ Ahead(S, before, d) \in SUBSET S
    BY DEF Ahead
  <2>3. /\ Ahead(S, before, e) \subseteq Ahead(S, before, d)
        /\ e \in Ahead(S, before, d) /\ e \notin Ahead(S, before, e)
    BY <1>6 DEF Ahead, Irreflexive, Transitive
  <2>4. <<Ahead(S, before, e), Ahead(S, before, d)>> \in StrictSubsetOrdering(S)
    BY <2>2, <2>3 DEF StrictSubsetOrdering
  <2> QED
    BY <1>4, <1>5, <2>1, <2>4
<1> QED
  BY <1>6

\* InOrder lists S, each element behind those that come before it.
LEMMA InOrderLists ==
    ASSUME NEW S, IsFiniteSet(S), NEW before, StrictlyOrdered(S, before)
    PROVE  /\ InOrder(S, before) \in Seq(S)
           /\ Len(InOrder(S, before)) = Cardinality(S)
           /\ Range(InOrder(S, before)) = S
           /\ \A i \in 1..Cardinality(S) : \A e \in S :
                 <<e, InOrder(S, before)[i]>> \in before =>
                    \E j \in 1..(i - 1) : InOrder(S, before)[j] = e
           /\ Cardinality(S) \in Nat
<1> DEFINE n == Cardinality(S)
           rank == [d \in S |-> Cardinality(Ahead(S, before, d)) + 1]
           s == InOrder(S, before)
<1>0. n \in Nat
  BY FS_CardinalityType
<1>1. \A d \in S : /\ IsFiniteSet(Ahead(S, before, d))
                   /\ Cardinality(Ahead(S, before, d)) \in Nat
                   /\ Cardinality(Ahead(S, before, d)) < n
  <2> SUFFICES ASSUME NEW d \in S
               PROVE  /\ IsFiniteSet(Ahead(S, before, d))
                      /\ Cardinality(Ahead(S, before, d)) \in Nat
                      /\ Cardinality(Ahead(S, before, d)) < n
    OBVIOUS
  <2>1. Ahead(S, before, d) \in SUBSET S /\ d \notin Ahead(S, before, d)
    BY DEF Ahead, StrictlyOrdered, Irreflexive
  <2>2. Ahead(S, before, d) # S
    BY <2>1
  <2>3. /\ IsFiniteSet(Ahead(S, before, d))
        /\ Cardinality(Ahead(S, before, d)) <= n
        /\ n = Cardinality(Ahead(S, before, d)) => S = Ahead(S, before, d)
    BY <2>1, FS_Subset
  <2>4. Cardinality(Ahead(S, before, d)) \in Nat
    BY <2>3, FS_CardinalityType
  <2> HIDE DEF n
  <2> QED
    BY <1>0, <2>2, <2>3, <2>4
<1>2. \A d, e \in S : <<e, d>> \in before => rank[e] < rank[d]
  <2> SUFFICES ASSUME NEW d \in S, NEW e \in S, <<e, d>> \in before
               PROVE  Cardinality(Ahead(S, before, e)) < Cardinality(Ahead(S, before, d))
    BY <1>1
  <2>1. /\ Ahead(S, before, e) \in SUBSET Ahead(S, before, d)
        /\ e \in Ahead(S, before, d) /\ e \notin Ahead(S, before, e)
    BY DEF Ahead, StrictlyOrdered, Irreflexive, Transitive
  <2>2. /\ Cardinality(Ahead(S, before, e)) <= Cardinality(Ahead(S, before, d))
        /\ Cardinality(Ahead(S, before, d)) = Cardinality(Ahead(S, before, e))
              => Ahead(S, before, d) = Ahead(S, before, e)
    BY <1>1, <2>1, FS_Subset
  <2> QED
    BY <1>1, <2>1, <2>2
<1>3. rank \in [S -> 1..n]
  <2> HIDE DEF n
  <2> QED
    BY <1>0, <1>1
<1>4. \A d, e \in S : rank[d] = rank[e] => d = e
  <2>1. \A d \in S : rank[d] \in Nat
    BY <1>1
  <2> HIDE DEF rank
  <2>2. ASSUME NEW d \in S, NEW e \in S, rank[d] = rank[e], d # e PROVE FALSE
    <3>1. rank[d] < rank[e] \/ rank[e] < rank[d]
      BY <1>2, <2>2 DEF StrictlyOrdered, Total
    <3> QED
      BY <2>1, <2>2, <3>1
  <2> QED
    BY <2>2
<1> HIDE DEF rank
<1>5. \A i \in 1..n : \E d \in S : rank[d] = i
  <2>1. rank \in Injection(S, 1..n)
    BY <1>3, <1>4 DEF Injection, IsInjective
  <2>2. IsFiniteSet(1..n) /\ Cardinality(1..n) = n
    BY <1>0, FS_Interval
  <2>3. Cardinality(S) = Cardinality(1..n) <=> rank \in Surjection(S, 1..n)
    BY <2>1, <2>2, FS_Injection
  <2> QED
    BY <2>2, <2>3 DEF Surjection
<1>6. \A i \in 1..n : s[i] \in S /\ rank[s[i]] = i
  <2> SUFFICES ASSUME NEW i \in 1..n PROVE s[i] \in S /\ rank[s[i]] = i
    OBVIOUS
  <2>1. s[i] = CHOOSE d \in S : Cardinality({e \in S : <<e, d>> \in before}) = i - 1
    BY DEF InOrder
  <2>2. PICK d \in S : rank[d] = i
    BY <1>5
  <2>3. Cardinality({e \in S : <<e, d>> \in before}) = i - 1
    BY <1>0, <1>1, <2>2 DEF rank, Ahead
  <2>4. s[i] \in S /\ Cardinality({e \in S : <<e, s[i]>> \in before}) = i - 1
    BY <2>1, <2>3
  <2>5. Ahead(S, before, s[i]) = {e \in S : <<e, s[i]>> \in before}
    BY DEF Ahead
  <2>6. rank[s[i]] = Cardinality(Ahead(S, before, s[i])) + 1
    BY <2>4 DEF rank
  <2> HIDE DEF s
  <2> QED
    BY <1>0, <2>4, <2>5, <2>6
<1>7. DOMAIN s = 1..n /\ s \in [1..n -> S]
  <2>1. s = [i \in 1..n |-> CHOOSE d \in S :
                             Cardinality({e \in S : <<e, d>> \in before}) = i - 1]
    BY DEF InOrder
  <2> HIDE DEF n
  <2> QED
    BY <1>6, <2>1
<1>8. s \in Seq(S) /\ Len(s) = n
  BY <1>0, <1>6, <1>7
<1>9. \A d \in S : rank[d] \in 1..n /\ s[rank[d]] = d
  BY <1>3, <1>4, <1>6
<1>10. Range(s) = S
  BY <1>6, <1>7, <1>9 DEF Range
<1>11. ASSUME NEW i \in 1..n, NEW e \in S, <<e, s[i]>> \in before
       PROVE  \E j \in 1..(i - 1) : s[j] = e
  <2>1. rank[e] < i
    BY <1>2, <1>6, <1>11
  <2>2. rank[e] \in 1..(i - 1)
    BY <1>0, <1>9, <2>1
  <2> QED
    BY <1>9, <2>2
<1> HIDE DEF s
<1> QED
  BY <1>0, <1>8, <1>10, <1>11 DEF s

\* A slice of a sequence takes its elements from it.
LEMMA SliceWithin ==
    ASSUME NEW S, NEW s \in Seq(S), NEW m \in Nat, m > 0, NEW n \in Nat
    PROVE  /\ Slice(s, m, n) \in Seq(S)
           /\ Range(Slice(s, m, n)) \subseteq S
<1> DEFINE k == IF n < Len(s) THEN n ELSE Len(s)
           t == Slice(s, m, n)
<1>1. Len(s) \in Nat /\ k \in Nat /\ k <= Len(s)
  OBVIOUS
<1>2. t = SubSeq(s, m, k)
  BY DEF Slice
<1>3. \A i \in m..k : s[i] \in S
  BY <1>1
<1> HIDE DEF k, t
<1>4. t \in Seq(S)
  BY <1>1, <1>2, <1>3, SubSeqProperties
<1>5. DOMAIN t = 1..Len(t) /\ \A i \in 1..Len(t) : t[i] \in S
  BY <1>4
<1>6. Range(t) \subseteq S
  BY <1>5 DEF Range
<1> QED
  BY <1>4, <1>6 DEF t

\* The first n elements of a sequence.
LEMMA FirstSlice ==
    ASSUME NEW S, NEW s \in Seq(S), NEW n \in Nat, n > 0
    PROVE  /\ Slice(s, 1, n) \in Seq(S)
           /\ \A i \in 1..Len(s) : i <= n => s[i] \in Range(Slice(s, 1, n))
           /\ \A d \in Range(Slice(s, 1, n)) : \E i \in 1..Len(s) : i <= n /\ s[i] = d
           /\ (Slice(s, 1, n) = <<>>) <=> (Len(s) = 0)
<1> DEFINE k == IF n < Len(s) THEN n ELSE Len(s)
           t == Slice(s, 1, n)
<1>1. Len(s) \in Nat /\ k \in Nat /\ k <= n /\ k <= Len(s) /\ (k = 0 <=> Len(s) = 0)
  OBVIOUS
<1>2. t = SubSeq(s, 1, k)
  BY DEF Slice
<1>3. \A i \in 1..k : s[i] \in S
  BY <1>1
<1>4. \A i \in 1..Len(s) : i <= n => i \in 1..k
  BY <1>1
<1> HIDE DEF k, t
<1>5. /\ t \in Seq(S)
      /\ Len(t) = k
      /\ \A i \in 1..k : t[i] = s[i]
  <2>1. /\ SubSeq(s, 1, k) \in Seq(S)
        /\ Len(SubSeq(s, 1, k)) = IF 1 <= k THEN k - 1 + 1 ELSE 0
        /\ \A i \in 1..(k - 1 + 1) : SubSeq(s, 1, k)[i] = s[1 + i - 1]
    BY <1>1, <1>3, SubSeqProperties
  <2> QED
    BY <1>1, <1>2, <2>1
<1>6. DOMAIN t = 1..k
  BY <1>5
<1>7. \A i \in 1..Len(s) : i <= n => s[i] \in Range(t)
  BY <1>4, <1>5, <1>6 DEF Range
<1>8. \A d \in Range(t) : \E i \in 1..Len(s) : i <= n /\ s[i] = d
  BY <1>1, <1>5, <1>6 DEF Range
<1>9. (t = <<>>) <=> (Len(s) = 0)
  BY <1>1, <1>5, EmptySeq
<1> QED
  BY <1>5, <1>7, <1>8, <1>9 DEF t

\* The first element of a sequence and those after it up to the nth.
LEMMA FirstThenRest ==
    ASSUME NEW S, NEW s \in Seq(S), NEW n \in Nat
    PROVE  LET t == Slice(s, 1, 1) \o Slice(s, 2, n) IN
           /\ DOMAIN t = 1..Len(t) /\ Len(t) \in Nat
           /\ \A i \in DOMAIN t : i \in 1..Len(s) /\ t[i] = s[i]
<1> DEFINE k == IF n < Len(s) THEN n ELSE Len(s)
           l == IF 1 < Len(s) THEN 1 ELSE Len(s)
           u == Slice(s, 1, 1)
           v == Slice(s, 2, n)
<1>1. /\ Len(s) \in Nat /\ k \in Nat /\ l \in Nat
      /\ k <= Len(s) /\ l <= Len(s) /\ l <= 1 /\ (l = 0 <=> Len(s) = 0)
  OBVIOUS
<1>2. u = SubSeq(s, 1, l) /\ v = SubSeq(s, 2, k)
  BY DEF Slice
<1>3. \A i \in 1..Len(s) : s[i] \in S
  OBVIOUS
<1> HIDE DEF k, l, u, v
<1>4. (\A i \in 1..l : s[i] \in S) /\ (\A i \in 2..k : s[i] \in S)
  BY <1>1, <1>3
<1>5. /\ u \in Seq(S) /\ Len(u) = l
      /\ \A i \in 1..l : u[i] = s[i]
  <2>1. /\ SubSeq(s, 1, l) \in Seq(S)
        /\ Len(SubSeq(s, 1, l)) = IF 1 <= l THEN l - 1 + 1 ELSE 0
        /\ \A i \in 1..(l - 1 + 1) : SubSeq(s, 1, l)[i] = s[1 + i - 1]
    BY <1>1, <1>4, SubSeqProperties
  <2> QED
    BY <1>1, <1>2, <2>1
<1>6. /\ v \in Seq(S) /\ Len(v) = IF 2 <= k THEN k - 1 ELSE 0
      /\ \A i \in 1..(k - 1) : v[i] = s[i + 1]
  <2>1. /\ SubSeq(s, 2, k) \in Seq(S)
        /\ Len(SubSeq(s, 2, k)) = IF 2 <= k THEN k - 2 + 1 ELSE 0
        /\ \A i \in 1..(k - 2 + 1) : SubSeq(s, 2, k)[i] = s[2 + i - 1]
    BY <1>1, <1>4, SubSeqProperties
  <2> QED
    BY <1>1, <1>2, <2>1
<1>7. /\ u \o v \in Seq(S) /\ Len(u \o v) = Len(u) + Len(v)
      /\ \A i \in 1..Len(u \o v) : (u \o v)[i] = IF i <= Len(u) THEN u[i] ELSE v[i - Len(u)]
  <2>1. u \in Seq(S) /\ v \in Seq(S)
    BY <1>5, <1>6
  <2> QED
    BY <2>1, ConcatProperties
<1>8. DOMAIN (u \o v) = 1..Len(u \o v) /\ Len(u \o v) \in Nat
  BY <1>7
<1>9. ASSUME NEW i \in 1..Len(u \o v) PROVE i \in 1..Len(s) /\ (u \o v)[i] = s[i]
  <2>1. CASE i <= l
    BY <1>1, <1>5, <1>7, <1>9, <2>1
  <2>2. CASE i > l
    <3>1. 2 <= k /\ l = 1 /\ i - 1 \in 1..(k - 1)
      BY <1>1, <1>5, <1>6, <1>7, <1>9, <2>2
    <3>2. (u \o v)[i] = v[i - 1] /\ v[i - 1] = s[i - 1 + 1]
      BY <1>5, <1>6, <1>7, <1>9, <2>2, <3>1
    <3> QED
      BY <1>1, <3>1, <3>2
  <2> QED
    BY <1>1, <2>1, <2>2
<1>10. \A i \in DOMAIN (u \o v) : i \in 1..Len(s) /\ (u \o v)[i] = s[i]
  BY <1>8, <1>9
<1> QED
  BY <1>8, <1>10 DEF u, v

-----------------------------------------------------------------------------
(***************************************************************************)
(* Sums.  The fold of SumFunction picks one index after another; what it   *)
(* adds up is followed here subset by subset, by a smallest counterexample. *)
(***************************************************************************)

\* A set of numbers that is not empty has a least one.
LEMMA LeastExists ==
    ASSUME NEW S \in SUBSET Nat, S # {}
    PROVE  \E n \in S : \A m \in S : n <= m
<1> DEFINE T == {0..n : n \in S}
<1>1. IsWellFoundedOn(StrictSubsetOrdering(Nat), FiniteSubsetsOf(Nat))
  BY FS_StrictSubsetOrderingWellFounded
<1>2. T \subseteq FiniteSubsetsOf(Nat)
  <2>1. \A n \in Nat : IsFiniteSet(0..n) /\ 0..n \in SUBSET Nat
    BY FS_Interval
  <2> QED
    BY <2>1 DEF FiniteSubsetsOf
<1>3. T # {}
  OBVIOUS
<1> HIDE DEF T
<1>4. PICK R \in T : \A Q \in T : ~(<<Q, R>> \in StrictSubsetOrdering(Nat))
  BY <1>1, <1>2, <1>3, WFMin
<1>5. PICK n \in S : R = 0..n
  BY <1>4 DEF T
<1>6. ASSUME NEW m \in S, m < n PROVE FALSE
  <2>1. 0..m \in T
    BY DEF T
  <2>2. 0..m \in SUBSET Nat /\ 0..n \in SUBSET Nat
    OBVIOUS
  <2>3. 0..m \subseteq 0..n /\ n \in 0..n /\ n \notin 0..m
    BY <1>6
  <2>4. <<0..m, 0..n>> \in StrictSubsetOrdering(Nat)
    BY <2>2, <2>3 DEF StrictSubsetOrdering
  <2> QED
    BY <1>4, <1>5, <2>1, <2>4
<1> QED
  BY <1>6

\* The index picked from S, and those left.
Picked(S) == CHOOSE k \in S : TRUE
Rest(S) == S \ {Picked(S)}

\* The sum over S, from the sums g over smaller sets.
Added(f, g, S) == IF S = {} THEN 0 ELSE f[Picked(S)] + g[Rest(S)]

\* The sums over the subsets of the domain.
Partial(f) == CHOOSE g : g = [S \in SUBSET DOMAIN f |-> Added(f, g, S)]

\* The last sum is the library's.
LEMMA SumIsPartial ==
    ASSUME NEW f PROVE SumFunction(f) = Partial(f)[DOMAIN f]
  BY DEF SumFunction, SumFunctionOnSet, FoldFunctionOnSet, MapThenFoldSet,
         Partial, Added, Picked, Rest

\* What is left of a finite set that is not empty is smaller.
LEMMA RestSmaller ==
    ASSUME NEW S, IsFiniteSet(S), S # {}
    PROVE  /\ Picked(S) \in S
           /\ Rest(S) \subseteq S /\ Rest(S) # S
           /\ IsFiniteSet(Rest(S))
           /\ Cardinality(S) \in Nat /\ Cardinality(Rest(S)) \in Nat
           /\ Cardinality(Rest(S)) = Cardinality(S) - 1
<1>1. Picked(S) \in S
  BY DEF Picked
<1>2. /\ IsFiniteSet(S \ {Picked(S)})
      /\ Cardinality(S \ {Picked(S)}) = Cardinality(S) - 1
  BY <1>1, FS_RemoveElement
<1> QED
  BY <1>1, <1>2, FS_CardinalityType DEF Rest

\* The sums over the subsets of a finite set exist.
LEMMA PartialExists ==
    ASSUME NEW f, IsFiniteSet(DOMAIN f)
    PROVE  Partial(f) = [S \in SUBSET DOMAIN f |-> Added(f, Partial(f), S)]
<1> DEFINE D == DOMAIN f
           Upto(n, g) == \A S \in SUBSET D : Cardinality(S) <= n => g[S] = Added(f, g, S)
           Bad == {n \in Nat : ~\E g : g = [S \in SUBSET D |-> g[S]] /\ Upto(n, g)}
<1>1. \A S \in SUBSET D : IsFiniteSet(S) /\ Cardinality(S) \in Nat
                          /\ Cardinality(S) <= Cardinality(D)
  BY FS_Subset, FS_CardinalityType
<1>2. Bad = {}
  <2> SUFFICES ASSUME Bad # {} PROVE FALSE
    OBVIOUS
  <2>1. PICK n \in Bad : \A m \in Bad : n <= m
    BY LeastExists, Bad \in SUBSET Nat
  <2>2. CASE n = 0
    <3> DEFINE g == [S \in SUBSET D |-> 0]
    <3>1. ASSUME NEW S \in SUBSET D, Cardinality(S) <= 0 PROVE g[S] = Added(f, g, S)
      <4>1. S = {}
        BY <1>1, <3>1, FS_EmptySet
      <4> QED
        BY <4>1 DEF Added
    <3> QED
      BY <2>1, <2>2, <3>1
  <2>3. CASE n # 0
    <3>0. n \in Nat
      BY <2>1
    <3>1. n - 1 \in Nat /\ n - 1 \notin Bad
      <4> HIDE DEF Bad
      <4>1. n - 1 \in Nat /\ ~(n <= n - 1)
        BY <2>3, <3>0
      <4> QED
        BY <2>1, <4>1
    <3>2. PICK g : g = [S \in SUBSET D |-> g[S]] /\ Upto(n - 1, g)
      BY <3>1
    <3> DEFINE h == [S \in SUBSET D |-> Added(f, g, S)]
    <3>3. ASSUME NEW S \in SUBSET D, Cardinality(S) <= n PROVE h[S] = Added(f, h, S)
      <4>1. CASE S = {}
        BY <4>1 DEF Added
      <4>2. CASE S # {}
        <5>1. /\ Rest(S) \in SUBSET D
              /\ Cardinality(Rest(S)) <= n - 1
          BY <1>1, <2>1, <3>3, <4>2, RestSmaller
        <5>2. h[Rest(S)] = g[Rest(S)]
          BY <3>2, <5>1
        <5> QED
          BY <4>2, <5>2 DEF Added
      <4> QED
        BY <4>1, <4>2
    <3>4. h = [S \in SUBSET D |-> h[S]] /\ Upto(n, h)
      BY <3>3
    <3> HIDE DEF h
    <3> QED
      BY <2>1, <3>4
  <2> QED
    BY <2>2, <2>3
<1>3. Cardinality(D) \in Nat
  BY FS_CardinalityType
<1>4. PICK g : g = [S \in SUBSET D |-> g[S]] /\ Upto(Cardinality(D), g)
  BY <1>2, <1>3
<1>5. \A S \in SUBSET D : g[S] = Added(f, g, S)
  BY <1>1, <1>4
<1>6. g = [S \in SUBSET D |-> Added(f, g, S)]
  BY <1>4, <1>5
<1> QED
  BY <1>6 DEF Partial

\* Sums compare like their terms.
LEMMA SumMonotone ==
    ASSUME NEW D, IsFiniteSet(D), NEW x \in [D -> Nat], NEW y \in [D -> Nat],
           \A k \in D : x[k] <= y[k]
    PROVE  /\ SumFunction(x) \in Nat /\ SumFunction(y) \in Nat
           /\ SumFunction(x) <= SumFunction(y)
           /\ (\E k \in D : x[k] < y[k]) => SumFunction(x) < SumFunction(y)
<1> DEFINE g == Partial(x)
           h == Partial(y)
           Holds(S) == /\ g[S] \in Nat /\ h[S] \in Nat
                       /\ g[S] <= h[S]
                       /\ (\E k \in S : x[k] < y[k]) => g[S] < h[S]
           Bad == {S \in SUBSET D : ~Holds(S)}
<1>1. \A S \in SUBSET D : g[S] = Added(x, g, S) /\ h[S] = Added(y, h, S)
  BY PartialExists
<1>2. \A S \in SUBSET D : IsFiniteSet(S)
  BY FS_Subset
<1>3. Bad = {}
  <2> SUFFICES ASSUME Bad # {} PROVE FALSE
    OBVIOUS
  <2>1. IsWellFoundedOn(StrictSubsetOrdering(D), FiniteSubsetsOf(D))
    BY FS_StrictSubsetOrderingWellFounded
  <2>2. Bad \subseteq FiniteSubsetsOf(D)
    BY <1>2 DEF FiniteSubsetsOf
  <2> HIDE DEF Bad
  <2>3. PICK S \in Bad : \A R \in Bad : ~(<<R, S>> \in StrictSubsetOrdering(D))
    BY <2>1, <2>2, WFMin
  <2>4. S \in SUBSET D /\ ~Holds(S)
    BY <2>3 DEF Bad
  <2> HIDE DEF g, h
  <2>5. CASE S = {}
    <3>1. g[S] = 0 /\ h[S] = 0
      BY <1>1, <2>4, <2>5 DEF Added
    <3> QED
      BY <2>4, <2>5, <3>1
  <2>6. CASE S # {}
    <3>1. /\ Picked(S) \in S /\ Rest(S) \subseteq S /\ Rest(S) # S
          /\ S = Rest(S) \cup {Picked(S)}
      <4>1. Picked(S) \in S /\ Rest(S) # S
        BY <1>2, <2>4, <2>6, RestSmaller
      <4> QED
        BY <4>1 DEF Rest
    <3>2. Rest(S) \in SUBSET D /\ S \in SUBSET D
      BY <2>4, <3>1
    <3>3. <<Rest(S), S>> \in StrictSubsetOrdering(D)
      BY <3>1, <3>2 DEF StrictSubsetOrdering
    <3>4. Holds(Rest(S))
      BY <2>3, <3>2, <3>3 DEF Bad
    <3>5. /\ g[S] = x[Picked(S)] + g[Rest(S)]
          /\ h[S] = y[Picked(S)] + h[Rest(S)]
      BY <1>1, <2>6, <3>2 DEF Added
    <3>6. /\ x[Picked(S)] \in Nat /\ y[Picked(S)] \in Nat /\ x[Picked(S)] <= y[Picked(S)]
      BY <3>1, <3>2
    <3>7. (\E k \in S : x[k] < y[k]) => x[Picked(S)] < y[Picked(S)]
                                        \/ \E k \in Rest(S) : x[k] < y[k]
      BY <3>1
    <3>8. Holds(S)
      BY <3>4, <3>5, <3>6, <3>7
    <3> QED
      BY <2>4, <3>8
  <2> QED
    BY <2>5, <2>6
<1>4. Holds(D)
  BY <1>3
<1>5. SumFunction(x) = g[D] /\ SumFunction(y) = h[D]
  BY SumIsPartial
<1> QED
  BY <1>4, <1>5

-----------------------------------------------------------------------------
(***************************************************************************)
(* Costs and values.                                                       *)
(***************************************************************************)

\* Quotients grow with what is divided.
LEMMA QuotientsGrow ==
    ASSUME NEW a \in Nat, NEW c \in Nat, a <= c, NEW b \in Nat \ {0}
    PROVE  a \div b \in Nat /\ c \div b \in Nat /\ a \div b <= c \div b
<1>1. /\ a \div b \in Int /\ b * (a \div b) <= a /\ a < b * (a \div b) + b
      /\ c \div b \in Int /\ b * (c \div b) <= c /\ c < b * (c \div b) + b
  OBVIOUS
<1> DEFINE x == a \div b
           y == c \div b
<1>2. x \in Int /\ y \in Int
  BY <1>1
<1>3. b * x <= a /\ a < b * x + b /\ b * y <= c /\ c < b * y + b
  BY <1>1
<1> HIDE DEF x, y
<1>4. ASSUME NEW z \in Int, z < 0 PROVE b * z + b <= 0
  <2>1. z + 1 <= 0
    BY <1>4
  <2>2. b * (z + 1) <= 0
    BY <1>4, <2>1
  <2>3. b * (z + 1) = b * z + b
    BY <1>4
  <2>4. b * z \in Int
    BY <1>4
  <2> QED
    BY <2>2, <2>3, <2>4
<1>5. 0 <= x /\ 0 <= y
  <2>1. b * x \in Int /\ b * y \in Int
    BY <1>2
  <2> QED
    BY <1>2, <1>3, <1>4, <2>1
<1>6. x <= y
  <2> SUFFICES ASSUME y < x PROVE FALSE
    BY <1>2
  <2>1. y + 1 <= x
    BY <1>2
  <2>2. b * (y + 1) <= b * x
    BY <1>2, <2>1
  <2>3. b * (y + 1) = b * y + b
    BY <1>2
  <2>4. b * x \in Int /\ b * y \in Int
    BY <1>2
  <2> QED
    BY <1>3, <2>2, <2>3, <2>4
<1> QED
  BY <1>2, <1>5, <1>6 DEF x, y

\* Products grow with either factor.
LEMMA ProductsGrow ==
    ASSUME NEW a \in Nat, NEW c \in Nat, a <= c, NEW b \in Nat
    PROVE  /\ b * a \in Nat /\ b * c \in Nat /\ b * a <= b * c
           /\ b > 0 /\ a < c => b * a < b * c
  OBVIOUS

\* What is asked about an offer, by type.
LEMMA RequestShape ==
    ASSUME NEW q \in Requests
    PROVE  /\ IsFiniteSet(DOMAIN Usage(q))
           /\ \A m \in DOMAIN Usage(q) : Usage(q)[m] \in Nat
           /\ q.requests \in Nat
           /\ q.limit \in Nat \ {0}
           /\ \A k \in DOMAIN q.weights : q.weights[k] \in Nat
           /\ IsFiniteSet(DOMAIN q.weights)
           /\ q.input \in Nat /\ q.output \in Nat /\ q.context \in Nat
<1>1. RequestAssumption(q)
  BY RecommenderAssumption
<1>3. IsFiniteSet(DOMAIN Usage(q))
  <2>1. DOMAIN Usage(q) = {"input_tokens", "output_tokens", "cached_input", "request", "image"}
    BY DEF Usage
  <2>2. {"input_tokens", "output_tokens", "cached_input", "request", "image"}
          = {"input_tokens"} \cup {"output_tokens"} \cup {"cached_input"}
            \cup {"request"} \cup {"image"}
    OBVIOUS
  <2>3. IsFiniteSet({"input_tokens"} \cup {"output_tokens"} \cup {"cached_input"}
                    \cup {"request"} \cup {"image"})
    BY FS_Singleton, FS_Union
  <2> QED
    BY <2>1, <2>2, <2>3
<1>4. /\ q.requests \in Nat /\ q.input \in Nat /\ q.output \in Nat /\ q.cached \in Nat
      /\ q.images \in Nat /\ q.cached <= q.input
  BY <1>1 DEF RequestAssumption
<1>5. \A m \in DOMAIN Usage(q) : Usage(q)[m] \in Nat
  BY <1>4 DEF Usage
<1>6. \A k \in DOMAIN q.weights : q.weights[k] \in Nat
  BY <1>1 DEF RequestAssumption
<1> QED
  BY <1>1, <1>3, <1>4, <1>5, <1>6 DEF RequestAssumption

\* A cost is a natural number.
LEMMA CostCounts ==
    ASSUME NEW d \in Offered, NEW q \in Requests
    PROVE  Cost(d, q) \in Nat
<1> DEFINE x == [m \in DOMAIN Usage(q) |-> Charge(d, q, m)]
<1>1. ASSUME NEW m \in DOMAIN Usage(q) PROVE Charge(d, q, m) \in Nat
  <2>1. CASE m \in Consumed(q) /\ InDollars(d, m)
    <3>1. Prices(d)[m].amount \in Nat /\ Prices(d)[m].per \in Nat \ {0}
      BY <2>1, RecommenderAssumption DEF InDollars, OfferAssumption
    <3>2. Usage(q)[m] \in Nat /\ q.requests \in Nat
      BY <1>1, RequestShape
    <3>3. Prices(d)[m].amount * Usage(q)[m] * q.requests \in Nat
      BY <3>1, <3>2
    <3> QED
      BY <2>1, <3>1, <3>3, QuotientsGrow DEF Charge
  <2>2. CASE ~(m \in Consumed(q) /\ InDollars(d, m))
    BY <2>2 DEF Charge
  <2> QED
    BY <2>1, <2>2
<1>2. x \in [DOMAIN Usage(q) -> Nat]
  BY <1>1
<1> HIDE DEF x
<1>3. SumFunction(x) \in Nat
  BY <1>2, RequestShape, SumMonotone
<1> QED
  BY <1>3 DEF x, Cost

\* The greatest of a finite set of numbers.
LEMMA MaxBounds ==
    ASSUME NEW S \in SUBSET Nat, IsFiniteSet(S), S # {}
    PROVE  Max(S) \in Nat /\ \A n \in S : n <= Max(S)
<1> DEFINE above == {p \in S \X S : p[1] > p[2]}
<1>1. \A m, n \in S : <<m, n>> \in above <=> m > n
  OBVIOUS
<1> HIDE DEF above
<1>2. Irreflexive(S, above) /\ Transitive(S, above)
  <2>1. \A m \in S : ~(m > m)
    OBVIOUS
  <2>2. \A m, n, o \in S : m > n /\ n > o => m > o
    OBVIOUS
  <2> QED
    BY <1>1, <2>1, <2>2 DEF Irreflexive, Transitive
<1>3. PICK n \in S : \A m \in S : <<m, n>> \notin above
  BY <1>2, FirstExists
<1>4. ASSUME NEW m \in S PROVE n >= m
  <2>1. ~(m > n)
    BY <1>1, <1>3, Zenon
  <2> QED
    BY <2>1
<1>5. Max(S) \in S /\ \A m \in S : Max(S) >= m
  BY <1>4 DEF Max
<1> QED
  BY <1>5

\* A cheaper deployment is at least as useful by its price.
LEMMA CheaperIsAsUseful ==
    ASSUME NEW ds \in SUBSET Offered, IsFiniteSet(ds), NEW q \in Requests,
           NEW d \in ds, NEW e \in ds, Cost(e, q) <= Cost(d, q)
    PROVE  /\ PriceUtility(d, ds, q) \in Nat /\ PriceUtility(e, ds, q) \in Nat
           /\ PriceUtility(d, ds, q) <= PriceUtility(e, ds, q)
<1> DEFINE costs == {0} \cup {Cost(f, q) : f \in ds}
           top == MaxCost(ds, q)
<1>1. costs \in SUBSET Nat /\ costs # {}
  BY CostCounts
<1>2. IsFiniteSet(costs)
  <2> DEFINE cost == [f \in ds |-> Cost(f, q)]
             image == {Cost(f, q) : f \in ds}
  <2>1. cost \in Surjection(ds, image)
    BY DEF Surjection
  <2>2. IsFiniteSet(image)
    BY <2>1, FS_Surjection
  <2> QED
    BY <2>2, FS_Singleton, FS_Union
<1>3. Cost(d, q) \in costs /\ Cost(e, q) \in costs /\ top = Max(costs)
  BY DEF MaxCost
<1> HIDE DEF costs, top
<1>4. top \in Nat /\ \A n \in costs : n <= top
  BY <1>1, <1>2, <1>3, MaxBounds
<1>5. Cost(d, q) \in Nat /\ Cost(e, q) \in Nat /\ Cost(d, q) <= top /\ Cost(e, q) <= top
  BY <1>1, <1>3, <1>4
<1>6. One \in Nat
  BY RecommenderAssumption
<1>7. CASE top = 0
  BY <1>6, <1>7 DEF PriceUtility, top
<1>8. CASE top # 0
  <2>1. /\ top - Cost(d, q) \in Nat /\ top - Cost(e, q) \in Nat
        /\ top - Cost(d, q) <= top - Cost(e, q)
    BY <1>4, <1>5
  <2>2. /\ (top - Cost(d, q)) * One \in Nat /\ (top - Cost(e, q)) * One \in Nat
        /\ (top - Cost(d, q)) * One <= (top - Cost(e, q)) * One
    BY <1>6, <2>1
  <2>3. /\ PriceUtility(d, ds, q) = ((top - Cost(d, q)) * One) \div top
        /\ PriceUtility(e, ds, q) = ((top - Cost(e, q)) * One) \div top
    BY <1>8 DEF PriceUtility, top
  <2> QED
    BY <1>4, <1>8, <2>2, <2>3, QuotientsGrow
<1> QED
  BY <1>7, <1>8

\* A value is a natural number.
LEMMA UtilityCounts ==
    ASSUME NEW ds \in SUBSET Offered, IsFiniteSet(ds), NEW q \in Requests,
           NEW d \in ds, NEW k \in Valued(d)
    PROVE  Utility(d, ds, q, k) \in Nat
<1>1. CASE k = "price"
  <2>1. Cost(d, q) <= Cost(d, q)
    BY CostCounts
  <2> QED
    BY <1>1, <2>1, CheaperIsAsUseful DEF Utility
<1>2. CASE k = "latency"
  <2>1. "ttft_seconds" \in DOMAIN Facts(d) /\ Facts(d)["ttft_seconds"] >= 0
    BY <1>2, RecommenderAssumption DEF Valued, Known, OfferAssumption
  <2> SUFFICES One \div (1 + Facts(d)["ttft_seconds"]) \in Nat
    BY <1>2 DEF Utility
  <2>2. Facts(d)["ttft_seconds"] \in Int /\ One \in Nat
    BY <2>1, RecommenderAssumption DEF OfferAssumption
  <2>3. 1 + Facts(d)["ttft_seconds"] \in Nat \ {0}
    BY <2>1, <2>2
  <2> QED
    BY <2>2, <2>3, QuotientsGrow
<1>3. CASE k \notin {"price", "latency"}
  <2>1. k \in DOMAIN Scores[Offers[d].model]
    BY <1>3 DEF Valued
  <2>2. Scores[Offers[d].model][k] \in Nat
    BY <2>1, RecommenderAssumption DEF OfferAssumption
  <2> QED
    BY <1>3, <2>2 DEF Utility
<1> QED
  BY <1>1, <1>2, <1>3

-----------------------------------------------------------------------------
(***************************************************************************)
(* Scores and the ranking.                                                 *)
(***************************************************************************)

\* A deployment that is as good as another in all that is weighed scores as
\* high, and higher when it is better in some of it.
LEMMA ScoresCompare ==
    ASSUME NEW ds \in SUBSET Offered, IsFiniteSet(ds), NEW q \in Requests,
           NEW d \in ds, NEW e \in ds,
           \A k \in DOMAIN q.weights : q.weights[k] > 0 /\ k \in Valued(d) =>
               k \in Valued(e) /\ Utility(d, ds, q, k) <= Utility(e, ds, q, k)
    PROVE  /\ Score(d, ds, q) \in Nat /\ Score(e, ds, q) \in Nat
           /\ Score(d, ds, q) <= Score(e, ds, q)
           /\ (\E k \in DOMAIN q.weights :
                  /\ q.weights[k] > 0 /\ k \in Valued(d)
                  /\ Utility(d, ds, q, k) < Utility(e, ds, q, k))
              => Score(d, ds, q) < Score(e, ds, q)
<1> DEFINE K == DOMAIN q.weights
           term(f, k) == IF k \in Valued(f) THEN q.weights[k] * Utility(f, ds, q, k) ELSE 0
           x == [k \in K |-> term(d, k)]
           y == [k \in K |-> term(e, k)]
<1>1. IsFiniteSet(K) /\ \A k \in K : q.weights[k] \in Nat
  BY RequestShape
<1>2. \A f \in ds : \A k \in Valued(f) : Utility(f, ds, q, k) \in Nat
  BY UtilityCounts
<1> HIDE DEF K
<1>3. ASSUME NEW f \in ds, NEW k \in K PROVE term(f, k) \in Nat
  <2>1. CASE k \in Valued(f)
    <3>1. q.weights[k] \in Nat /\ Utility(f, ds, q, k) \in Nat
      BY <1>1, <1>2, <2>1
    <3>2. q.weights[k] * Utility(f, ds, q, k) \in Nat
      BY <3>1
    <3> QED
      BY <2>1, <3>2
  <2> QED
    BY <2>1
<1>4. ASSUME NEW k \in K
      PROVE  /\ term(d, k) <= term(e, k)
             /\ q.weights[k] > 0 /\ k \in Valued(d) /\ Utility(d, ds, q, k) < Utility(e, ds, q, k)
                   => term(d, k) < term(e, k)
  <2> DEFINE w == q.weights[k]
             a == Utility(d, ds, q, k)
             c == Utility(e, ds, q, k)
  <2>0. w \in Nat
    BY <1>1
  <2>1. CASE k \notin Valued(d)
    BY <1>3, <2>1
  <2>2. CASE k \in Valued(d) /\ w = 0
    <3>1. term(d, k) = 0
      <4>1. a \in Nat
        BY <1>2, <2>2
      <4> HIDE DEF a
      <4>2. w * a = 0
        BY <4>1, <2>2
      <4> QED
        BY <4>2, <2>2 DEF a
    <3>2. term(e, k) \in Nat
      BY <1>3
    <3> HIDE DEF term
    <3> QED
      BY <2>2, <3>1, <3>2
  <2>3. CASE k \in Valued(d) /\ w # 0
    <3>1. k \in Valued(e) /\ a <= c
      BY <2>0, <2>3 DEF K
    <3>2. a \in Nat /\ c \in Nat
      BY <1>2, <2>3, <3>1
    <3>3. term(d, k) = w * a /\ term(e, k) = w * c
      BY <2>3, <3>1
    <3> HIDE DEF term, w, a, c
    <3>4. w * a <= w * c /\ (w > 0 /\ a < c => w * a < w * c)
      BY <2>0, <3>1, <3>2, ProductsGrow
    <3> QED
      BY <3>3, <3>4 DEF w, a, c
  <2> QED
    BY <2>1, <2>2, <2>3
<1> HIDE DEF term
<1>5. x \in [K -> Nat] /\ y \in [K -> Nat] /\ \A k \in K : x[k] <= y[k]
  BY <1>3, <1>4
<1>6. (\E k \in K : /\ q.weights[k] > 0 /\ k \in Valued(d)
                    /\ Utility(d, ds, q, k) < Utility(e, ds, q, k))
      => \E k \in K : x[k] < y[k]
  BY <1>4
<1>7. SumFunction(x) = Score(d, ds, q) /\ SumFunction(y) = Score(e, ds, q)
  BY DEF Score, term, K
<1> HIDE DEF x, y
<1>8. /\ SumFunction(x) \in Nat /\ SumFunction(y) \in Nat
      /\ SumFunction(x) <= SumFunction(y)
      /\ (\E k \in K : x[k] < y[k]) => SumFunction(x) < SumFunction(y)
  BY <1>1, <1>5, SumMonotone
<1> QED
  BY <1>6, <1>7, <1>8 DEF K

\* The ranking decides between any two deployments.
LEMMA RankingOrders ==
    ASSUME NEW ds \in SUBSET Offered, IsFiniteSet(ds), NEW q \in Requests, NEW S \in SUBSET ds
    PROVE  StrictlyOrdered(S, Ranking(ds, q))
<1> DEFINE score == [d \in ds |-> Score(d, ds, q)]
           cost == [d \in ds |-> Cost(d, q)]
           R == Ranking(ds, q)
<1>1. \A d \in ds : score[d] \in Nat /\ cost[d] \in Nat /\ d \in Nat
  <2> SUFFICES ASSUME NEW d \in ds PROVE score[d] \in Nat /\ cost[d] \in Nat /\ d \in Nat
    OBVIOUS
  <2>1. \A k \in DOMAIN q.weights : k \in Valued(d) =>
            Utility(d, ds, q, k) <= Utility(d, ds, q, k)
    BY UtilityCounts
  <2>2. Score(d, ds, q) \in Nat
    BY <2>1, ScoresCompare
  <2>3. Cost(d, q) \in Nat
    BY CostCounts
  <2>4. d \in Nat
    BY RecommenderAssumption
  <2> QED
    BY <2>2, <2>3, <2>4
<1>2. \A d, e \in ds : <<d, e>> \in R <=> \/ score[d] > score[e]
                                          \/ /\ score[d] = score[e]
                                             /\ \/ cost[d] < cost[e]
                                                \/ cost[d] = cost[e] /\ d < e
  BY DEF Ranking, Precedes
<1> HIDE DEF score, cost, R
<1>3. Irreflexive(S, R)
  BY <1>1, <1>2 DEF Irreflexive
<1>4. Transitive(S, R)
  <2> SUFFICES ASSUME NEW d \in S, NEW e \in S, NEW f \in S, <<d, e>> \in R, <<e, f>> \in R
               PROVE  <<d, f>> \in R
    BY DEF Transitive
  <2>1. \/ score[d] > score[e]
        \/ /\ score[d] = score[e]
           /\ \/ cost[d] < cost[e]
              \/ cost[d] = cost[e] /\ d < e
    BY <1>2
  <2>2. \/ score[e] > score[f]
        \/ /\ score[e] = score[f]
           /\ \/ cost[e] < cost[f]
              \/ cost[e] = cost[f] /\ e < f
    BY <1>2
  <2>3. /\ score[d] \in Nat /\ cost[d] \in Nat /\ d \in Nat
        /\ score[e] \in Nat /\ cost[e] \in Nat /\ e \in Nat
        /\ score[f] \in Nat /\ cost[f] \in Nat /\ f \in Nat
    BY <1>1
  <2>4. \/ score[d] > score[f]
        \/ /\ score[d] = score[f]
           /\ \/ cost[d] < cost[f]
              \/ cost[d] = cost[f] /\ d < f
    BY <2>1, <2>2, <2>3
  <2> QED
    BY <1>2, <2>4
<1>5. Total(S, R)
  <2> SUFFICES ASSUME NEW d \in S, NEW e \in S, d # e
               PROVE  <<d, e>> \in R \/ <<e, d>> \in R
    BY DEF Total
  <2>1. /\ score[d] \in Nat /\ cost[d] \in Nat /\ d \in Nat
        /\ score[e] \in Nat /\ cost[e] \in Nat /\ e \in Nat
    BY <1>1
  <2>2. \/ score[d] > score[e] \/ score[e] > score[d]
        \/ score[d] = score[e] /\ (cost[d] < cost[e] \/ cost[e] < cost[d])
        \/ score[d] = score[e] /\ cost[d] = cost[e] /\ (d < e \/ e < d)
    BY <2>1
  <2> QED
    BY <1>2, <2>2
<1> QED
  BY <1>3, <1>4, <1>5 DEF StrictlyOrdered, R

\* So does the order of the fallbacks.
LEMMA AkinOrders ==
    ASSUME NEW S \in SUBSET Offered, NEW before, StrictlyOrdered(S, before), NEW d
    PROVE  StrictlyOrdered(S, AkinFirst(d, before))
<1> DEFINE akin(e) == Offers[e].model = Offers[d].model
           R == AkinFirst(d, before)
<1>1. \A e, f \in S : <<e, f>> \in R <=> \/ akin(e) /\ ~akin(f)
                                         \/ (akin(e) <=> akin(f)) /\ <<e, f>> \in before
  BY DEF AkinFirst, Offered
<1> HIDE DEF R, akin
<1>2. Irreflexive(S, R)
  BY <1>1 DEF StrictlyOrdered, Irreflexive
<1>3. Transitive(S, R)
  BY <1>1 DEF StrictlyOrdered, Transitive
<1>4. Total(S, R)
  BY <1>1 DEF StrictlyOrdered, Total
<1> QED
  BY <1>2, <1>3, <1>4 DEF StrictlyOrdered, R

-----------------------------------------------------------------------------
(***************************************************************************)
(* The recommendation.                                                     *)
(***************************************************************************)

\* What qualifies rests on evidence.
LEMMA QualifiesIsBacked ==
    ASSUME NEW d \in Offered, NEW q \in Requests, Qualifies(d, q)
    PROVE  Backed(d, q)
<1> DEFINE length == q.input + q.output
<1>1. /\ Known(d, "availability") /\ Facts(d)["availability"] \in {"available", "listed"}
      /\ \A c \in q.capabilities : Known(d, c) /\ Facts(d)[c]
  BY DEF Qualifies
<1>2. length \in Nat /\ q.context \in Nat
  BY RequestShape
<1> HIDE DEF length
<1>3. length > 0 \/ q.context > 0 =>
          /\ Known(d, "context_window")
          /\ Facts(d)["context_window"] >= IF q.context > length THEN q.context ELSE length
  BY <1>2 DEF Qualifies, Fits, length
<1>4. length > 0 => Facts(d)["context_window"] >= length
  <2>1. Known(d, "context_window") => Facts(d)["context_window"] \in Int
    BY RecommenderAssumption DEF OfferAssumption, Known
  <2> QED
    BY <1>2, <1>3, <2>1
<1>5. q.output > 0 => Known(d, "max_output") /\ Facts(d)["max_output"] >= q.output
  BY RequestShape DEF Qualifies, Emits
<1>6. ASSUME NEW m \in Consumed(q) \ {"request"}
      PROVE  m \in DOMAIN Prices(d) /\ Prices(d)[m].usd
  BY <1>6 DEF Qualifies, Affordable, Missing, InDollars
<1>7. q.old \/ \A field \in DOMAIN Prices(d) \cup {"availability"} \cup q.capabilities
                   \cup {f \in {"context_window"} : length > 0 \/ q.context > 0} :
                      <<d, field>> \notin stale
  BY <1>1, <1>3 DEF Qualifies, Fresh, Relevant, Known
<1> QED
  BY <1>1, <1>3, <1>4, <1>5, <1>6, <1>7 DEF Backed, length

\* What outclasses a deployment comes before it in the ranking.
LEMMA BetterIsAhead ==
    ASSUME NEW ds \in SUBSET Offered, IsFiniteSet(ds), NEW q \in Requests,
           NEW d \in ds, NEW e \in ds, Outclasses(e, d, q)
    PROVE  <<d, e>> \notin Ranking(ds, q) /\ e # d /\ Covered(e, q)
<1> DEFINE K == DOMAIN q.weights
<1>1. \A k \in K : q.weights[k] > 0 /\ k \in Valued(d) =>
          /\ k \in Valued(e)
          /\ IF k = "price" THEN Cost(e, q) <= Cost(d, q)
             ELSE Utility(e, {}, q, k) >= Utility(d, {}, q, k)
  BY DEF Outclasses
<1>2. PICK b \in K : /\ q.weights[b] > 0
                     /\ b \in Valued(e) /\ b \in Valued(d)
                     /\ IF b = "price" THEN Cost(e, q) < Cost(d, q)
                        ELSE Utility(e, {}, q, b) > Utility(d, {}, q, b)
  BY DEF Outclasses
<1>3. \A f \in ds : \A k : k # "price" => Utility(f, ds, q, k) = Utility(f, {}, q, k)
  BY DEF Utility
<1>4. Cost(d, q) \in Nat /\ Cost(e, q) \in Nat
  BY CostCounts
<1>5. \A f \in ds : \A k \in Valued(f) : Utility(f, ds, q, k) \in Nat
  BY UtilityCounts
<1>6. ASSUME NEW k \in K, q.weights[k] > 0, k \in Valued(d)
      PROVE  k \in Valued(e) /\ Utility(d, ds, q, k) <= Utility(e, ds, q, k)
  <2>1. k \in Valued(e)
    BY <1>1, <1>6
  <2>2. CASE k = "price"
    <3>1. Cost(e, q) <= Cost(d, q)
      BY <1>1, <1>6, <2>2
    <3>2. PriceUtility(d, ds, q) <= PriceUtility(e, ds, q)
      BY <3>1, CheaperIsAsUseful
    <3> QED
      BY <2>1, <2>2, <3>2 DEF Utility
  <2>3. CASE k # "price"
    <3>1. Utility(e, {}, q, k) >= Utility(d, {}, q, k)
      BY <1>1, <1>6, <2>3
    <3>2. Utility(e, ds, q, k) >= Utility(d, ds, q, k)
      BY <1>3, <2>3, <3>1
    <3>3. Utility(e, ds, q, k) \in Nat /\ Utility(d, ds, q, k) \in Nat
      BY <1>5, <1>6, <2>1
    <3> QED
      BY <2>1, <3>2, <3>3
  <2> QED
    BY <2>2, <2>3
<1>7. /\ Score(d, ds, q) \in Nat /\ Score(e, ds, q) \in Nat
      /\ Score(d, ds, q) <= Score(e, ds, q)
      /\ (\E k \in K : /\ q.weights[k] > 0 /\ k \in Valued(d)
                       /\ Utility(d, ds, q, k) < Utility(e, ds, q, k))
           => Score(d, ds, q) < Score(e, ds, q)
  BY <1>6, ScoresCompare
<1>8. \/ Score(d, ds, q) < Score(e, ds, q)
      \/ Score(d, ds, q) <= Score(e, ds, q) /\ Cost(e, q) < Cost(d, q)
  <2>1. CASE b = "price"
    BY <1>2, <1>7, <2>1
  <2>2. CASE b # "price"
    <3>1. Utility(e, ds, q, b) > Utility(d, ds, q, b)
      BY <1>2, <1>3, <2>2
    <3>2. Utility(e, ds, q, b) \in Nat /\ Utility(d, ds, q, b) \in Nat
      BY <1>2, <1>5
    <3>3. Utility(d, ds, q, b) < Utility(e, ds, q, b)
      BY <3>1, <3>2
    <3> QED
      BY <1>2, <1>7, <3>3
  <2> QED
    BY <2>1, <2>2
<1>9. <<d, e>> \in Ranking(ds, q) =>
          \/ Score(d, ds, q) > Score(e, ds, q)
          \/ /\ Score(d, ds, q) = Score(e, ds, q)
             /\ \/ Cost(d, q) < Cost(e, q)
                \/ Cost(d, q) = Cost(e, q) /\ d < e
  BY DEF Ranking, Precedes
<1>10. <<d, e>> \notin Ranking(ds, q)
  BY <1>4, <1>7, <1>8, <1>9
<1>11. e # d
  BY <1>4, <1>7, <1>8
<1>12. Covered(e, q)
  BY <1>2 DEF Covered
<1> QED
  BY <1>10, <1>11, <1>12

\* What recommend answers is right.
LEMMA RankingIsRight ==
    ASSUME listed \in SUBSET Offered, IsFiniteSet(listed), NEW q \in Requests,
           answer = Recommendation(listed, q)
    PROVE  RankingHolds
<1> DEFINE eligible == Eligible(listed, q)
           usable == Rankable(listed, q)
           before == Ranking(eligible, q)
           ranked == InOrder(usable, before)
           primary == Slice(ranked, 1, 1)
           others == usable \ Range(primary)
           chain == InOrder(others, AkinFirst(ranked[1], before))
           fallbacks == Slice(chain, 1, 3)
           alternatives == Slice(ranked, 2, q.limit)
<1>1. /\ answer.kind = "ranking"
      /\ answer.request = q
      /\ answer.eligible = eligible
      /\ answer.recommended = primary
      /\ answer.alternatives = alternatives
      /\ answer.fallbacks = fallbacks
  BY DEF Recommendation
<1>2. /\ eligible \in SUBSET listed /\ eligible \in SUBSET Offered
      /\ usable \in SUBSET eligible /\ others \in SUBSET usable
      /\ usable = {d \in eligible : Covered(d, q)}
  BY DEF Eligible, Rankable
<1>3. \A d \in eligible : Qualifies(d, q)
  BY DEF Eligible
<1> HIDE DEF eligible, usable
<1>4. IsFiniteSet(eligible) /\ IsFiniteSet(usable) /\ IsFiniteSet(others)
  <2> HIDE DEF others
  <2>1. IsFiniteSet(eligible)
    BY <1>2, FS_Subset
  <2>2. IsFiniteSet(usable)
    BY <1>2, <2>1, FS_Subset
  <2> QED
    BY <1>2, <2>1, <2>2, FS_Subset
<1>5. StrictlyOrdered(usable, before) /\ StrictlyOrdered(others, before)
  <2>1. others \in SUBSET eligible
    BY <1>2
  <2> HIDE DEF others
  <2> QED
    BY <1>2, <1>4, <2>1, RankingOrders
<1> HIDE DEF before, others
<1>6. StrictlyOrdered(others, AkinFirst(ranked[1], before))
  BY <1>2, <1>5, AkinOrders
<1>7. /\ ranked \in Seq(usable) /\ Len(ranked) = Cardinality(usable)
      /\ Range(ranked) = usable
      /\ \A i \in 1..Cardinality(usable) : \A e \in usable :
            <<e, ranked[i]>> \in before => \E j \in 1..(i - 1) : ranked[j] = e
      /\ Cardinality(usable) \in Nat
  BY <1>4, <1>5, InOrderLists
<1>8. /\ chain \in Seq(others) /\ Len(chain) = Cardinality(others)
      /\ Range(chain) = others
      /\ \A i \in 1..Cardinality(others) : \A e \in others :
            <<e, chain[i]>> \in AkinFirst(ranked[1], before) =>
               \E j \in 1..(i - 1) : chain[j] = e
      /\ Cardinality(others) \in Nat
  BY <1>4, <1>6, InOrderLists
<1> HIDE DEF ranked
<1> HIDE DEF chain
<1>9. q.limit \in Nat
  BY RequestShape
<1>10. /\ primary \in Seq(usable) /\ Range(primary) \subseteq usable
       /\ (primary = <<>>) <=> (Len(ranked) = 0)
       /\ \A d \in Range(primary) : \E i \in 1..Len(ranked) : i <= 1 /\ ranked[i] = d
  <2>1. /\ Slice(ranked, 1, 1) \in Seq(usable)
        /\ Range(Slice(ranked, 1, 1)) \subseteq usable
    BY <1>7, SliceWithin
  <2>2. /\ \A d \in Range(Slice(ranked, 1, 1)) :
              \E i \in 1..Len(ranked) : i <= 1 /\ ranked[i] = d
        /\ (Slice(ranked, 1, 1) = <<>>) <=> (Len(ranked) = 0)
    BY <1>7, FirstSlice
  <2> QED
    BY <2>1, <2>2
<1>11. alternatives \in Seq(usable) /\ Range(alternatives) \subseteq usable
  <2>1. ranked \in Seq(usable) /\ 2 \in Nat /\ 2 > 0
    BY <1>7
  <2> QED
    BY <1>9, <2>1, SliceWithin
<1>12. /\ fallbacks \in Seq(others) /\ Range(fallbacks) \subseteq others
       /\ \A i \in 1..Len(chain) : i <= 3 => chain[i] \in Range(fallbacks)
       /\ \A d \in Range(fallbacks) : \E i \in 1..Len(chain) : i <= 3 /\ chain[i] = d
  <2>0. chain \in Seq(others) /\ 1 \in Nat /\ 1 > 0 /\ 3 \in Nat /\ 3 > 0
    BY <1>8
  <2>1. /\ Slice(chain, 1, 3) \in Seq(others)
        /\ Range(Slice(chain, 1, 3)) \subseteq others
    BY <2>0, SliceWithin
  <2>2. /\ \A i \in 1..Len(chain) : i <= 3 => chain[i] \in Range(Slice(chain, 1, 3))
        /\ \A d \in Range(Slice(chain, 1, 3)) :
              \E i \in 1..Len(chain) : i <= 3 /\ chain[i] = d
    BY <2>0, FirstSlice
  <2> QED
    BY <2>1, <2>2
<1> HIDE DEF primary, alternatives, fallbacks
<1>13. \A s, t : s \in Seq(usable) /\ t \in Seq(usable) => Range(s \o t) = Range(s) \cup Range(t)
  <2> SUFFICES ASSUME NEW s \in Seq(usable), NEW t \in Seq(usable)
               PROVE  Range(s \o t) = Range(s) \cup Range(t)
    OBVIOUS
  <2>1. /\ DOMAIN s = 1..Len(s) /\ DOMAIN t = 1..Len(t) /\ Len(s) \in Nat /\ Len(t) \in Nat
        /\ DOMAIN (s \o t) = 1..(Len(s) + Len(t))
        /\ \A i \in 1..(Len(s) + Len(t)) :
              (s \o t)[i] = IF i <= Len(s) THEN s[i] ELSE t[i - Len(s)]
    OBVIOUS
  <2>2. Range(s \o t) \subseteq Range(s) \cup Range(t)
    BY <2>1 DEF Range
  <2>3. Range(s) \subseteq Range(s \o t)
    BY <2>1 DEF Range
  <2>4. ASSUME NEW i \in 1..Len(t) PROVE t[i] \in Range(s \o t)
    <3>1. Len(s) + i \in 1..(Len(s) + Len(t)) /\ (s \o t)[Len(s) + i] = t[i]
      BY <2>1
    <3> QED
      BY <2>1, <3>1 DEF Range
  <2>5. Range(t) \subseteq Range(s \o t)
    BY <2>1, <2>4 DEF Range
  <2> QED
    BY <2>2, <2>3, <2>5
<1>14. fallbacks \in Seq(usable)
  BY <1>2, <1>12
<1>15. \A d \in Range(primary \o alternatives \o fallbacks) : d \in usable
  <2>1. Range(primary \o alternatives) = Range(primary) \cup Range(alternatives)
        /\ primary \o alternatives \in Seq(usable)
    BY <1>10, <1>11, <1>13
  <2>2. Range((primary \o alternatives) \o fallbacks)
           = Range(primary \o alternatives) \cup Range(fallbacks)
    BY <1>13, <1>14, <2>1
  <2> QED
    BY <1>2, <1>10, <1>11, <1>12, <2>1, <2>2
<1>16. ASSUME NEW d \in Range(primary \o alternatives \o fallbacks)
       PROVE  d \in usable /\ Backed(d, q)
  BY <1>2, <1>3, <1>15, <1>16, QualifiesIsBacked
<1>17. (primary = <<>>) <=> (usable = {})
  <2>1. (Cardinality(usable) = 0) <=> (usable = {})
    BY <1>4, FS_EmptySet
  <2> QED
    BY <1>7, <1>10, <2>1
<1>18. ASSUME NEW i \in DOMAIN (primary \o alternatives), NEW e \in eligible,
              Outclasses(e, (primary \o alternatives)[i], q)
       PROVE  \E j \in 1..(i - 1) : (primary \o alternatives)[j] = e
  <2> DEFINE chosen == primary \o alternatives
  <2>1. /\ DOMAIN chosen = 1..Len(chosen) /\ Len(chosen) \in Nat
        /\ \A j \in DOMAIN chosen : j \in 1..Len(ranked) /\ chosen[j] = ranked[j]
    BY <1>7, <1>9, FirstThenRest DEF primary, alternatives
  <2> HIDE DEF chosen
  <2>2. i \in DOMAIN chosen /\ Outclasses(e, chosen[i], q)
    BY <1>18 DEF chosen
  <2>3. i \in 1..Len(ranked) /\ chosen[i] = ranked[i] /\ ranked[i] \in usable
    BY <1>7, <2>1, <2>2
  <2>4. <<ranked[i], e>> \notin before /\ e # ranked[i] /\ e \in usable
    BY <1>2, <1>4, <2>2, <2>3, BetterIsAhead DEF before
  <2>5. <<e, ranked[i]>> \in before
    BY <1>5, <2>3, <2>4 DEF StrictlyOrdered, Total
  <2>6. PICK j \in 1..(i - 1) : ranked[j] = e
    BY <1>7, <2>3, <2>4, <2>5
  <2>7. j \in DOMAIN chosen
    BY <2>1, <2>2, <2>6
  <2> QED
    BY <2>1, <2>6, <2>7 DEF chosen
<1>19. Range(fallbacks) \subseteq usable \ Range(primary)
  BY <1>12 DEF others
<1>20. ASSUME NEW d \in Range(fallbacks), Offers[d].model # Offers[primary[1]].model,
              NEW e \in usable, Offers[e].model = Offers[primary[1]].model,
              e \notin Range(primary)
       PROVE  e \in Range(fallbacks)
  <2>1. d \in others /\ e \in others
    BY <1>12, <1>20 DEF others
  <2>2. primary[1] = ranked[1]
    <3>1. primary # <<>>
      BY <1>17, <1>20
    <3>2. 1 \in DOMAIN primary
      BY <1>10, <3>1
    <3>3. primary[1] \in Range(primary)
      BY <3>2 DEF Range
    <3>4. PICK i \in 1..Len(ranked) : i <= 1 /\ ranked[i] = primary[1]
      BY <1>10, <3>3
    <3> QED
      BY <3>4
  <2>3. PICK i \in 1..Len(chain) : i <= 3 /\ chain[i] = d
    BY <1>12, <1>20
  <2>4. <<e, chain[i]>> \in AkinFirst(ranked[1], before)
    BY <1>2, <1>20, <2>1, <2>2, <2>3 DEF AkinFirst, Offered
  <2>5. PICK j \in 1..(i - 1) : chain[j] = e
    BY <1>8, <2>1, <2>3, <2>4
  <2>6. j \in 1..Len(chain) /\ j <= 3
    BY <1>8, <2>3, <2>5
  <2> QED
    BY <1>12, <2>5, <2>6
<1>21. \A d \in Range(fallbacks) : ~(Offers[d].model = Offers[primary[1]].model) =>
          \A e \in usable : Offers[e].model = Offers[primary[1]].model =>
             e \in Range(primary \o fallbacks)
  <2>1. Range(primary \o fallbacks) = Range(primary) \cup Range(fallbacks)
    BY <1>10, <1>13, <1>14
  <2> QED
    BY <1>20, <2>1
<1>22. (primary = <<>>) = (usable = {})
  BY <1>17, Zenon
<1>23. usable = {d \in answer.eligible : Covered(d, answer.request)}
  BY <1>1, <1>2
<1>24. \A d \in Range(answer.recommended \o answer.alternatives \o answer.fallbacks) :
          d \in usable /\ Backed(d, answer.request)
  BY <1>1, <1>16
<1>25. (answer.recommended = <<>>) = (usable = {})
  BY <1>1, <1>22
<1>26. \A i \in DOMAIN (answer.recommended \o answer.alternatives) :
          \A e \in answer.eligible :
             Outclasses(e, (answer.recommended \o answer.alternatives)[i], answer.request) =>
                \E j \in 1..(i - 1) : (answer.recommended \o answer.alternatives)[j] = e
  BY <1>1, <1>18
<1>27. \A d \in Range(answer.fallbacks) : d \notin Range(answer.recommended)
  BY <1>1, <1>19
<1>28. \A d \in Range(answer.fallbacks) :
          ~(Offers[d].model = Offers[answer.recommended[1]].model) =>
             \A e \in usable : Offers[e].model = Offers[answer.recommended[1]].model =>
                e \in Range(answer.recommended \o answer.fallbacks)
  BY <1>1, <1>21
<1> QED
  BY <1>23, <1>24, <1>25, <1>26, <1>27, <1>28, Zenon DEF RankingHolds

-----------------------------------------------------------------------------
(***************************************************************************)
(* The frontier, and the answers of the API.                               *)
(***************************************************************************)

\* A point is a deployment with its numbers.
LEMMA PointShape ==
    ASSUME NEW ds \in SUBSET Offered, IsFiniteSet(ds), NEW q \in Requests
    PROVE  /\ IsFiniteSet(ChartPoints(ds, q))
           /\ \A p \in ChartPoints(ds, q) : p.cost \in Nat /\ p.quality \in Nat
           /\ \A p, r \in ChartPoints(ds, q) : p.id = r.id => p = r
<1> DEFINE point(d) == [id |-> d, cost |-> Cost(d, q), quality |-> Quality(d, q)]
           E == {e \in ds : /\ QualityKeys(q) \subseteq DOMAIN Scores[Offers[e].model]
                            /\ Rankable({e}, q) # {}}
           P == ChartPoints(ds, q)
<1>1. P = {point(d) : d \in E}
  BY DEF ChartPoints
<1>2. E \in SUBSET ds
  OBVIOUS
<1>3. ASSUME NEW d \in E PROVE Cost(d, q) \in Nat /\ Quality(d, q) \in Nat
  <2>1. Cost(d, q) \in Nat
    BY <1>2, CostCounts
  <2> DEFINE K == QualityKeys(q)
             x == [k \in K |-> q.weights[k] * Scores[Offers[d].model][k]]
  <2>2. IsFiniteSet(K) /\ \A k \in K : q.weights[k] \in Nat
    <3>1. K \in SUBSET DOMAIN q.weights
      BY DEF QualityKeys
    <3> HIDE DEF K
    <3> QED
      BY <3>1, RequestShape, FS_Subset
  <2>3. \A k \in K : Scores[Offers[d].model][k] \in Nat
    <3>1. OfferAssumption(d)
      BY <1>2, RecommenderAssumption
    <3>2. K \subseteq DOMAIN Scores[Offers[d].model]
      OBVIOUS
    <3> HIDE DEF K, E
    <3> QED
      BY <3>1, <3>2 DEF OfferAssumption
  <2>4. SumFunction(x) = Quality(d, q)
    BY DEF Quality
  <2> HIDE DEF K
  <2>5. ASSUME NEW k \in K PROVE q.weights[k] * Scores[Offers[d].model][k] \in Nat
    <3>1. q.weights[k] \in Nat /\ Scores[Offers[d].model][k] \in Nat
      BY <2>2, <2>3
    <3> QED
      BY <3>1
  <2>6. x \in [K -> Nat]
    BY <2>5
  <2>7. \A k \in K : x[k] <= x[k]
    BY <2>6
  <2> HIDE DEF x
  <2>8. SumFunction(x) \in Nat
    BY <2>2, <2>6, <2>7, SumMonotone
  <2> QED
    BY <2>1, <2>4, <2>8
<1> HIDE DEF E, P
<1>4. IsFiniteSet(P)
  <2> DEFINE f == [d \in E |-> point(d)]
  <2>1. f \in Surjection(E, P)
    BY <1>1 DEF Surjection
  <2>2. IsFiniteSet(E)
    BY <1>2, FS_Subset
  <2> HIDE DEF f
  <2> QED
    BY <2>1, <2>2, FS_Surjection
<1>5. \A p \in P : p.cost \in Nat /\ p.quality \in Nat
  BY <1>1, <1>3
<1>6. \A p, r \in P : p.id = r.id => p = r
  BY <1>1
<1> QED
  BY <1>4, <1>5, <1>6 DEF P

\* Every point is on the frontier or below a point of it.
LEMMA FrontierCovers ==
    ASSUME NEW P, IsFiniteSet(P), \A p \in P : p.cost \in Nat /\ p.quality \in Nat,
           NEW p \in P, p.id \notin ParetoIds(P)
    PROVE  \E r \in P : r.id \in ParetoIds(P) /\ Dominates(r, p)
<1> DEFINE above == {x \in P \X P : Dominates(x[1], x[2])}
           B == {r \in P : Dominates(r, p)}
<1>1. \A r, o \in P : <<r, o>> \in above <=> Dominates(r, o)
  OBVIOUS
<1>2. \A r, o, t \in P : Dominates(r, o) /\ Dominates(o, t) => Dominates(r, t)
  <2> SUFFICES ASSUME NEW r \in P, NEW o \in P, NEW t \in P,
                      Dominates(r, o), Dominates(o, t)
               PROVE  Dominates(r, t)
    OBVIOUS
  <2>1. /\ r.cost \in Nat /\ r.quality \in Nat /\ o.cost \in Nat /\ o.quality \in Nat
        /\ t.cost \in Nat /\ t.quality \in Nat
    OBVIOUS
  <2> QED
    BY <2>1 DEF Dominates
<1>3. \A r \in P : ~Dominates(r, r)
  BY DEF Dominates
<1>4. B # {}
  <2>1. \E other \in P \ {p} : Dominates(other, p)
    BY DEF ParetoIds
  <2> QED
    BY <2>1
<1>5. B \in SUBSET P /\ \A r \in B : Dominates(r, p)
  OBVIOUS
<1>6. \A r \in P : Dominates(r, p) => r \in B
  OBVIOUS
<1>7. IsFiniteSet(B)
  BY <1>5, FS_Subset
<1> HIDE DEF above, B
<1>8. Irreflexive(B, above)
  BY <1>1, <1>3, <1>5 DEF Irreflexive
<1>9. Transitive(B, above)
  BY <1>1, <1>2, <1>5 DEF Transitive
<1>10. PICK r \in B : \A o \in B : <<o, r>> \notin above
  BY <1>4, <1>7, <1>8, <1>9, FirstExists
<1>11. \A other \in P \ {r} : ~Dominates(other, r)
  BY <1>1, <1>2, <1>5, <1>6, <1>10
<1>12. r \in P /\ r.id \in ParetoIds(P)
  BY <1>5, <1>11 DEF ParetoIds
<1> QED
  BY <1>5, <1>12

\* Nothing is above a point of the frontier.
LEMMA FrontierUndominated ==
    ASSUME NEW P, \A p, r \in P : p.id = r.id => p = r,
           \A p \in P : p.cost \in Nat /\ p.quality \in Nat,
           NEW p \in P, NEW r \in P, p.id \in ParetoIds(P)
    PROVE  ~Dominates(r, p)
<1>1. \A other \in P \ {p} : ~Dominates(other, p)
  BY DEF ParetoIds
<1>2. ~Dominates(p, p)
  BY DEF Dominates
<1> QED
  BY <1>1, <1>2

\* What frontier answers is right.
LEMMA FrontierIsRight ==
    ASSUME listed \in SUBSET Offered, IsFiniteSet(listed), NEW q \in Requests,
           answer = Frontier(listed, q)
    PROVE  FrontierHolds
<1> DEFINE P == IF QualityKeys(q) = {} THEN {} ELSE ChartPoints(listed, q)
<1>1. answer.points = P /\ answer.pareto = ParetoIds(P)
  BY DEF Frontier
<1>2. /\ IsFiniteSet(P)
      /\ \A p \in P : p.cost \in Nat /\ p.quality \in Nat
      /\ \A p, r \in P : p.id = r.id => p = r
  BY PointShape, FS_EmptySet
<1> HIDE DEF P
<1>3. \A p \in P : IF p.id \in ParetoIds(P)
                   THEN \A r \in P : ~Dominates(r, p)
                   ELSE \E r \in P : r.id \in ParetoIds(P) /\ Dominates(r, p)
  BY <1>2, FrontierCovers, FrontierUndominated
<1> QED
  BY <1>1, <1>3 DEF FrontierHolds

-----------------------------------------------------------------------------
\* The inductive invariant: the answer is one that recommend or frontier gives
\* in this very state.
AdviceIInv ==
    /\ listed \in SUBSET Offered
    /\ IsFiniteSet(listed)
    /\ \/ answer = NoAnswer
       \/ \E q \in Requests : \/ answer = Recommendation(listed, q)
                              \/ answer = Frontier(listed, q)

\* Answers depend on what is listed and on what is stale.
LEMMA AnswersStay ==
    ASSUME UNCHANGED <<listed, stale>>, NEW q
    PROVE  /\ Recommendation(listed, q)' = Recommendation(listed, q)
           /\ Frontier(listed, q)' = Frontier(listed, q)
<1>1. \A d : Qualifies(d, q)' <=> Qualifies(d, q)
  BY DEF Qualifies, Fresh
<1>2. \A ds : Eligible(ds, q)' = Eligible(ds, q)
  BY <1>1 DEF Eligible
<1>3. \A ds : Rankable(ds, q)' = Rankable(ds, q)
  BY <1>2 DEF Rankable
<1>4. Recommendation(listed, q)' = Recommendation(listed, q)
  BY <1>2, <1>3 DEF Recommendation
<1>5. ChartPoints(listed, q)' = ChartPoints(listed, q)
  <2> DEFINE E == {e \in listed : /\ QualityKeys(q) \subseteq DOMAIN Scores[Offers[e].model]
                                 /\ Rankable({e}, q) # {}}
  <2>1. \A e : Rankable({e}, q)' = Rankable({e}, q)
    BY <1>3
  <2>2. E' = E
    BY <2>1
  <2>3. ChartPoints(listed, q) =
            {[id |-> d, cost |-> Cost(d, q), quality |-> Quality(d, q)] : d \in E}
    BY DEF ChartPoints
  <2>4. ChartPoints(listed, q)' =
            {[id |-> d, cost |-> Cost(d, q), quality |-> Quality(d, q)] : d \in E'}
    BY DEF ChartPoints
  <2> HIDE DEF E
  <2> QED
    BY <2>2, <2>3, <2>4
<1>6. Frontier(listed, q)' = Frontier(listed, q)
  BY <1>5 DEF Frontier
<1> QED
  BY <1>4, <1>6

\* An answer is given in one step from the catalog as it is, and is out of date
\* as soon as a deployment is listed or confirmed or a fact lapses (api.py,
\* lines 440-546).
THEOREM AdviceInduction == AdviceSpec => []AdviceIInv
<1>1. AdviceInit => AdviceIInv
  BY FS_EmptySet DEF AdviceInit, AdviceIInv
<1>2. AdviceIInv /\ [AdviceNext]_adviceVars => AdviceIInv'
  <2> SUFFICES ASSUME AdviceIInv, [AdviceNext]_adviceVars PROVE AdviceIInv'
    OBVIOUS
  <2>1. ASSUME NEW d \in Offered, Confirm(d) PROVE AdviceIInv'
    <3>1. IsFiniteSet(listed \cup {d})
      BY FS_AddElement DEF AdviceIInv
    <3> QED
      BY <2>1, <3>1 DEF AdviceIInv, Confirm, NoAnswer
  <2>2. ASSUME NEW d \in Offered, NEW field, Lapse(d, field) PROVE AdviceIInv'
    BY <2>2 DEF AdviceIInv, Lapse, NoAnswer
  <2>3. ASSUME NEW q \in Requests, Recommend(q) PROVE AdviceIInv'
    <3>1. answer' = Recommendation(listed, q)'
      BY <2>3, AnswersStay DEF Recommend
    <3>2. listed' = listed
      BY <2>3 DEF Recommend
    <3> QED
      BY <3>1, <3>2 DEF AdviceIInv
  <2>4. ASSUME NEW q \in Requests, Chart(q) PROVE AdviceIInv'
    <3>1. answer' = Frontier(listed, q)'
      BY <2>4, AnswersStay DEF Chart
    <3>2. listed' = listed
      BY <2>4 DEF Chart
    <3> QED
      BY <3>1, <3>2 DEF AdviceIInv
  <2>5. CASE UNCHANGED adviceVars
    <3>1. UNCHANGED <<listed, stale>> /\ answer' = answer
      BY <2>5 DEF adviceVars
    <3>2. CASE answer = NoAnswer
      BY <3>1, <3>2 DEF AdviceIInv, NoAnswer
    <3>3. ASSUME NEW q \in Requests, answer = Recommendation(listed, q) PROVE AdviceIInv'
      <4>1. answer' = Recommendation(listed, q)'
        BY <3>1, <3>3, AnswersStay
      <4> QED
        BY <3>1, <4>1 DEF AdviceIInv
    <3>4. ASSUME NEW q \in Requests, answer = Frontier(listed, q) PROVE AdviceIInv'
      <4>1. answer' = Frontier(listed, q)'
        BY <3>1, <3>4, AnswersStay
      <4> QED
        BY <3>1, <4>1 DEF AdviceIInv
    <3> QED
      BY <3>2, <3>3, <3>4 DEF AdviceIInv
  <2> QED
    BY <2>1, <2>2, <2>3, <2>4, <2>5 DEF AdviceNext
<1> QED
  BY <1>1, <1>2, PTL DEF AdviceSpec

\* Nothing that qualifies outclasses what is recommended, what is named rests on
\* evidence that is fresh, and the frontier holds the points that nothing
\* dominates (recommend and pareto_ids).
THEOREM AdviceIsRight == AdviceSpec => []RanksWhatQualifies
<1>1. AdviceIInv => RanksWhatQualifies
  <2> SUFFICES ASSUME AdviceIInv PROVE RanksWhatQualifies
    OBVIOUS
  <2>1. CASE answer = NoAnswer
    BY <2>1 DEF NoAnswer, RanksWhatQualifies, RankingHolds, FrontierHolds
  <2>2. ASSUME NEW q \in Requests, answer = Recommendation(listed, q)
        PROVE  RanksWhatQualifies
    <3>1. answer.kind = "ranking"
      BY <2>2 DEF Recommendation
    <3>2. FrontierHolds
      BY <3>1 DEF FrontierHolds
    <3>3. RankingHolds
      BY <2>2, RankingIsRight DEF AdviceIInv
    <3> QED
      BY <3>2, <3>3 DEF RanksWhatQualifies
  <2>3. ASSUME NEW q \in Requests, answer = Frontier(listed, q)
        PROVE  RanksWhatQualifies
    <3>1. answer.kind = "frontier"
      BY <2>3 DEF Frontier
    <3>2. RankingHolds
      BY <3>1 DEF RankingHolds
    <3>3. FrontierHolds
      BY <2>3, FrontierIsRight DEF AdviceIInv
    <3> QED
      BY <3>2, <3>3 DEF RanksWhatQualifies
  <2> QED
    BY <2>1, <2>2, <2>3 DEF AdviceIInv
<1> QED
  BY <1>1, AdviceInduction, PTL
=============================================================================
