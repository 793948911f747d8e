---------------------------- MODULE RenderProofs ----------------------------
(***************************************************************************)
(* What is proved of Render for every document, file system and bound: a   *)
(* render that is not refused is faithful, a refusal names the flags that  *)
(* lift it, and the kustomization never lists a file that is not there.    *)
(*                                                                         *)
(* First lists and the folds of the model; then the volume plan of one     *)
(* service, volume by volume; then the manifests; then the invariants.     *)
(***************************************************************************)
EXTENDS Render, SequenceTheorems, FiniteSetTheorems, WellFoundedInduction, TLAPS

(***************************************************************************)
(* Numbers and lists.                                                      *)
(***************************************************************************)

\* A nonempty set of numbers has a least element.
LEMMA LeastNumber ==
  ASSUME NEW S, S \subseteq Nat, S # {}
  PROVE  \E n \in S : n \in Nat /\ \A m \in Nat : m < n => m \notin S
  <1>1. PICK n \in S : \A m \in S : ~(<<m, n>> \in OpToRel(<, Nat))
    BY NatLessThanWellFounded, WFMin
  <1>2. n \in Nat /\ \A m \in S : ~(m < n)
    BY <1>1 DEF OpToRel
  <1> QED
    BY <1>2

\* The values of f over 0..N follow from base by step.
Recurses(N, V, base, step, f) ==
  /\ f \in [0..N -> V]
  /\ f[0] = base
  /\ \A k \in 1..N : f[k] = step[<<k, f[k - 1]>>]

\* step leads from values to values.
StepsWithin(N, V, step) == \A k \in 1..N : \A v \in V : step[<<k, v>>] \in V

\* A recursion over the first n numbers has a solution.
LEMMA NumberRecursion ==
  ASSUME NEW N \in Nat, NEW V, NEW base \in V, NEW step, StepsWithin(N, V, step)
  PROVE  \E f : Recurses(N, V, base, step, f)
  <1> DEFINE Sol(n, f) == /\ f \in [0..n -> V]
                          /\ f[0] = base
                          /\ \A k \in 1..n : f[k] = step[<<k, f[k - 1]>>]
             Bad == {n \in 0..N : ~\E f : Sol(n, f)}
  <1> SUFFICES ASSUME N \in Bad PROVE FALSE
    BY DEF Recurses
  <1> USE DEF StepsWithin
  <1>0. Bad \subseteq Nat /\ Bad # {}
    <2>1. Bad \subseteq Nat
      OBVIOUS
    <2> HIDE DEF Bad
    <2> QED
      BY <2>1
  <1>1. PICK n \in Bad : n \in Nat /\ \A m \in Nat : m < n => m \notin Bad
    <2> HIDE DEF Bad
    <2> QED
      BY <1>0, LeastNumber
  <1>2. CASE n = 0
    <2>1. Sol(0, [k \in 0..0 |-> base])
      OBVIOUS
    <2> QED
      BY <1>1, <1>2, <2>1
  <1>3. CASE n # 0
    <2>1. n - 1 \in Nat /\ n - 1 < n /\ n - 1 \in 0..N /\ n \in 1..N
      BY <1>1, <1>3
    <2>2. PICK f : Sol(n - 1, f)
      BY <1>1, <2>1
    <2> DEFINE g == [k \in 0..n |-> IF k = n THEN step[<<n, f[n - 1]>>] ELSE f[k]]
    <2>3. /\ DOMAIN g = 0..n /\ g = [k \in 0..n |-> g[k]]
          /\ g[n] = step[<<n, f[n - 1]>>]
          /\ \A k \in 0..(n - 1) : g[k] = f[k]
      BY <2>1
    <2>4. step[<<n, f[n - 1]>>] \in V /\ \A k \in 0..(n - 1) : f[k] \in V
      <3>1. f[n - 1] \in V /\ \A k \in 0..(n - 1) : f[k] \in V
        BY <2>1, <2>2
      <3> QED
        BY <2>1, <3>1
    <2> HIDE DEF g
    <2>5. g \in [0..n -> V]
      <3>1. \A k \in 0..n : k = n \/ k \in 0..(n - 1)
        BY <2>1
      <3>2. \A k \in 0..n : g[k] \in V
        BY <2>3, <2>4, <3>1
      <3> QED
        BY <2>3, <3>2
    <2>6. g[0] = base
      <3>1. 0 \in 0..(n - 1) /\ f[0] = base
        BY <2>1, <2>2
      <3> QED
        BY <2>3, <3>1
    <2>7. ASSUME NEW k \in 1..n PROVE g[k] = step[<<k, g[k - 1]>>]
      <3>0. k - 1 \in 0..(n - 1)
        BY <2>1
      <3>1. k - 1 \in 0..(n - 1) /\ g[k - 1] = f[k - 1]
        BY <3>0, <2>3
      <3>2. CASE k = n
        BY <3>1, <3>2, <2>3
      <3>3. CASE k # n
        <4>1. k \in 1..(n - 1) /\ k \in 0..(n - 1)
          BY <2>1, <3>3
        <4> QED
          BY <4>1, <3>1, <2>2, <2>3
      <3> QED
        BY <3>2, <3>3
    <2>8. Sol(n, g)
      BY <2>5, <2>6, <2>7
    <2> QED
      BY <2>8, <1>1
  <1> QED
    BY <1>2, <1>3

\* The range of a sequence, by places.
LEMMA SeqRange ==
  ASSUME NEW S, NEW q \in Seq(S)
  PROVE  /\ Len(q) \in Nat /\ DOMAIN q = 1..Len(q)
         /\ Range(q) = {q[i] : i \in 1..Len(q)}
         /\ Range(q) \subseteq S
         /\ q \in Seq(Range(q))
  <1>1. Len(q) \in Nat /\ DOMAIN q = 1..Len(q) /\ \A i \in 1..Len(q) : q[i] \in S
    BY LenProperties
  <1>2. Range(q) = {q[i] : i \in 1..Len(q)}
    BY <1>1 DEF Range
  <1>3. q \in [1..Len(q) -> Range(q)]
    BY <1>1, <1>2, LenProperties
  <1>4. q \in Seq(Range(q))
    BY <1>1, <1>3, SeqDef
  <1> QED
    BY <1>1, <1>2, <1>4

\* Concatenation joins the ranges.
LEMMA ConcatRange ==
  ASSUME NEW S, NEW q \in Seq(S), NEW r \in Seq(S)
  PROVE  q \o r \in Seq(S) /\ Range(q \o r) = Range(q) \cup Range(r)
  <1>1. /\ q \o r \in Seq(S)
        /\ Len(q \o r) = Len(q) + Len(r)
        /\ \A i \in 1..Len(q) + Len(r) : (q \o r)[i] =
              IF i <= Len(q) THEN q[i] ELSE r[i - Len(q)]
    BY ConcatProperties
  <1>2. /\ Len(q) \in Nat /\ Range(q) = {q[i] : i \in 1..Len(q)}
        /\ Len(r) \in Nat /\ Range(r) = {r[i] : i \in 1..Len(r)}
        /\ Range(q \o r) = {(q \o r)[i] : i \in 1..(Len(q) + Len(r))}
    BY <1>1, SeqRange
  <1> DEFINE t == q \o r
  <1> HIDE DEF t
  <1>3. ASSUME NEW i \in 1..(Len(q) + Len(r)) PROVE t[i] \in Range(q) \cup Range(r)
    <2>1. CASE i <= Len(q)
      BY <2>1, <1>1, <1>2 DEF t
    <2>2. CASE ~(i <= Len(q))
      <3>1. i - Len(q) \in 1..Len(r)
        BY <2>2, <1>2
      <3> QED
        BY <2>2, <3>1, <1>1, <1>2 DEF t
    <2> QED
      BY <2>1, <2>2
  <1>4. ASSUME NEW i \in 1..Len(q) PROVE q[i] \in Range(t)
    <2>1. i \in 1..(Len(q) + Len(r)) /\ i <= Len(q)
      BY <1>2
    <2> QED
      BY <2>1, <1>1, <1>2 DEF t
  <1>5. ASSUME NEW i \in 1..Len(r) PROVE r[i] \in Range(t)
    <2>1. i + Len(q) \in 1..(Len(q) + Len(r)) /\ ~(i + Len(q) <= Len(q)) /\ (i + Len(q)) - Len(q) = i
      BY <1>2
    <2>2. t[i + Len(q)] = r[i]
      BY <2>1, <1>1 DEF t
    <2> QED
      BY <2>1, <2>2, <1>2 DEF t
  <1>6. t \in Seq(S) /\ Range(t) = {t[i] : i \in 1..(Len(q) + Len(r))}
    BY <1>1, <1>2 DEF t
  <1>7. Range(t) \subseteq Range(q) \cup Range(r)
    BY <1>3, <1>6
  <1>8. Range(q) \subseteq Range(t) /\ Range(r) \subseteq Range(t)
    BY <1>2, <1>4, <1>5
  <1>9. t \in Seq(S) /\ Range(t) = Range(q) \cup Range(r)
    BY <1>6, <1>7, <1>8
  <1> QED
    BY <1>9 DEF t

\* Adding one at the end.
LEMMA AppendRange ==
  ASSUME NEW S, NEW q \in Seq(S), NEW x
  PROVE  /\ Append(q, x) \in Seq(S \cup {x})
         /\ Range(Append(q, x)) = Range(q) \cup {x}
  <1>1. q \in Seq(S \cup {x})
    OBVIOUS
  <1>2. /\ Append(q, x) \in Seq(S \cup {x})
        /\ Len(Append(q, x)) = Len(q) + 1
        /\ \A i \in 1..Len(q) : Append(q, x)[i] = q[i]
        /\ Append(q, x)[Len(q) + 1] = x
    BY <1>1, AppendProperties
  <1>3. /\ DOMAIN q = 1..Len(q)
        /\ DOMAIN Append(q, x) = 1..(Len(q) + 1)
        /\ Len(q) \in Nat
    BY <1>1, <1>2, LenProperties
  <1> QED
    BY <1>2, <1>3 DEF Range

\* A number of 1..N is the greatest of a nonempty set of such numbers.
LEMMA MaxIn ==
  ASSUME NEW N \in Nat, NEW S \in SUBSET (1..N), S # {}
  PROVE  Max(S) \in S /\ \A y \in S : Max(S) >= y
  <1> DEFINE Rest == {N - i : i \in S}
  <1>1. Rest \subseteq Nat /\ Rest # {}
    <2>1. \A i \in S : i \in 1..N /\ N - i \in Nat
      OBVIOUS
    <2>2. PICK i : i \in S
      OBVIOUS
    <2>3. N - i \in Rest
      BY <2>2
    <2> QED
      BY <2>1, <2>3
  <1>2. PICK d \in Rest : d \in Nat /\ \A m \in Nat : m < d => m \notin Rest
    <2> HIDE DEF Rest
    <2> QED
      BY <1>1, LeastNumber
  <1>3. PICK x \in S : d = N - x
    BY <1>2
  <1>4. \A y \in S : x >= y
    <2> SUFFICES ASSUME NEW y \in S, ~(x >= y) PROVE FALSE
      OBVIOUS
    <2>1. N - y \in Nat /\ N - y < d /\ N - y \in Rest
      BY <1>3
    <2> QED
      BY <1>2, <2>1
  <1> QED
    BY <1>3, <1>4 DEF Max

IsOrder(R, S) ==
  /\ \A s \in S : <<s, s>> \notin R
  /\ \A s, t \in S : s # t => <<s, t>> \in R \/ <<t, s>> \in R
  /\ \A s, t, u \in S : <<s, t>> \in R /\ <<t, u>> \in R => <<s, u>> \in R

\* A list of all the elements of S, each of them once.
Lists(q, S) ==
  /\ q \in Seq(S)
  /\ \A s \in S : \E i \in 1..Len(q) : q[i] = s
  /\ \A i, j \in 1..Len(q) : q[i] = q[j] => i = j

\* No element is after one that it precedes.
InOrder(q, R) == \A i, j \in 1..Len(q) : i < j => <<q[j], q[i]>> \notin R

LEMMA SortedLists ==
  ASSUME NEW S, IsFiniteSet(S), NEW R, IsOrder(R, S)
  PROVE  Lists(Sorted(S, R), S) /\ InOrder(Sorted(S, R), R)
  <1> DEFINE N == Cardinality(S)
             Before(s) == {t \in S : <<t, s>> \in R}
             rank == [s \in S |-> Cardinality(Before(s)) + 1]
  <1>1. N \in Nat
    BY FS_CardinalityType
  <1>2. ASSUME NEW s \in S
        PROVE  Cardinality(Before(s)) \in Nat /\ Cardinality(Before(s)) < N /\ IsFiniteSet(Before(s))
    <2>1. IsFiniteSet(S \ {s}) /\ Cardinality(S \ {s}) = N - 1
      BY FS_RemoveElement
    <2>2. Before(s) \in SUBSET (S \ {s})
      BY DEF IsOrder
    <2>3. IsFiniteSet(Before(s)) /\ Cardinality(Before(s)) <= Cardinality(S \ {s})
      BY <2>1, <2>2, FS_Subset
    <2>4. Cardinality(Before(s)) \in Nat
      BY <2>3, FS_CardinalityType
    <2> QED
      BY <1>1, <2>1, <2>3, <2>4
  <1>3. rank \in [S -> 1..N]
    BY <1>1, <1>2
  <1>4. ASSUME NEW s \in S, NEW t \in S, <<s, t>> \in R
        PROVE  Cardinality(Before(s)) < Cardinality(Before(t))
    <2>1. Before(s) \in SUBSET Before(t) /\ s \in Before(t) /\ s \notin Before(s)
      BY <1>4 DEF IsOrder
    <2>2. /\ Cardinality(Before(s)) <= Cardinality(Before(t))
          /\ Cardinality(Before(t)) = Cardinality(Before(s)) => Before(t) = Before(s)
      BY <2>1, <1>2, FS_Subset
    <2> QED
      BY <2>1, <2>2, <1>2
  <1> HIDE DEF Before
  <1>5. ASSUME NEW s \in S, NEW t \in S, Cardinality(Before(s)) = Cardinality(Before(t))
        PROVE  s = t
    <2>1. ~(<<s, t>> \in R) /\ ~(<<t, s>> \in R)
      BY <1>2, <1>4, <1>5
    <2> QED
      BY <2>1 DEF IsOrder
  <1>6. rank \in Injection(S, 1..N)
    <2>1. ASSUME NEW s \in S, NEW t \in S, rank[s] = rank[t]
          PROVE  s = t
      <3>1. Cardinality(Before(s)) = Cardinality(Before(t))
        BY <2>1, <1>2
      <3> QED
        BY <3>1, <1>5
    <2> HIDE DEF rank
    <2> QED
      BY <2>1, <1>3 DEF Injection, IsInjective
  <1>7. rank \in Surjection(S, 1..N)
    <2>1. IsFiniteSet(1..N) /\ Cardinality(1..N) = N
      BY <1>1, FS_Interval
    <2> QED
      BY <1>6, <2>1, FS_Injection
  <1> DEFINE q == Sorted(S, R)
  <1>8. q = [i \in 1..N |-> CHOOSE s \in S : Cardinality(Before(s)) = i - 1]
    BY DEF Sorted, Before
  <1>9. ASSUME NEW i \in 1..N
        PROVE  q[i] \in S /\ Cardinality(Before(q[i])) = i - 1
    <2>1. PICK s \in S : rank[s] = i
      BY <1>7 DEF Surjection
    <2>2. Cardinality(Before(s)) = i - 1
      BY <2>1, <1>1, <1>2
    <2> QED
      BY <2>2, <1>8
  <1> HIDE DEF q
  <1>10. q \in Seq(S) /\ Len(q) = N
    <2>1. q \in [1..N -> S]
      BY <1>8, <1>9
    <2> QED
      BY <2>1, <1>1
  <1>11. \A i, j \in 1..N : q[i] = q[j] => i = j
    BY <1>1, <1>9
  <1>12. ASSUME NEW s \in S PROVE \E i \in 1..N : q[i] = s
    <2>1. rank[s] \in 1..N /\ rank[s] = Cardinality(Before(s)) + 1
      BY <1>3
    <2>2. q[rank[s]] \in S /\ Cardinality(Before(q[rank[s]])) = Cardinality(Before(s))
      BY <2>1, <1>9, <1>2
    <2> QED
      BY <2>1, <2>2, <1>5
  <1>13. InOrder(q, R)
    <2> SUFFICES ASSUME NEW i \in 1..N, NEW j \in 1..N, i < j, <<q[j], q[i]>> \in R
                 PROVE  FALSE
      BY <1>10 DEF InOrder
    <2>1. Cardinality(Before(q[j])) < Cardinality(Before(q[i]))
      BY <1>4, <1>9
    <2> QED
      BY <2>1, <1>1, <1>9
  <1> QED
    BY <1>10, <1>11, <1>12, <1>13 DEF Lists, q

\* NameSeq puts every name at one place.
LEMMA NamesHavePlaces ==
  /\ IsFiniteSet(Range(NameSeq))
  /\ \A n \in Range(NameSeq) : Pos(n) \in Nat /\ NameSeq[Pos(n)] = n
  <1>1. /\ NameSeq \in Seq(Range(NameSeq))
        /\ DOMAIN NameSeq = 1..Len(NameSeq) /\ Len(NameSeq) \in Nat
    BY NamesAreListedOnce
  <1>2. \A n \in Range(NameSeq) : Pos(n) \in DOMAIN NameSeq /\ NameSeq[Pos(n)] = n
    BY DEF Range, Pos
  <1>3. NameSeq \in Surjection(1..Len(NameSeq), Range(NameSeq))
    <2>1. NameSeq \in [1..Len(NameSeq) -> Range(NameSeq)]
      BY <1>1
    <2>2. \A n \in Range(NameSeq) : \E i \in 1..Len(NameSeq) : NameSeq[i] = n
      BY <1>1, <1>2
    <2> QED
      BY <2>1, <2>2 DEF Surjection
  <1>4. IsFiniteSet(Range(NameSeq))
    BY <1>1, <1>3, FS_Interval, FS_Surjection
  <1> QED
    BY <1>1, <1>2, <1>4

LEMMA SortedNamesLists ==
  ASSUME NEW S, S \subseteq Range(NameSeq)
  PROVE  IsFiniteSet(S) /\ Lists(SortedNames(S), S)
  <1> DEFINE R == {p \in S \X S : Pos(p[1]) < Pos(p[2])}
  <1>1. IsFiniteSet(S)
    BY NamesHavePlaces, FS_Subset
  <1>2. \A s, t \in S : <<s, t>> \in R <=> Pos(s) < Pos(t)
    OBVIOUS
  <1>3. \A s \in S : Pos(s) \in Nat /\ NameSeq[Pos(s)] = s
    BY NamesHavePlaces
  <1> HIDE DEF R
  <1>4. IsOrder(R, S)
    BY <1>2, <1>3 DEF IsOrder
  <1> QED
    BY <1>1, <1>4, SortedLists DEF SortedNames, R

\* Lists joined one after the other.
LEMMA FlattenIs ==
  ASSUME NEW S, NEW qs \in Seq(Seq(S))
  PROVE  /\ FlattenSeq(qs) \in Seq(S)
         /\ Range(FlattenSeq(qs)) = UNION {Range(qs[i]) : i \in DOMAIN qs}
  <1> DEFINE N == Len(qs)
             V == Seq(S)
             Next1(k, v) == IF k = 1 THEN qs[k] ELSE v \o qs[k]
             step == [x \in (1..N) \X V |-> Next1(x[1], x[2])]
             Eq(f) == f = [i \in 1..N |-> IF i = 1 THEN qs[i] ELSE f[i - 1] \o qs[i]]
  <1>1. N \in Nat /\ DOMAIN qs = 1..N /\ \A i \in 1..N : qs[i] \in V
    BY SeqRange, ElementOfSeq
  <1>2. CASE N = 0
    <2>1. FlattenSeq(qs) = qs /\ qs = <<>> /\ DOMAIN qs = {}
      BY <1>1, <1>2, EmptySeq DEF FlattenSeq
    <2> QED
      BY <2>1 DEF Range
  <1>3. CASE N # 0
    <2>0. \A k \in 1..N : \A v \in V : v \o qs[k] \in V
      BY <1>1, ConcatProperties
    <2>1. \A k \in 1..N : \A v \in V : Next1(k, v) \in V /\ step[<<k, v>>] = Next1(k, v)
      <3>1. \A k \in 1..N : \A v \in V : step[<<k, v>>] = Next1(k, v)
        OBVIOUS
      <3>2. \A k \in 1..N : \A v \in V : Next1(k, v) \in V
        BY <1>1, <2>0
      <3> QED
        BY <3>1, <3>2
    <2>2. StepsWithin(N, V, step) /\ <<>> \in V
      <3>1. <<>> \in V
        OBVIOUS
      <3> HIDE DEF step, V, N, Next1
      <3>2. StepsWithin(N, V, step)
        BY <2>1 DEF StepsWithin
      <3> QED
        BY <3>1, <3>2
    <2>3. PICK h : Recurses(N, V, <<>>, step, h)
      <3> HIDE DEF step, V, N
      <3> QED
        BY <1>1, <2>2, NumberRecursion
    <2> HIDE DEF step
    <2> DEFINE g == [i \in 1..N |-> h[i]]
    <2>4. Eq(g)
      <3>1. ASSUME NEW k \in 1..N
            PROVE  h[k] = IF k = 1 THEN qs[k] ELSE g[k - 1] \o qs[k]
        <4>1. k - 1 \in 0..N /\ h[k - 1] \in V /\ h[k] = step[<<k, h[k - 1]>>]
          <5>1. k - 1 \in 0..N
            <6> HIDE DEF N
            <6> QED
              BY <1>1
          <5> QED
            BY <5>1, <2>3 DEF Recurses
        <4>2. h[k] = Next1(k, h[k - 1])
          BY <4>1, <2>1
        <4>3. k # 1 => k - 1 \in 1..N
          <5> HIDE DEF N
          <5> QED
            BY <1>1
        <4> QED
          BY <4>2, <4>3
      <3> QED
        BY <3>1
    <2> DEFINE f == CHOOSE x : Eq(x)
    <2>5. Eq(f)
      <3> HIDE DEF Eq, g
      <3> QED
        BY <2>4
    <2>6. FlattenSeq(qs) = f[N]
      BY <1>3 DEF FlattenSeq
    <2> HIDE DEF f
    <2>7. \A k \in 1..N : f[k] = IF k = 1 THEN qs[k] ELSE f[k - 1] \o qs[k]
      BY <2>5
    <2> DEFINE Good(k) == f[k] \in V /\ Range(f[k]) = UNION {Range(qs[i]) : i \in 1..k}
    <2>8. ASSUME NEW k \in 1..N, k = 1 \/ Good(k - 1) PROVE Good(k)
      <3>1. CASE k = 1
        <4>1. f[k] = qs[1] /\ 1..k = {1}
          BY <3>1, <2>7
        <4> QED
          BY <4>1, <1>1, <3>1
      <3>2. CASE k # 1
        <4>1. f[k] = f[k - 1] \o qs[k] /\ f[k - 1] \in V /\ qs[k] \in V
          BY <3>2, <2>7, <2>8, <1>1
        <4>2. f[k] \in V /\ Range(f[k]) = Range(f[k - 1]) \cup Range(qs[k])
          BY <4>1, ConcatRange
        <4>3. 1..k = 1..(k - 1) \cup {k}
          BY <3>2, <1>1
        <4> QED
          BY <4>2, <4>3, <2>8, <3>2
      <3> QED
        BY <3>1, <3>2
    <2> DEFINE Bad == {k \in 1..N : ~Good(k)}
    <2> HIDE DEF Good
    <2>9. Bad = {}
      <3> SUFFICES ASSUME Bad # {} PROVE FALSE
        OBVIOUS
      <3>1. Bad \subseteq Nat
        BY <1>1
      <3>2. PICK k \in Bad : k \in Nat /\ \A m \in Nat : m < k => m \notin Bad
        <4> HIDE DEF Bad
        <4> QED
          BY <3>1, LeastNumber
      <3>3. k = 1 \/ (k - 1 \in Nat /\ k - 1 < k /\ k - 1 \in 1..N)
        <4> HIDE DEF N
        <4> QED
          BY <1>1, <3>2
      <3> QED
        BY <2>8, <3>2, <3>3
    <2>10. Good(N)
      BY <2>9, <1>1, <1>3
    <2> QED
      BY <2>6, <2>10, <1>1 DEF Good
  <1> QED
    BY <1>2, <1>3

(***************************************************************************)
(* The volume plan: what each step does to it.                             *)
(***************************************************************************)
PlanOf(mounts, podVolumes, configMaps, names, used, refusals, overrides, mustFix) ==
  [mounts |-> mounts, podVolumes |-> podVolumes, configMaps |-> configMaps, names |-> names,
   used |-> used, refusals |-> refusals, overrides |-> overrides, mustFix |-> mustFix]

IsPlan(p) ==
  p = PlanOf(p.mounts, p.podVolumes, p.configMaps, p.names, p.used, p.refusals, p.overrides,
             p.mustFix)

\* The pod volumes with pv, unless there is one of that name.
PodVolumesWith(q, pv) == IF \E i \in DOMAIN q : q[i].name = pv.name THEN q ELSE Append(q, pv)

ConfigMapsWith(q, cm) == IF \E i \in DOMAIN q : q[i].name = cm.name THEN q ELSE Append(q, cm)

MountOn(vol, pv, sub, ro) == [name |-> pv.name, dst |-> vol.dst, sub |-> sub, ro |-> ro]

LEMMA EmptyPlanIs ==
  /\ IsPlan(EmptyPlan)
  /\ EmptyPlan.mounts = <<>> /\ EmptyPlan.podVolumes = <<>> /\ EmptyPlan.configMaps = <<>>
  /\ EmptyPlan.names = <<>> /\ EmptyPlan.used = {} /\ EmptyPlan.refusals = {}
  /\ EmptyPlan.overrides = {} /\ EmptyPlan.mustFix = FALSE
BY DEF EmptyPlan, IsPlan, PlanOf

LEMMA AddPodVolumeIs ==
  ASSUME NEW p, IsPlan(p), NEW vol, NEW pv, NEW sub, NEW ro
  PROVE  AddPodVolume(p, vol, pv, sub, ro) =
           PlanOf(With(p.mounts, vol, MountOn(vol, pv, sub, ro)), PodVolumesWith(p.podVolumes, pv),
                  p.configMaps, With(p.names, pv.name, vol.src), p.used, p.refusals,
                  p.overrides, p.mustFix)
  <1> DEFINE a == With(p.names, pv.name, vol.src)
             b == PodVolumesWith(p.podVolumes, pv)
             c == With(p.mounts, vol, MountOn(vol, pv, sub, ro))
  <1>1. AddPodVolume(p, vol, pv, sub, ro) = [p EXCEPT !.names = a, !.podVolumes = b, !.mounts = c]
    BY DEF AddPodVolume, PodVolumesWith, MountOn
  <1> HIDE DEF a, b, c
  <1>2. [p EXCEPT !.names = a, !.podVolumes = b, !.mounts = c] =
          PlanOf(c, b, p.configMaps, a, p.used, p.refusals, p.overrides, p.mustFix)
    <2> DEFINE p1 == [p EXCEPT !.names = a]
    <2>1. p1 = PlanOf(p.mounts, p.podVolumes, p.configMaps, a, p.used, p.refusals, p.overrides, p.mustFix)
      BY DEF IsPlan, PlanOf
    <2> HIDE DEF p1
    <2> DEFINE p2 == [p1 EXCEPT !.podVolumes = b]
    <2>2. p2 = PlanOf(p.mounts, b, p.configMaps, a, p.used, p.refusals, p.overrides, p.mustFix)
      BY <2>1 DEF IsPlan, PlanOf
    <2> HIDE DEF p2
    <2> DEFINE p3 == [p2 EXCEPT !.mounts = c]
    <2>3. p3 = PlanOf(c, b, p.configMaps, a, p.used, p.refusals, p.overrides, p.mustFix)
      BY <2>2 DEF IsPlan, PlanOf
    <2> QED
      BY <2>3 DEF p1, p2, p3
  <1> QED
    BY <1>1, <1>2 DEF a, b, c

LEMMA RefuseIs ==
  ASSUME NEW p, IsPlan(p), NEW source, NEW override
  PROVE  Refuse(p, source, override) =
           PlanOf(p.mounts, p.podVolumes, p.configMaps, p.names, p.used,
                  p.refusals \cup {source},
                  IF override = "" THEN p.overrides ELSE p.overrides \cup {override},
                  p.mustFix \/ override = "")
  <1> DEFINE a == p.refusals \cup {source}
             b == p.mustFix \/ override = ""
             c == IF override = "" THEN p.overrides ELSE p.overrides \cup {override}
  <1>1. Refuse(p, source, override) = [p EXCEPT !.refusals = a, !.mustFix = b, !.overrides = c]
    BY DEF Refuse
  <1> HIDE DEF a, b, c
  <1>2. [p EXCEPT !.refusals = a, !.mustFix = b, !.overrides = c] =
          PlanOf(p.mounts, p.podVolumes, p.configMaps, p.names, p.used, a, c, b)
    <2> DEFINE p1 == [p EXCEPT !.refusals = a]
    <2>1. p1 = PlanOf(p.mounts, p.podVolumes, p.configMaps, p.names, p.used, a, p.overrides, p.mustFix)
      BY DEF IsPlan, PlanOf
    <2> HIDE DEF p1
    <2> DEFINE p2 == [p1 EXCEPT !.mustFix = b]
    <2>2. p2 = PlanOf(p.mounts, p.podVolumes, p.configMaps, p.names, p.used, a, p.overrides, b)
      BY <2>1 DEF IsPlan, PlanOf
    <2> HIDE DEF p2
    <2> DEFINE p3 == [p2 EXCEPT !.overrides = c]
    <2>3. p3 = PlanOf(p.mounts, p.podVolumes, p.configMaps, p.names, p.used, a, c, b)
      BY <2>2 DEF IsPlan, PlanOf
    <2> QED
      BY <2>3 DEF p1, p2, p3
  <1> QED
    BY <1>1, <1>2 DEF a, b, c

(***************************************************************************)
(* Names.  A base name has one part; the second part of a longer one is the*)
(* source it belongs to.                                                   *)
(***************************************************************************)
NamedAfter(n, src) == (\E l : n = <<l>>) \/ (\E l : n = <<l, src>>)

NamesOk(names) == \A n \in DOMAIN names : NamedAfter(n, names[n])

\* src may have the name n: nobody else has it.
Claimed(names, n, src) == NamedAfter(n, src) /\ (n \in DOMAIN names => names[n] = src)

LEMMA AppendIs ==
  ASSUME NEW T, NEW q \in Seq(T), NEW x \in T
  PROVE  /\ Append(q, x) \in Seq(T)
         /\ Len(Append(q, x)) = Len(q) + 1
         /\ \A i \in 1..Len(q) : Append(q, x)[i] = q[i]
         /\ Append(q, x)[Len(q) + 1] = x
BY AppendProperties

LEMMA AppendToOne ==
  ASSUME NEW l, NEW x
  PROVE  Append(<<l>>, x) = <<l, x>>
  <1> SUFFICES ASSUME NEW q, q = <<l>>, NEW r, r = <<l, x>> PROVE Append(q, x) = r
    OBVIOUS
  <1> SUFFICES ASSUME NEW T, T = {l, x} PROVE Append(q, x) = r
    OBVIOUS
  <1>1. q \in Seq(T) /\ Len(q) = 1 /\ q[1] = l
    OBVIOUS
  <1>2. r \in Seq(T) /\ Len(r) = 2 /\ r[1] = l /\ r[2] = x
    OBVIOUS
  <1>3. x \in T
    OBVIOUS
  <1> DEFINE a == Append(q, x)
  <1>4. /\ a \in Seq(T)
        /\ Len(a) = Len(q) + 1
        /\ \A i \in 1..Len(q) : a[i] = q[i]
        /\ a[Len(q) + 1] = x
    BY <1>1, <1>3, AppendIs
  <1> HIDE DEF a
  <1>5. Len(a) = 2 /\ a[1] = l /\ a[2] = x
    BY <1>1, <1>4
  <1>6. Len(r) = Len(a) /\ \A i \in 1..Len(r) : r[i] = a[i]
    <2>1. \A i \in 1..2 : i = 1 \/ i = 2
      OBVIOUS
    <2> QED
      BY <1>2, <1>5, <2>1
  <1>7. r = a
    BY <1>2, <1>4, <1>6, SeqEqual
  <1> QED
    BY <1>7 DEF a

LEMMA ClaimNameClaims ==
  ASSUME NEW p, NamesOk(p.names), NEW parts, NEW src
  PROVE  Claimed(p.names, ClaimName(p, SanitizeName(parts), src), src)
  <1> DEFINE l == Label[parts]
  <1>1. SanitizeName(parts) = <<l>>
    BY DEF SanitizeName
  <1> HIDE DEF l
  <1>2. WithSuffix(<<l>>, src) = <<l, src>>
    BY AppendToOne DEF WithSuffix
  <1>3. CASE <<l>> \notin DOMAIN p.names \/ p.names[<<l>>] = src
    <2>1. ClaimName(p, <<l>>, src) = <<l>>
      BY <1>3 DEF ClaimName
    <2> QED
      BY <1>1, <1>3, <2>1 DEF Claimed, NamedAfter
  <1>4. CASE ~(<<l>> \notin DOMAIN p.names \/ p.names[<<l>>] = src)
    <2>1. ClaimName(p, <<l>>, src) = <<l, src>>
      BY <1>2, <1>4 DEF ClaimName
    <2>2. ASSUME <<l, src>> \in DOMAIN p.names PROVE p.names[<<l, src>>] = src
      <3> DEFINE x == <<l, src>>
      <3>1. NamedAfter(x, p.names[x])
        BY <2>2 DEF NamesOk
      <3>2. \A k : x # <<k>>
        OBVIOUS
      <3>3. PICK k : x = <<k, p.names[x]>>
        BY <3>1, <3>2 DEF NamedAfter
      <3>4. x[2] = src /\ <<k, p.names[x]>>[2] = p.names[x]
        OBVIOUS
      <3> QED
        BY <3>3, <3>4
    <2> QED
      BY <1>1, <2>1, <2>2 DEF Claimed, NamedAfter
  <1> QED
    BY <1>3, <1>4

(***************************************************************************)
(* The pod volume a source gets under a name, and the flag a volume needs. *)
(***************************************************************************)
PodVolumeFor(svc, declared, name, src) ==
  IF src \in DOMAIN svc.secretMounts
  THEN [name |-> name, of |-> "secret", ref |-> <<svc.secretMounts[src]>>]
  ELSE IF ~IsBindMount(src)
  THEN IF src \in declared THEN [name |-> name, of |-> "claim", ref |-> <<src>>]
       ELSE [name |-> name, of |-> "empty", ref |-> <<>>]
  ELSE IF ~Representable(src) THEN [name |-> name, of |-> "empty", ref |-> <<>>]
  ELSE [name |-> name, of |-> "configMap", ref |-> name]

FlagFor(svc, src) ==
  IF src \in DOMAIN svc.secretMounts \/ ~IsBindMount(src) THEN "none"
  ELSE IF ~Representable(src) THEN "empty"
  ELSE IF Host[src].key THEN "keys" ELSE "none"

\* The flag is not needed, or given.
Lifted(o, flag) == flag = "none" \/ (flag = "empty" /\ o.empty) \/ (flag = "keys" /\ o.keys)

LEMMA PlanExcept ==
  ASSUME NEW p, IsPlan(p), NEW x
  PROVE  /\ [p EXCEPT !.used = x] =
              PlanOf(p.mounts, p.podVolumes, p.configMaps, p.names, x, p.refusals, p.overrides,
                     p.mustFix)
         /\ [p EXCEPT !.names = x] =
              PlanOf(p.mounts, p.podVolumes, p.configMaps, x, p.used, p.refusals, p.overrides,
                     p.mustFix)
         /\ [p EXCEPT !.configMaps = x] =
              PlanOf(p.mounts, p.podVolumes, x, p.names, p.used, p.refusals, p.overrides,
                     p.mustFix)
BY DEF PlanOf, IsPlan

\* What one volume does to the plan p.
Skipped(p, q, vol) == (vol \in DOMAIN p.mounts \/ vol.dst = "") /\ q = p

AddRefused(p, q, vol, svc, o) ==
  /\ vol \notin DOMAIN p.mounts /\ vol.dst # "" /\ ~Lifted(o, FlagFor(svc, vol.src))
  /\ vol.src \notin DOMAIN svc.secretMounts
  /\ \E names :
       /\ names = p.names \/ \E n : Claimed(p.names, n, vol.src) /\ names = With(p.names, n, vol.src)
       /\ q = PlanOf(p.mounts, p.podVolumes, p.configMaps, names, p.used,
                     p.refusals \cup {vol.src}, p.overrides \cup {FlagFor(svc, vol.src)},
                     p.mustFix)

AddMounted(p, q, vol, svc, declared, o) ==
  /\ vol \notin DOMAIN p.mounts /\ vol.dst # "" /\ Lifted(o, FlagFor(svc, vol.src))
  /\ \E n, sub, ro :
       LET pv == PodVolumeFor(svc, declared, n, vol.src)
       IN  /\ Claimed(p.names, n, vol.src)
           /\ vol.ro => ro
           /\ q = PlanOf(With(p.mounts, vol, MountOn(vol, pv, sub, ro)),
                         PodVolumesWith(p.podVolumes, pv),
                         IF pv.of = "configMap"
                         THEN ConfigMapsWith(p.configMaps, [name |-> n, src |-> vol.src])
                         ELSE p.configMaps,
                         With(p.names, n, vol.src),
                         IF vol.src \in DOMAIN svc.secretMounts THEN p.used \cup {vol.src}
                         ELSE p.used,
                         p.refusals, p.overrides, p.mustFix)

Added(p, q, vol, svc, declared, o) ==
  Skipped(p, q, vol) \/ AddRefused(p, q, vol, svc, o) \/ AddMounted(p, q, vol, svc, declared, o)

LEMMA AddNamedVolumeIs ==
  ASSUME NEW p, IsPlan(p), NamesOk(p.names), NEW vol, NEW svc, NEW declared, NEW o,
         vol \notin DOMAIN p.mounts, vol.dst # "",
         vol.src \notin DOMAIN svc.secretMounts, ~IsBindMount(vol.src)
  PROVE  AddMounted(p, AddNamedVolume(p, vol, declared), vol, svc, declared, o)
  <1> DEFINE n == ClaimName(p, SanitizeName(<<vol.src>>), vol.src)
             pv == PodVolumeFor(svc, declared, n, vol.src)
  <1>1. Claimed(p.names, n, vol.src)
    BY ClaimNameClaims
  <1> HIDE DEF n
  <1>2. AddNamedVolume(p, vol, declared) = AddPodVolume(p, vol, pv, "", vol.ro)
    BY DEF AddNamedVolume, PodVolumeFor, n
  <1>3. pv.name = n /\ pv.of # "configMap"
    BY DEF PodVolumeFor
  <1>4. Lifted(o, FlagFor(svc, vol.src))
    BY DEF Lifted, FlagFor
  <1> HIDE DEF pv
  <1>5. AddPodVolume(p, vol, pv, "", vol.ro) =
          PlanOf(With(p.mounts, vol, MountOn(vol, pv, "", vol.ro)), PodVolumesWith(p.podVolumes, pv),
                 p.configMaps, With(p.names, n, vol.src), p.used, p.refusals,
                 p.overrides, p.mustFix)
    BY <1>3, AddPodVolumeIs
  <1> QED
    BY <1>1, <1>2, <1>3, <1>4, <1>5 DEF AddMounted, pv

LEMMA AddSecretMountIs ==
  ASSUME NEW p, IsPlan(p), NamesOk(p.names), NEW vol, NEW svc, NEW declared, NEW o,
         vol \notin DOMAIN p.mounts, vol.dst # "", vol.src \in DOMAIN svc.secretMounts
  PROVE  AddMounted(p, AddSecretMount(p, vol, svc.secretMounts[vol.src]), vol, svc, declared, o)
  <1> DEFINE secret == svc.secretMounts[vol.src]
             n == ClaimName(p, SanitizeName(<<secret>>), vol.src)
             pv == PodVolumeFor(svc, declared, n, vol.src)
             q == AddPodVolume(p, vol, pv, vol.src, TRUE)
  <1>1. Claimed(p.names, n, vol.src)
    BY ClaimNameClaims
  <1> HIDE DEF n
  <1>2. AddSecretMount(p, vol, secret) = [q EXCEPT !.used = q.used \cup {vol.src}]
    BY DEF AddSecretMount, PodVolumeFor, n
  <1>3. pv.name = n /\ pv.of # "configMap"
    BY DEF PodVolumeFor
  <1>4. Lifted(o, FlagFor(svc, vol.src))
    BY DEF Lifted, FlagFor
  <1> HIDE DEF pv
  <1>5. q = PlanOf(With(p.mounts, vol, MountOn(vol, pv, vol.src, TRUE)),
                   PodVolumesWith(p.podVolumes, pv),
                   p.configMaps, With(p.names, n, vol.src), p.used, p.refusals,
                   p.overrides, p.mustFix)
    BY <1>3, AddPodVolumeIs
  <1> HIDE DEF q
  <1>6. [q EXCEPT !.used = q.used \cup {vol.src}] =
          PlanOf(With(p.mounts, vol, MountOn(vol, pv, vol.src, TRUE)),
                 PodVolumesWith(p.podVolumes, pv),
                 p.configMaps, With(p.names, n, vol.src), p.used \cup {vol.src}, p.refusals,
                 p.overrides, p.mustFix)
    <2>1. /\ IsPlan(q)
          /\ q.mounts = With(p.mounts, vol, MountOn(vol, pv, vol.src, TRUE))
          /\ q.podVolumes = PodVolumesWith(p.podVolumes, pv)
          /\ q.configMaps = p.configMaps /\ q.names = With(p.names, n, vol.src)
          /\ q.used = p.used /\ q.refusals = p.refusals /\ q.overrides = p.overrides
          /\ q.mustFix = p.mustFix
      BY <1>5 DEF PlanOf, IsPlan
    <2> DEFINE x == q.used \cup {vol.src}
    <2> HIDE DEF x
    <2>2. [q EXCEPT !.used = x] =
            PlanOf(q.mounts, q.podVolumes, q.configMaps, q.names, x, q.refusals, q.overrides,
                   q.mustFix)
      BY <2>1, PlanExcept
    <2> QED
      BY <2>1, <2>2 DEF x
  <1> QED
    BY <1>1, <1>2, <1>3, <1>4, <1>6 DEF AddMounted, pv

LEMMA RefuseByFlag ==
  ASSUME NEW p, IsPlan(p), p.mustFix = FALSE, NEW src, NEW flag, flag # ""
  PROVE  Refuse(p, src, flag) =
           PlanOf(p.mounts, p.podVolumes, p.configMaps, p.names, p.used,
                  p.refusals \cup {src}, p.overrides \cup {flag}, p.mustFix)
  <1>1. (p.mustFix \/ flag = "") = FALSE
    OBVIOUS
  <1>2. (IF flag = "" THEN p.overrides ELSE p.overrides \cup {flag}) = p.overrides \cup {flag}
    OBVIOUS
  <1> QED
    BY <1>1, <1>2, RefuseIs

LEMMA AddUnrepresentableIs ==
  ASSUME NEW p, IsPlan(p), NamesOk(p.names), p.mustFix = FALSE,
         NEW vol, NEW svc, NEW declared, NEW o,
         vol \notin DOMAIN p.mounts, vol.dst # "",
         vol.src \notin DOMAIN svc.secretMounts, IsBindMount(vol.src), ~Representable(vol.src)
  PROVE  Added(p, AddUnrepresentable(p, vol, o), vol, svc, declared, o)
  <1> DEFINE n == ClaimName(p, SanitizeName(<<vol.src>>), vol.src)
             pv == PodVolumeFor(svc, declared, n, vol.src)
  <1>1. Claimed(p.names, n, vol.src)
    BY ClaimNameClaims
  <1> HIDE DEF n
  <1>2. FlagFor(svc, vol.src) = "empty"
    BY DEF FlagFor
  <1>3. CASE ~o.empty
    <2>1. AddUnrepresentable(p, vol, o) = Refuse(p, vol.src, "empty")
      BY <1>3 DEF AddUnrepresentable
    <2>3. Refuse(p, vol.src, "empty") =
            PlanOf(p.mounts, p.podVolumes, p.configMaps, p.names, p.used,
                   p.refusals \cup {vol.src}, p.overrides \cup {"empty"}, p.mustFix)
      BY RefuseByFlag
    <2> QED
      BY <1>2, <1>3, <2>1, <2>3 DEF Added, AddRefused, Lifted
  <1>4. CASE o.empty
    <2>1. AddUnrepresentable(p, vol, o) = AddPodVolume(p, vol, pv, "", vol.ro)
      BY <1>4 DEF AddUnrepresentable, PodVolumeFor, n
    <2>2. pv.name = n /\ pv.of # "configMap"
      BY DEF PodVolumeFor
    <2> HIDE DEF pv
    <2>3. AddPodVolume(p, vol, pv, "", vol.ro) =
            PlanOf(With(p.mounts, vol, MountOn(vol, pv, "", vol.ro)), PodVolumesWith(p.podVolumes, pv),
                   p.configMaps, With(p.names, n, vol.src), p.used, p.refusals,
                   p.overrides, p.mustFix)
      BY <2>2, AddPodVolumeIs
    <2> QED
      BY <1>1, <1>2, <1>4, <2>1, <2>2, <2>3 DEF Added, AddMounted, Lifted, pv
  <1> QED
    BY <1>3, <1>4

LEMMA AddConfigMapIs ==
  ASSUME NEW p, IsPlan(p), NamesOk(p.names), p.mustFix = FALSE,
         NEW s, NEW vol, NEW svc, NEW declared, NEW o,
         vol \notin DOMAIN p.mounts, vol.dst # "",
         vol.src \notin DOMAIN svc.secretMounts, IsBindMount(vol.src), Representable(vol.src)
  PROVE  Added(p, AddConfigMap(p, s, vol, o), vol, svc, declared, o)
  <1> DEFINE n == ClaimName(p, SanitizeName(<<s, Host[vol.src].base>>), vol.src)
             pv == PodVolumeFor(svc, declared, n, vol.src)
             q == AddPodVolume(p, vol, pv, vol.src, TRUE)
             r == Refuse(p, vol.src, "keys")
             cm == [name |-> n, src |-> vol.src]
  <1>1. Claimed(p.names, n, vol.src)
    BY ClaimNameClaims
  <1> HIDE DEF n
  <1>2. FlagFor(svc, vol.src) = IF Host[vol.src].key THEN "keys" ELSE "none"
    BY DEF FlagFor
  <1>3. CASE Host[vol.src].key /\ ~o.keys
    <2>1. AddConfigMap(p, s, vol, o) = [r EXCEPT !.names = With(r.names, n, vol.src)]
      BY <1>3 DEF AddConfigMap, n
    <2>2. r = PlanOf(p.mounts, p.podVolumes, p.configMaps, p.names, p.used,
                     p.refusals \cup {vol.src}, p.overrides \cup {"keys"}, p.mustFix)
      BY RefuseByFlag
    <2> HIDE DEF r
    <2>3. /\ IsPlan(r)
          /\ r.mounts = p.mounts /\ r.podVolumes = p.podVolumes /\ r.configMaps = p.configMaps
          /\ r.names = p.names /\ r.used = p.used /\ r.refusals = p.refusals \cup {vol.src}
          /\ r.overrides = p.overrides \cup {"keys"} /\ r.mustFix = p.mustFix
      BY <2>2 DEF PlanOf, IsPlan
    <2> DEFINE x == With(r.names, n, vol.src)
    <2> HIDE DEF x
    <2>4. [r EXCEPT !.names = x] =
            PlanOf(r.mounts, r.podVolumes, r.configMaps, x, r.used, r.refusals, r.overrides,
                   r.mustFix)
      BY <2>3, PlanExcept
    <2> QED
      BY <1>1, <1>2, <1>3, <2>1, <2>3, <2>4 DEF Added, AddRefused, Lifted, x
  <1>4. CASE ~(Host[vol.src].key /\ ~o.keys)
    <2>1. pv = [name |-> n, of |-> "configMap", ref |-> n]
      BY DEF PodVolumeFor
    <2>2. AddConfigMap(p, s, vol, o) = [q EXCEPT !.configMaps = ConfigMapsWith(q.configMaps, cm)]
      <3> DEFINE q0 == AddPodVolume(p, vol, [name |-> n, of |-> "configMap", ref |-> n], vol.src, TRUE)
      <3>1. q0 = q
        BY <2>1
      <3> HIDE DEF q
      <3>2. AddConfigMap(p, s, vol, o) =
              [q0 EXCEPT !.configMaps =
                 IF \E i \in DOMAIN q0.configMaps : q0.configMaps[i].name = n THEN q0.configMaps
                 ELSE Append(q0.configMaps, [name |-> n, src |-> vol.src])]
        BY <1>4 DEF AddConfigMap, n
      <3> HIDE DEF q0
      <3>3. cm.name = n
        OBVIOUS
      <3> QED
        BY <3>1, <3>2, <3>3 DEF ConfigMapsWith
    <2>3. pv.name = n /\ pv.of = "configMap"
      <3> HIDE DEF pv
      <3> QED
        BY <2>1
    <2> HIDE DEF pv
    <2>4. q = PlanOf(With(p.mounts, vol, MountOn(vol, pv, vol.src, TRUE)),
                     PodVolumesWith(p.podVolumes, pv),
                     p.configMaps, With(p.names, n, vol.src), p.used, p.refusals,
                     p.overrides, p.mustFix)
      BY <2>3, AddPodVolumeIs
    <2> HIDE DEF q
    <2>5. /\ IsPlan(q)
          /\ q.mounts = With(p.mounts, vol, MountOn(vol, pv, vol.src, TRUE))
          /\ q.podVolumes = PodVolumesWith(p.podVolumes, pv)
          /\ q.configMaps = p.configMaps /\ q.names = With(p.names, n, vol.src)
          /\ q.used = p.used /\ q.refusals = p.refusals /\ q.overrides = p.overrides
          /\ q.mustFix = p.mustFix
      BY <2>4 DEF PlanOf, IsPlan
    <2> DEFINE x == ConfigMapsWith(q.configMaps, cm)
    <2> HIDE DEF x, cm
    <2>6. [q EXCEPT !.configMaps = x] =
            PlanOf(q.mounts, q.podVolumes, x, q.names, q.used, q.refusals, q.overrides,
                   q.mustFix)
      BY <2>5, PlanExcept
    <2>7. Lifted(o, FlagFor(svc, vol.src))
      BY <1>2, <1>4 DEF Lifted
    <2>8. AddMounted(p, [q EXCEPT !.configMaps = x], vol, svc, declared, o)
      <3> DEFINE y == [q EXCEPT !.configMaps = x]
      <3>1. y = PlanOf(With(p.mounts, vol, MountOn(vol, pv, vol.src, TRUE)),
                       PodVolumesWith(p.podVolumes, pv),
                       IF pv.of = "configMap" THEN ConfigMapsWith(p.configMaps, cm)
                       ELSE p.configMaps,
                       With(p.names, n, vol.src),
                       IF vol.src \in DOMAIN svc.secretMounts THEN p.used \cup {vol.src}
                       ELSE p.used,
                       p.refusals, p.overrides, p.mustFix)
        BY <2>3, <2>5, <2>6 DEF x
      <3> HIDE DEF y
      <3> QED
        BY <1>1, <2>7, <3>1 DEF AddMounted, pv, cm, y
    <2> QED
      BY <2>2, <2>8 DEF Added, x
  <1> QED
    BY <1>3, <1>4

LEMMA AddIs ==
  ASSUME NEW p, IsPlan(p), NamesOk(p.names), p.mustFix = FALSE,
         NEW s, NEW vol, NEW svc, NEW declared, NEW o
  PROVE  Added(p, Add(p, s, vol, svc, declared, o), vol, svc, declared, o)
  <1> DEFINE q == Add(p, s, vol, svc, declared, o)
  <1>1. CASE vol \in DOMAIN p.mounts \/ vol.dst = ""
    BY <1>1 DEF Add, Added, Skipped
  <1>2. CASE ~(vol \in DOMAIN p.mounts \/ vol.dst = "")
    <2>1. CASE vol.src \in DOMAIN svc.secretMounts
      <3>1. q = AddSecretMount(p, vol, svc.secretMounts[vol.src])
        BY <1>2, <2>1 DEF Add
      <3> QED
        BY <1>2, <2>1, <3>1, AddSecretMountIs DEF Added
    <2>2. CASE vol.src \notin DOMAIN svc.secretMounts /\ ~IsBindMount(vol.src)
      <3>1. q = AddNamedVolume(p, vol, declared)
        BY <1>2, <2>2 DEF Add
      <3> QED
        BY <1>2, <2>2, <3>1, AddNamedVolumeIs DEF Added
    <2>3. CASE /\ vol.src \notin DOMAIN svc.secretMounts
               /\ IsBindMount(vol.src) /\ ~Representable(vol.src)
      <3>1. q = AddUnrepresentable(p, vol, o)
        BY <1>2, <2>3 DEF Add
      <3> QED
        BY <1>2, <2>3, <3>1, AddUnrepresentableIs
    <2>4. CASE /\ vol.src \notin DOMAIN svc.secretMounts
               /\ IsBindMount(vol.src) /\ Representable(vol.src)
      <3>1. q = AddConfigMap(p, s, vol, o)
        BY <1>2, <2>4 DEF Add
      <3> QED
        BY <1>2, <2>4, <3>1, AddConfigMapIs
    <2> QED
      BY <2>1, <2>2, <2>3, <2>4
  <1> QED
    BY <1>1, <1>2

(***************************************************************************)
(* The plan before ReportUnmatchedSecretMounts, one volume after the other.*)
(***************************************************************************)
VolumesPlan(s, svc, declared, o) ==
  FoldLeft(LAMBDA p, vol : Add(p, s, vol, svc, declared, o), EmptyPlan, ServiceVolumes(svc))

PlanSteps(g, N, q, s, svc, declared, o) ==
  /\ g[0] = EmptyPlan
  /\ \A k \in 1..N : g[k] = Add(g[k - 1], s, q[k], svc, declared, o)

LEMMA VolumesPlanSteps ==
  ASSUME NEW s, NEW svc, NEW declared, NEW o, NEW S, ServiceVolumes(svc) \in Seq(S)
  PROVE  \E g : /\ PlanSteps(g, Len(ServiceVolumes(svc)), ServiceVolumes(svc), s, svc, declared, o)
                /\ VolumesPlan(s, svc, declared, o) = g[Len(ServiceVolumes(svc))]
  <1> DEFINE q == ServiceVolumes(svc)
             N == Len(q)
             D == DOMAIN q
             Step(x, v) == Add(v, s, q[x], svc, declared, o)
             Small(n) == {t \in SUBSET D : Cardinality(t) <= n}
             Sol(n, f) ==
               f = [t \in Small(n) |-> IF t = {} THEN EmptyPlan ELSE Step(Max(t), f[t \ {Max(t)}])]
             Eq(f) ==
               f = [t \in SUBSET D |-> IF t = {} THEN EmptyPlan ELSE Step(Max(t), f[t \ {Max(t)}])]
             Bad == {n \in 0..N : ~\E f : Sol(n, f)}
  <1>1. N \in Nat /\ D = 1..N
    BY LenProperties
  <1>2. \A t \in SUBSET D : IsFiniteSet(t) /\ Cardinality(t) \in Nat /\ Cardinality(t) <= N
    <2>1. IsFiniteSet(1..N) /\ Cardinality(1..N) = N
      BY <1>1, FS_Interval
    <2> QED
      BY <1>1, <2>1, FS_Subset, FS_CardinalityType
  <1>3. ASSUME NEW t \in SUBSET D, t # {}, NEW n \in Nat, Cardinality(t) <= n
        PROVE  /\ Max(t) \in D /\ t \ {Max(t)} \in SUBSET D
               /\ n # 0 /\ n - 1 \in Nat /\ Cardinality(t \ {Max(t)}) <= n - 1
    <2>1. Max(t) \in t
      BY <1>1, <1>3, MaxIn
    <2>2. /\ Cardinality(t \ {Max(t)}) = Cardinality(t) - 1
          /\ Cardinality(t \ {Max(t)}) \in Nat
      BY <1>2, <2>1, FS_RemoveElement, FS_CardinalityType
    <2> QED
      BY <1>2, <1>3, <2>1, <2>2
  <1> HIDE DEF Step
  <1>4. ASSUME N \in Bad PROVE FALSE
    <2>0. Bad \subseteq Nat /\ Bad # {}
      <3>1. Bad \subseteq Nat
        BY <1>1
      <3> HIDE DEF Bad
      <3> QED
        BY <1>4, <3>1
    <2>1. PICK n \in Bad : n \in Nat /\ \A m \in Nat : m < n => m \notin Bad
      <3> HIDE DEF Bad
      <3> QED
        BY <2>0, LeastNumber
    <2>2. CASE n = 0
      <3> DEFINE f == [t \in Small(0) |-> EmptyPlan]
      <3>1. \A t \in Small(0) : t = {}
        BY <1>3
      <3>2. Sol(0, f)
        BY <3>1
      <3>3. ~\E h : Sol(0, h)
        BY <2>1, <2>2
      <3> HIDE DEF Sol, f
      <3> QED
        BY <3>2, <3>3
    <2>3. CASE n # 0
      <3>1. n - 1 \in Nat /\ n - 1 < n /\ n - 1 \in 0..N
        BY <2>1, <2>3, <1>1
      <3>2. PICK f : Sol(n - 1, f)
        BY <2>1, <3>1
      <3> DEFINE g == [t \in Small(n) |-> IF t = {} THEN EmptyPlan
                                          ELSE Step(Max(t), f[t \ {Max(t)}])]
      <3>3. \A t \in Small(n - 1) : t \in Small(n) /\ g[t] = f[t]
        <4>1. \A t \in Small(n - 1) : t \in Small(n)
          BY <1>2, <2>1, <3>1
        <4>2. \A t \in Small(n - 1) :
                f[t] = IF t = {} THEN EmptyPlan ELSE Step(Max(t), f[t \ {Max(t)}])
          BY <3>2
        <4> QED
          BY <4>1, <4>2
      <3>4. \A t \in Small(n) : t # {} => t \ {Max(t)} \in Small(n - 1)
        BY <1>3, <2>1
      <3>5. Sol(n, g)
        <4>1. \A t \in Small(n) : t # {} => g[t \ {Max(t)}] = f[t \ {Max(t)}]
          <5> HIDE DEF g, Small
          <5> QED
            BY <3>3, <3>4
        <4> DEFINE h == g
        <4>2. \A t \in Small(n) : t # {} => h[t \ {Max(t)}] = f[t \ {Max(t)}]
          BY <4>1
        <4> HIDE DEF h
        <4>3. g = [t \in Small(n) |-> IF t = {} THEN EmptyPlan ELSE Step(Max(t), h[t \ {Max(t)}])]
          <5> HIDE DEF Small
          <5> QED
            BY <4>2
        <4> QED
          BY <4>3 DEF h
      <3> HIDE DEF Sol, g
      <3> QED
        BY <2>1, <3>5
    <2> QED
      BY <2>2, <2>3
  <1>5. \E f : Eq(f)
    <2>1. PICK f : Sol(N, f)
      <3>1. N \in 0..N
        BY <1>1
      <3> HIDE DEF Sol
      <3> QED
        BY <1>4, <3>1
    <2>2. Small(N) = SUBSET D
      BY <1>2
    <2>3. Eq(f)
      <3> HIDE DEF Small
      <3> QED
        BY <2>1, <2>2
    <2> HIDE DEF Eq
    <2> QED
      BY <2>3
  <1> DEFINE f == CHOOSE x : Eq(x)
  <1>6. Eq(f)
    <2> HIDE DEF Eq
    <2> QED
      BY <1>5
  <1>7. VolumesPlan(s, svc, declared, o) = f[DOMAIN q]
    BY DEF VolumesPlan, FoldLeft, MapThenFoldSet, Step
  <1> HIDE DEF f
  <1>8. \A t \in SUBSET D : f[t] = IF t = {} THEN EmptyPlan ELSE Step(Max(t), f[t \ {Max(t)}])
    BY <1>6
  <1> HIDE DEF Eq, Sol, Bad
  <1> DEFINE g == [k \in 0..N |-> f[1..k]]
  <1>9. g[0] = EmptyPlan
    <2>1. 0 \in 0..N /\ 1..0 = {} /\ {} \in SUBSET D
      BY <1>1
    <2> QED
      BY <2>1, <1>8
  <1>10. ASSUME NEW k \in 1..N PROVE g[k] = Add(g[k - 1], s, q[k], svc, declared, o)
    <2>1. k \in 0..N /\ k - 1 \in 0..N /\ 1..k \in SUBSET D /\ k \in 1..k /\ \A y \in 1..k : k >= y
      BY <1>1
    <2>2. Max(1..k) = k
      <3>1. Max(1..k) \in 1..k /\ \A y \in 1..k : Max(1..k) >= y
        BY <1>1, <2>1, MaxIn
      <3> QED
        BY <2>1, <3>1
    <2>3. (1..k) \ {k} = 1..(k - 1)
      BY <1>1
    <2>4. f[1..k] = Step(k, f[1..(k - 1)])
      BY <1>8, <2>1, <2>2, <2>3
    <2> QED
      BY <2>1, <2>4 DEF Step
  <1>11. VolumesPlan(s, svc, declared, o) = g[N]
    BY <1>1, <1>7
  <1> HIDE DEF g
  <1> QED
    BY <1>9, <1>10, <1>11 DEF PlanSteps

(***************************************************************************)
(* What the plan of the volumes vols is, after any number of them.         *)
(***************************************************************************)
PodVolumesOk(podVolumes, names, svc, declared) ==
  /\ podVolumes \in Seq(Range(podVolumes))
  /\ \A pv \in Range(podVolumes) :
       pv.name \in DOMAIN names /\ pv = PodVolumeFor(svc, declared, pv.name, names[pv.name])

ConfigMapsOk(configMaps, podVolumes, names, o) ==
  /\ configMaps \in Seq(Range(configMaps))
  /\ \A cm \in Range(configMaps) :
       /\ cm.name \in DOMAIN names /\ names[cm.name] = cm.src
       /\ Host[cm.src].key => o.keys
  /\ \A pv \in Range(podVolumes) :
       pv.of = "configMap" => \E cm \in Range(configMaps) : cm.name = pv.name

MountsOk(mounts, podVolumes, names, used, svc, o) ==
  \A vol \in DOMAIN mounts :
    /\ vol.dst # "" /\ mounts[vol].dst = vol.dst /\ (vol.ro => mounts[vol].ro)
    /\ Lifted(o, FlagFor(svc, vol.src))
    /\ vol.src \in DOMAIN svc.secretMounts => vol.src \in used
    /\ \E pv \in Range(podVolumes) : pv.name = mounts[vol].name /\ names[pv.name] = vol.src

\* Every volume with a destination is mounted, or refused under its flag.
DoneOk(vols, mounts, refusals, overrides, svc, o) ==
  \A vol \in vols : vol.dst # "" =>
    \/ vol \in DOMAIN mounts
    \/ /\ vol.src \in refusals /\ FlagFor(svc, vol.src) \in overrides
       /\ ~Lifted(o, FlagFor(svc, vol.src))

\* Nothing is refused or used that is not the source of a volume.
SourcesOk(vols, used, refusals, svc, o) ==
  /\ \A src \in used : \E vol \in vols : vol.dst # "" /\ vol.src = src
  /\ \A src \in refusals :
       /\ ~Lifted(o, FlagFor(svc, src))
       /\ \E vol \in vols : vol.dst # "" /\ vol.src = src

PlanInv(p, vols, svc, declared, o) ==
  /\ IsPlan(p) /\ NamesOk(p.names) /\ p.mustFix = FALSE
  /\ PodVolumesOk(p.podVolumes, p.names, svc, declared)
  /\ ConfigMapsOk(p.configMaps, p.podVolumes, p.names, o)
  /\ MountsOk(p.mounts, p.podVolumes, p.names, p.used, svc, o)
  /\ DoneOk(vols, p.mounts, p.refusals, p.overrides, svc, o)
  /\ SourcesOk(vols, p.used, p.refusals, svc, o)

\* r is q with x, unless q had an element of that name.
Joins(q, r, x) ==
  /\ r \in Seq(Range(r))
  /\ Range(q) \subseteq Range(r) /\ Range(r) \subseteq Range(q) \cup {x}
  /\ \E y \in Range(r) : y.name = x.name

LEMMA JoinsOnce ==
  ASSUME NEW q, q \in Seq(Range(q)), NEW x
  PROVE  Joins(q, IF \E i \in DOMAIN q : q[i].name = x.name THEN q ELSE Append(q, x), x)
  <1>1. CASE \E i \in DOMAIN q : q[i].name = x.name
    <2>1. \E y \in Range(q) : y.name = x.name
      BY <1>1 DEF Range
    <2> QED
      BY <1>1, <2>1 DEF Joins
  <1>2. CASE ~\E i \in DOMAIN q : q[i].name = x.name
    <2> DEFINE r == Append(q, x)
    <2>1. r \in Seq(Range(q) \cup {x}) /\ Range(r) = Range(q) \cup {x}
      BY AppendRange
    <2> HIDE DEF r
    <2>2. Joins(q, r, x)
      BY <2>1 DEF Joins
    <2> QED
      BY <1>2, <2>2 DEF r
  <1> QED
    BY <1>1, <1>2

LEMMA WithJoins ==
  ASSUME NEW q, q \in Seq(Range(q)), NEW x
  PROVE  Joins(q, PodVolumesWith(q, x), x) /\ Joins(q, ConfigMapsWith(q, x), x)
BY JoinsOnce DEF PodVolumesWith, ConfigMapsWith

LEMMA PodVolumeForIs ==
  ASSUME NEW svc, NEW declared, NEW n, NEW src
  PROVE  /\ PodVolumeFor(svc, declared, n, src).name = n
         /\ PodVolumeFor(svc, declared, n, src).of = "configMap" =>
              /\ src \notin DOMAIN svc.secretMounts /\ IsBindMount(src) /\ Representable(src)
              /\ PodVolumeFor(svc, declared, n, src).ref = n
BY DEF PodVolumeFor

\* Names are only ever added.
Extends(names, more) ==
  DOMAIN names \subseteq DOMAIN more /\ \A n \in DOMAIN names : more[n] = names[n]

LEMMA NamesExtend ==
  ASSUME NEW names, NamesOk(names), NEW n, NEW src, Claimed(names, n, src),
         NEW more, more = With(names, n, src)
  PROVE  /\ NamesOk(more) /\ Extends(names, more)
         /\ DOMAIN more = DOMAIN names \cup {n} /\ more[n] = src
BY DEF NamesOk, Claimed, With, Extends

LEMMA InvSkipped ==
  ASSUME NEW p, NEW vols, NEW svc, NEW declared, NEW o, PlanInv(p, vols, svc, declared, o),
         NEW q, NEW vol, Skipped(p, q, vol)
  PROVE  PlanInv(q, vols \cup {vol}, svc, declared, o)
BY DEF PlanInv, Skipped, DoneOk, SourcesOk

LEMMA InvRefused ==
  ASSUME NEW p, NEW vols, NEW svc, NEW declared, NEW o, PlanInv(p, vols, svc, declared, o),
         NEW q, NEW vol, AddRefused(p, q, vol, svc, o)
  PROVE  PlanInv(q, vols \cup {vol}, svc, declared, o)
  <1>1. PICK names :
          /\ names = p.names \/ \E n : Claimed(p.names, n, vol.src) /\ names = With(p.names, n, vol.src)
          /\ q = PlanOf(p.mounts, p.podVolumes, p.configMaps, names, p.used,
                     p.refusals \cup {vol.src}, p.overrides \cup {FlagFor(svc, vol.src)},
                     p.mustFix)
    BY DEF AddRefused
  <1>2. NamesOk(names) /\ Extends(p.names, names)
    <2>1. NamesOk(p.names)
      BY DEF PlanInv
    <2>2. ASSUME NEW n, Claimed(p.names, n, vol.src), names = With(p.names, n, vol.src)
          PROVE  NamesOk(names) /\ Extends(p.names, names)
      BY <2>1, <2>2, NamesExtend
    <2> QED
      BY <1>1, <2>1, <2>2 DEF Extends
  <1>3. /\ IsPlan(q)
        /\ q.mounts = p.mounts /\ q.podVolumes = p.podVolumes /\ q.configMaps = p.configMaps
        /\ q.names = names /\ q.used = p.used /\ q.refusals = p.refusals \cup {vol.src}
        /\ q.overrides = p.overrides \cup {FlagFor(svc, vol.src)} /\ q.mustFix = FALSE
    BY <1>1 DEF PlanOf, IsPlan, PlanInv
  <1>4. PodVolumesOk(q.podVolumes, q.names, svc, declared)
    BY <1>2, <1>3 DEF PlanInv, PodVolumesOk, Extends
  <1>5. ConfigMapsOk(q.configMaps, q.podVolumes, q.names, o)
    BY <1>2, <1>3 DEF PlanInv, ConfigMapsOk, Extends
  <1>6. MountsOk(q.mounts, q.podVolumes, q.names, q.used, svc, o)
    <2>1. ASSUME NEW v \in DOMAIN p.mounts
          PROVE  \E x \in Range(q.podVolumes) : x.name = q.mounts[v].name /\ q.names[x.name] = v.src
      <3>1. PICK x \in Range(p.podVolumes) : x.name = p.mounts[v].name /\ p.names[x.name] = v.src
        BY DEF PlanInv, MountsOk
      <3> QED
        BY <3>1, <1>2, <1>3 DEF PlanInv, PodVolumesOk, Extends
    <2> QED
      BY <1>3, <2>1 DEF PlanInv, MountsOk
  <1>7. DoneOk(vols \cup {vol}, q.mounts, q.refusals, q.overrides, svc, o)
    BY <1>3 DEF PlanInv, DoneOk, AddRefused
  <1>8. SourcesOk(vols \cup {vol}, q.used, q.refusals, svc, o)
    BY <1>3 DEF PlanInv, SourcesOk, AddRefused
  <1> QED
    BY <1>2, <1>3, <1>4, <1>5, <1>6, <1>7, <1>8 DEF PlanInv

LEMMA InvMounted ==
  ASSUME NEW p, NEW vols, NEW svc, NEW declared, NEW o, PlanInv(p, vols, svc, declared, o),
         NEW q, NEW vol, AddMounted(p, q, vol, svc, declared, o)
  PROVE  PlanInv(q, vols \cup {vol}, svc, declared, o)
  <1>1. PICK n, sub, ro :
          LET pv == PodVolumeFor(svc, declared, n, vol.src)
          IN  /\ Claimed(p.names, n, vol.src)
              /\ vol.ro => ro
              /\ q = PlanOf(With(p.mounts, vol, MountOn(vol, pv, sub, ro)),
                            PodVolumesWith(p.podVolumes, pv),
                            IF pv.of = "configMap"
                            THEN ConfigMapsWith(p.configMaps, [name |-> n, src |-> vol.src])
                            ELSE p.configMaps,
                            With(p.names, n, vol.src),
                            IF vol.src \in DOMAIN svc.secretMounts THEN p.used \cup {vol.src}
                            ELSE p.used,
                            p.refusals, p.overrides, p.mustFix)
    BY DEF AddMounted
  <1> DEFINE pv == PodVolumeFor(svc, declared, n, vol.src)
             cm == [name |-> n, src |-> vol.src]
             m == MountOn(vol, pv, sub, ro)
  <1>2. /\ IsPlan(q)
        /\ q.mounts = With(p.mounts, vol, m)
        /\ q.podVolumes = PodVolumesWith(p.podVolumes, pv)
        /\ q.configMaps = IF pv.of = "configMap" THEN ConfigMapsWith(p.configMaps, cm)
                          ELSE p.configMaps
        /\ q.names = With(p.names, n, vol.src)
        /\ q.used = IF vol.src \in DOMAIN svc.secretMounts THEN p.used \cup {vol.src} ELSE p.used
        /\ q.refusals = p.refusals /\ q.overrides = p.overrides /\ q.mustFix = FALSE
    <2> HIDE DEF pv, cm, m
    <2> QED
      BY <1>1 DEF PlanOf, IsPlan, PlanInv, pv, cm, m
  <1>3. /\ NamesOk(q.names) /\ Extends(p.names, q.names)
        /\ DOMAIN q.names = DOMAIN p.names \cup {n} /\ q.names[n] = vol.src
    <2>1. NamesOk(p.names) /\ Claimed(p.names, n, vol.src)
      BY <1>1 DEF PlanInv
    <2>2. q.names = With(p.names, n, vol.src)
      BY <1>2
    <2> DEFINE before == p.names
               after == q.names
    <2>3. NamesOk(before) /\ Claimed(before, n, vol.src) /\ after = With(before, n, vol.src)
      BY <2>1, <2>2
    <2> HIDE DEF before, after
    <2>4. /\ NamesOk(after) /\ Extends(before, after)
          /\ DOMAIN after = DOMAIN before \cup {n} /\ after[n] = vol.src
      BY <2>3 DEF NamesOk, Claimed, With, Extends
    <2> QED
      BY <2>4 DEF before, after
  <1>4. pv.name = n /\ (pv.of = "configMap" => Representable(vol.src))
    BY PodVolumeForIs
  <1>5. m.name = n /\ m.dst = vol.dst /\ m.ro = ro
    BY <1>4 DEF MountOn
  <1>6. cm.name = n /\ cm.src = vol.src
    OBVIOUS
  <1>7. /\ vol.dst # "" /\ Lifted(o, FlagFor(svc, vol.src)) /\ (vol.ro => ro)
        /\ DOMAIN q.mounts = DOMAIN p.mounts \cup {vol}
        /\ q.mounts[vol] = m
        /\ \A v \in DOMAIN p.mounts : v # vol => q.mounts[v] = p.mounts[v]
    BY <1>1, <1>2 DEF AddMounted, With
  <1>8. pv.of = "configMap" /\ Host[vol.src].key => o.keys
    <2>1. pv.of = "configMap" =>
            vol.src \notin DOMAIN svc.secretMounts /\ IsBindMount(vol.src) /\ Representable(vol.src)
      BY PodVolumeForIs
    <2>2. Lifted(o, FlagFor(svc, vol.src))
      BY <1>7
    <2> HIDE DEF pv
    <2> QED
      BY <2>1, <2>2 DEF Lifted, FlagFor
  <1>9. pv = PodVolumeFor(svc, declared, n, q.names[n])
    BY <1>3
  <1> HIDE DEF pv, cm, m
  <1>10. Joins(p.podVolumes, q.podVolumes, pv)
    BY <1>2, WithJoins DEF PlanInv, PodVolumesOk
  <1>11. PodVolumesOk(q.podVolumes, q.names, svc, declared)
    BY <1>3, <1>4, <1>9, <1>10 DEF PlanInv, PodVolumesOk, Extends, Joins
  <1>12. /\ pv.of = "configMap" => Joins(p.configMaps, q.configMaps, cm)
         /\ pv.of # "configMap" => q.configMaps = p.configMaps
    BY <1>2, WithJoins DEF PlanInv, ConfigMapsOk
  <1>13. ConfigMapsOk(q.configMaps, q.podVolumes, q.names, o)
    <2>1. CASE pv.of = "configMap"
      BY <2>1, <1>3, <1>4, <1>6, <1>8, <1>10, <1>12 DEF PlanInv, ConfigMapsOk, Extends, Joins
    <2>2. CASE pv.of # "configMap"
      BY <2>2, <1>3, <1>10, <1>12 DEF PlanInv, ConfigMapsOk, Extends, Joins
    <2> QED
      BY <2>1, <2>2
  <1>14. MountsOk(q.mounts, q.podVolumes, q.names, q.used, svc, o)
    <2>1. ASSUME NEW v \in DOMAIN p.mounts, v # vol
          PROVE  /\ v.dst # "" /\ q.mounts[v].dst = v.dst /\ (v.ro => q.mounts[v].ro)
                 /\ Lifted(o, FlagFor(svc, v.src))
                 /\ v.src \in DOMAIN svc.secretMounts => v.src \in q.used
                 /\ \E x \in Range(q.podVolumes) : x.name = q.mounts[v].name /\ q.names[x.name] = v.src
      <3>1. PICK x \in Range(p.podVolumes) : x.name = p.mounts[v].name /\ p.names[x.name] = v.src
        BY DEF PlanInv, MountsOk
      <3>2. x \in Range(q.podVolumes) /\ q.names[x.name] = v.src
        BY <3>1, <1>3, <1>10 DEF PlanInv, PodVolumesOk, Extends, Joins
      <3> QED
        BY <2>1, <3>1, <3>2, <1>2, <1>7 DEF PlanInv, MountsOk
    <2>2. \E x \in Range(q.podVolumes) : x.name = q.mounts[vol].name /\ q.names[x.name] = vol.src
      BY <1>3, <1>4, <1>5, <1>7, <1>10 DEF Joins
    <2>3. vol.src \in DOMAIN svc.secretMounts => vol.src \in q.used
      BY <1>2
    <2> QED
      BY <2>1, <2>2, <2>3, <1>5, <1>7 DEF MountsOk
  <1>15. DoneOk(vols \cup {vol}, q.mounts, q.refusals, q.overrides, svc, o)
    BY <1>2, <1>7 DEF PlanInv, DoneOk
  <1>16. SourcesOk(vols \cup {vol}, q.used, q.refusals, svc, o)
    BY <1>2, <1>7 DEF PlanInv, SourcesOk
  <1> QED
    BY <1>2, <1>3, <1>11, <1>13, <1>14, <1>15, <1>16 DEF PlanInv

\* The plan of all volumes of the service.
LEMMA VolumesPlanIs ==
  ASSUME NEW s, NEW svc, NEW declared, NEW o, NEW S, ServiceVolumes(svc) \in Seq(S)
  PROVE  PlanInv(VolumesPlan(s, svc, declared, o), Range(ServiceVolumes(svc)), svc, declared, o)
  <1> DEFINE q == ServiceVolumes(svc)
             N == Len(q)
             Done(k) == {q[i] : i \in 1..k}
  <1>1. N \in Nat /\ DOMAIN q = 1..N
    BY LenProperties
  <1>2. PICK g : PlanSteps(g, N, q, s, svc, declared, o) /\ VolumesPlan(s, svc, declared, o) = g[N]
    BY VolumesPlanSteps
  <1> DEFINE Bad == {k \in 0..N : ~PlanInv(g[k], Done(k), svc, declared, o)}
  <1>3. Bad = {}
    <2> SUFFICES ASSUME Bad # {} PROVE FALSE
      OBVIOUS
    <2>1. Bad \subseteq Nat
      BY <1>1
    <2>2. PICK k \in Bad : k \in Nat /\ \A m \in Nat : m < k => m \notin Bad
      <3> HIDE DEF Bad
      <3> QED
        BY <2>1, LeastNumber
    <2>3. CASE k = 0
      <3>1. Done(0) = {}
        OBVIOUS
      <3>2. g[0] = EmptyPlan
        BY <1>2 DEF PlanSteps
      <3>3. DOMAIN EmptyPlan.mounts = {} /\ DOMAIN EmptyPlan.names = {}
            /\ Range(EmptyPlan.podVolumes) = {} /\ Range(EmptyPlan.configMaps) = {}
        BY EmptyPlanIs DEF Range
      <3>4. <<>> \in Seq({})
        OBVIOUS
      <3>5. PlanInv(EmptyPlan, {}, svc, declared, o)
        BY <3>3, <3>4, EmptyPlanIs
           DEF PlanInv, NamesOk, PodVolumesOk, ConfigMapsOk, MountsOk, DoneOk, SourcesOk
      <3> QED
        BY <2>2, <2>3, <3>1, <3>2, <3>5
    <2>4. CASE k # 0
      <3>1. k - 1 \in Nat /\ k - 1 < k /\ k - 1 \in 0..N /\ k \in 1..N
        BY <1>1, <2>2, <2>4
      <3>2. PlanInv(g[k - 1], Done(k - 1), svc, declared, o)
        BY <2>2, <3>1
      <3>3. Done(k) = Done(k - 1) \cup {q[k]}
        <4>1. \A i : i \in 1..k <=> i \in 1..(k - 1) \/ i = k
          BY <3>1
        <4> HIDE DEF q
        <4> QED
          BY <4>1
      <3>4. g[k] = Add(g[k - 1], s, q[k], svc, declared, o)
        BY <1>2, <3>1 DEF PlanSteps
      <3> HIDE DEF Done, q, N
      <3>5. Added(g[k - 1], g[k], q[k], svc, declared, o)
        BY <3>2, <3>4, AddIs DEF PlanInv
      <3>6. PlanInv(g[k], Done(k - 1) \cup {q[k]}, svc, declared, o)
        BY <3>2, <3>5, InvSkipped, InvRefused, InvMounted DEF Added
      <3> QED
        BY <2>2, <3>3, <3>6
    <2> QED
      BY <2>3, <2>4
  <1>4. Done(N) = Range(q)
    BY <1>1 DEF Range
  <1>5. PlanInv(g[N], Done(N), svc, declared, o)
    <2>1. N \in 0..N
      BY <1>1
    <2> HIDE DEF Done, N
    <2> QED
      BY <1>3, <2>1
  <1> QED
    BY <1>2, <1>4, <1>5

(***************************************************************************)
(* The secret mounts that cover no volume are refused, whatever the flags. *)
(***************************************************************************)
ReportedPlan(p, t) ==
  PlanOf(p.mounts, p.podVolumes, p.configMaps, p.names, p.used, p.refusals \cup t, p.overrides,
         t # {})

LEMMA RefuseOneMore ==
  ASSUME NEW p, IsPlan(p), p.mustFix = FALSE, NEW t, NEW src
  PROVE  Refuse(ReportedPlan(p, t), src, "") = ReportedPlan(p, t \cup {src})
  <1> DEFINE r == ReportedPlan(p, t)
  <1>1. /\ IsPlan(r)
        /\ r.mounts = p.mounts /\ r.podVolumes = p.podVolumes /\ r.configMaps = p.configMaps
        /\ r.names = p.names /\ r.used = p.used /\ r.refusals = p.refusals \cup t
        /\ r.overrides = p.overrides
    BY DEF ReportedPlan, PlanOf, IsPlan
  <1> HIDE DEF r
  <1>2. Refuse(r, src, "") =
          PlanOf(r.mounts, r.podVolumes, r.configMaps, r.names, r.used,
                 r.refusals \cup {src},
                 IF "" = "" THEN r.overrides ELSE r.overrides \cup {""},
                 r.mustFix \/ "" = "")
    BY <1>1, RefuseIs
  <1>3. (r.mustFix \/ "" = "") = TRUE /\ (t \cup {src} # {}) = TRUE
    OBVIOUS
  <1>4. r.refusals \cup {src} = p.refusals \cup (t \cup {src})
    BY <1>1
  <1> QED
    BY <1>1, <1>2, <1>3, <1>4 DEF ReportedPlan, r

LEMMA ReportIs ==
  ASSUME NEW p, IsPlan(p), p.mustFix = FALSE, NEW svc, IsFiniteSet(DOMAIN svc.secretMounts)
  PROVE  ReportUnmatchedSecretMounts(p, svc) =
           ReportedPlan(p, DOMAIN svc.secretMounts \ p.used)
  <1> DEFINE D == DOMAIN svc.secretMounts \ p.used
             pick(t) == CHOOSE x \in t : TRUE
             Eq(f) == f = [t \in SUBSET D |->
                             IF t = {} THEN p ELSE Refuse(f[t \ {pick(t)}], pick(t), "")]
             G == [t \in SUBSET D |-> ReportedPlan(p, t)]
  <1>1. IsFiniteSet(D)
    BY FS_Difference
  <1>2. \A t : t # {} => pick(t) \in t
    OBVIOUS
  <1>3. ReportedPlan(p, {}) = p
    BY DEF ReportedPlan, IsPlan, PlanOf
  <1>4. ASSUME NEW t \in SUBSET D, t # {}
        PROVE  Refuse(ReportedPlan(p, t \ {pick(t)}), pick(t), "") = ReportedPlan(p, t)
    <2>1. (t \ {pick(t)}) \cup {pick(t)} = t
      BY <1>2, <1>4
    <2> DEFINE x == pick(t)
               rest == t \ {x}
               r == ReportedPlan(p, rest)
    <2>2. rest \cup {x} = t
      BY <2>1
    <2> HIDE DEF pick, x, rest
    <2> HIDE DEF r
    <2>3. \A u, v : Refuse(ReportedPlan(p, u), v, "") = ReportedPlan(p, u \cup {v})
      BY RefuseOneMore
    <2>4. Refuse(r, x, "") = ReportedPlan(p, rest \cup {x})
      BY <2>3 DEF r
    <2> QED
      BY <2>2, <2>4 DEF r, x, rest
  <1> HIDE DEF pick
  <1>5. Eq(G)
    <2>1. ASSUME NEW t \in SUBSET D
          PROVE  G[t] = IF t = {} THEN p ELSE Refuse(G[t \ {pick(t)}], pick(t), "")
      <3>1. t \ {pick(t)} \in SUBSET D
        OBVIOUS
      <3>2. G[t] = ReportedPlan(p, t) /\ G[t \ {pick(t)}] = ReportedPlan(p, t \ {pick(t)})
        BY <3>1
      <3> QED
        BY <3>2, <1>3, <1>4
    <2>2. G = [t \in SUBSET D |-> G[t]]
      OBVIOUS
    <2> HIDE DEF G
    <2> QED
      BY <2>1, <2>2
  <1> DEFINE f == CHOOSE x : Eq(x)
  <1>6. Eq(f)
    <2> HIDE DEF Eq, G
    <2> QED
      BY <1>5
  <1>7. ReportUnmatchedSecretMounts(p, svc) = f[D]
    BY DEF ReportUnmatchedSecretMounts, FoldSet, MapThenFoldSet, pick
  <1> HIDE DEF f
  <1>8. \A t \in SUBSET D : f[t] = IF t = {} THEN p ELSE Refuse(f[t \ {pick(t)}], pick(t), "")
    BY <1>6
  <1> DEFINE Wrong == {t \in SUBSET D : f[t] # ReportedPlan(p, t)}
             Bad == {Cardinality(t) : t \in Wrong}
  <1>9. \A t \in SUBSET D : IsFiniteSet(t) /\ Cardinality(t) \in Nat
    BY <1>1, FS_Subset, FS_CardinalityType
  <1>10. Wrong = {}
    <2> SUFFICES ASSUME NEW u \in Wrong PROVE FALSE
      OBVIOUS
    <2>1. Bad \subseteq Nat /\ Bad # {}
      BY <1>9
    <2>2. PICK n \in Bad : n \in Nat /\ \A m \in Nat : m < n => m \notin Bad
      <3> HIDE DEF Bad
      <3> QED
        BY <2>1, LeastNumber
    <2>3. PICK t \in Wrong : n = Cardinality(t)
      BY <2>2
    <2>4. t # {}
      BY <1>3, <1>8, <2>3
    <2> DEFINE r == t \ {pick(t)}
    <2>5. pick(t) \in t
      BY <1>2, <2>4
    <2>6. r \in SUBSET D /\ Cardinality(r) = Cardinality(t) - 1 /\ Cardinality(r) \in Nat
      BY <1>9, <2>3, <2>5, FS_RemoveElement
    <2>7. r \notin Wrong
      <3>1. Cardinality(r) < n /\ Cardinality(r) \in Nat
        BY <1>9, <2>3, <2>6
      <3>2. Cardinality(r) \notin Bad
        BY <2>2, <3>1
      <3> QED
        BY <3>2
    <2>8. f[r] = ReportedPlan(p, r)
      BY <2>6, <2>7
    <2> QED
      BY <1>4, <1>8, <2>3, <2>4, <2>8
  <1> QED
    BY <1>7, <1>10

\* The whole plan of a service.
LEMMA PlanVolumesIs ==
  ASSUME NEW s, NEW svc, NEW declared, NEW o, NEW S, ServiceVolumes(svc) \in Seq(S),
         IsFiniteSet(DOMAIN svc.secretMounts),
         NEW p, p = VolumesPlan(s, svc, declared, o)
  PROVE  PlanVolumes(s, svc, declared, o) = ReportedPlan(p, DOMAIN svc.secretMounts \ p.used)
  <1>1. PlanVolumes(s, svc, declared, o) = ReportUnmatchedSecretMounts(p, svc)
    BY DEF PlanVolumes, VolumesPlan
  <1>2. IsPlan(p) /\ p.mustFix = FALSE
    BY VolumesPlanIs DEF PlanInv
  <1> QED
    BY <1>1, <1>2, ReportIs

(***************************************************************************)
(* The plan of a service of a document.                                    *)
(***************************************************************************)
LEMMA ServiceVolumesAre ==
  ASSUME NEW svc, IsService(svc)
  PROVE  /\ ServiceVolumes(svc) \in Seq(VolumesOf(svc))
         /\ Range(ServiceVolumes(svc)) = VolumesOf(svc)
  <1> DEFINE S == VolumesOf(svc)
             qs == [i \in DOMAIN svc.inits |-> svc.inits[i].vols]
             N == Len(svc.inits)
  <1>1. N \in Nat /\ DOMAIN svc.inits = 1..N
    BY LenProperties DEF IsService
  <1>2. \A i \in DOMAIN svc.inits : svc.inits[i].vols \in Seq(S)
    BY DEF IsService, VolumesOf
  <1>3. svc.vols \in Seq(S)
    BY DEF IsService, VolumesOf
  <1>4. qs \in Seq(Seq(S)) /\ DOMAIN qs = DOMAIN svc.inits
    <2> HIDE DEF S
    <2> QED
      BY <1>1, <1>2
  <1>5. \A i \in DOMAIN svc.inits : qs[i] = svc.inits[i].vols
    OBVIOUS
  <1>6. ServiceVolumes(svc) = svc.vols \o FlattenSeq(qs)
    BY DEF ServiceVolumes
  <1> HIDE DEF qs, S
  <1>7. FlattenSeq(qs) \in Seq(S) /\ Range(FlattenSeq(qs)) = UNION {Range(qs[i]) : i \in DOMAIN qs}
    BY <1>4, FlattenIs
  <1> DEFINE r == FlattenSeq(qs)
             q == svc.vols
  <1> HIDE DEF r, q
  <1>8. q \o r \in Seq(S) /\ Range(q \o r) = Range(q) \cup Range(r)
    BY <1>3, <1>7, ConcatRange DEF q, r
  <1>9. Range(r) = UNION {Range(svc.inits[i].vols) : i \in DOMAIN svc.inits}
    BY <1>4, <1>5, <1>7 DEF r
  <1> QED
    BY <1>6, <1>8, <1>9 DEF VolumesOf, S, q, r

\* Those of the service's secret mounts that cover no volume.
Unmatched(svc) ==
  {src \in DOMAIN svc.secretMounts :
     ~\E vol \in VolumesOf(svc) : vol.dst # "" /\ vol.src = src}

\* A volume that is to be mounted and needs a flag that is not given.
Unlifted(svc, o) ==
  {vol \in VolumesOf(svc) : vol.dst # "" /\ ~Lifted(o, FlagFor(svc, vol.src))}

\* What the plan of a service that is not refused gives it.
PlanMatches(p, svc, declared, o) ==
  /\ PodVolumesOk(p.podVolumes, p.names, svc, declared)
  /\ ConfigMapsOk(p.configMaps, p.podVolumes, p.names, o)
  /\ MountsOk(p.mounts, p.podVolumes, p.names, p.used, svc, o)
  /\ \A vol \in VolumesOf(svc) : vol.dst # "" => vol \in DOMAIN p.mounts

\* Whether it is refused depends on the document and the flags alone.
PlanIs(p, svc, declared, o) ==
  /\ p.mustFix <=> Unmatched(svc) # {}
  /\ p.refusals # {} <=> Unmatched(svc) # {} \/ Unlifted(svc, o) # {}
  /\ \A vol \in Unlifted(svc, o) : FlagFor(svc, vol.src) \in p.overrides
  /\ p.configMaps \in Seq(Range(p.configMaps))
  /\ p.refusals = {} => PlanMatches(p, svc, declared, o)

LEMMA PlanOfService ==
  ASSUME NEW s, NEW svc, IsService(svc), NEW declared, NEW o
  PROVE  PlanIs(PlanVolumes(s, svc, declared, o), svc, declared, o)
  <1> DEFINE p == VolumesPlan(s, svc, declared, o)
             U == DOMAIN svc.secretMounts \ p.used
             P == PlanVolumes(s, svc, declared, o)
  <1>1. PlanInv(p, VolumesOf(svc), svc, declared, o)
    BY ServiceVolumesAre, VolumesPlanIs
  <1>2. P = ReportedPlan(p, U)
    <2>1. ServiceVolumes(svc) \in Seq(VolumesOf(svc)) /\ IsFiniteSet(DOMAIN svc.secretMounts)
      BY ServiceVolumesAre DEF IsService
    <2>2. p = VolumesPlan(s, svc, declared, o)
      OBVIOUS
    <2> HIDE DEF p
    <2> QED
      BY <2>1, <2>2, PlanVolumesIs
  <1> HIDE DEF p, P
  <1>3. /\ P.mounts = p.mounts /\ P.podVolumes = p.podVolumes /\ P.configMaps = p.configMaps
        /\ P.names = p.names /\ P.used = p.used /\ P.refusals = p.refusals \cup U
        /\ P.overrides = p.overrides /\ P.mustFix = (U # {})
    <2> HIDE DEF U
    <2> QED
      BY <1>2 DEF ReportedPlan, PlanOf
  <1>4. ASSUME NEW vol \in VolumesOf(svc), vol.dst # ""
        PROVE  /\ vol.src \in DOMAIN svc.secretMounts => vol.src \in p.used
               /\ ~Lifted(o, FlagFor(svc, vol.src)) =>
                    vol.src \in p.refusals /\ FlagFor(svc, vol.src) \in p.overrides
               /\ p.refusals = {} => vol \in DOMAIN p.mounts
    <2>1. \/ vol \in DOMAIN p.mounts
          \/ /\ vol.src \in p.refusals /\ FlagFor(svc, vol.src) \in p.overrides
             /\ ~Lifted(o, FlagFor(svc, vol.src))
      BY <1>1, <1>4 DEF PlanInv, DoneOk
    <2>2. vol \in DOMAIN p.mounts =>
            /\ Lifted(o, FlagFor(svc, vol.src))
            /\ vol.src \in DOMAIN svc.secretMounts => vol.src \in p.used
      BY <1>1 DEF PlanInv, MountsOk
    <2>3. vol.src \in DOMAIN svc.secretMounts => Lifted(o, FlagFor(svc, vol.src))
      BY DEF Lifted, FlagFor
    <2> QED
      BY <2>1, <2>2, <2>3
  <1>5. \A src \in p.used : \E vol \in VolumesOf(svc) : vol.dst # "" /\ vol.src = src
    BY <1>1 DEF PlanInv, SourcesOk
  <1>6. U = Unmatched(svc)
    BY <1>4, <1>5 DEF Unmatched
  <1>7. p.refusals # {} <=> Unlifted(svc, o) # {}
    <2>1. \A src \in p.refusals :
            /\ ~Lifted(o, FlagFor(svc, src))
            /\ \E vol \in VolumesOf(svc) : vol.dst # "" /\ vol.src = src
      BY <1>1 DEF PlanInv, SourcesOk
    <2> QED
      BY <1>4, <2>1 DEF Unlifted
  <1>8. \A vol \in Unlifted(svc, o) : FlagFor(svc, vol.src) \in P.overrides
    BY <1>3, <1>4 DEF Unlifted
  <1>9. P.configMaps \in Seq(Range(P.configMaps))
    BY <1>1, <1>3 DEF PlanInv, ConfigMapsOk
  <1>10. P.refusals = {} => PlanMatches(P, svc, declared, o)
    BY <1>1, <1>3, <1>4 DEF PlanMatches, PlanInv
  <1>11. P.refusals # {} <=> Unmatched(svc) # {} \/ Unlifted(svc, o) # {}
    BY <1>3, <1>6, <1>7
  <1>12. P.mustFix <=> Unmatched(svc) # {}
    <2> HIDE DEF U
    <2> QED
      BY <1>3, <1>6
  <1> QED
    BY <1>8, <1>9, <1>10, <1>11, <1>12 DEF PlanIs, P

LEMMA PlansAre ==
  ASSUME NEW d, IsDocument(d), NEW o
  PROVE  LET ps == PlanComposition(d, o)
         IN  /\ DOMAIN ps = DOMAIN d.services
             /\ \A s \in DOMAIN d.services : PlanIs(ps[s], d.services[s], d.volumes, o)
BY PlanOfService DEF PlanComposition, IsDocument

\* A refusal names the flags that lift it.
LEMMA FlagsSuffice ==
  ASSUME NEW d, IsDocument(d), NEW o, NEW ps, ps = PlanComposition(d, o),
         NEW more, more = [empty |-> o.empty \/ "empty" \in Overrides(ps),
                           keys |-> o.keys \/ "keys" \in Overrides(ps)]
  PROVE  Refused(PlanComposition(d, more)) <=> MustFix(ps)
  <1> DEFINE qs == PlanComposition(d, more)
  <1>1. /\ DOMAIN ps = DOMAIN d.services /\ DOMAIN qs = DOMAIN d.services
        /\ \A s \in DOMAIN d.services : PlanIs(ps[s], d.services[s], d.volumes, o)
        /\ \A s \in DOMAIN d.services : PlanIs(qs[s], d.services[s], d.volumes, more)
    BY PlansAre
  <1>2. ASSUME NEW s \in DOMAIN d.services, NEW vol \in Unlifted(d.services[s], more)
        PROVE  FALSE
    <2> DEFINE flag == FlagFor(d.services[s], vol.src)
    <2>1. ~Lifted(more, flag)
      BY DEF Unlifted
    <2>2. ~Lifted(o, flag)
      BY <2>1 DEF Lifted
    <2>3. flag \in ps[s].overrides
      BY <1>1, <2>2 DEF PlanIs, Unlifted
    <2>4. flag \in Overrides(ps)
      BY <1>1, <2>3 DEF Overrides
    <2>5. flag \in {"none", "empty", "keys"}
      BY DEF FlagFor
    <2> HIDE DEF flag
    <2> QED
      BY <2>1, <2>4, <2>5 DEF Lifted
  <1> HIDE DEF qs
  <1>3. \A s \in DOMAIN d.services : qs[s].refusals # {} <=> ps[s].mustFix
    BY <1>1, <1>2 DEF PlanIs
  <1>4. Refused(qs) <=> MustFix(ps)
    BY <1>1, <1>3 DEF Refused, MustFix
  <1> QED
    BY <1>4 DEF qs

(***************************************************************************)
(* The filter leaves a document.                                           *)
(***************************************************************************)
LEMMA DependenciesAreServices ==
  ASSUME NEW comp, IsFiniteSet(DOMAIN comp), NEW matched \in SUBSET DOMAIN comp
  PROVE  IncludeDepsTransitive(comp, matched) \subseteq DOMAIN comp
  <1> DEFINE D == DOMAIN comp
             K == Cardinality(D)
             V == SUBSET D
             Next1(last) == last \cup {d \in D : \E s \in last : d \in DepsOf(comp, s)}
             step == [x \in (1..K) \X V |-> Next1(x[2])]
             Eq(f) == f = [n \in 0..K |-> IF n = 0 THEN matched ELSE Next1(f[n - 1])]
  <1>1. K \in Nat
    BY FS_CardinalityType
  <1>2. \A k \in 1..K : \A v \in V : step[<<k, v>>] = Next1(v) /\ Next1(v) \in V
    OBVIOUS
  <1> HIDE DEF step, Next1
  <1>3. StepsWithin(K, V, step)
    <2> HIDE DEF K, V
    <2> QED
      BY <1>2 DEF StepsWithin
  <1>4. PICK h : Recurses(K, V, matched, step, h)
    <2>1. matched \in V
      OBVIOUS
    <2> HIDE DEF K, V
    <2> QED
      BY <1>1, <1>3, <2>1, NumberRecursion
  <1>5. Eq(h)
    <2> HIDE DEF K, V
    <2>1. h = [n \in 0..K |-> h[n]] /\ h[0] = matched
      BY <1>4 DEF Recurses
    <2>2. ASSUME NEW n \in 0..K, n # 0 PROVE h[n] = Next1(h[n - 1])
      <3>1. n \in 1..K /\ n - 1 \in 0..K
        BY <1>1, <2>2
      <3>2. h[n - 1] \in V /\ h[n] = step[<<n, h[n - 1]>>]
        BY <1>4, <3>1 DEF Recurses
      <3> QED
        BY <1>2, <3>1, <3>2
    <2>3. \A n \in 0..K : h[n] = IF n = 0 THEN matched ELSE Next1(h[n - 1])
      BY <2>1, <2>2
    <2> QED
      BY <2>1, <2>3
  <1> DEFINE f == CHOOSE x : Eq(x)
  <1>6. Eq(f)
    <2> HIDE DEF Eq
    <2> QED
      BY <1>5
  <1>7. IncludeDepsTransitive(comp, matched) = f[K]
    BY DEF IncludeDepsTransitive, Next1
  <1> HIDE DEF f
  <1>8. \A n \in 0..K : f[n] = IF n = 0 THEN matched ELSE Next1(f[n - 1])
    <2> HIDE DEF K
    <2> QED
      BY <1>6
  <1> DEFINE Bad == {n \in 0..K : f[n] \notin V}
  <1>9. Bad = {}
    <2> SUFFICES ASSUME Bad # {} PROVE FALSE
      OBVIOUS
    <2>1. Bad \subseteq Nat
      BY <1>1
    <2>2. PICK n \in Bad : n \in Nat /\ \A m \in Nat : m < n => m \notin Bad
      <3> HIDE DEF Bad
      <3> QED
        BY <2>1, LeastNumber
    <2>3. n # 0
      BY <1>8, <2>2
    <2> HIDE DEF K, V
    <2>4. n - 1 \in Nat /\ n - 1 < n /\ n - 1 \in 0..K /\ n \in 1..K
      BY <1>1, <2>2, <2>3
    <2>5. f[n - 1] \in V
      BY <2>2, <2>4
    <2>6. f[n] = Next1(f[n - 1])
      BY <1>8, <2>2, <2>3
    <2> QED
      BY <1>2, <2>2, <2>4, <2>5, <2>6
  <1>10. K \in 0..K
    BY <1>1
  <1>11. f[K] \in V
    <2> HIDE DEF K, V
    <2> QED
      BY <1>9, <1>10
  <1> QED
    BY <1>7, <1>11

LEMMA FilteredIsDocument ==
  ASSUME NEW d, IsDocument(d), NEW e,
         e = [d EXCEPT !.services = FilterByProfiles(d.services, Active)]
  PROVE  IsDocument(e)
  <1> DEFINE comp == d.services
             direct == {s \in DOMAIN comp : ServiceMatchesProfile(comp[s], Active)}
             R == IncludeDepsTransitive(comp, direct)
             few == Restrict(comp, R)
             out == PruneDanglingDeps(few)
             Deps(s) == Restrict(few[s].deps, DOMAIN few[s].deps \cap DOMAIN few)
  <1>1. IsFiniteSet(DOMAIN comp) /\ DOMAIN comp \subseteq Range(NameSeq)
    BY SortedNamesLists DEF IsDocument
  <1>2. R \subseteq DOMAIN comp
    BY <1>1, DependenciesAreServices
  <1>3. FilterByProfiles(comp, Active) = out
    BY DEF FilterByProfiles
  <1> HIDE DEF comp, R
  <1>4. DOMAIN few = R /\ \A s \in R : few[s] = comp[s]
    BY DEF Restrict
  <1> HIDE DEF few
  <1>5. DOMAIN out = R /\ \A s \in R : out[s] = [few[s] EXCEPT !.deps = Deps(s)]
    BY <1>4 DEF PruneDanglingDeps
  <1> HIDE DEF out, Deps
  <1>6. ASSUME NEW s \in R PROVE IsService(out[s])
    <2> DEFINE a == comp[s]
               b == out[s]
               x == Deps(s)
    <2>1. IsService(a)
      BY <1>2 DEF IsDocument, comp
    <2>2. b = [a EXCEPT !.deps = x]
      BY <1>4, <1>5
    <2> HIDE DEF a, b, x
    <2>3. /\ DOMAIN b = DOMAIN a
          /\ b.vols = a.vols /\ b.inits = a.inits /\ b.secretMounts = a.secretMounts
          /\ b.named = a.named
      BY <2>1, <2>2 DEF IsService
    <2>4. VolumesOf(b) = VolumesOf(a)
      BY <2>3 DEF VolumesOf
    <2>5. IsService(b)
      BY <2>1, <2>3, <2>4 DEF IsService
    <2> QED
      BY <2>5 DEF b
  <1>7. /\ DOMAIN e = DOMAIN d /\ e.services = out /\ e.volumes = d.volumes
    <2> HIDE DEF direct
    <2> QED
      BY <1>3 DEF IsDocument, comp
  <1> QED
    BY <1>1, <1>2, <1>5, <1>6, <1>7 DEF IsDocument

(***************************************************************************)
(* The manifests.                                                          *)
(***************************************************************************)
LEMMA TableIsList ==
  ASSUME NEW N \in Nat, NEW f, f = [i \in 1..N |-> f[i]]
  PROVE  /\ f \in Seq(Range(f)) /\ DOMAIN f = 1..N
         /\ \A i \in 1..N : f[i] \in Range(f)
         /\ \A x \in Range(f) : \E i \in 1..N : x = f[i]
  <1>1. DOMAIN f = 1..N
    OBVIOUS
  <1>2. \A i \in 1..N : f[i] \in Range(f)
    BY <1>1 DEF Range
  <1>3. \A x \in Range(f) : \E i \in 1..N : x = f[i]
    BY <1>1 DEF Range
  <1>4. f \in [1..N -> Range(f)]
    BY <1>2
  <1> QED
    BY <1>1, <1>2, <1>3, <1>4

LEMMA ObjectIs ==
  ASSUME NEW kind, NEW name
  PROVE  /\ Object(kind, name).kind = kind /\ Object(kind, name).name = name
         /\ Object(kind, name).secretRef = FALSE
BY DEF Object

\* The names of a set of services, one after the other.
LEMMA SortedNamesAre ==
  ASSUME NEW S, S \subseteq Range(NameSeq), NEW names, names = SortedNames(S)
  PROVE  /\ Len(names) \in Nat /\ DOMAIN names = 1..Len(names)
         /\ \A i \in 1..Len(names) : names[i] \in S
         /\ \A s \in S : \E i \in 1..Len(names) : names[i] = s
  <1>1. Lists(names, S)
    BY SortedNamesLists
  <1>2. names \in Seq(S) /\ \A s \in S : \E i \in 1..Len(names) : names[i] = s
    BY <1>1 DEF Lists
  <1> QED
    BY <1>2, LenProperties

LEMMA ConvertSecretsIs ==
  ASSUME NEW d, IsDocument(d), NEW r, r = ConvertSecrets(d)
  PROVE  /\ r \in Seq(Range(r))
         /\ \A m \in Range(r) : m.kind = "Secret"
         /\ \A s \in DOMAIN d.services : ResolveSecrets(d, s) # <<>> => ConvertSecret(s) \in Range(r)
  <1> DEFINE S == {s \in DOMAIN d.services : ResolveSecrets(d, s) # <<>>}
             names == SortedNames(S)
  <1>1. S \subseteq Range(NameSeq)
    BY DEF IsDocument
  <1>2. r = [i \in DOMAIN names |-> ConvertSecret(names[i])]
    BY DEF ConvertSecrets
  <1>3. /\ Len(names) \in Nat /\ DOMAIN names = 1..Len(names)
        /\ \A s \in S : \E i \in 1..Len(names) : names[i] = s
    <2> HIDE DEF S
    <2> QED
      BY <1>1, SortedNamesAre
  <1> HIDE DEF names
  <1>4. /\ r = [i \in 1..Len(names) |-> r[i]]
        /\ \A i \in 1..Len(names) : r[i] = ConvertSecret(names[i])
    BY <1>2, <1>3
  <1>5. /\ r \in Seq(Range(r))
        /\ \A i \in 1..Len(names) : r[i] \in Range(r)
        /\ \A x \in Range(r) : \E i \in 1..Len(names) : x = r[i]
    BY <1>3, <1>4, TableIsList
  <1>6. \A s : ConvertSecret(s).kind = "Secret"
    BY ObjectIs DEF ConvertSecret
  <1> QED
    BY <1>3, <1>4, <1>5, <1>6

LEMMA ConvertPVCsIs ==
  ASSUME NEW d, IsDocument(d), NEW r, r = ConvertPVCs(d)
  PROVE  r \in Seq(Range(r)) /\ \A m \in Range(r) : m.kind = "PVC"
  <1> DEFINE names == SetToSeq(d.volumes)
             N == Cardinality(d.volumes)
  <1>1. N \in Nat
    BY FS_CardinalityType DEF IsDocument
  <1>2. \E f \in [1..N -> d.volumes] : IsInjective(f)
    <2>1. PICK f : f \in Bijection(1..N, d.volumes)
      BY FS_CardinalityType DEF ExistsBijection, IsDocument
    <2> QED
      BY <2>1 DEF Bijection, Injection, IsInjective
  <1>3. names \in [1..N -> d.volumes]
    BY <1>2 DEF SetToSeq
  <1>4. r = [i \in DOMAIN names |-> ConvertPVC(names[i])]
    BY DEF ConvertPVCs
  <1> HIDE DEF names, N
  <1>5. r = [i \in 1..N |-> r[i]] /\ \A i \in 1..N : r[i] = ConvertPVC(names[i])
    BY <1>3, <1>4
  <1>6. /\ r \in Seq(Range(r)) /\ DOMAIN r = 1..N
        /\ \A i \in 1..N : r[i] \in Range(r)
        /\ \A x \in Range(r) : \E i \in 1..N : x = r[i]
    <2>1. r = [i \in 1..N |-> r[i]]
      BY <1>5
    <2> QED
      BY <1>1, <2>1, TableIsList
  <1>7. \A v : ConvertPVC(v).kind = "PVC"
    BY ObjectIs DEF ConvertPVC
  <1> QED
    BY <1>5, <1>6, <1>7

\* Joining a list of lists, one for each of the names.
LEMMA FlattenNames ==
  ASSUME NEW S, S \subseteq Range(NameSeq), NEW names, names = SortedNames(S),
         NEW qs, qs = [i \in DOMAIN names |-> qs[i]],
         \A i \in DOMAIN names : qs[i] \in Seq(Range(qs[i]))
  PROVE  /\ FlattenSeq(qs) \in Seq(Range(FlattenSeq(qs)))
         /\ Range(FlattenSeq(qs)) = UNION {Range(qs[i]) : i \in DOMAIN names}
  <1> DEFINE N == Len(names)
             T == UNION {Range(qs[i]) : i \in 1..N}
  <1>1. N \in Nat /\ DOMAIN names = 1..N
    BY SortedNamesAre
  <1>2. \A i \in 1..N : qs[i] \in Seq(T)
    <2> SUFFICES ASSUME NEW i \in 1..N PROVE qs[i] \in Seq(T)
      OBVIOUS
    <2>1. qs[i] \in Seq(Range(qs[i])) /\ Range(qs[i]) \subseteq T
      BY <1>1
    <2> HIDE DEF T
    <2> QED
      BY <2>1
  <1>3. qs \in Seq(Seq(T)) /\ DOMAIN qs = 1..N
    <2> HIDE DEF T, N
    <2>1. qs \in [1..N -> Seq(T)]
      BY <1>1, <1>2
    <2> QED
      BY <1>1, <2>1
  <1>4. /\ FlattenSeq(qs) \in Seq(T)
        /\ Range(FlattenSeq(qs)) = UNION {Range(qs[i]) : i \in DOMAIN qs}
    <2> HIDE DEF T
    <2> QED
      BY <1>3, FlattenIs
  <1> QED
    BY <1>1, <1>3, <1>4

\* Each plan has a list of ConfigMaps.
HasConfigMaps(d, ps) ==
  \A s \in DOMAIN d.services : ps[s].configMaps \in Seq(Range(ps[s].configMaps))

\* The ConfigMap object of a planned one.
ConfigMapOf(cm) == [Object("ConfigMap", cm.name) EXCEPT !.src = cm.src]

LEMMA ConfigMapOfIs ==
  ASSUME NEW cm
  PROVE  /\ ConfigMapOf(cm).kind = "ConfigMap" /\ ConfigMapOf(cm).src = cm.src
         /\ ConfigMapOf(cm).name = cm.name
BY DEF ConfigMapOf, Object

LEMMA ConvertConfigMapsIs ==
  ASSUME NEW d, IsDocument(d), NEW ps, HasConfigMaps(d, ps), NEW r, r = ConvertConfigMaps(d, ps)
  PROVE  /\ r \in Seq(Range(r))
         /\ \A m \in Range(r) :
              \E s \in DOMAIN d.services : \E cm \in Range(ps[s].configMaps) : m = ConfigMapOf(cm)
         /\ \A s \in DOMAIN d.services : \A cm \in Range(ps[s].configMaps) :
              ConfigMapOf(cm) \in Range(r)
  <1> DEFINE names == SortedNames(DOMAIN d.services)
             Of(s) == [i \in DOMAIN ps[s].configMaps |-> ConfigMapOf(ps[s].configMaps[i])]
             qs == [i \in DOMAIN names |-> Of(names[i])]
  <1>1. DOMAIN d.services \subseteq Range(NameSeq)
    BY DEF IsDocument
  <1>2. /\ DOMAIN names = 1..Len(names)
        /\ \A i \in 1..Len(names) : names[i] \in DOMAIN d.services
        /\ \A s \in DOMAIN d.services : \E i \in 1..Len(names) : names[i] = s
    BY <1>1, SortedNamesAre
  <1>3. r = FlattenSeq(qs)
    BY DEF ConvertConfigMaps, ConfigMapOf
  <1>4. ASSUME NEW s \in DOMAIN d.services
        PROVE  /\ Of(s) \in Seq(Range(Of(s)))
               /\ \A m \in Range(Of(s)) : \E cm \in Range(ps[s].configMaps) : m = ConfigMapOf(cm)
               /\ \A cm \in Range(ps[s].configMaps) : ConfigMapOf(cm) \in Range(Of(s))
    <2> DEFINE cms == ps[s].configMaps
               f == Of(s)
               N == Len(cms)
    <2>1. N \in Nat /\ DOMAIN cms = 1..N
      BY LenProperties DEF HasConfigMaps
    <2>2. f = [i \in 1..N |-> f[i]] /\ \A i \in 1..N : f[i] = ConfigMapOf(cms[i])
      BY <2>1
    <2> HIDE DEF f, cms, N
    <2>3. /\ f \in Seq(Range(f)) /\ \A x \in Range(f) : \E i \in 1..N : x = f[i]
          /\ \A i \in 1..N : f[i] \in Range(f)
      BY <2>1, <2>2, TableIsList
    <2>4. /\ \A i \in 1..N : cms[i] \in Range(cms)
          /\ \A cm \in Range(cms) : \E i \in 1..N : cm = cms[i]
      BY <2>1 DEF Range
    <2> QED
      BY <2>2, <2>3, <2>4 DEF f, cms
  <1>5. qs = [i \in DOMAIN names |-> qs[i]] /\ \A i \in DOMAIN names : qs[i] = Of(names[i])
    OBVIOUS
  <1> DEFINE S == DOMAIN d.services
  <1> HIDE DEF qs, Of, S, names
  <1>6. \A i \in DOMAIN names : qs[i] \in Seq(Range(qs[i]))
    BY <1>2, <1>4, <1>5 DEF S
  <1>7. /\ FlattenSeq(qs) \in Seq(Range(FlattenSeq(qs)))
        /\ Range(FlattenSeq(qs)) = UNION {Range(qs[i]) : i \in DOMAIN names}
    <2>1. S \subseteq Range(NameSeq) /\ names = SortedNames(S)
      BY <1>1 DEF S, names
    <2>2. qs = [i \in DOMAIN names |-> qs[i]]
      BY <1>5
    <2> QED
      BY <2>1, <2>2, <1>6, FlattenNames
  <1>8. \A m \in Range(r) :
          \E s \in DOMAIN d.services : \E cm \in Range(ps[s].configMaps) : m = ConfigMapOf(cm)
    BY <1>2, <1>3, <1>4, <1>5, <1>7
  <1>9. ASSUME NEW s \in DOMAIN d.services, NEW cm \in Range(ps[s].configMaps)
        PROVE  ConfigMapOf(cm) \in Range(r)
    <2>1. PICK i \in DOMAIN names : names[i] = s
      BY <1>2
    <2>2. ConfigMapOf(cm) \in Range(qs[i])
      BY <2>1, <1>4, <1>5
    <2> QED
      BY <2>2, <1>3, <1>7
  <1> QED
    BY <1>3, <1>7, <1>8, <1>9

\* The workload of a service.
WorkloadOf(d, ps, s) ==
  IF d.services[s].job THEN ConvertJob(s, d.services[s], ps[s])
  ELSE ConvertDeployment(s, d.services[s], ps[s])

\* The container of it, and its init containers.
IsWorkload(w, d, ps, s) ==
  /\ w.kind \in {"Job", "Deployment"} /\ w.name = <<s>>
  /\ w.volumes = ps[s].podVolumes
  /\ w.mounts = MountsFor(ps[s], d.services[s].vols)
  /\ w.inits = ConvertInitContainers(ps[s], d.services[s])
  /\ w.ports = ContainerPorts(d.services[s])

ManifestOf(kind, name, src, volumes, mounts, inits, secretRef, ports) ==
  [kind |-> kind, name |-> name, src |-> src, volumes |-> volumes, mounts |-> mounts,
   inits |-> inits, secretRef |-> secretRef, ports |-> ports]

IsManifest(m) ==
  m = ManifestOf(m.kind, m.name, m.src, m.volumes, m.mounts, m.inits, m.secretRef, m.ports)

LEMMA ManifestExcept ==
  ASSUME NEW m, IsManifest(m), NEW x
  PROVE  /\ [m EXCEPT !.kind = x] =
              ManifestOf(x, m.name, m.src, m.volumes, m.mounts, m.inits, m.secretRef, m.ports)
         /\ [m EXCEPT !.volumes = x] =
              ManifestOf(m.kind, m.name, m.src, x, m.mounts, m.inits, m.secretRef, m.ports)
         /\ [m EXCEPT !.mounts = x] =
              ManifestOf(m.kind, m.name, m.src, m.volumes, x, m.inits, m.secretRef, m.ports)
         /\ [m EXCEPT !.inits = x] =
              ManifestOf(m.kind, m.name, m.src, m.volumes, m.mounts, x, m.secretRef, m.ports)
         /\ [m EXCEPT !.secretRef = x] =
              ManifestOf(m.kind, m.name, m.src, m.volumes, m.mounts, m.inits, x, m.ports)
         /\ [m EXCEPT !.ports = x] =
              ManifestOf(m.kind, m.name, m.src, m.volumes, m.mounts, m.inits, m.secretRef, x)
BY DEF ManifestOf, IsManifest

LEMMA WorkloadOfIs ==
  ASSUME NEW d, NEW ps, NEW s
  PROVE  IsWorkload(WorkloadOf(d, ps, s), d, ps, s)
  <1> DEFINE svc == d.services[s]
             p == ps[s]
             a == p.podVolumes
             b == MountsFor(p, svc.vols)
             c == ConvertInitContainers(p, svc)
             e == SetEnvFrom(svc)
             f == ContainerPorts(svc)
             dep == ConvertDeployment(s, svc, p)
             job == [dep EXCEPT !.kind = "Job"]
             n == <<s>>
  <1>1. /\ IsManifest(dep) /\ dep.kind = "Deployment" /\ dep.name = n
        /\ dep.volumes = a /\ dep.mounts = b /\ dep.inits = c
        /\ dep.secretRef = e /\ dep.ports = f
    <2>1. dep = [Object("Deployment", n) EXCEPT !.volumes = a, !.mounts = b, !.inits = c,
                                               !.secretRef = e, !.ports = f]
      BY DEF ConvertDeployment
    <2> HIDE DEF a, b, c, e, f, n, dep
    <2> DEFINE o0 == Object("Deployment", n)
               o1 == [o0 EXCEPT !.volumes = a]
               o2 == [o1 EXCEPT !.mounts = b]
               o3 == [o2 EXCEPT !.inits = c]
               o4 == [o3 EXCEPT !.secretRef = e]
               o5 == [o4 EXCEPT !.ports = f]
    <2>0. dep = o5
      BY <2>1
    <2>2. /\ IsManifest(o0) /\ o0.kind = "Deployment" /\ o0.name = n
          /\ o0.src = "" /\ o0.volumes = <<>> /\ o0.mounts = {}
          /\ o0.inits = <<>> /\ o0.secretRef = FALSE /\ o0.ports = {}
      BY DEF Object, IsManifest, ManifestOf
    <2> HIDE DEF o0
    <2>3. /\ IsManifest(o1) /\ o1.kind = "Deployment" /\ o1.name = n
          /\ o1.src = "" /\ o1.volumes = a /\ o1.mounts = {}
          /\ o1.inits = <<>> /\ o1.secretRef = FALSE /\ o1.ports = {}
      <3>1. o1 = ManifestOf(o0.kind, o0.name, o0.src, a, o0.mounts, o0.inits, o0.secretRef, o0.ports)
        BY <2>2, ManifestExcept
      <3> HIDE DEF o1
      <3> QED
        BY <2>2, <3>1 DEF ManifestOf, IsManifest
    <2> HIDE DEF o1
    <2>4. /\ IsManifest(o2) /\ o2.kind = "Deployment" /\ o2.name = n
          /\ o2.src = "" /\ o2.volumes = a /\ o2.mounts = b
          /\ o2.inits = <<>> /\ o2.secretRef = FALSE /\ o2.ports = {}
      <3>1. o2 = ManifestOf(o1.kind, o1.name, o1.src, o1.volumes, b, o1.inits, o1.secretRef, o1.ports)
        BY <2>3, ManifestExcept
      <3> HIDE DEF o2
      <3> QED
        BY <2>3, <3>1 DEF ManifestOf, IsManifest
    <2> HIDE DEF o2
    <2>5. /\ IsManifest(o3) /\ o3.kind = "Deployment" /\ o3.name = n
          /\ o3.src = "" /\ o3.volumes = a /\ o3.mounts = b
          /\ o3.inits = c /\ o3.secretRef = FALSE /\ o3.ports = {}
      <3>1. o3 = ManifestOf(o2.kind, o2.name, o2.src, o2.volumes, o2.mounts, c, o2.secretRef, o2.ports)
        BY <2>4, ManifestExcept
      <3> HIDE DEF o3
      <3> QED
        BY <2>4, <3>1 DEF ManifestOf, IsManifest
    <2> HIDE DEF o3
    <2>6. /\ IsManifest(o4) /\ o4.kind = "Deployment" /\ o4.name = n
          /\ o4.src = "" /\ o4.volumes = a /\ o4.mounts = b
          /\ o4.inits = c /\ o4.secretRef = e /\ o4.ports = {}
      <3>1. o4 = ManifestOf(o3.kind, o3.name, o3.src, o3.volumes, o3.mounts, o3.inits, e, o3.ports)
        BY <2>5, ManifestExcept
      <3> HIDE DEF o4
      <3> QED
        BY <2>5, <3>1 DEF ManifestOf, IsManifest
    <2> HIDE DEF o4
    <2>7. /\ IsManifest(o5) /\ o5.kind = "Deployment" /\ o5.name = n
          /\ o5.src = "" /\ o5.volumes = a /\ o5.mounts = b
          /\ o5.inits = c /\ o5.secretRef = e /\ o5.ports = f
      <3>1. o5 = ManifestOf(o4.kind, o4.name, o4.src, o4.volumes, o4.mounts, o4.inits, o4.secretRef, f)
        BY <2>6, ManifestExcept
      <3> HIDE DEF o5
      <3> QED
        BY <2>6, <3>1 DEF ManifestOf, IsManifest
    <2> HIDE DEF o5
    <2> QED
      BY <2>0, <2>7
  <1>2. ConvertJob(s, svc, p) = job
    BY DEF ConvertJob
  <1> HIDE DEF dep, a, b, c, e, f, n
  <1>3. /\ job.kind = "Job" /\ job.name = n
        /\ job.volumes = a /\ job.mounts = b /\ job.inits = c
        /\ job.secretRef = e /\ job.ports = f
    <2>1. job = ManifestOf("Job", dep.name, dep.src, dep.volumes, dep.mounts, dep.inits,
                           dep.secretRef, dep.ports)
      BY <1>1, ManifestExcept
    <2> HIDE DEF job
    <2> QED
      BY <1>1, <2>1 DEF ManifestOf
  <1> HIDE DEF job
  <1>4. WorkloadOf(d, ps, s) = job \/ WorkloadOf(d, ps, s) = dep
    BY <1>2 DEF WorkloadOf, dep
  <1> QED
    BY <1>1, <1>3, <1>4 DEF IsWorkload, a, b, c, e, f, n

LEMMA OneIs ==
  ASSUME NEW x
  PROVE  <<x>> \in Seq({x}) /\ Range(<<x>>) = {x}
  <1> SUFFICES ASSUME NEW q, q = <<x>> PROVE q \in Seq({x}) /\ Range(q) = {x}
    OBVIOUS
  <1>1. q \in Seq({x}) /\ DOMAIN q = {1} /\ q[1] = x
    OBVIOUS
  <1> QED
    BY <1>1 DEF Range

LEMMA ConvertWorkloadsIs ==
  ASSUME NEW d, IsDocument(d), NEW ps, NEW r, r = ConvertWorkloads(d, ps)
  PROVE  /\ r \in Seq(Range(r))
         /\ \A m \in Range(r) : m.kind # "ConfigMap"
         /\ \A s \in DOMAIN d.services : WorkloadOf(d, ps, s) \in Range(r)
  <1> DEFINE S == DOMAIN d.services
             names == SortedNames(S)
             Of(s, svc) == IF svc.job THEN <<ConvertJob(s, svc, ps[s])>>
                           ELSE <<ConvertDeployment(s, svc, ps[s])>> \o K8sService(s, svc)
             qs == [i \in DOMAIN names |-> Of(names[i], d.services[names[i]])]
  <1>1. S \subseteq Range(NameSeq)
    BY DEF IsDocument
  <1>2. /\ DOMAIN names = 1..Len(names)
        /\ \A i \in 1..Len(names) : names[i] \in S
        /\ \A s \in S : \E i \in 1..Len(names) : names[i] = s
    <2> HIDE DEF S
    <2> QED
      BY <1>1, SortedNamesAre
  <1>3. r = FlattenSeq(qs)
    BY DEF ConvertWorkloads
  <1>4. ASSUME NEW s
        PROVE  LET svc == d.services[s]
                   q == Of(s, svc)
               IN  /\ q \in Seq(Range(q))
                   /\ WorkloadOf(d, ps, s) \in Range(q)
                   /\ \A m \in Range(q) : m.kind # "ConfigMap"
    <2> DEFINE svc == d.services[s]
               w == WorkloadOf(d, ps, s)
               v == [Object("Service", <<s>>) EXCEPT !.ports = ContainerPorts(svc)]
               k == K8sService(s, svc)
               q == Of(s, svc)
    <2>1. w.kind \in {"Job", "Deployment"}
      BY WorkloadOfIs DEF IsWorkload
    <2>2. v.kind = "Service"
      BY DEF Object
    <2>3. CASE svc.job
      <3>1. q = <<w>>
        BY <2>3 DEF WorkloadOf
      <3> HIDE DEF w, q
      <3>2. q \in Seq({w}) /\ Range(q) = {w}
        BY <3>1, OneIs
      <3> QED
        BY <2>1, <3>2 DEF q, w
    <2>4. CASE ~svc.job
      <3>1. q = <<w>> \o k
        BY <2>4 DEF WorkloadOf
      <3>2. k = <<>> \/ k = <<v>>
        BY DEF K8sService
      <3> HIDE DEF w, k, q, v
      <3>3. <<w>> \in Seq({w, v}) /\ Range(<<w>>) = {w}
        <4>1. <<w>> \in Seq({w, v})
          OBVIOUS
        <4> QED
          BY <4>1, OneIs
      <3>4. k \in Seq({w, v}) /\ Range(k) \subseteq {v}
        <4>1. CASE k = <<>>
          BY <4>1 DEF Range
        <4>2. CASE k = <<v>>
          <5>1. Range(k) = {v}
            BY <4>2, OneIs
          <5> QED
            BY <4>2, <5>1
        <4> QED
          BY <3>2, <4>1, <4>2
      <3> DEFINE j == <<w>>
      <3>5. j \in Seq({w, v}) /\ Range(j) = {w} /\ q = j \o k
        BY <3>1, <3>3
      <3> HIDE DEF j
      <3>6. j \o k \in Seq({w, v}) /\ Range(j \o k) = Range(j) \cup Range(k)
        BY <3>4, <3>5, ConcatRange
      <3>7. q \in Seq(Range(q))
        BY <3>5, <3>6, SeqRange
      <3>8. w \in Range(q) /\ \A m \in Range(q) : m.kind # "ConfigMap"
        BY <2>1, <2>2, <3>4, <3>5, <3>6
      <3> QED
        BY <3>7, <3>8 DEF q, w
    <2> QED
      BY <2>3, <2>4
  <1>5. qs = [i \in DOMAIN names |-> qs[i]]
        /\ \A i \in DOMAIN names : qs[i] = Of(names[i], d.services[names[i]])
    OBVIOUS
  <1> HIDE DEF qs, Of, S, names
  <1>6. \A i \in DOMAIN names : qs[i] \in Seq(Range(qs[i]))
    BY <1>4, <1>5
  <1>7. /\ FlattenSeq(qs) \in Seq(Range(FlattenSeq(qs)))
        /\ Range(FlattenSeq(qs)) = UNION {Range(qs[i]) : i \in DOMAIN names}
    <2>1. S \subseteq Range(NameSeq) /\ names = SortedNames(S)
      BY <1>1 DEF S, names
    <2>2. qs = [i \in DOMAIN names |-> qs[i]]
      BY <1>5
    <2> QED
      BY <2>1, <2>2, <1>6, FlattenNames
  <1>8. \A m \in Range(r) : m.kind # "ConfigMap"
    BY <1>3, <1>4, <1>5, <1>7
  <1>9. ASSUME NEW s \in S PROVE WorkloadOf(d, ps, s) \in Range(r)
    <2>1. PICK i \in DOMAIN names : names[i] = s
      BY <1>2
    <2>2. WorkloadOf(d, ps, s) \in Range(qs[i])
      BY <2>1, <1>4, <1>5
    <2> QED
      BY <2>2, <1>3, <1>7
  <1> QED
    BY <1>3, <1>7, <1>8, <1>9 DEF S

\* What the manifests of a document are.
ManifestsAre(ms, d, ps) ==
  /\ ms \in Seq(Range(ms))
  /\ \A s \in DOMAIN d.services :
       /\ WorkloadOf(d, ps, s) \in Range(ms)
       /\ ResolveSecrets(d, s) # <<>> => ConvertSecret(s) \in Range(ms)
       /\ \A cm \in Range(ps[s].configMaps) : ConfigMapOf(cm) \in Range(ms)
  /\ \A m \in Range(ms) : m.kind = "ConfigMap" =>
       \E s \in DOMAIN d.services : \E cm \in Range(ps[s].configMaps) : m = ConfigMapOf(cm)

LEMMA ManifestsIs ==
  ASSUME NEW d, IsDocument(d), NEW ps, HasConfigMaps(d, ps)
  PROVE  ManifestsAre(Manifests(d, ps), d, ps)
  <1> DEFINE a == ConvertSecrets(d)
             b == ConvertConfigMaps(d, ps)
             c == ConvertPVCs(d)
             e == ConvertWorkloads(d, ps)
             T == Range(a) \cup Range(b) \cup Range(c) \cup Range(e)
             ms == Manifests(d, ps)
  <1>1. /\ a \in Seq(Range(a)) /\ \A m \in Range(a) : m.kind = "Secret"
        /\ \A s \in DOMAIN d.services : ResolveSecrets(d, s) # <<>> => ConvertSecret(s) \in Range(a)
    BY ConvertSecretsIs
  <1>2. /\ b \in Seq(Range(b))
        /\ \A m \in Range(b) :
              \E s \in DOMAIN d.services : \E cm \in Range(ps[s].configMaps) : m = ConfigMapOf(cm)
        /\ \A s \in DOMAIN d.services : \A cm \in Range(ps[s].configMaps) :
              ConfigMapOf(cm) \in Range(b)
    BY ConvertConfigMapsIs
  <1>3. c \in Seq(Range(c)) /\ \A m \in Range(c) : m.kind = "PVC"
    BY ConvertPVCsIs
  <1>4. /\ e \in Seq(Range(e)) /\ \A m \in Range(e) : m.kind # "ConfigMap"
        /\ \A s \in DOMAIN d.services : WorkloadOf(d, ps, s) \in Range(e)
    BY ConvertWorkloadsIs
  <1>5. ms = a \o b \o c \o e
    BY DEF Manifests
  <1> HIDE DEF a, b, c, e, ms
  <1>6. a \in Seq(T) /\ b \in Seq(T) /\ c \in Seq(T) /\ e \in Seq(T)
    BY <1>1, <1>2, <1>3, <1>4
  <1> DEFINE ab == a \o b
             abc == ab \o c
  <1>7. ab \in Seq(T) /\ Range(ab) = Range(a) \cup Range(b)
    <2> HIDE DEF T
    <2> QED
      BY <1>6, ConcatRange
  <1> HIDE DEF ab, T
  <1>8. abc \in Seq(T) /\ Range(abc) = Range(ab) \cup Range(c)
    BY <1>6, <1>7, ConcatRange
  <1> HIDE DEF abc
  <1>9. abc \o e \in Seq(T) /\ Range(abc \o e) = Range(abc) \cup Range(e)
    BY <1>6, <1>8, ConcatRange
  <1>10. ms = abc \o e
    BY <1>5 DEF abc, ab
  <1>11. ms \in Seq(Range(ms))
    BY <1>9, <1>10, SeqRange
  <1>12. Range(ms) = Range(a) \cup Range(b) \cup Range(c) \cup Range(e)
    BY <1>7, <1>8, <1>9, <1>10
  <1>13. \A m \in Range(ms) : m.kind = "ConfigMap" => m \in Range(b)
    BY <1>1, <1>3, <1>4, <1>12
  <1> QED
    BY <1>1, <1>2, <1>4, <1>11, <1>12, <1>13 DEF ManifestsAre, ms

(***************************************************************************)
(* The invariants.                                                         *)
(***************************************************************************)
\* What is refused or written was planned from the document at hand.
Rendered ==
  /\ IsDocument(doc)
  /\ pc \in {"refused", "write"} => plans = PlanComposition(doc, opts)
  /\ pc = "write" => ~Refused(plans) /\ all = Manifests(doc, plans)

LEMMA RenderedStarts == Init => Rendered
BY DocsAreDocuments DEF Init, Rendered

LEMMA RenderedStays == Rendered /\ [Next]_vars => Rendered'
  <1> SUFFICES ASSUME Rendered, [Next]_vars PROVE Rendered'
    OBVIOUS
  <1>1. ASSUME NEW d \in Docs, NEW o \in Flags, RenderBegins(d, o) PROVE Rendered'
    <2> DEFINE e == [d EXCEPT !.services = FilterByProfiles(d.services, Active)]
    <2>1. doc' = e /\ pc' = "convert"
      BY <1>1 DEF RenderBegins
    <2>2. IsDocument(d)
      BY DocsAreDocuments
    <2> HIDE DEF e
    <2>3. IsDocument(e)
      BY <2>2, FilteredIsDocument DEF e
    <2> QED
      BY <2>1, <2>3 DEF Rendered
  <1>2. CASE SecretsFail
    BY <1>2 DEF SecretsFail, Rendered
  <1>3. CASE Convert
    BY <1>3 DEF Convert, Rendered
  <1>4. CASE WriteFile
    BY <1>4 DEF WriteFile, Rendered
  <1>5. CASE WriteFails
    BY <1>5 DEF WriteFails, Rendered
  <1>6. CASE WriteKustomization
    BY <1>6 DEF WriteKustomization, Rendered
  <1>7. CASE UNCHANGED vars
    BY <1>7 DEF vars, Rendered
  <1> QED
    BY <1>1, <1>2, <1>3, <1>4, <1>5, <1>6, <1>7 DEF Next

\* A plan of the document at hand that is not refused has lists of ConfigMaps.
LEMMA PlansHaveConfigMaps ==
  ASSUME NEW d, IsDocument(d), NEW o
  PROVE  HasConfigMaps(d, PlanComposition(d, o))
BY PlansAre DEF HasConfigMaps, PlanIs

\* Of the first n manifests the last one of the name f is what its file holds.
HoldsLast(n, f) ==
  /\ f \in DOMAIN dir
  /\ \E j \in 1..n : /\ Filename(all[j]) = f /\ dir[f] = all[j]
                     /\ \A k \in 1..n : Filename(all[k]) = f => k <= j

\* Of the manifests of the render some are written, the rest are still to be.
Written ==
  /\ kust \subseteq DOMAIN dir
  /\ pc = "ok" => \A f \in kust : dir[f] = Emitted(f)
  /\ pc = "write" =>
       /\ all \in Seq(Range(all)) /\ todo \in Seq(Range(all))
       /\ Len(todo) <= Len(all)
       /\ \A i \in 1..Len(todo) : todo[i] = all[(Len(all) - Len(todo)) + i]
       /\ \A i \in 1..(Len(all) - Len(todo)) :
            HoldsLast(Len(all) - Len(todo), Filename(all[i]))

\* The manifest that stays is the last of its name.
LEMMA LastIsEmitted ==
  ASSUME all \in Seq(Range(all)), NEW j \in 1..Len(all),
         \A k \in 1..Len(all) : Filename(all[k]) = Filename(all[j]) => k <= j
  PROVE  Emitted(Filename(all[j])) = all[j]
  <1> DEFINE I == {i \in DOMAIN all : Filename(all[i]) = Filename(all[j])}
  <1>1. Len(all) \in Nat /\ DOMAIN all = 1..Len(all)
    BY SeqRange
  <1>2. j \in I /\ I \in SUBSET (1..Len(all)) /\ \A i \in I : i <= j
    BY <1>1
  <1>3. Emitted(Filename(all[j])) = all[Max(I)]
    BY DEF Emitted
  <1> HIDE DEF I
  <1>4. Max(I) \in I /\ \A y \in I : Max(I) >= y
    <2> DEFINE N == Len(all)
    <2>1. N \in Nat /\ I \in SUBSET (1..N) /\ I # {}
      BY <1>1, <1>2
    <2> HIDE DEF N
    <2> QED
      BY <2>1, MaxIn
  <1>5. Max(I) = j
    <2>1. Max(I) \in 1..Len(all) /\ Max(I) <= j /\ Max(I) >= j
      BY <1>2, <1>4
    <2> QED
      BY <1>1, <2>1
  <1> QED
    BY <1>3, <1>5

LEMMA EmittedIs ==
  ASSUME all \in Seq(Range(all)), NEW m \in Range(all)
  PROVE  /\ Emitted(Filename(m)) \in Range(all)
         /\ Filename(Emitted(Filename(m))) = Filename(m)
  <1> DEFINE I == {i \in DOMAIN all : Filename(all[i]) = Filename(m)}
  <1>1. Len(all) \in Nat /\ DOMAIN all = 1..Len(all)
    BY SeqRange
  <1>2. PICK i \in 1..Len(all) : all[i] = m
    BY SeqRange
  <1>3. i \in I /\ I \in SUBSET (1..Len(all))
    BY <1>1, <1>2
  <1>4. Emitted(Filename(m)) = all[Max(I)]
    BY DEF Emitted
  <1>5. \A x \in I : all[x] \in Range(all) /\ Filename(all[x]) = Filename(m)
    BY DEF Range
  <1> HIDE DEF I
  <1>6. Max(I) \in I
    BY <1>1, <1>3, MaxIn
  <1> QED
    BY <1>4, <1>5, <1>6

LEMMA WrittenStarts == Init => Written
BY DEF Init, Written

LEMMA WrittenStays == Rendered /\ Written /\ [Next]_vars => Written'
  <1> SUFFICES ASSUME Rendered, Written, [Next]_vars PROVE Written'
    OBVIOUS
  <1>1. ASSUME NEW d \in Docs, NEW o \in Flags, RenderBegins(d, o) PROVE Written'
    BY <1>1 DEF RenderBegins, Written
  <1>2. CASE SecretsFail
    BY <1>2 DEF SecretsFail, Written
  <1>3. CASE Convert
    <2>1. CASE Refused(plans')
      BY <1>3, <2>1 DEF Convert, Written
    <2>2. CASE ~Refused(plans')
      <3> DEFINE ms == Manifests(doc, plans')
      <3>1. all' = ms /\ todo' = ms /\ plans' = PlanComposition(doc, opts)
        BY <1>3, <2>2 DEF Convert
      <3>2. ms \in Seq(Range(ms))
        <4>1. IsDocument(doc) /\ HasConfigMaps(doc, plans')
          BY <3>1, PlansHaveConfigMaps DEF Rendered
        <4> QED
          BY <4>1, ManifestsIs DEF ManifestsAre
      <3> HIDE DEF ms
      <3>3. /\ Len(ms) \in Nat /\ Len(ms) <= Len(ms) /\ 1..(Len(ms) - Len(ms)) = {}
            /\ \A i \in 1..Len(ms) : (Len(ms) - Len(ms)) + i = i
        BY <3>2, LenProperties
      <3> QED
        BY <1>3, <2>2, <3>1, <3>2, <3>3 DEF Convert, Written
    <2> QED
      BY <2>1, <2>2
  <1>4. CASE WriteFile
    <2> DEFINE h == Head(todo)
               t == Tail(todo)
               S == Range(all)
               after == With(dir, Filename(h), h)
    <2>1. /\ pc = "write" /\ pc' = pc /\ todo # <<>> /\ kust' = kust /\ all' = all
          /\ dir' = after /\ todo' = t
      BY <1>4 DEF WriteFile
    <2>2. all \in Seq(S) /\ todo \in Seq(S)
      BY <2>1 DEF Written
    <2> DEFINE L == Len(all)
               n == L - Len(todo)
    <2>3. /\ t \in Seq(S) /\ h = todo[1]
          /\ L \in Nat /\ Len(todo) \in Nat /\ Len(todo) # 0 /\ Len(t) = Len(todo) - 1
          /\ \A i \in 1..Len(t) : t[i] = todo[i + 1]
      <3> HIDE DEF S
      <3>1. L \in Nat /\ Len(todo) \in Nat /\ Len(todo) # 0
        BY <2>1, <2>2, LenProperties, EmptySeq
      <3> QED
        BY <2>1, <2>2, <3>1, HeadTailProperties
    <2>4. /\ DOMAIN after = DOMAIN dir \cup {Filename(h)} /\ after[Filename(h)] = h
          /\ \A x \in DOMAIN dir : x # Filename(h) => after[x] = dir[x]
      <3> HIDE DEF h
      <3> QED
        BY DEF With
    <2> HIDE DEF h, t, S, after
    <2>5. /\ Len(todo) <= L
          /\ \A i \in 1..Len(todo) : todo[i] = all[n + i]
          /\ \A i \in 1..n : HoldsLast(n, Filename(all[i]))
      BY <2>1 DEF Written
    <2> HIDE DEF L
    <2>6. n \in Nat /\ n + 1 <= L /\ L - Len(t) = n + 1 /\ h = all[n + 1] /\ Len(t) <= L
      BY <2>3, <2>5
    <2>7. PICK N \in Nat : N = n
      BY <2>6
    <2> HIDE DEF n
    <2>8. \A i \in 1..Len(t) : t[i] = all[(N + 1) + i]
      <3> TAKE i \in 1..Len(t)
      <3>1. i + 1 \in 1..Len(todo) /\ N + (i + 1) = (N + 1) + i
        BY <2>3, <2>6, <2>7
      <3> QED
        BY <2>3, <2>5, <2>7, <3>1
    <2>9. ASSUME NEW i \in 1..(N + 1)
          PROVE  HoldsLast(N + 1, Filename(all[i]))'
      <3> DEFINE f == Filename(all[i])
      <3>0. f' = f /\ \A k : Filename(all[k])' = Filename(all[k])
        BY <2>1 DEF Filename
      <3> HIDE DEF f
      <3>1. CASE f = Filename(h)
        <4>1. f \in DOMAIN after /\ after[f] = all[N + 1] /\ f = Filename(all[N + 1])
          BY <2>4, <2>6, <2>7, <3>1
        <4>2. N + 1 \in 1..(N + 1) /\ \A k \in 1..(N + 1) : k <= N + 1
          BY <2>6, <2>7
        <4> QED
          BY <2>1, <3>0, <4>1, <4>2 DEF HoldsLast, f
      <3>2. CASE f # Filename(h)
        <4>1. i # N + 1 /\ i \in 1..N
          <5>1. i # N + 1
            BY <2>6, <2>7, <3>2 DEF f
          <5> QED
            BY <2>6, <2>7, <5>1
        <4>2. PICK j \in 1..N : /\ f \in DOMAIN dir /\ Filename(all[j]) = f /\ dir[f] = all[j]
                                /\ \A k \in 1..N : Filename(all[k]) = f => k <= j
          BY <2>5, <2>7, <4>1 DEF HoldsLast, f
        <4>3. f \in DOMAIN after /\ after[f] = all[j] /\ j \in 1..(N + 1)
          BY <2>4, <2>6, <2>7, <3>2, <4>2
        <4>4. \A k \in 1..(N + 1) : Filename(all[k]) = f => k <= j
          <5>1. \A k \in 1..(N + 1) : k \in 1..N \/ k = N + 1
            BY <2>6, <2>7
          <5> QED
            BY <2>6, <2>7, <3>2, <4>2, <5>1
        <4> QED
          BY <2>1, <3>0, <4>2, <4>3, <4>4 DEF HoldsLast, f
      <3> QED
        BY <3>1, <3>2
    <2>10. (Len(all) - Len(todo))' = N + 1 /\ Len(todo)' <= Len(all)'
      BY <2>1, <2>6, <2>7 DEF L
    <2>11. \A i \in 1..(Len(all) - Len(todo))' :
             HoldsLast(Len(all) - Len(todo), Filename(all[i]))'
      BY <2>9, <2>10
    <2>12. \A i \in 1..Len(todo)' : todo'[i] = all'[(Len(all) - Len(todo))' + i]
      BY <2>1, <2>8, <2>10
    <2>13. kust \subseteq DOMAIN after /\ Range(all)' = S
      BY <2>1, <2>4 DEF Written, S
    <2> QED
      BY <2>1, <2>2, <2>3, <2>10, <2>11, <2>12, <2>13 DEF Written
  <1>5. CASE WriteFails
    <2> DEFINE h == Head(todo)
               b == Object("broken", <<>>)
    <2>1. /\ pc' = "failed" /\ kust' = kust
          /\ dir' = dir \/ dir' = With(dir, Filename(h), b)
      BY <1>5 DEF WriteFails
    <2> HIDE DEF h, b
    <2>2. DOMAIN dir \subseteq DOMAIN dir'
      BY <2>1 DEF With
    <2> QED
      BY <2>1, <2>2 DEF Written
  <1>6. CASE WriteKustomization
    <2>1. /\ pc = "write" /\ pc' = "ok" /\ todo = <<>> /\ dir' = dir /\ all' = all
          /\ kust' = Kustomization(all)
      BY <1>6 DEF WriteKustomization
    <2>2. all \in Seq(Range(all)) /\ Len(all) \in Nat /\ Len(all) - Len(todo) = Len(all)
      <3>1. all \in Seq(Range(all)) /\ Len(todo) = 0
        BY <2>1 DEF Written
      <3> QED
        BY <3>1, LenProperties
    <2>3. \A i \in 1..Len(all) : HoldsLast(Len(all), Filename(all[i]))
      BY <2>1, <2>2 DEF Written
    <2>4. ASSUME NEW f \in kust' PROVE f \in DOMAIN dir /\ dir[f] = Emitted(f)
      <3>1. PICK m \in Range(all) : f = Filename(m)
        BY <2>1 DEF Kustomization
      <3>2. PICK i \in 1..Len(all) : m = all[i]
        BY <2>2, SeqRange
      <3>3. PICK j \in 1..Len(all) : /\ Filename(all[j]) = f /\ dir[f] = all[j]
                                     /\ \A k \in 1..Len(all) : Filename(all[k]) = f => k <= j
        BY <2>3, <3>1, <3>2 DEF HoldsLast
      <3>4. f \in DOMAIN dir
        BY <2>3, <3>1, <3>2 DEF HoldsLast
      <3> QED
        BY <2>2, <3>3, <3>4, LastIsEmitted
    <2>5. \A f : Emitted(f)' = Emitted(f)
      BY <2>1 DEF Emitted, Filename
    <2> QED
      BY <2>1, <2>4, <2>5 DEF Written
  <1>7. CASE UNCHANGED vars
    BY <1>7 DEF vars, Written, HoldsLast, Emitted, Filename
  <1> QED
    BY <1>1, <1>2, <1>3, <1>4, <1>5, <1>6, <1>7 DEF Next

\* The kustomization lists no file that is not there, whatever renders failed
\* half-way (WriteDirectory writes it last, and nothing removes a file); and after
\* a success each file is the last manifest of its name.
THEOREM Closed == Spec => []KustomizationClosed
  <1>1. Rendered /\ Written => KustomizationClosed
    BY DEF Written, KustomizationClosed
  <1> QED
    BY <1>1, RenderedStarts, RenderedStays, WrittenStarts, WrittenStays, PTL DEF Spec

\* A refused render names the flags that lift the refusal, unless something has
\* to be fixed (k8s.Overrides and the error of render).
THEOREM Overriding == Spec => []OverridesSuffice
  <1>1. Rendered => OverridesSuffice
    BY FlagsSuffice DEF Rendered, OverridesSuffice
  <1> QED
    BY <1>1, RenderedStarts, RenderedStays, PTL DEF Spec

(***************************************************************************)
(* A render that is not refused: ports.                                    *)
(***************************************************************************)
LEMMA StringPortExposed ==
  ASSUME NEW svc, NEW p \in Range(svc.ports), Parses(p), svc.named = <<>>, p.parts # 3
  PROVE  \E x \in ContainerPorts(svc) : x.cont = ParsePort(p).cont
  <1> DEFINE x == [name |-> "", cont |-> p.cont, proto |-> Upper(p.proto)]
  <1>1. p.parts = 1 \/ p.parts = 2
    <2> DEFINE n == p.parts
    <2>1. n \in 1..3 /\ n # 3
      BY DEF Parses
    <2> HIDE DEF n
    <2>2. n = 1 \/ n = 2
      BY <2>1
    <2> QED
      BY <2>2 DEF n
  <1>2. p.cont > 0
    BY DEF Parses
  <1>3. K8sPortString(p) = {x}
    <2> HIDE DEF x
    <2> QED
      BY <1>1, <1>2 DEF K8sPortString, x
  <1>4. x.cont = p.cont /\ ParsePort(p).cont = p.cont
    BY DEF ParsePort
  <1> HIDE DEF x
  <1>5. x \in ContainerPorts(svc)
    BY <1>3 DEF ContainerPorts
  <1> QED
    BY <1>4, <1>5

LEMMA NamedPortExposed ==
  ASSUME NEW svc, NEW np \in Range(svc.named), np.cont \in Int, np.cont \in 0..MaxPort
  PROVE  \E x \in ContainerPorts(svc) : x.cont = ParseNamedPort(np).cont
  <1> DEFINE x == [name |-> np.name, cont |-> np.cont, proto |-> Upper(np.proto)]
  <1>1. svc.named # <<>>
    BY DEF Range
  <1>2. K8sNamedPort(np) = {x}
    BY DEF K8sNamedPort
  <1>3. x.cont = np.cont /\ ParseNamedPort(np).cont = ClampPort(np.cont)
    BY DEF ParseNamedPort
  <1>4. ClampPort(np.cont) = np.cont
    BY MaxPortIsNumber DEF ClampPort
  <1> HIDE DEF x
  <1>5. x \in ContainerPorts(svc)
    BY <1>1, <1>2 DEF ContainerPorts
  <1> QED
    BY <1>3, <1>4, <1>5

LEMMA StringPortMapped ==
  ASSUME NEW p, NEW f \in ParsePortString(p), p.parts # 1
  PROVE  LET pm == ParsePort(p) IN pm.host = f.host /\ pm.ip = f.ip /\ pm.proto = "TCP"
  <1>1. p.proto \in {"", "tcp"} /\ f = [ip |-> IF p.parts = 3 THEN p.ip ELSE "", host |-> p.host]
    BY DEF ParsePortString
  <1>2. Upper("tcp") = "TCP"
    BY DEF Upper
  <1> QED
    BY <1>1, <1>2 DEF ParsePort

LEMMA NamedPortMapped ==
  ASSUME NEW np, np.host \in Int, NEW f \in FromNamedPort(np)
  PROVE  LET pm == ParseNamedPort(np) IN pm.host = f.host /\ pm.ip = f.ip /\ pm.proto = "TCP"
  <1>1. /\ np.proto \in {"", "tcp"} /\ np.host \in 1..MaxPort
        /\ f = [ip |-> np.ip, host |-> np.host]
    BY DEF FromNamedPort
  <1>2. Upper(np.proto) \notin {"UDP", "SCTP"}
    BY <1>1 DEF Upper
  <1>3. ClampPort(np.host) = np.host
    <2> DEFINE h == np.host
    <2>1. h \in 1..MaxPort
      BY <1>1
    <2> HIDE DEF h
    <2>2. ~(h > MaxPort) /\ ~(h < 0)
      BY <2>1, MaxPortIsNumber
    <2> QED
      BY <2>2 DEF ClampPort, h
  <1> QED
    BY <1>1, <1>2, <1>3 DEF ParseNamedPort

LEMMA PortsMatchHolds ==
  ASSUME NEW s, IsService(doc.services[s]), NEW w, w.ports = ContainerPorts(doc.services[s])
  PROVE  PortsMatch(s, w)
  <1> DEFINE svc == doc.services[s]
             Bad == \E p \in Range(svc.ports) : ~Parses(p)
  <1>0. /\ IsService(svc) /\ w.ports = ContainerPorts(svc)
        /\ \A np \in Range(svc.named) : np.host \in Int /\ np.cont \in Int
    BY DEF IsService
  <1> SUFFICES
        /\ \A pm \in PortMappings(svc) :
             \/ \E p \in w.ports : p.cont = pm.cont
             \/ \E p \in Range(svc.ports) :
                  /\ p.parts = 3 \/ svc.named # <<>>
                  /\ ParsePort(p) = pm
             \/ \E np \in Range(svc.named) : np.cont \notin 0..MaxPort /\ ParseNamedPort(np) = pm
        /\ \A f \in ExtractPorts(svc) :
             \/ \E pm \in PortMappings(svc) : pm.host = f.host /\ pm.ip = f.ip /\ pm.proto = "TCP"
             \/ \E p \in Range(svc.ports) : ~Parses(p) \/ (p.parts = 1 /\ p.cont = f.host)
    BY DEF PortsMatch
  <1> HIDE DEF svc
  <1>1. ~Bad => PortMappings(svc) = {ParsePort(p) : p \in Range(svc.ports)}
                                       \cup {ParseNamedPort(np) : np \in Range(svc.named)}
    BY DEF PortMappings
  <1>2. ASSUME NEW pm \in PortMappings(svc)
        PROVE  \/ \E p \in w.ports : p.cont = pm.cont
               \/ \E p \in Range(svc.ports) :
                    /\ p.parts = 3 \/ svc.named # <<>>
                    /\ ParsePort(p) = pm
               \/ \E np \in Range(svc.named) : np.cont \notin 0..MaxPort /\ ParseNamedPort(np) = pm
    <2>1. ~Bad
      BY DEF PortMappings
    <2>2. CASE \E p \in Range(svc.ports) : pm = ParsePort(p)
      <3>1. PICK p \in Range(svc.ports) : pm = ParsePort(p)
        BY <2>2
      <3>2. CASE p.parts = 3 \/ svc.named # <<>>
        BY <3>1, <3>2
      <3>3. CASE ~(p.parts = 3 \/ svc.named # <<>>)
        BY <1>0, <2>1, <3>1, <3>3, StringPortExposed
      <3> QED
        BY <3>2, <3>3
    <2>3. CASE \E np \in Range(svc.named) : pm = ParseNamedPort(np)
      <3>1. PICK np \in Range(svc.named) : pm = ParseNamedPort(np)
        BY <2>3
      <3>2. np.cont \in Int
        BY <1>0
      <3> QED
        BY <1>0, <3>1, <3>2, NamedPortExposed
    <2> QED
      BY <1>1, <2>1, <2>2, <2>3
  <1>3. ASSUME NEW f \in ExtractPorts(svc), ~Bad
        PROVE  \/ \E pm \in PortMappings(svc) : pm.host = f.host /\ pm.ip = f.ip /\ pm.proto = "TCP"
               \/ \E p \in Range(svc.ports) : p.parts = 1 /\ p.cont = f.host
    <2>1. CASE \E p \in Range(svc.ports) : f \in ParsePortString(p)
      <3>1. PICK p \in Range(svc.ports) : f \in ParsePortString(p)
        BY <2>1
      <3>2. CASE p.parts = 1
        <4>1. f.host = p.cont
          <5>1. f = [ip |-> IF p.parts = 3 THEN p.ip ELSE "", host |-> p.cont]
            BY <3>1, <3>2 DEF ParsePortString
          <5> QED
            BY <5>1
        <4> QED
          BY <3>1, <3>2, <4>1
      <3>3. CASE p.parts # 1
        <4>1. ParsePort(p) \in PortMappings(svc)
          BY <1>1, <1>3
        <4>2. ParsePort(p).host = f.host /\ ParsePort(p).ip = f.ip /\ ParsePort(p).proto = "TCP"
          BY <3>1, <3>3, StringPortMapped
        <4> QED
          BY <4>1, <4>2
      <3> QED
        BY <3>2, <3>3
    <2>2. CASE \E np \in Range(svc.named) : f \in FromNamedPort(np)
      <3>1. PICK np \in Range(svc.named) : f \in FromNamedPort(np)
        BY <2>2
      <3>2. ParseNamedPort(np) \in PortMappings(svc)
        BY <1>1, <1>3
      <3>3. /\ ParseNamedPort(np).host = f.host /\ ParseNamedPort(np).ip = f.ip
            /\ ParseNamedPort(np).proto = "TCP"
        BY <1>0, <3>1, NamedPortMapped
      <3> QED
        BY <3>2, <3>3
    <2>3. \/ \E p \in Range(svc.ports) : f \in ParsePortString(p)
          \/ \E np \in Range(svc.named) : f \in FromNamedPort(np)
      <3> DEFINE A == {ParsePortString(p) : p \in Range(svc.ports)}
                 B == {FromNamedPort(np) : np \in Range(svc.named)}
      <3>1. f \in UNION A \/ f \in UNION B
        BY DEF ExtractPorts
      <3>2. ASSUME NEW x \in A, f \in x
            PROVE  \E p \in Range(svc.ports) : f \in ParsePortString(p)
        BY <3>2
      <3>3. ASSUME NEW x \in B, f \in x
            PROVE  \E np \in Range(svc.named) : f \in FromNamedPort(np)
        BY <3>3
      <3> HIDE DEF A, B
      <3> QED
        BY <3>1, <3>2, <3>3
    <2> QED
      BY <2>1, <2>2, <2>3
  <1> QED
    BY <1>2, <1>3

(***************************************************************************)
(* A render that is not refused: volumes.                                  *)
(***************************************************************************)
\* The ConfigMap of pv that stays has the content of src, or that of another service.
HasContent(s, pv, src) ==
  LET src2 == Emitted(<<"ConfigMap", pv.name>>).src
  IN  src2 = src \/ \E t \in DOMAIN plans \ {s} : \E cm \in Range(plans[t].configMaps) :
                       cm.name = pv.name /\ cm.src = src2

\* The pod volume of a source gives what the source stands for.
LEMMA PodVolumeGives ==
  ASSUME NEW s, NEW v, NEW pv,
         pv = PodVolumeFor(doc.services[s], doc.volumes, pv.name, v.src),
         Kind[v.src] \in {"path", "name", "home"},
         pv.of = "configMap" => HasContent(s, pv, v.src)
  PROVE  Gives(pv) \in {StandsFor(s, v)} \cup Clashes(s, pv)
  <1> DEFINE svc == doc.services[s]
             n == pv.name
  <1> HIDE DEF n
  <1>0. pv = PodVolumeFor(svc, doc.volumes, n, v.src)
    BY DEF n
  <1>1. CASE v.src \in DOMAIN svc.secretMounts
    <2>1. pv = [name |-> n, of |-> "secret", ref |-> <<svc.secretMounts[v.src]>>]
      BY <1>0, <1>1 DEF PodVolumeFor
    <2>2. Gives(pv) = <<"secret", <<svc.secretMounts[v.src]>> >>
      BY <2>1 DEF Gives
    <2> QED
      BY <1>1, <2>2 DEF StandsFor
  <1>2. CASE v.src \notin DOMAIN svc.secretMounts /\ ~IsBindMount(v.src) /\ v.src \in doc.volumes
    <2>1. pv = [name |-> n, of |-> "claim", ref |-> <<v.src>>]
      BY <1>0, <1>2 DEF PodVolumeFor
    <2>2. Gives(pv) = <<"claim", <<v.src>> >>
      BY <2>1 DEF Gives
    <2>3. StandsFor(s, v) = <<"claim", <<v.src>> >>
      BY <1>2 DEF StandsFor, IsBindMount
    <2> QED
      BY <2>2, <2>3
  <1>3. CASE v.src \notin DOMAIN svc.secretMounts /\ ~IsBindMount(v.src) /\ v.src \notin doc.volumes
    <2>1. pv = [name |-> n, of |-> "empty", ref |-> <<>>]
      BY <1>0, <1>3 DEF PodVolumeFor
    <2>2. Gives(pv) = <<"empty", <<>> >>
      BY <2>1 DEF Gives
    <2>3. StandsFor(s, v) = <<"empty", <<>> >>
      BY <1>3 DEF StandsFor, IsBindMount
    <2> QED
      BY <2>2, <2>3
  <1>4. CASE v.src \notin DOMAIN svc.secretMounts /\ IsBindMount(v.src) /\ ~Representable(v.src)
    <2>1. pv = [name |-> n, of |-> "empty", ref |-> <<>>]
      BY <1>0, <1>4 DEF PodVolumeFor
    <2>2. Gives(pv) = <<"empty", <<>> >>
      BY <2>1 DEF Gives
    <2>3. StandsFor(s, v) = <<"empty", <<>> >>
      BY <1>4 DEF StandsFor, IsBindMount
    <2> QED
      BY <2>2, <2>3
  <1>5. CASE v.src \notin DOMAIN svc.secretMounts /\ IsBindMount(v.src) /\ Representable(v.src)
    <2>1. pv = [name |-> n, of |-> "configMap", ref |-> n]
      BY <1>0, <1>5 DEF PodVolumeFor
    <2> DEFINE src == Emitted(<<"ConfigMap", n>>).src
    <2>2. pv.of = "configMap" /\ pv.ref = n
      BY <2>1
    <2>3. Gives(pv) = <<"content", <<src>> >>
      BY <2>2 DEF Gives
    <2>4. StandsFor(s, v) = <<"content", <<v.src>> >>
      BY <1>5 DEF StandsFor, IsBindMount
    <2> HIDE DEF src
    <2>5. src = v.src \/ \E t \in DOMAIN plans \ {s} : \E cm \in Range(plans[t].configMaps) :
                            cm.name = n /\ cm.src = src
      BY <2>2 DEF HasContent, n, src
    <2>6. ASSUME NEW t \in DOMAIN plans \ {s}, NEW cm \in Range(plans[t].configMaps),
                 cm.name = n, cm.src = src
          PROVE  <<"content", <<src>> >> \in Clashes(s, pv)
      <3>1. cm \in UNION {Range(plans[u].configMaps) : u \in DOMAIN plans \ {s}}
        OBVIOUS
      <3> QED
        BY <2>2, <2>6, <3>1 DEF Clashes
    <2> QED
      BY <2>3, <2>4, <2>5, <2>6
  <1> QED
    BY <1>1, <1>2, <1>3, <1>4, <1>5

\* The pod volume that v is mounted from.
MountGives(s, w, v, m) ==
  \E pv \in VolumeOf(w, m) : /\ VolumeOf(w, m) = {pv}
                             /\ Gives(pv) \in {StandsFor(s, v)} \cup Clashes(s, pv)
                             /\ plans[s].names[pv.name] = v.src

LEMMA VolumeMounted ==
  ASSUME NEW s, IsService(doc.services[s]),
         PlanMatches(plans[s], doc.services[s], doc.volumes, opts),
         ManifestsAre(all, doc, plans), DOMAIN plans = DOMAIN doc.services,
         s \in DOMAIN doc.services,
         NEW w, w.volumes = plans[s].podVolumes,
         NEW v \in VolumesOf(doc.services[s]), v.dst # ""
  PROVE  /\ v \in DOMAIN plans[s].mounts
         /\ plans[s].mounts[v].dst = v.dst /\ (v.ro => plans[s].mounts[v].ro)
         /\ MountGives(s, w, v, plans[s].mounts[v])
  <1> DEFINE p == plans[s]
             svc == doc.services[s]
             m == p.mounts[v]
  <1>1. v \in DOMAIN p.mounts
    BY DEF PlanMatches
  <1>2. m.dst = v.dst /\ (v.ro => m.ro)
    BY <1>1 DEF PlanMatches, MountsOk
  <1>3. PICK pv \in Range(p.podVolumes) : pv.name = m.name /\ p.names[pv.name] = v.src
    BY <1>1 DEF PlanMatches, MountsOk
  <1>4. \A x \in Range(p.podVolumes) :
          x.name \in DOMAIN p.names /\ x = PodVolumeFor(svc, doc.volumes, x.name, p.names[x.name])
    BY DEF PlanMatches, PodVolumesOk
  <1>5. VolumeOf(w, m) = {pv}
    <2>1. \A x \in Range(p.podVolumes) : x.name = pv.name => x = pv
      BY <1>3, <1>4
    <2>2. VolumeOf(w, m) = {x \in Range(p.podVolumes) : x.name = pv.name}
      BY <1>3 DEF VolumeOf
    <2> HIDE DEF m, p
    <2> QED
      BY <1>3, <2>1, <2>2
  <1>6. Kind[v.src] \in {"path", "name", "home"}
    BY DEF IsService
  <1>7. /\ \A cm \in Range(p.configMaps) : cm.name \in DOMAIN p.names /\ p.names[cm.name] = cm.src
        /\ pv.of = "configMap" => \E cm \in Range(p.configMaps) : cm.name = pv.name
    BY <1>3 DEF PlanMatches, ConfigMapsOk
  <1>8. Gives(pv) \in {StandsFor(s, v)} \cup Clashes(s, pv)
    <2>1. pv = PodVolumeFor(svc, doc.volumes, pv.name, v.src)
      BY <1>3, <1>4
    <2>2. \A cm \in Range(p.configMaps) : cm.name = pv.name => cm.src = v.src
      BY <1>3, <1>7
    <2>3. ASSUME pv.of = "configMap" PROVE HasContent(s, pv, v.src)
      <3>1. PICK own \in Range(p.configMaps) : own.name = pv.name
        BY <1>7, <2>3
      <3> DEFINE f == <<"ConfigMap", pv.name>>
                 e == Emitted(f)
      <3>2. ConfigMapOf(own) \in Range(all) /\ f = Filename(ConfigMapOf(own))
        BY <3>1, ConfigMapOfIs DEF ManifestsAre, Filename
      <3>3. all \in Seq(Range(all))
        BY DEF ManifestsAre
      <3>4. e \in Range(all) /\ Filename(e) = f
        <4> HIDE DEF f
        <4> QED
          BY <3>2, <3>3, EmittedIs
      <3>5. e.kind = "ConfigMap" /\ e.name = pv.name
        BY <3>4 DEF Filename
      <3> HIDE DEF e
      <3>6. PICK t \in DOMAIN doc.services : \E cm \in Range(plans[t].configMaps) :
               e = ConfigMapOf(cm)
        BY <3>4, <3>5 DEF ManifestsAre
      <3>7. PICK cm \in Range(plans[t].configMaps) : cm.name = pv.name /\ cm.src = e.src
        BY <3>5, <3>6, ConfigMapOfIs
      <3>8. t = s => e.src = v.src
        BY <2>2, <3>7
      <3> QED
        BY <3>7, <3>8 DEF HasContent, e
    <2> QED
      BY <2>1, <2>3, <1>6, PodVolumeGives
  <1> QED
    <2>1. MountGives(s, w, v, m)
      BY <1>3, <1>5, <1>8 DEF MountGives
    <2> QED
      BY <1>1, <1>2, <2>1

LEMMA MountsMatchHolds ==
  ASSUME NEW s, IsService(doc.services[s]),
         PlanMatches(plans[s], doc.services[s], doc.volumes, opts),
         ManifestsAre(all, doc, plans), DOMAIN plans = DOMAIN doc.services,
         s \in DOMAIN doc.services,
         NEW w, IsWorkload(w, doc, plans, s)
  PROVE  MountsMatch(s, w)
  <1> DEFINE p == plans[s]
             svc == doc.services[s]
             Match(vols, mounts) ==
               \A v \in Range(vols) : v.dst # "" =>
                 \E m \in mounts : m.dst = v.dst /\ MountGives(s, w, v, m)
  <1>1. /\ w.volumes = p.podVolumes /\ w.mounts = MountsFor(p, svc.vols)
        /\ w.inits = ConvertInitContainers(p, svc)
    BY DEF IsWorkload
  <1>2. ASSUME NEW vols, Range(vols) \subseteq VolumesOf(svc) PROVE Match(vols, MountsFor(p, vols))
    <2> SUFFICES ASSUME NEW v \in Range(vols), v.dst # ""
                 PROVE  \E m \in MountsFor(p, vols) : m.dst = v.dst /\ MountGives(s, w, v, m)
      OBVIOUS
    <2> DEFINE m == p.mounts[v]
    <2>1. v \in DOMAIN p.mounts /\ m.dst = v.dst /\ MountGives(s, w, v, m)
      <3>1. v \in VolumesOf(svc) /\ w.volumes = p.podVolumes
        BY <1>1, <1>2
      <3> QED
        BY <3>1, VolumeMounted
    <2>2. m \in MountsFor(p, vols)
      BY <2>1 DEF MountsFor
    <2> HIDE DEF m
    <2> QED
      BY <2>1, <2>2
  <1>3. Match(svc.vols, w.mounts)
    <2>1. Range(svc.vols) \subseteq VolumesOf(svc)
      BY DEF VolumesOf
    <2> HIDE DEF Match
    <2> QED
      BY <1>1, <1>2, <2>1
  <1>4. ASSUME NEW i \in DOMAIN svc.inits PROVE Match(svc.inits[i].vols, w.inits[i])
    <2>1. Range(svc.inits[i].vols) \subseteq VolumesOf(svc)
      BY DEF VolumesOf
    <2>2. w.inits[i] = MountsFor(p, svc.inits[i].vols)
      BY <1>1 DEF ConvertInitContainers
    <2> HIDE DEF Match
    <2> QED
      BY <1>2, <2>1, <2>2
  <1>5. ASSUME NEW b \in BuildMounts(svc, Kind, doc.volumes), b.of \in {"host", "volume"}, b.dst # ""
        PROVE  \E m \in w.mounts : m.dst = b.dst /\ (b.ro => m.ro)
    <2>1. PICK v \in Range(svc.vols) : b \in ParseVolumeMount(v, Kind[v.src], doc.volumes)
      <3> DEFINE A == {ParseVolumeMount(v, Kind[v.src], doc.volumes) : v \in Range(svc.vols)}
      <3>1. \/ b \in UNION A
            \/ \E d \in svc.tmpfs : b = [of |-> "tmpfs", src |-> "", dst |-> d, ro |-> FALSE]
            \/ \E d \in svc.storePaths : b = [of |-> "store", src |-> d, dst |-> d, ro |-> TRUE]
        <4> DEFINE B == {[of |-> "tmpfs", src |-> "", dst |-> d, ro |-> FALSE] : d \in svc.tmpfs}
                   C == {[of |-> "store", src |-> d, dst |-> d, ro |-> TRUE] : d \in svc.storePaths}
        <4>1. b \in UNION A \/ b \in B \/ b \in C
          BY <1>5 DEF BuildMounts
        <4> HIDE DEF A
        <4> QED
          BY <4>1
      <3>2. b \in UNION A
        <4>1. ASSUME NEW d, b = [of |-> "tmpfs", src |-> "", dst |-> d, ro |-> FALSE] PROVE FALSE
          <5>1. b.of = "tmpfs"
            BY <4>1
          <5> QED
            BY <5>1, <1>5
        <4>2. ASSUME NEW d, b = [of |-> "store", src |-> d, dst |-> d, ro |-> TRUE] PROVE FALSE
          <5>1. b.of = "store"
            BY <4>2
          <5> QED
            BY <5>1, <1>5
        <4> HIDE DEF A
        <4> QED
          BY <4>1, <4>2, <3>1
      <3> QED
        BY <3>2
    <2>2. b.dst = v.dst /\ b.ro = v.ro
      <3>1. \/ b = [of |-> "host", src |-> v.src, dst |-> v.dst, ro |-> v.ro]
            \/ b = [of |-> "volume", src |-> v.src, dst |-> v.dst, ro |-> v.ro]
        BY <2>1 DEF ParseVolumeMount
      <3> QED
        BY <3>1
    <2> DEFINE m == p.mounts[v]
    <2>3. v \in VolumesOf(svc) /\ v.dst # ""
      BY <1>5, <2>2 DEF VolumesOf
    <2>4. v \in DOMAIN p.mounts /\ m.dst = v.dst /\ (v.ro => m.ro)
      BY <1>1, <2>3, VolumeMounted
    <2>5. m \in w.mounts
      BY <1>1, <2>4 DEF MountsFor
    <2> HIDE DEF m
    <2> QED
      BY <2>2, <2>4, <2>5
  <1> QED
    BY <1>3, <1>4, <1>5 DEF MountsMatch, MountGives

LEMMA RenderedIsFaithful == Rendered => RenderFaithful
  <1> SUFFICES ASSUME Rendered, pc = "write", NEW s \in DOMAIN doc.services
               PROVE  \E w \in Range(all) :
                        /\ w.kind \in {"Job", "Deployment"} /\ w.name = <<s>>
                        /\ MountsMatch(s, w) /\ PortsMatch(s, w)
                        /\ w.secretRef =>
                             \/ \E m \in Range(all) : m.kind = "Secret" /\ m.name = <<s, "secrets">>
                             \/ ResolveSecrets(doc, s) = <<>>
                        /\ \A m \in Range(all) : m.kind = "ConfigMap" /\ Host[m.src].key => opts.keys
    BY DEF RenderFaithful
  <1> DEFINE w == WorkloadOf(doc, plans, s)
             svc == doc.services[s]
  <1>1. /\ IsDocument(doc) /\ plans = PlanComposition(doc, opts)
        /\ ~Refused(plans) /\ all = Manifests(doc, plans)
    BY DEF Rendered
  <1>2. /\ DOMAIN plans = DOMAIN doc.services
        /\ \A t \in DOMAIN doc.services : PlanIs(plans[t], doc.services[t], doc.volumes, opts)
    BY <1>1, PlansAre
  <1>3. \A t \in DOMAIN doc.services : PlanMatches(plans[t], doc.services[t], doc.volumes, opts)
    BY <1>1, <1>2 DEF Refused, PlanIs
  <1>4. ManifestsAre(all, doc, plans)
    BY <1>1, PlansHaveConfigMaps, ManifestsIs
  <1>5. IsService(svc)
    BY <1>1 DEF IsDocument
  <1>6. w \in Range(all) /\ IsWorkload(w, doc, plans, s)
    BY <1>4, WorkloadOfIs DEF ManifestsAre
  <1> HIDE DEF w
  <1>7. MountsMatch(s, w)
    BY <1>2, <1>3, <1>4, <1>5, <1>6, MountsMatchHolds
  <1>8. PortsMatch(s, w)
    BY <1>5, <1>6, PortsMatchHolds DEF IsWorkload
  <1>9. \/ \E m \in Range(all) : m.kind = "Secret" /\ m.name = <<s, "secrets">>
        \/ ResolveSecrets(doc, s) = <<>>
    <2>1. ResolveSecrets(doc, s) # <<>> => ConvertSecret(s) \in Range(all)
      BY <1>4 DEF ManifestsAre
    <2>2. ConvertSecret(s).kind = "Secret" /\ ConvertSecret(s).name = <<s, "secrets">>
      BY ObjectIs DEF ConvertSecret
    <2> QED
      BY <2>1, <2>2
  <1>10. ASSUME NEW m \in Range(all), m.kind = "ConfigMap", Host[m.src].key
         PROVE  opts.keys
    <2>1. PICK t \in DOMAIN doc.services : \E cm \in Range(plans[t].configMaps) : m.src = cm.src
      BY <1>4, <1>10, ConfigMapOfIs DEF ManifestsAre
    <2> QED
      BY <1>3, <1>10, <2>1 DEF PlanMatches, ConfigMapsOk
  <1> QED
    BY <1>6, <1>7, <1>8, <1>9, <1>10 DEF IsWorkload

\* A render that is not refused is faithful to the document: volumes, ports,
\* Secrets and keys (PlanVolumes, convertConfigMaps, convertWorkload,
\* convertContainerPorts); what a mounted ConfigMap holds is read off the manifests
\* emitted, the last of a file name, and is the service's own file or that of
\* another service with a ConfigMap of the same name.
THEOREM Faithful == Spec => []RenderFaithful
BY RenderedStarts, RenderedStays, RenderedIsFaithful, PTL DEF Spec

=============================================================================
