---------------------------- MODULE ProjectProofs ----------------------------
(***************************************************************************)
(* What is proved of Project for any documents, names and bounds: what up  *)
(* has done at any moment and what it has waited for, what a down leaves,  *)
(* and what the watcher keeps in force - with all three, the containers    *)
(* and the user interleaved.                                               *)
(*                                                                         *)
(* First the orders of Composition: a start order lists every service once *)
(* and never gets back to a lower level, and a service is on a higher level*)
(* than all it depends on.  Then the invariant, a part for each process,   *)
(* the lemmas on what each operation does to the pods of its service, and  *)
(* one lemma per action.                                                   *)
(***************************************************************************)
EXTENDS Project, FiniteSetTheorems, SequenceTheorems, WellFoundedInduction, TLAPS

(***************************************************************************)
(* Sorting.                                                                *)
(***************************************************************************)
IsOrder(R, S) ==
  /\ \A s \in S : <<s, s>> \notin R
  /\ \A s, t \in S : s # t => <<s, t>> \in R \/ <<t, s>> \in R
  /\ \A s, t, u \in S : <<s, t>> \in R /\ <<t, u>> \in R => <<s, u>> \in R

\* A list of all the elements of S, each of them once.
Lists(q, S) ==
  /\ q \in Seq(S)
  /\ \A s \in S : \E i \in 1..Len(q) : q[i] = s
  /\ \A i, j \in 1..Len(q) : q[i] = q[j] => i = j

\* No element is after one that it precedes.
InOrder(q, R) == \A i, j \in 1..Len(q) : i < j => <<q[j], q[i]>> \notin R

LEMMA SortedLists ==
  ASSUME NEW S, IsFiniteSet(S), NEW R, IsOrder(R, S)
  PROVE  Lists(Sorted(S, R), S) /\ InOrder(Sorted(S, R), R)
  <1> DEFINE N == Cardinality(S)
             Before(s) == {t \in S : <<t, s>> \in R}
             rank == [s \in S |-> Cardinality(Before(s)) + 1]
  <1>1. N \in Nat
    BY FS_CardinalityType
  <1>2. ASSUME NEW s \in S
        PROVE  Cardinality(Before(s)) \in Nat /\ Cardinality(Before(s)) < N /\ IsFiniteSet(Before(s))
    <2>1. IsFiniteSet(S \ {s}) /\ Cardinality(S \ {s}) = N - 1
      BY FS_RemoveElement
    <2>2. Before(s) \in SUBSET (S \ {s})
      BY DEF IsOrder
    <2>3. IsFiniteSet(Before(s)) /\ Cardinality(Before(s)) <= Cardinality(S \ {s})
      BY <2>1, <2>2, FS_Subset
    <2>4. Cardinality(Before(s)) \in Nat
      BY <2>3, FS_CardinalityType
    <2> QED
      BY <1>1, <2>1, <2>3, <2>4
  <1>3. rank \in [S -> 1..N]
    BY <1>1, <1>2
  <1>4. ASSUME NEW s \in S, NEW t \in S, <<s, t>> \in R
        PROVE  Cardinality(Before(s)) < Cardinality(Before(t))
    <2>1. Before(s) \in SUBSET Before(t) /\ s \in Before(t) /\ s \notin Before(s)
      BY <1>4 DEF IsOrder
    <2>2. /\ Cardinality(Before(s)) <= Cardinality(Before(t))
          /\ Cardinality(Before(t)) = Cardinality(Before(s)) => Before(t) = Before(s)
      BY <2>1, <1>2, FS_Subset
    <2> QED
      BY <2>1, <2>2, <1>2
  <1> HIDE DEF Before
  <1>5. ASSUME NEW s \in S, NEW t \in S, Cardinality(Before(s)) = Cardinality(Before(t))
        PROVE  s = t
    <2>1. ~(<<s, t>> \in R) /\ ~(<<t, s>> \in R)
      BY <1>2, <1>4, <1>5
    <2> QED
      BY <2>1 DEF IsOrder
  <1>6. rank \in Injection(S, 1..N)
    <2>1. ASSUME NEW s \in S, NEW t \in S, rank[s] = rank[t]
          PROVE  s = t
      <3>1. Cardinality(Before(s)) = Cardinality(Before(t))
        BY <2>1, <1>2
      <3> QED
        BY <3>1, <1>5
    <2> HIDE DEF rank
    <2> QED
      BY <2>1, <1>3 DEF Injection, IsInjective
  <1>7. rank \in Surjection(S, 1..N)
    <2>1. IsFiniteSet(1..N) /\ Cardinality(1..N) = N
      BY <1>1, FS_Interval
    <2> QED
      BY <1>6, <2>1, FS_Injection
  <1> DEFINE q == Sorted(S, R)
  <1>8. q = [i \in 1..N |-> CHOOSE s \in S : Cardinality(Before(s)) = i - 1]
    BY DEF Sorted, Before
  <1>9. ASSUME NEW i \in 1..N
        PROVE  q[i] \in S /\ Cardinality(Before(q[i])) = i - 1
    <2>1. PICK s \in S : rank[s] = i
      BY <1>7 DEF Surjection
    <2>2. Cardinality(Before(s)) = i - 1
      BY <2>1, <1>1, <1>2
    <2> QED
      BY <2>2, <1>8
  <1> HIDE DEF q
  <1>10. q \in Seq(S) /\ Len(q) = N
    <2>1. q \in [1..N -> S]
      BY <1>8, <1>9
    <2> QED
      BY <2>1, <1>1
  <1>11. \A i, j \in 1..N : q[i] = q[j] => i = j
    BY <1>1, <1>9
  <1>12. ASSUME NEW s \in S PROVE \E i \in 1..N : q[i] = s
    <2>1. rank[s] \in 1..N /\ rank[s] = Cardinality(Before(s)) + 1
      BY <1>3
    <2>2. q[rank[s]] \in S /\ Cardinality(Before(q[rank[s]])) = Cardinality(Before(s))
      BY <2>1, <1>9, <1>2
    <2> QED
      BY <2>1, <2>2, <1>5
  <1>13. InOrder(q, R)
    <2> SUFFICES ASSUME NEW i \in 1..N, NEW j \in 1..N, i < j, <<q[j], q[i]>> \in R
                 PROVE  FALSE
      BY <1>10 DEF InOrder
    <2>1. Cardinality(Before(q[j])) < Cardinality(Before(q[i]))
      BY <1>4, <1>9
    <2> QED
      BY <2>1, <1>1, <1>9
  <1> QED
    BY <1>10, <1>11, <1>12, <1>13 DEF Lists, q

\* NameSeq puts every name at one place.
LEMMA NamesHavePlaces ==
  /\ IsFiniteSet(Names)
  /\ \A n \in Names : Pos(n) \in Nat /\ NameSeq[Pos(n)] = n
  <1>1. /\ NameSeq \in Seq(Range(NameSeq))
        /\ DOMAIN NameSeq = 1..Len(NameSeq) /\ Len(NameSeq) \in Nat
    BY NamesAreListedOnce
  <1>2. \A n \in Names : Pos(n) \in DOMAIN NameSeq /\ NameSeq[Pos(n)] = n
    BY DEF Names, Range, Pos
  <1>3. NameSeq \in Surjection(1..Len(NameSeq), Names)
    <2>1. NameSeq \in [1..Len(NameSeq) -> Names]
      BY <1>1 DEF Names
    <2>2. \A n \in Names : \E i \in 1..Len(NameSeq) : NameSeq[i] = n
      BY <1>1, <1>2
    <2> QED
      BY <2>1, <2>2 DEF Surjection
  <1>4. IsFiniteSet(Names)
    BY <1>1, <1>3, FS_Interval, FS_Surjection
  <1> QED
    BY <1>1, <1>2, <1>4

LEMMA SortedNamesLists ==
  ASSUME NEW S, S \subseteq Names
  PROVE  IsFiniteSet(S) /\ Lists(SortedNames(S), S)
  <1> DEFINE R == {p \in S \X S : Pos(p[1]) < Pos(p[2])}
  <1>1. IsFiniteSet(S)
    BY NamesHavePlaces, FS_Subset
  <1>2. \A s, t \in S : <<s, t>> \in R <=> Pos(s) < Pos(t)
    OBVIOUS
  <1>3. \A s \in S : Pos(s) \in Nat /\ NameSeq[Pos(s)] = s
    BY NamesHavePlaces
  <1> HIDE DEF R
  <1>4. IsOrder(R, S)
    BY <1>2, <1>3 DEF IsOrder
  <1> QED
    BY <1>1, <1>4, SortedLists DEF SortedNames, R

LEMMA StartLevelIsNat ==
  ASSUME NEW comp, DOMAIN comp \subseteq Names, NEW s \in DOMAIN comp
  PROVE  StartLevel(comp)[s] \in Nat
  <1> DEFINE N == Cardinality(DOMAIN comp)
             T == {n \in 1..N : s \in StartRounds(comp)[n]}
  <1>1. N \in Nat
    BY NamesHavePlaces, FS_Subset, FS_CardinalityType
  <1>2. IsFiniteSet(1..N)
    BY <1>1, FS_Interval
  <1>3. IsFiniteSet(T)
    BY <1>2, FS_Subset
  <1>4. Cardinality(T) \in Nat
    BY <1>3, FS_CardinalityType
  <1> QED
    BY <1>4 DEF StartLevel

LEMMA OrdersList ==
  ASSUME NEW comp, DOMAIN comp \subseteq Names
  PROVE  /\ Lists(StartOrder(comp), DOMAIN comp)
         /\ Lists(StopOrder(comp), DOMAIN comp)
         /\ LET q == StartOrder(comp)
            IN  \A i, j \in 1..Len(q) :
                  i < j => StartLevel(comp)[q[i]] <= StartLevel(comp)[q[j]]
  <1> DEFINE S == DOMAIN comp
             level == StartLevel(comp)
             R == {p \in S \X S : \/ level[p[1]] < level[p[2]]
                                  \/ level[p[1]] = level[p[2]] /\ Pos(p[1]) < Pos(p[2])}
             Q == {p \in S \X S : \/ level[p[1]] > level[p[2]]
                                  \/ level[p[1]] = level[p[2]] /\ Pos(p[1]) < Pos(p[2])}
  <1>1. IsFiniteSet(S)
    BY NamesHavePlaces, FS_Subset
  <1>2. \A s \in S : level[s] \in Nat /\ Pos(s) \in Nat /\ NameSeq[Pos(s)] = s
    BY StartLevelIsNat, NamesHavePlaces
  <1> HIDE DEF level
  <1>3. \A s, t \in S :
          /\ <<s, t>> \in R <=> \/ level[s] < level[t]
                                \/ level[s] = level[t] /\ Pos(s) < Pos(t)
          /\ <<s, t>> \in Q <=> \/ level[s] > level[t]
                                \/ level[s] = level[t] /\ Pos(s) < Pos(t)
    OBVIOUS
  <1> HIDE DEF R, Q, S
  <1>4. IsOrder(R, S)
    BY <1>2, <1>3 DEF IsOrder
  <1>5. IsOrder(Q, S)
    BY <1>2, <1>3 DEF IsOrder
  <1>6. Lists(Sorted(S, R), S) /\ Lists(Sorted(S, Q), S) /\ InOrder(Sorted(S, R), R)
    BY <1>1, <1>4, <1>5, SortedLists
  <1> DEFINE q == Sorted(S, R)
  <1> HIDE DEF q
  <1>7. Lists(q, S) /\ InOrder(q, R)
    BY <1>6 DEF q
  <1>8. ASSUME NEW i \in 1..Len(q), NEW j \in 1..Len(q), i < j
        PROVE  level[q[i]] <= level[q[j]]
    <2>1. q \in Seq(S)
      BY <1>7 DEF Lists
    <2>2. q[i] \in S /\ q[j] \in S
      BY <2>1
    <2>3. <<q[j], q[i]>> \notin R
      BY <1>7, <1>8 DEF InOrder
    <2>4. ~(level[q[j]] < level[q[i]])
      BY <2>2, <2>3, <1>3
    <2>5. level[q[i]] \in Nat /\ level[q[j]] \in Nat
      BY <2>2, <1>2
    <2> QED
      BY <2>4, <2>5
  <1>9. StartOrder(comp) = q
    BY DEF StartOrder, R, S, level, q
  <1> QED
    BY <1>6, <1>8, <1>9 DEF StopOrder, R, Q, S, level, q

\* Induction over the numbers, in the form of a least element.
LEMMA LeastNumber ==
  ASSUME NEW S, S \subseteq Nat, S # {}
  PROVE  \E n \in S : n \in Nat /\ \A m \in Nat : m < n => m \notin S
  <1>1. PICK n \in S : \A m \in S : ~(<<m, n>> \in OpToRel(<, Nat))
    BY NatLessThanWellFounded, WFMin
  <1>2. n \in Nat /\ \A m \in S : ~(m < n)
    BY <1>1 DEF OpToRel
  <1> QED
    BY <1>2

\* What is left of last after one more round.
RoundOf(comp, last) ==
  {s \in last : \E d \in DepsOf(comp, s) : d \in last \/ d \notin DOMAIN comp}

RoundsTo(comp, n, g) ==
  /\ g \in [0..n -> SUBSET DOMAIN comp]
  /\ g[0] = DOMAIN comp
  /\ \A k \in 1..n : g[k] = RoundOf(comp, g[k - 1])

\* The recursion of StartRounds has a solution.
LEMMA RoundsExist ==
  ASSUME NEW comp, NEW N \in Nat
  PROVE  \E g : RoundsTo(comp, N, g)
  <1> DEFINE D == DOMAIN comp
             Bad == {n \in Nat : ~\E g : RoundsTo(comp, n, g)}
  <1> SUFFICES ASSUME N \in Bad PROVE FALSE
    OBVIOUS
  <1>1. PICK n \in Nat : n \in Bad /\ \A m \in Nat : m < n => m \notin Bad
    BY LeastNumber
  <1>2. CASE n = 0
    <2> DEFINE g == [k \in 0..0 |-> D]
    <2>1. RoundsTo(comp, 0, g)
      BY DEF RoundsTo
    <2> QED
      BY <2>1, <1>1, <1>2
  <1>3. CASE n # 0
    <2>1. n - 1 \in Nat /\ n - 1 < n
      BY <1>3
    <2>2. PICK g : RoundsTo(comp, n - 1, g)
      BY <1>1, <2>1
    <2> DEFINE h == [k \in 0..n |-> IF k < n THEN g[k] ELSE RoundOf(comp, g[n - 1])]
    <2>3. /\ \A k \in 0..n : k < n => k \in 0..(n - 1) /\ h[k] = g[k]
          /\ h[n] = RoundOf(comp, g[n - 1]) /\ n - 1 \in 0..(n - 1)
          /\ DOMAIN h = 0..n
      BY <2>1
    <2>4. /\ \A k \in 0..(n - 1) : g[k] \subseteq D
          /\ g[0] = D /\ \A k \in 1..(n - 1) : g[k] = RoundOf(comp, g[k - 1])
      BY <2>2 DEF RoundsTo
    <2>5. RoundOf(comp, g[n - 1]) \subseteq D
      BY <2>3, <2>4 DEF RoundOf
    <2>6. h \in [0..n -> SUBSET D]
      <3>1. \A k \in 0..n : IF k < n THEN g[k] \subseteq D ELSE RoundOf(comp, g[n - 1]) \subseteq D
        BY <2>3, <2>4, <2>5
      <3> QED
        BY <3>1
    <2> HIDE DEF h
    <2>7. h[0] = D
      BY <2>1, <2>3, <2>4
    <2>8. ASSUME NEW k \in 1..n PROVE h[k] = RoundOf(comp, h[k - 1])
      <3>1. k - 1 \in 0..n /\ k - 1 < n /\ h[k - 1] = g[k - 1]
        BY <2>1, <2>3
      <3>2. CASE k < n
        <4>1. k \in 1..(n - 1) /\ k \in 0..n
          BY <3>2, <2>1
        <4> QED
          BY <4>1, <3>1, <3>2, <2>3, <2>4
      <3>3. CASE k = n
        BY <3>1, <3>3, <2>3
      <3> QED
        BY <3>2, <3>3
    <2>9. RoundsTo(comp, n, h)
      BY <2>6, <2>7, <2>8 DEF RoundsTo
    <2> QED
      BY <2>9, <1>1
  <1> QED
    BY <1>2, <1>3

LEMMA RoundsAre ==
  ASSUME NEW comp, DOMAIN comp \subseteq Names
  PROVE  /\ Cardinality(DOMAIN comp) \in Nat
         /\ RoundsTo(comp, Cardinality(DOMAIN comp), StartRounds(comp))
  <1> DEFINE D == DOMAIN comp
             N == Cardinality(D)
             Eq(r) == r = [n \in 0..N |->
                             IF n = 0 THEN D
                             ELSE LET last == r[n-1]
                                  IN  {s \in last : \E d \in DepsOf(comp, s) : d \in last \/ d \notin D}]
  <1>1. N \in Nat
    BY NamesHavePlaces, FS_Subset, FS_CardinalityType
  <1>2. PICK g : RoundsTo(comp, N, g)
    BY <1>1, RoundsExist
  <1>3. StartRounds(comp) = CHOOSE r : Eq(r)
    BY DEF StartRounds
  <1>4. Eq(g)
    <2>1. g = [n \in 0..N |-> g[n]]
      BY <1>2 DEF RoundsTo
    <2>2. \A n \in 0..N : g[n] = IF n = 0 THEN D ELSE RoundOf(comp, g[n - 1])
      BY <1>1, <1>2 DEF RoundsTo
    <2>3. g = [n \in 0..N |-> IF n = 0 THEN D ELSE RoundOf(comp, g[n - 1])]
      BY <2>1, <2>2
    <2> QED
      BY <2>3 DEF RoundOf
  <1>5. Eq(StartRounds(comp))
    <2> HIDE DEF Eq
    <2> QED
      BY <1>3, <1>4
  <1> DEFINE r == StartRounds(comp)
  <1>6. r = [n \in 0..N |-> IF n = 0 THEN D ELSE RoundOf(comp, r[n - 1])]
    BY <1>5 DEF RoundOf
  <1> HIDE DEF r, Eq
  <1>7. r[0] = D /\ \A k \in 1..N : k \in 0..N /\ r[k] = RoundOf(comp, r[k - 1])
    BY <1>1, <1>6
  <1>8. \A n \in 0..N : r[n] \subseteq D
    <2> SUFFICES ASSUME NEW n \in 0..N, ~(r[n] \subseteq D) PROVE FALSE
      OBVIOUS
    <2> DEFINE Bad == {m \in 0..N : ~(r[m] \subseteq D)}
    <2>0. Bad \subseteq Nat /\ Bad # {}
      BY <1>1
    <2>1. PICK m \in Bad : m \in Nat /\ \A l \in Nat : l < m => l \notin Bad
      <3> HIDE DEF Bad
      <3> QED
        BY <2>0, LeastNumber
    <2>2. m # 0 /\ m \in 1..N /\ m - 1 \in 0..N /\ m - 1 < m
      BY <2>1, <1>1, <1>7
    <2>3. r[m - 1] \subseteq D
      BY <2>1, <2>2
    <2> QED
      BY <2>1, <2>2, <2>3, <1>7 DEF RoundOf
  <1>9. r \in [0..N -> SUBSET D]
    <2>1. r = [n \in 0..N |-> r[n]]
      BY <1>6
    <2> QED
      BY <2>1, <1>8
  <1> QED
    BY <1>1, <1>7, <1>9 DEF RoundsTo, r

\* A service waits longer than any of its dependencies.
LEMMA LevelsRise ==
  ASSUME NEW comp, DOMAIN comp \subseteq Names, HasStartOrder(comp),
         NEW s \in DOMAIN comp, NEW d \in DepsOf(comp, s)
  PROVE  /\ d \in DOMAIN comp
         /\ StartLevel(comp)[d] < StartLevel(comp)[s]
  <1> DEFINE D == DOMAIN comp
             N == Cardinality(D)
             r == StartRounds(comp)
             T(x) == {n \in 1..N : x \in r[n]}
  <1>1. N \in Nat /\ RoundsTo(comp, N, r)
    BY RoundsAre
  <1>2. /\ r[0] = D /\ \A k \in 1..N : r[k] = RoundOf(comp, r[k - 1])
        /\ r[N] = {}
    BY <1>1 DEF RoundsTo, HasStartOrder
  <1>3. StartLevel(comp) = [x \in D |-> Cardinality(T(x))]
    BY DEF StartLevel
  <1> HIDE DEF r
  \* As long as the dependency is left, the service is.
  <1>4. ASSUME NEW n \in 0..N, d \in r[n] \/ d \notin D PROVE s \in r[n]
    <2> DEFINE Bad == {m \in 0..N : (d \in r[m] \/ d \notin D) /\ s \notin r[m]}
    <2> SUFFICES ASSUME n \in Bad PROVE FALSE
      BY <1>4
    <2>0. Bad \subseteq Nat /\ Bad # {}
      BY <1>1
    <2>1. PICK m \in Bad : m \in Nat /\ \A l \in Nat : l < m => l \notin Bad
      <3> HIDE DEF Bad
      <3> QED
        BY <2>0, LeastNumber
    <2>2. m # 0 /\ m \in 1..N /\ m - 1 \in 0..N /\ m - 1 \in Nat /\ m - 1 < m
      BY <2>1, <1>1, <1>2
    <2>3. r[m] = RoundOf(comp, r[m - 1])
      BY <2>2, <1>2
    <2>4. d \in r[m - 1] \/ d \notin D
      BY <2>1, <2>3 DEF RoundOf
    <2>5. s \in r[m - 1]
      BY <2>1, <2>2, <2>4
    <2>6. s \in r[m]
      BY <2>3, <2>4, <2>5 DEF RoundOf
    <2> QED
      BY <2>1, <2>6
  <1>5. N \in 0..N
    BY <1>1
  <1>6. d \in D
    BY <1>2, <1>4, <1>5
  \* In the round after the dependency has gone, the service is still there.
  <1>7. PICK m \in 1..N : d \notin r[m] /\ s \in r[m]
    <2> DEFINE Out == {m \in 0..N : d \notin r[m]}
    <2>1. N \in Out /\ Out \subseteq Nat
      BY <1>1, <1>2, <1>5
    <2>2. PICK m \in Out : m \in Nat /\ \A l \in Nat : l < m => l \notin Out
      <3> HIDE DEF Out
      <3> QED
        BY <2>1, LeastNumber
    <2>3. m # 0 /\ m \in 1..N /\ m - 1 \in 0..N /\ m - 1 \in Nat /\ m - 1 < m
      BY <2>2, <1>1, <1>2, <1>6
    <2>4. d \in r[m - 1]
      BY <2>2, <2>3
    <2>5. s \in r[m - 1]
      BY <2>3, <2>4, <1>4
    <2>6. s \in r[m]
      BY <2>3, <2>4, <2>5, <1>2 DEF RoundOf
    <2> QED
      BY <2>2, <2>3, <2>6
  <1>8. T(d) \subseteq T(s) /\ m \in T(s) /\ m \notin T(d)
    BY <1>4, <1>7
  <1>9. IsFiniteSet(T(s))
    <2>1. IsFiniteSet(1..N) /\ T(s) \in SUBSET (1..N)
      BY <1>1, FS_Interval
    <2> HIDE DEF T
    <2> QED
      BY <2>1, FS_Subset
  <1> HIDE DEF T
  <1>10. /\ IsFiniteSet(T(d)) /\ Cardinality(T(d)) <= Cardinality(T(s))
         /\ Cardinality(T(d)) = Cardinality(T(s)) => T(d) = T(s)
    BY <1>8, <1>9, FS_Subset
  <1>11. Cardinality(T(d)) \in Nat /\ Cardinality(T(s)) \in Nat
    BY <1>9, <1>10, FS_CardinalityType
  <1>12. Cardinality(T(d)) < Cardinality(T(s))
    BY <1>8, <1>10, <1>11
  <1>13. StartLevel(comp)[d] = Cardinality(T(d)) /\ StartLevel(comp)[s] = Cardinality(T(s))
    BY <1>3, <1>6
  <1> QED
    BY <1>6, <1>12, <1>13

\* A list is worked off from its head.
LEMMA ListNonempty ==
  ASSUME NEW q, NEW S, Lists(q, S)
  PROVE  /\ q = <<>> <=> S = {}
         /\ Range(q) = S
  <1>1. q \in Seq(S) /\ Len(q) \in Nat /\ DOMAIN q = 1..Len(q)
    BY DEF Lists
  <1>2. Range(q) = S
    BY <1>1 DEF Lists, Range
  <1>3. q = <<>> => S = {}
    BY DEF Lists
  <1>4. q # <<>> => q[1] \in S
    BY <1>1
  <1> QED
    BY <1>2, <1>3, <1>4

LEMMA ListWorkedOff ==
  ASSUME NEW q, NEW S, Lists(q, S), q # <<>>
  PROVE  /\ Head(q) \in S
         /\ Lists(Tail(q), S \ {Head(q)})
         /\ Len(q) = 1 <=> Tail(q) = <<>>
  <1>1. q \in Seq(S) /\ Len(q) \in Nat /\ Len(q) >= 1 /\ Head(q) = q[1]
    BY DEF Lists
  <1>2. /\ Tail(q) \in Seq(S) /\ Len(Tail(q)) = Len(q) - 1
        /\ \A i \in 1..(Len(q) - 1) : Tail(q)[i] = q[i + 1]
    BY <1>1
  <1>3. \A i, j \in 1..Len(q) : q[i] = q[j] => i = j
    BY DEF Lists
  <1>4. \A i \in 1..Len(Tail(q)) : Tail(q)[i] \in S \ {q[1]}
    BY <1>1, <1>2, <1>3
  <1>5. Tail(q) \in Seq(S \ {q[1]})
    <2> DEFINE t == Tail(q)
    <2>1. t \in [1..Len(t) -> S] /\ Len(t) \in Nat
      BY <1>1, <1>2, LenProperties
    <2>2. \A i \in 1..Len(t) : t[i] \in S \ {q[1]}
      BY <1>4
    <2> HIDE DEF t
    <2>3. t \in [1..Len(t) -> S \ {q[1]}]
      BY <2>1, <2>2
    <2> QED
      BY <2>1, <2>3, SeqDef DEF t
  <1>6. ASSUME NEW s \in S \ {q[1]} PROVE \E i \in 1..Len(Tail(q)) : Tail(q)[i] = s
    <2>1. PICK i \in 1..Len(q) : q[i] = s
      BY DEF Lists
    <2>2. i - 1 \in 1..Len(Tail(q)) /\ Tail(q)[i - 1] = s
      BY <1>1, <1>2, <2>1
    <2> QED
      BY <2>2
  <1>7. \A i, j \in 1..Len(Tail(q)) : Tail(q)[i] = Tail(q)[j] => i = j
    BY <1>1, <1>2, <1>3
  <1> QED
    BY <1>1, <1>2, <1>5, <1>6, <1>7 DEF Lists

LEMMA ListsConcat ==
  ASSUME NEW q, NEW r, NEW S, NEW T, Lists(q, S), Lists(r, T), S \cap T = {}
  PROVE  Lists(q \o r, S \cup T)
  <1>1. /\ q \in Seq(S \cup T) /\ r \in Seq(S \cup T)
        /\ Len(q) \in Nat /\ Len(r) \in Nat
    <2>1. q \in Seq(S) /\ r \in Seq(T)
      BY DEF Lists
    <2> QED
      BY <2>1, SeqMonotonic
  <1>2. /\ q \o r \in Seq(S \cup T) /\ Len(q \o r) = Len(q) + Len(r)
        /\ \A i \in 1..(Len(q) + Len(r)) :
             (q \o r)[i] = IF i <= Len(q) THEN q[i] ELSE r[i - Len(q)]
    BY <1>1, ConcatProperties
  <1>3. /\ \A i \in 1..Len(q) : q[i] \in S
        /\ \A i \in 1..Len(r) : r[i] \in T
        /\ \A i, j \in 1..Len(q) : q[i] = q[j] => i = j
        /\ \A i, j \in 1..Len(r) : r[i] = r[j] => i = j
    BY DEF Lists
  <1>4. ASSUME NEW s \in S \cup T PROVE \E i \in 1..(Len(q) + Len(r)) : (q \o r)[i] = s
    <2>1. CASE s \in S
      <3>1. PICK i \in 1..Len(q) : q[i] = s
        BY <2>1 DEF Lists
      <3> QED
        BY <3>1, <1>1, <1>2
    <2>2. CASE s \in T
      <3>1. PICK i \in 1..Len(r) : r[i] = s
        BY <2>2 DEF Lists
      <3>2. Len(q) + i \in 1..(Len(q) + Len(r)) /\ (q \o r)[Len(q) + i] = s
        BY <3>1, <1>1, <1>2
      <3> QED
        BY <3>2
    <2> QED
      BY <2>1, <2>2
  <1>5. ASSUME NEW i \in 1..(Len(q) + Len(r)), NEW j \in 1..(Len(q) + Len(r)),
               (q \o r)[i] = (q \o r)[j]
        PROVE  i = j
    BY <1>1, <1>2, <1>3, <1>5
  <1> QED
    BY <1>2, <1>4, <1>5 DEF Lists

----------------------------------------------------------------------------
(***************************************************************************)
(* The inductive invariant.                                                *)
(***************************************************************************)
Comps == {<<>>} \cup Docs \cup {TransformComposition(d) : d \in Docs}
Defs == {<<>>} \cup UNION {Range(c) : c \in Comps}

PodStates == {"sandbox", "created", "running", "exit0", "exit1", "gone"}
Pods == [st : PodStates, def : Defs]

\* What commands have listed, and what create is to make.
Listed == [n : Names, k : Nat, st : PodStates]
Wanted == [n : Names, def : Defs]

RuntimeTypes ==
  pods \in [Names -> Seq(Pods)] /\ doc \in Docs /\ mtime \in Nat

Ups == [pc : {"idle", "eval", "service", "wait", "ok", "failed"},
        comp : Comps, todo : Seq(Names), k : Nat]

UpTypes ==
  /\ up \in Ups
  /\ before \in [Names -> Seq(Pods)]

Cmds == [kind : {"none", "stop", "start", "restart", "rm", "rmstop", "create", "down"},
         pc : {"off", "run", "start", "down", "ok", "failed"},
         todo : SUBSET (Listed \cup Wanted), svcs : Seq(Names \cup Listed \cup Wanted)]

CmdTypes ==
  /\ cmd \in Cmds
  /\ cmd.kind = "create" => cmd.todo \subseteq Wanted
  /\ known \subseteq Names

Watches == [pc : {"off", "idle", "eval", "remove", "down", "up"}, seen : Nat,
            current : Comps, new : Comps, remove : Seq(Names), restart : Seq(Names),
            fresh : BOOLEAN]

WatchTypes ==
  /\ w \in Watches
  /\ managed \subseteq Names

Types == RuntimeTypes /\ UpTypes /\ CmdTypes /\ WatchTypes

(***************************************************************************)
(* The notions of Project, of a list p of pods.                            *)
(***************************************************************************)
LiveIn(p) == {k \in DOMAIN p : p[k].st # "gone"}

BuiltIn(p, svc) == \E k \in LiveIn(p) : LiveIn(p) = {k} /\ p[k].def = svc

\* q is p, but for containers that have exited.
LikeIn(q, p) ==
  /\ DOMAIN q = DOMAIN p
  /\ \A k \in DOMAIN q : /\ q[k].def = p[k].def
                          /\ \/ q[k].st = p[k].st
                             \/ p[k].st = "running" /\ q[k].st \in Exited

\* Service n, with the pods p, is in the runtime what it is in comp.
Mirrors(p, n, comp) ==
  IF n \in DOMAIN comp THEN BuiltIn(p, comp[n]) ELSE LiveIn(p) = {}

\* A down works its services off; as long as nobody else has touched a pod, those
\* it is through with are gone.
DownGoes ==
  /\ cmd.pc = "down" => cmd.kind = "down"
  /\ cmd.kind = "down" =>
       /\ cmd.pc \in {"down", "ok", "failed"}
       /\ cmd.svcs \in Seq(Names)
       /\ cmd.pc = "ok" => cmd.svcs = <<>>
       /\ cmd.pc # "failed" /\ ~raced =>
            \A n \in known : n \in Range(cmd.svcs) \/ LiveIn(pods[n]) = {}

\* What up has left to do, each service once.
UpTodo ==
  /\ Lists(up.todo, Range(up.todo)) /\ Range(up.todo) \subseteq DOMAIN up.comp
  /\ up.pc \in {"service", "wait"} => up.todo # <<>>
  /\ up.pc = "ok" => up.todo = <<>>
  /\ up.pc = "eval" => up.todo = <<>> /\ up.comp = <<>>

\* UpIsAPrefix; and the service up waits for was just built.
Prefix ==
  /\ up.pc # "idle" =>
       \A n \in Names \ disturbed :
         /\ n \in Started => BuiltIn(pods[n], up.comp[n])
         /\ n \notin Started /\ (up.todo = <<>> \/ n # Current) => LikeIn(pods[n], before[n])
  /\ up.pc = "wait" /\ Current \notin disturbed => BuiltIn(pods[Current], up.comp[Current])

\* The watcher is entered when up is over.
OneLoop == WatchActive => up.pc = "idle"

\* What a round was told to do, and in which order.
RoundTodo ==
  /\ Lists(w.remove, Range(w.remove)) /\ Lists(w.restart, Range(w.restart))
  /\ Range(w.remove) \cap Range(w.restart) = {}
  /\ w.pc = "remove" => w.remove # <<>>
  /\ w.pc \in {"down", "up"} => w.remove = <<>> /\ w.restart # <<>>
  /\ w.pc \in {"off", "idle", "eval"} => trail = {}

InRound == w.pc \in {"remove", "down", "up"}

Left == Range(w.remove) \cup Range(w.restart)

SameIn(n, c, d) ==
  /\ n \in DOMAIN c <=> n \in DOMAIN d
  /\ n \in DOMAIN c => c[n] = d[n]

\* In a round: what was handled is as in the new document; what is not handled yet
\* is as in the old one, but for the service that was taken down to be restarted;
\* and that much is left to do, that the two documents agree on the rest.
RoundMirrors ==
  InRound =>
    /\ trail \cap Left = {}
    /\ Range(w.remove) \cap DOMAIN w.new = {}
    /\ Range(w.restart) \subseteq DOMAIN w.new
    /\ \A n \in Names \ (trail \cup Left) : SameIn(n, w.current, w.new)
    /\ \A n \in trail \ (torn \cup disturbed) : Mirrors(pods[n], n, w.new)
    /\ \A n \in managed \ (torn \cup disturbed \cup trail) :
         (w.pc = "up" /\ n = Head(w.restart)) \/ Mirrors(pods[n], n, w.current)

IdleMirrors ==
  w.pc \in {"idle", "eval"} =>
    \A n \in managed \ (torn \cup disturbed) : Mirrors(pods[n], n, w.current)

\* A round works on the document of the time it has taken over, unless there was
\* an edit since - which the next tick will see.
Currency ==
  /\ w.seen <= mtime
  /\ InRound /\ w.seen = mtime => w.new = doc
  /\ w.pc = "idle" /\ w.fresh /\ w.seen = mtime => w.current = doc

Watching ==
  /\ trail \subseteq Names /\ (WatchActive => DOMAIN w.current \subseteq managed)
  /\ RoundTodo /\ RoundMirrors /\ IdleMirrors

\* Service d was seen to start, and to do what up waits for after that.
Satisfied(comp, sn, d) ==
  LET cond == HighestConditionOf(d, comp)
  IN  /\ <<d, "started">> \in sn
      /\ cond \in {"healthy", "completed"} => <<d, cond>> \in sn

Rising(comp, q) ==
  \A i, j \in 1..Len(q) : i < j => StartLevel(comp)[q[i]] <= StartLevel(comp)[q[j]]

\* What up has left to do never gets back to a lower level; what it is through
\* with depends on nothing that is left, and was waited for.
UpSeen ==
  up.pc \in {"service", "wait"} =>
    /\ HasStartOrder(up.comp)
    /\ Rising(up.comp, up.todo)
    /\ \A s \in DOMAIN up.comp \ Range(up.todo) :
         DepsOf(up.comp, s) \cap Range(up.todo) = {} /\ Satisfied(up.comp, seen, s)
    /\ up.pc = "wait" => <<Current, "started">> \in seen

ProjectInv ==
  /\ Types /\ DownGoes /\ UpTodo /\ Prefix /\ OneLoop
  /\ Watching /\ Currency

----------------------------------------------------------------------------
(***************************************************************************)
(* Pods.                                                                   *)
(***************************************************************************)
LEMMA CompFacts ==
  ASSUME NEW c \in Comps
  PROVE  /\ DOMAIN c \subseteq Names
         /\ \A s \in DOMAIN c : c[s] \in Defs
  <1>1. DOMAIN c \subseteq Names
    BY DocsAreNamed, InitsAreNamed DEF Comps
  <1>2. \A s \in DOMAIN c : c[s] \in Range(c)
    BY DEF Range
  <1> QED
    BY <1>1, <1>2 DEF Defs

LEMMA GoneTyped == Gone \in Pods /\ Gone.st = "gone"
BY DEF Gone, Pods, PodStates, Defs

\* The pods of all services but n stay as they are.
OnlyPodsOf(n, p) == pods' = [pods EXCEPT ![n] = p]

LEMMA OthersStay ==
  ASSUME RuntimeTypes, NEW n, NEW p, OnlyPodsOf(n, p), n \in Names => p \in Seq(Pods)
  PROVE  /\ pods' \in [Names -> Seq(Pods)]
         /\ n \in Names => pods'[n] = p
         /\ \A m \in Names \ {n} : pods'[m] = pods[m]
BY DEF RuntimeTypes, OnlyPodsOf

LEMMA TornDown ==
  ASSUME RuntimeTypes, NEW n \in Names, NEW ks
  PROVE  /\ TearDown(n, ks) \in Seq(Pods) /\ Len(TearDown(n, ks)) = Len(pods[n])
         /\ DOMAIN TearDown(n, ks) = DOMAIN pods[n]
         /\ \A k \in DOMAIN pods[n] :
              TearDown(n, ks)[k] = IF k \in ks THEN Gone ELSE pods[n][k]
  <1>1. pods[n] \in Seq(Pods) /\ Len(pods[n]) \in Nat /\ DOMAIN pods[n] = 1..Len(pods[n])
    BY DEF RuntimeTypes
  <1> DEFINE t == TearDown(n, ks)
  <1>2. t = [k \in 1..Len(pods[n]) |-> IF k \in ks THEN Gone ELSE pods[n][k]]
    BY <1>1 DEF TearDown
  <1> HIDE DEF t
  <1>3. t \in [1..Len(pods[n]) -> Pods]
    BY <1>1, <1>2, GoneTyped
  <1>4. t \in Seq(Pods) /\ Len(t) = Len(pods[n])
    BY <1>1, <1>3
  <1> QED
    BY <1>1, <1>2, <1>4 DEF t

LEMMA ServiceDownDoes ==
  ASSUME RuntimeTypes, NEW n \in Names, ServiceDown(n)
  PROVE  /\ pods' \in [Names -> Seq(Pods)]
         /\ LiveIn(pods'[n]) = {}
         /\ \A m \in Names \ {n} : pods'[m] = pods[m]
  <1> DEFINE t == TearDown(n, Live(n))
  <1>1. /\ t \in Seq(Pods) /\ DOMAIN t = DOMAIN pods[n]
        /\ \A k \in DOMAIN pods[n] : t[k] = IF k \in Live(n) THEN Gone ELSE pods[n][k]
    BY TornDown
  <1>2. OnlyPodsOf(n, t)
    BY DEF ServiceDown, OnlyPodsOf
  <1> HIDE DEF t
  <1>3. \A k \in DOMAIN t : t[k].st = "gone"
    BY <1>1, GoneTyped DEF Live
  <1>4. pods'[n] = t
    BY <1>1, <1>2, OthersStay
  <1> QED
    BY <1>1, <1>2, <1>3, <1>4, OthersStay DEF LiveIn

LEMMA BuiltDoes ==
  ASSUME RuntimeTypes, NEW n \in Names, NEW svc \in Defs, NEW st \in PodStates \ {"gone"}
  PROVE  LET b == Built(n, svc, st)
             last == Len(pods[n]) + 1
         IN  /\ b \in Seq(Pods) /\ DOMAIN b = 1..last /\ last \in 1..last
             /\ b[last].st = st /\ b[last].def = svc
             /\ \A k \in 1..last : b[k].st # "gone" => k = last
  <1> DEFINE t == TearDown(n, Live(n))
             r == [st |-> st, def |-> svc]
             last == Len(pods[n]) + 1
  <1>1. /\ t \in Seq(Pods) /\ Len(t) = Len(pods[n])
        /\ DOMAIN t = DOMAIN pods[n]
        /\ \A k \in DOMAIN pods[n] : t[k] = IF k \in Live(n) THEN Gone ELSE pods[n][k]
    BY TornDown
  <1>2. Len(pods[n]) \in Nat /\ DOMAIN pods[n] = 1..Len(pods[n])
    BY DEF RuntimeTypes
  <1>3. r \in Pods /\ r.st = st /\ r.def = svc
    BY DEF Pods
  <1>4. Built(n, svc, st) = Append(t, r)
    BY DEF Built
  <1> HIDE DEF t, r
  <1>5. /\ Append(t, r) \in Seq(Pods) /\ Len(Append(t, r)) = Len(t) + 1
        /\ Append(t, r)[Len(t) + 1] = r
        /\ \A k \in 1..Len(t) : Append(t, r)[k] = t[k]
    BY <1>1, <1>3, AppendProperties
  <1>6. \A k \in 1..Len(t) : t[k].st = "gone"
    BY <1>1, <1>2, GoneTyped DEF Live
  <1>7. DOMAIN Append(t, r) = 1..last
    BY <1>1, <1>5, LenProperties
  <1>8. ASSUME NEW k \in 1..last, Append(t, r)[k].st # "gone"
        PROVE  k = last
    <2>1. k \in 1..Len(t) \/ k = last
      BY <1>1, <1>2
    <2> QED
      BY <2>1, <1>8, <1>5, <1>6
  <1>9. last \in 1..last
    BY <1>2
  <1> QED
    BY <1>1, <1>3, <1>4, <1>5, <1>7, <1>8, <1>9

LEMMA ServiceUpDoes ==
  ASSUME RuntimeTypes, NEW n \in Names, NEW svc \in Defs, ServiceUp(n, svc)
  PROVE  /\ pods' \in [Names -> Seq(Pods)]
         /\ BuiltIn(pods'[n], svc)
         /\ \A m \in Names \ {n} : pods'[m] = pods[m]
  <1> DEFINE b == Built(n, svc, "running")
             last == Len(pods[n]) + 1
  <1>1. /\ b \in Seq(Pods) /\ DOMAIN b = 1..last /\ last \in 1..last
        /\ b[last].st = "running" /\ b[last].def = svc
        /\ \A k \in 1..last : b[k].st # "gone" => k = last
    BY BuiltDoes DEF PodStates
  <1>2. OnlyPodsOf(n, b)
    BY DEF ServiceUp, OnlyPodsOf
  <1> HIDE DEF b, last
  <1>3. pods'[n] = b
    BY <1>1, <1>2, OthersStay
  <1>4. LiveIn(b) = {last}
    BY <1>1 DEF LiveIn
  <1>5. BuiltIn(b, svc)
    BY <1>1, <1>4 DEF BuiltIn
  <1> QED
    BY <1>1, <1>2, <1>3, <1>5, OthersStay

LEMMA StateSet ==
  ASSUME NEW t \in Seq(Pods), NEW k, NEW st \in PodStates
  PROVE  [t EXCEPT ![k].st = st] \in Seq(Pods)
  <1>1. Len(t) \in Nat /\ t \in [1..Len(t) -> Pods]
    OBVIOUS
  <1>2. [t EXCEPT ![k].st = st] \in [1..Len(t) -> Pods]
    BY <1>1 DEF Pods
  <1> QED
    BY <1>1, <1>2, SeqDef

LEMMA TearDownFailsTyped ==
  ASSUME RuntimeTypes, NEW n \in Names, NEW p \in TearDownFails(n)
  PROVE  p \in Seq(Pods)
  <1>1. CASE Live(n) = {}
    BY <1>1 DEF TearDownFails, RuntimeTypes
  <1>2. CASE Live(n) # {}
    <2>1. PICK k \in Live(n) : \E ks \in SUBSET (Live(n) \ {k}) :
            \E st \in {pods[n][k].st, "sandbox"}
                      \cup (IF pods[n][k].st = "running" THEN Exited ELSE {}) :
              p = [TearDown(n, ks) EXCEPT ![k].st = st]
      BY <1>2 DEF TearDownFails
    <2>2. PICK ks \in SUBSET (Live(n) \ {k}) :
            \E st \in {pods[n][k].st, "sandbox"}
                      \cup (IF pods[n][k].st = "running" THEN Exited ELSE {}) :
              p = [TearDown(n, ks) EXCEPT ![k].st = st]
      BY <2>1
    <2>3. PICK st \in {pods[n][k].st, "sandbox"}
                      \cup (IF pods[n][k].st = "running" THEN Exited ELSE {}) :
              p = [TearDown(n, ks) EXCEPT ![k].st = st]
      BY <2>2
    <2>4. pods[n][k] \in Pods
      BY <2>1 DEF RuntimeTypes, Live
    <2>5. st \in PodStates
      BY <2>3, <2>4 DEF Pods, PodStates, Exited
    <2>6. TearDown(n, ks) \in Seq(Pods)
      BY TornDown
    <2> QED
      BY <2>3, <2>5, <2>6, StateSet
  <1> QED
    BY <1>1, <1>2

LEMMA ServiceDownFailsDoes ==
  ASSUME RuntimeTypes, NEW n \in Names, ServiceDownFails(n)
  PROVE  /\ pods' \in [Names -> Seq(Pods)]
         /\ \A m \in Names \ {n} : pods'[m] = pods[m]
  <1>1. PICK p \in TearDownFails(n) : OnlyPodsOf(n, p)
    BY DEF ServiceDownFails, OnlyPodsOf
  <1>2. p \in Seq(Pods)
    BY TearDownFailsTyped
  <1> QED
    BY <1>1, <1>2, OthersStay

LEMMA ServiceUpFailsDoes ==
  ASSUME RuntimeTypes, NEW n \in Names, NEW svc \in Defs, ServiceUpFails(n, svc)
  PROVE  /\ pods' \in [Names -> Seq(Pods)]
         /\ \A m \in Names \ {n} : pods'[m] = pods[m]
  <1>1. PICK p \in TearDownFails(n) \cup {TearDown(n, Live(n)), Built(n, svc, "sandbox"),
                                          Built(n, svc, "created")} :
          OnlyPodsOf(n, p)
    BY DEF ServiceUpFails, OnlyPodsOf
  <1>2. TearDown(n, Live(n)) \in Seq(Pods)
    BY TornDown
  <1>3. Built(n, svc, "sandbox") \in Seq(Pods) /\ Built(n, svc, "created") \in Seq(Pods)
    <2>1. \A st \in PodStates \ {"gone"} : Built(n, svc, st) \in Seq(Pods)
      BY BuiltDoes
    <2> QED
      BY <2>1 DEF PodStates
  <1>4. p \in Seq(Pods)
    BY <1>1, <1>2, <1>3, TearDownFailsTyped
  <1> QED
    BY <1>1, <1>4, OthersStay

\* One pod changes its state, if it is there.
LEMMA SetStateDoes ==
  ASSUME RuntimeTypes, NEW n, NEW k, NEW st \in PodStates, pods' = SetState(n, k, st)
  PROVE  /\ pods' \in [Names -> Seq(Pods)]
         /\ \A m \in Names \ {n} : pods'[m] = pods[m]
         /\ n \in Names => /\ DOMAIN pods'[n] = DOMAIN pods[n]
                           /\ \A j \in DOMAIN pods[n] :
                                /\ pods'[n][j].def = pods[n][j].def
                                /\ pods'[n][j].st = IF j = k THEN st ELSE pods[n][j].st
  <1> DEFINE p == [pods[n] EXCEPT ![k].st = st]
  <1>1. OnlyPodsOf(n, p)
    BY DEF SetState, OnlyPodsOf
  <1>2. n \in Names => p \in Seq(Pods)
    BY StateSet DEF RuntimeTypes
  <1>3. ASSUME n \in Names
        PROVE  /\ DOMAIN p = DOMAIN pods[n]
               /\ \A j \in DOMAIN pods[n] :
                    /\ p[j].def = pods[n][j].def
                    /\ p[j].st = IF j = k THEN st ELSE pods[n][j].st
    <2>1. \A j \in DOMAIN pods[n] : pods[n][j] \in Pods
      BY <1>3 DEF RuntimeTypes
    <2> QED
      BY <2>1 DEF Pods
  <1> HIDE DEF p
  <1> QED
    BY <1>1, <1>2, <1>3, OthersStay

----------------------------------------------------------------------------
LEMMA LikeItself ==
  ASSUME NEW p
  PROVE  LikeIn(p, p)
BY DEF LikeIn

LEMMA LikeKeeps ==
  ASSUME NEW p, NEW q, LikeIn(q, p)
  PROVE  /\ LiveIn(q) = LiveIn(p)
         /\ \A svc : BuiltIn(p, svc) => BuiltIn(q, svc)
         /\ \A n, comp : Mirrors(p, n, comp) => Mirrors(q, n, comp)
  <1>1. LiveIn(q) = LiveIn(p)
    BY DEF LikeIn, LiveIn, Exited
  <1>2. \A svc : BuiltIn(p, svc) => BuiltIn(q, svc)
    BY <1>1 DEF LikeIn, BuiltIn, LiveIn
  <1> QED
    BY <1>1, <1>2 DEF Mirrors

LEMMA LikeTransitive ==
  ASSUME NEW p, NEW q, NEW r, LikeIn(q, p), LikeIn(r, q)
  PROVE  LikeIn(r, p)
BY DEF LikeIn, Exited

Quiet == \A m \in Names : LikeIn(pods'[m], pods[m])

LEMMA UnchangedIsQuiet ==
  ASSUME UNCHANGED pods
  PROVE  Quiet
BY LikeItself DEF Quiet

LEMMA ExitDoes ==
  ASSUME RuntimeTypes, ContainerExits
  PROVE  RuntimeTypes' /\ Quiet
  <1>1. PICK n \in Names : \E k \in Live(n), st \in Exited : Exit(n, k, st, Awaited(n, k))
    BY DEF ContainerExits
  <1>2. PICK k \in Live(n), st \in Exited : Exit(n, k, st, Awaited(n, k))
    BY <1>1
  <1>3. pods' = SetState(n, k, st) /\ UNCHANGED <<doc, mtime>> /\ pods[n][k].st = "running"
    BY <1>2 DEF Exit
  <1>4. /\ pods' \in [Names -> Seq(Pods)]
        /\ \A m \in Names \ {n} : pods'[m] = pods[m]
        /\ DOMAIN pods'[n] = DOMAIN pods[n]
        /\ \A j \in DOMAIN pods[n] :
             /\ pods'[n][j].def = pods[n][j].def
             /\ pods'[n][j].st = IF j = k THEN st ELSE pods[n][j].st
    BY <1>3, SetStateDoes DEF Exited, PodStates
  <1>5. LikeIn(pods'[n], pods[n])
    BY <1>3, <1>4 DEF LikeIn
  <1> QED
    BY <1>3, <1>4, <1>5, LikeItself DEF Quiet, RuntimeTypes

\* Up and the watcher, restated of lists of pods.
LEMMA LiveIsLiveIn ==
  /\ \A n : Live(n) = LiveIn(pods[n])
  /\ \A n, svc : BuiltFrom(n, svc) <=> BuiltIn(pods[n], svc)
  /\ \A n : AsBefore(n) <=> LikeIn(pods[n], before[n])
BY DEF Live, LiveIn, BuiltFrom, BuiltIn, AsBefore, LikeIn

----------------------------------------------------------------------------
(***************************************************************************)
(* Up.                                                                     *)
(***************************************************************************)
LEMMA TodoNamed ==
  ASSUME Types, UpTodo, up.todo # <<>>
  PROVE  /\ Current \in Names /\ Current \in DOMAIN up.comp
         /\ up.comp[Current] \in Defs
         /\ Current \in Range(up.todo)
         /\ Tail(up.todo) \in Seq(Names)
         /\ Lists(Tail(up.todo), Range(up.todo) \ {Current})
         /\ Len(up.todo) = 1 <=> Tail(up.todo) = <<>>
  <1>1. up.comp \in Comps /\ up.todo \in Seq(Names)
    BY DEF Types, UpTypes, Ups
  <1>2. /\ Current \in Range(up.todo)
        /\ Lists(Tail(up.todo), Range(up.todo) \ {Current})
        /\ Len(up.todo) = 1 <=> Tail(up.todo) = <<>>
    BY ListWorkedOff DEF UpTodo, Current
  <1> QED
    BY <1>1, <1>2, CompFacts DEF UpTodo

LEMMA AdvanceTyped ==
  ASSUME Types, UpTodo, up.todo # <<>>, Advance
  PROVE  /\ up' \in Ups
         /\ up'.comp = up.comp /\ up'.todo = Tail(up.todo)
         /\ up'.pc = IF Tail(up.todo) = <<>> THEN "ok" ELSE "service"
  <1>1. /\ Tail(up.todo) \in Seq(Names)
        /\ Len(up.todo) = 1 <=> Tail(up.todo) = <<>>
    BY TodoNamed
  <1> QED
    BY <1>1 DEF Advance, Types, UpTypes, Ups

UpPart == RuntimeTypes /\ UpTypes /\ UpTodo /\ Prefix

\* Up stays with its service, or gives up.
LEMMA UpStays ==
  ASSUME Types, UpTodo, Prefix, up.pc # "idle",
         UNCHANGED <<doc, mtime, before, disturbed>>,
         pods' \in [Names -> Seq(Pods)],
         \A m \in Names : up.todo = <<>> \/ m # Current => pods'[m] = pods[m],
         up'.pc = "wait" => up.pc = "wait" /\ UNCHANGED pods,
         up' \in Ups, up'.comp = up.comp, up'.todo = up.todo,
         up'.pc = up.pc \/ up'.pc = "failed"
  PROVE  UpPart'
  <1>1. RuntimeTypes' /\ UpTypes'
    BY DEF Types, RuntimeTypes, UpTypes
  <1>2. UpTodo'
    BY DEF UpTodo
  <1>3. Started' = Started /\ Current' = Current
    BY DEF Started, Current
  <1>4. up.todo # <<>> => Current \notin Started
    BY TodoNamed DEF Started
  <1>5. Prefix'
    <2>1. ASSUME NEW n \in Names \ disturbed, n \in Started
          PROVE  BuiltIn(pods'[n], up.comp[n])
      BY <2>1, <1>4 DEF Prefix
    <2>2. ASSUME NEW n \in Names \ disturbed, n \notin Started, up.todo = <<>> \/ n # Current
          PROVE  LikeIn(pods'[n], before[n])
      BY <2>2 DEF Prefix
    <2>3. up'.pc = "wait" /\ Current \notin disturbed
            => BuiltIn(pods'[Current], up.comp[Current])
      BY DEF Prefix
    <2> QED
      BY <1>3, <2>1, <2>2, <2>3 DEF Prefix
  <1> QED
    BY <1>1, <1>2, <1>5 DEF UpPart

\* Up is through with a service, which is built, and turns to the next.
LEMMA UpAdvances ==
  ASSUME Types, UpTodo, Prefix, up.pc # "idle", up.todo # <<>>, Advance,
         UNCHANGED <<doc, mtime, before, disturbed>>,
         pods' \in [Names -> Seq(Pods)],
         \A m \in Names \ {Current} : pods'[m] = pods[m],
         Current \notin disturbed => BuiltIn(pods'[Current], up.comp[Current])
  PROVE  UpPart'
  <1>1. /\ up' \in Ups
        /\ up'.comp = up.comp /\ up'.todo = Tail(up.todo)
        /\ up'.pc = IF Tail(up.todo) = <<>> THEN "ok" ELSE "service"
    BY AdvanceTyped
  <1>2. /\ Current \in Names /\ Current \in DOMAIN up.comp
        /\ Current \in Range(up.todo)
        /\ Lists(Tail(up.todo), Range(up.todo) \ {Current})
    BY TodoNamed
  <1>3. RuntimeTypes' /\ UpTypes'
    BY <1>1 DEF Types, RuntimeTypes, UpTypes
  <1>4. /\ Range(Tail(up.todo)) = Range(up.todo) \ {Current}
        /\ Tail(up.todo) = <<>> <=> Range(up.todo) \ {Current} = {}
    BY <1>2, ListNonempty, Zenon
  <1>5. UpTodo'
    BY <1>1, <1>2, <1>4 DEF UpTodo
  <1>6. Started' = Started \cup {Current}
    BY <1>1, <1>2, <1>4 DEF Started
  <1>7. Prefix'
    <2>1. ASSUME NEW n \in Names \ disturbed, n \in Started \cup {Current}
          PROVE  BuiltIn(pods'[n], up.comp[n])
      BY <2>1 DEF Prefix
    <2>2. ASSUME NEW n \in Names \ disturbed, n \notin Started \cup {Current}
          PROVE  LikeIn(pods'[n], before[n])
      BY <2>2 DEF Prefix
    <2> QED
      BY <1>1, <1>6, <2>1, <2>2 DEF Prefix
  <1> QED
    BY <1>3, <1>5, <1>7 DEF UpPart

LEMMA UpGoesTo ==
  ASSUME Types, NEW p \in {"wait", "failed"}, UpGoes(p)
  PROVE  up' \in Ups /\ up'.comp = up.comp /\ up'.todo = up.todo /\ up'.pc = p
BY DEF UpGoes, Types, UpTypes, Ups

LEMMA UpBeginsKeeps ==
  ASSUME Types, UpBegins, disturbed' = {}
  PROVE  UpPart'
  <1>1. /\ <<>> \in Comps /\ <<>> \in Seq(Names) /\ DOMAIN <<>> = {} /\ Range(<<>>) = {}
        /\ Lists(<<>>, {})
    BY DEF Comps, Range, Lists
  <1>2. Idle \in Ups /\ Idle.comp = <<>> /\ Idle.todo = <<>>
    BY <1>1 DEF Idle, Ups
  <1>3. up' \in Ups /\ up'.comp = <<>> /\ up'.todo = <<>> /\ up'.pc = "eval"
    BY <1>2 DEF UpBegins, Ups
  <1>4. UNCHANGED <<pods, doc, mtime>> /\ before' = pods
    BY DEF UpBegins, rtVars
  <1>5. RuntimeTypes' /\ UpTypes'
    BY <1>3, <1>4 DEF Types, RuntimeTypes, UpTypes
  <1>6. UpTodo'
    BY <1>1, <1>3 DEF UpTodo
  <1>7. Started' = {}
    BY <1>1, <1>3 DEF Started
  <1>8. Prefix'
    BY <1>3, <1>4, <1>7, LikeItself DEF Prefix
  <1> QED
    BY <1>5, <1>6, <1>8 DEF UpPart

LEMMA UpEvalKeeps ==
  ASSUME Types, UpTodo, Prefix, UpEval, UNCHANGED disturbed
  PROVE  UpPart'
  <1>1. /\ up.pc = "eval" /\ up.todo = <<>> /\ up.comp = <<>>
        /\ UNCHANGED <<pods, doc, mtime, before>>
    BY DEF UpEval, UpTodo, rtVars
  <1> DEFINE comp == TransformComposition(doc)
  <1>2. CASE ~HasStartOrder(comp)
    <2>1. UpGoes("failed")
      BY <1>2 DEF UpEval
    <2> QED
      BY <1>1, <2>1, UpGoesTo, UpStays DEF Types, RuntimeTypes
  <1>3. CASE HasStartOrder(comp)
    <2>1. up' = [up EXCEPT !.comp = comp, !.todo = StartOrder(comp),
                           !.pc = IF DOMAIN comp = {} THEN "ok" ELSE "service"]
      BY <1>3 DEF UpEval
    <2>2. comp \in Comps
      BY DEF Comps, Types, RuntimeTypes
    <2> HIDE DEF comp
    <2>3. DOMAIN comp \subseteq Names /\ Lists(StartOrder(comp), DOMAIN comp)
      BY <2>2, CompFacts, OrdersList
    <2>4. StartOrder(comp) \in Seq(Names)
      BY <2>3, SeqMonotonic DEF Lists
    <2>5. /\ up' \in Ups
          /\ up'.comp = comp /\ up'.todo = StartOrder(comp)
          /\ up'.pc = IF DOMAIN comp = {} THEN "ok" ELSE "service"
      BY <2>1, <2>2, <2>4 DEF Types, UpTypes, Ups
    <2>6. /\ Range(StartOrder(comp)) = DOMAIN comp
          /\ StartOrder(comp) = <<>> <=> DOMAIN comp = {}
      BY <2>3, ListNonempty
    <2>7. UpTodo'
      BY <2>3, <2>5, <2>6 DEF UpTodo
    <2>8. Started' = {}
      BY <2>5, <2>6 DEF Started
    <2>9. \A n \in Names \ disturbed : LikeIn(pods[n], before[n])
      <3>1. Started = {}
        BY <1>1 DEF Started
      <3> QED
        BY <1>1, <3>1 DEF Prefix
    <2>10. Prefix'
      BY <1>1, <2>5, <2>8, <2>9 DEF Prefix
    <2> QED
      BY <1>1, <2>5, <2>7, <2>10 DEF UpPart, Types, RuntimeTypes, UpTypes
  <1> QED
    BY <1>2, <1>3

LEMMA UpServiceKeeps ==
  ASSUME Types, UpTodo, Prefix, UpService, UNCHANGED disturbed
  PROVE  UpPart'
  <1>1. /\ up.pc = "service" /\ up.todo # <<>> /\ ServiceUp(Current, up.comp[Current])
        /\ UNCHANGED <<doc, mtime, before>>
    BY DEF UpService, UpTodo
  <1>2. Current \in Names /\ up.comp[Current] \in Defs
    BY <1>1, TodoNamed
  <1>3. /\ pods' \in [Names -> Seq(Pods)]
        /\ BuiltIn(pods'[Current], up.comp[Current])
        /\ \A m \in Names \ {Current} : pods'[m] = pods[m]
    BY <1>1, <1>2, ServiceUpDoes DEF Types
  <1>4. CASE Advance
    BY <1>1, <1>3, <1>4, UpAdvances
  <1>5. CASE UpGoes("wait")
    <2>1. up' \in Ups /\ up'.comp = up.comp /\ up'.todo = up.todo /\ up'.pc = "wait"
      BY <1>5, UpGoesTo
    <2>2. Started' = Started /\ Current' = Current
      BY <2>1 DEF Started, Current
    <2>3. Current \notin Started
      BY <1>1, TodoNamed DEF Started
    <2>4. UpTodo'
      BY <1>1, <2>1 DEF UpTodo
    <2>5. Prefix'
      <3>1. ASSUME NEW n \in Names \ disturbed, n \in Started
            PROVE  BuiltIn(pods'[n], up.comp[n])
        BY <3>1, <1>1, <1>3, <2>3 DEF Prefix
      <3>2. ASSUME NEW n \in Names \ disturbed, n \notin Started, n # Current
            PROVE  LikeIn(pods'[n], before[n])
        BY <3>2, <1>1, <1>3 DEF Prefix
      <3> QED
        BY <1>1, <1>3, <2>1, <2>2, <3>1, <3>2 DEF Prefix
    <2> QED
      BY <1>1, <1>3, <2>1, <2>4, <2>5 DEF UpPart, Types, RuntimeTypes, UpTypes
  <1> QED
    BY <1>4, <1>5 DEF UpService

LEMMA UpServiceFailsKeeps ==
  ASSUME Types, UpTodo, Prefix, UpServiceFails, UNCHANGED disturbed
  PROVE  UpPart'
  <1>1. /\ up.pc = "service" /\ up.todo # <<>> /\ ServiceUpFails(Current, up.comp[Current])
        /\ UNCHANGED <<doc, mtime, before>> /\ UpGoes("failed")
    BY DEF UpServiceFails, UpTodo
  <1>2. Current \in Names /\ up.comp[Current] \in Defs
    BY <1>1, TodoNamed
  <1>3. /\ pods' \in [Names -> Seq(Pods)]
        /\ \A m \in Names \ {Current} : pods'[m] = pods[m]
    BY <1>1, <1>2, ServiceUpFailsDoes DEF Types
  <1>4. up' \in Ups /\ up'.comp = up.comp /\ up'.todo = up.todo /\ up'.pc = "failed"
    BY <1>1, UpGoesTo
  <1> QED
    BY <1>1, <1>3, <1>4, UpStays

LEMMA UpKeepsUp ==
  ASSUME Types, UpTodo, Prefix, UpProcess
  PROVE  UpPart'
  <1>1. CASE UpBegins
    <2>1. disturbed' = {}
      BY <1>1 DEF UpProcess, UpBegins, UpActive
    <2> QED
      BY <1>1, <2>1, UpBeginsKeeps
  <1>2. CASE UpStep \/ UpEvalFails \/ UpServiceFails \/ WaitFails \/ \E ok \in BOOLEAN : Probe(ok)
    <2>1. UNCHANGED disturbed /\ up.pc # "idle"
      BY <1>2 DEF UpProcess, UpActive, UpStep, UpEval, UpService, WaitRefused, WaitExited,
                  WaitHealthy, WaitBegins, UpEvalFails, UpServiceFails, WaitFails, Probe
    <2>2. CASE UpEval
      BY <2>1, <2>2, UpEvalKeeps
    <2>3. CASE UpService
      BY <2>1, <2>3, UpServiceKeeps
    <2>4. CASE UpServiceFails
      BY <2>1, <2>4, UpServiceFailsKeeps
    <2>5. CASE WaitRefused \/ UpEvalFails \/ WaitFails
      <3>1. UpGoes("failed") /\ UNCHANGED <<pods, doc, mtime, before>>
        BY <2>5 DEF WaitRefused, UpEvalFails, WaitFails, rtVars
      <3>2. up' \in Ups /\ up'.comp = up.comp /\ up'.todo = up.todo /\ up'.pc = "failed"
        BY <3>1, UpGoesTo
      <3> QED
        BY <2>1, <3>1, <3>2, UpStays DEF Types, RuntimeTypes
    <2>6. CASE WaitExited \/ WaitHealthy
      <3>1. /\ up.pc = "wait" /\ up.todo # <<>>
            /\ Advance \/ UpGoes("failed")
            /\ UNCHANGED <<pods, doc, mtime, before>>
        BY <2>6 DEF WaitExited, WaitHealthy, rtVars, UpTodo
      <3>2. CASE Advance
        <4>1. Current \notin disturbed => BuiltIn(pods'[Current], up.comp[Current])
          BY <3>1 DEF Prefix
        <4> QED
          BY <2>1, <3>1, <3>2, <4>1, UpAdvances DEF Types, RuntimeTypes
      <3>3. CASE UpGoes("failed")
        <4>1. up' \in Ups /\ up'.comp = up.comp /\ up'.todo = up.todo /\ up'.pc = "failed"
          BY <3>3, UpGoesTo
        <4> QED
          BY <2>1, <3>1, <4>1, UpStays DEF Types, RuntimeTypes
      <3> QED
        BY <3>1, <3>2, <3>3
    <2>7. ASSUME NEW k \in Containers(Current), WaitBegins(k) PROVE UpPart'
      <3>1. /\ up.pc = "wait" /\ up.todo # <<>> /\ up' = [up EXCEPT !.k = k]
            /\ UNCHANGED <<pods, doc, mtime, before>>
        BY <2>7 DEF WaitBegins, UpTodo, rtVars
      <3>2. k \in Nat
        <4>1. Current \in Names
          BY <3>1, TodoNamed
        <4> QED
          BY <4>1 DEF Containers, Live, Types, RuntimeTypes
      <3>3. up' \in Ups /\ up'.comp = up.comp /\ up'.todo = up.todo /\ up'.pc = up.pc
        BY <3>1, <3>2 DEF Types, UpTypes, Ups
      <3> QED
        BY <2>1, <3>1, <3>3, UpStays DEF Types, RuntimeTypes
    <2>8. CASE \E ok \in BOOLEAN : Probe(ok)
      <3>1. UNCHANGED <<pods, doc, mtime, up, before>>
        BY <2>8 DEF Probe, rtVars
      <3> QED
        BY <2>1, <3>1, UpStays DEF Types, RuntimeTypes, UpTypes
    <2> QED
      BY <1>2, <2>2, <2>3, <2>4, <2>5, <2>6, <2>7, <2>8 DEF UpStep
  <1> QED
    BY <1>1, <1>2 DEF UpProcess, UpNext

\* Other processes leave up alone; the pods they change count as disturbed.
LEMMA UpLeftAlone ==
  ASSUME Types, UpTodo, Prefix, RuntimeTypes', UNCHANGED <<up, before>>,
         disturbed \subseteq disturbed',
         \A m \in Names \ disturbed' : LikeIn(pods'[m], pods[m])
  PROVE  UpPart'
  <1>1. UpTypes' /\ UpTodo' /\ Started' = Started /\ Current' = Current
    BY DEF Types, UpTypes, UpTodo, Started, Current
  <1>2. ASSUME NEW n \in Names \ disturbed'
        PROVE  /\ \A svc : BuiltIn(pods[n], svc) => BuiltIn(pods'[n], svc)
               /\ LikeIn(pods[n], before[n]) => LikeIn(pods'[n], before[n])
    BY LikeKeeps, LikeTransitive
  <1>3. up.pc = "wait" => Current \in Names
    BY TodoNamed DEF UpTodo
  <1>4. Prefix'
    BY <1>1, <1>2, <1>3 DEF Prefix
  <1> QED
    BY <1>1, <1>4 DEF UpPart

----------------------------------------------------------------------------
(***************************************************************************)
(* The commands.                                                           *)
(***************************************************************************)
CmdPart == RuntimeTypes /\ CmdTypes /\ DownGoes

\* The commands that are not down.
LEMMA NotDown ==
  ASSUME cmd' \in Cmds, cmd'.kind # "down", cmd'.pc # "down",
         cmd'.kind = "create" => cmd'.todo \subseteq Wanted,
         CmdTypes, UNCHANGED known, RuntimeTypes'
  PROVE  CmdPart'
BY DEF CmdPart, CmdTypes, DownGoes

LEMMA SnapshotTyped ==
  ASSUME RuntimeTypes, NEW svcs \in Targets
  PROVE  Snapshot(svcs) \subseteq Listed
  <1> SUFFICES ASSUME NEW n \in svcs, NEW k \in Containers(n)
               PROVE  [n |-> n, k |-> k, st |-> pods[n][k].st] \in Listed
    BY DEF Snapshot
  <1>1. n \in Names
    BY TargetsAreNamed
  <1>2. k \in DOMAIN pods[n]
    BY DEF Containers, Live
  <1>3. k \in Nat /\ pods[n][k] \in Pods
    BY <1>1, <1>2 DEF RuntimeTypes
  <1>4. pods[n][k].st \in PodStates
    BY <1>3 DEF Pods
  <1> QED
    BY <1>1, <1>3, <1>4 DEF Listed

LEMMA CommandBeginsKeeps ==
  ASSUME Types, NEW svcs \in Targets, NEW kind \in {"stop", "start", "restart", "rm", "rmstop"},
         CommandBegins(kind, svcs)
  PROVE  CmdPart'
  <1> DEFINE T == {c \in Snapshot(svcs) : Selected(kind, c)}
  <1>1. T \in SUBSET (Listed \cup Wanted)
    BY SnapshotTyped DEF Types
  <1>2. <<>> \in Seq(Names \cup Listed \cup Wanted)
    OBVIOUS
  <1>3. /\ cmd' = [kind |-> kind, pc |-> "run", svcs |-> <<>>, todo |-> T]
        /\ UNCHANGED <<pods, doc, mtime, known>>
    BY DEF CommandBegins, rtVars
  <1> HIDE DEF T
  <1>4. cmd' \in Cmds /\ cmd'.kind = kind /\ cmd'.pc = "run"
    BY <1>1, <1>2, <1>3 DEF Cmds
  <1> QED
    BY <1>3, <1>4, NotDown DEF Types, RuntimeTypes

LEMMA CreateBeginsKeeps ==
  ASSUME Types, NEW svcs \in Targets, CreateBegins(svcs)
  PROVE  CmdPart'
  <1> DEFINE T == {[n |-> n, def |-> doc[n]] : n \in svcs \cap DOMAIN doc}
  <1>1. T \in SUBSET Wanted
    <2>1. \A n \in svcs \cap DOMAIN doc : n \in Names /\ doc[n] \in Defs
      <3>1. doc \in Comps
        BY DEF Comps, Types, RuntimeTypes
      <3> QED
        BY <3>1, CompFacts
    <2> QED
      BY <2>1 DEF Wanted
  <1>2. <<>> \in Seq(Names \cup Listed \cup Wanted)
    OBVIOUS
  <1>3. /\ cmd' = [kind |-> "create", pc |-> "run", svcs |-> <<>>, todo |-> T]
        /\ UNCHANGED <<pods, doc, mtime, known>>
    BY DEF CreateBegins, rtVars
  <1> HIDE DEF T
  <1>4. cmd' \in Cmds /\ cmd'.kind = "create" /\ cmd'.todo = T /\ cmd'.pc = "run"
    BY <1>1, <1>2, <1>3 DEF Cmds
  <1> QED
    BY <1>1, <1>3, <1>4, NotDown DEF Types, RuntimeTypes

LEMMA CmdGoesTo ==
  ASSUME Types, NEW p \in {"ok", "failed"}, CmdGoes(p)
  PROVE  /\ cmd' \in Cmds /\ cmd'.kind = cmd.kind /\ cmd'.todo = cmd.todo
         /\ cmd'.svcs = cmd.svcs /\ cmd'.pc = p
BY DEF CmdGoes, Types, CmdTypes, Cmds

LEMMA HandledDoes ==
  ASSUME Types, NEW c, Handled(c)
  PROVE  /\ cmd' \in Cmds /\ cmd'.kind = cmd.kind /\ cmd'.pc = "run"
         /\ cmd'.todo \subseteq cmd.todo
  <1>1. cmd.todo \ {c} \in SUBSET (Listed \cup Wanted)
    BY DEF Types, CmdTypes, Cmds
  <1> QED
    BY <1>1 DEF Handled, Types, CmdTypes, Cmds

LEMMA OneIsNamed ==
  ASSUME Types, NEW c \in cmd.todo
  PROVE  /\ c.n \in Names /\ pods[c.n] \in Seq(Pods)
         /\ <<c>> \in Seq(Names \cup Listed \cup Wanted)
  <1>1. c \in Listed \cup Wanted
    BY DEF Types, CmdTypes, Cmds
  <1>2. c.n \in Names
    BY <1>1 DEF Listed, Wanted
  <1> QED
    BY <1>1, <1>2 DEF Types, RuntimeTypes

LEMMA StopOneKeeps ==
  ASSUME Types, DownGoes, NEW c \in cmd.todo, NEW st \in Exited, StopOne(c, st)
  PROVE  CmdPart'
  <1>1. cmd.kind \in {"stop", "restart"} /\ UNCHANGED <<doc, mtime, known>>
    BY DEF StopOne
  <1>2. RuntimeTypes'
    <2>1. CASE pods' = pods
      BY <1>1, <2>1 DEF Types, RuntimeTypes
    <2>2. CASE pods' = SetState(c.n, c.k, st)
      <3>1. pods' \in [Names -> Seq(Pods)]
        BY <2>2, SetStateDoes DEF Types, Exited, PodStates
      <3> QED
        BY <1>1, <3>1 DEF Types, RuntimeTypes
    <2> QED
      BY <2>1, <2>2 DEF StopOne
  <1>3. CASE Handled(c)
    BY <1>1, <1>2, <1>3, HandledDoes, NotDown DEF Types
  <1>4. CASE cmd' = [cmd EXCEPT !.pc = "start", !.svcs = <<c>>]
    <2>1. cmd' \in Cmds /\ cmd'.kind = cmd.kind /\ cmd'.pc = "start"
      BY <1>4, OneIsNamed DEF Types, CmdTypes, Cmds
    <2> QED
      BY <1>1, <1>2, <2>1, NotDown DEF Types
  <1> QED
    BY <1>3, <1>4 DEF StopOne

LEMMA StartOneKeeps ==
  ASSUME Types, DownGoes, NEW c \in cmd.todo, StartOne(c)
  PROVE  CmdPart'
  <1>1. cmd.kind # "down" /\ UNCHANGED <<doc, mtime, known>>
    BY DEF StartOne, DownGoes
  <1>2. CASE UNCHANGED pods /\ CmdGoes("failed")
    <2>1. cmd' \in Cmds /\ cmd'.kind = cmd.kind /\ cmd'.todo = cmd.todo /\ cmd'.pc = "failed"
      BY <1>2, CmdGoesTo
    <2> QED
      BY <1>1, <1>2, <2>1, NotDown DEF Types, RuntimeTypes, CmdTypes
  <1>3. CASE /\ pods' = SetState(c.n, c.k, "running")
             /\ cmd' = [cmd EXCEPT !.todo = @ \ {c}, !.pc = "run", !.svcs = <<>>]
    <2>1. pods' \in [Names -> Seq(Pods)]
      BY <1>3, SetStateDoes DEF Types, PodStates
    <2>2. cmd.todo \ {c} \in SUBSET (Listed \cup Wanted)
      BY DEF Types, CmdTypes, Cmds
    <2>3. <<>> \in Seq(Names \cup Listed \cup Wanted)
      OBVIOUS
    <2>4. /\ cmd' \in Cmds /\ cmd'.kind = cmd.kind /\ cmd'.pc = "run"
          /\ cmd'.todo \subseteq cmd.todo
      BY <1>3, <2>2, <2>3 DEF Types, CmdTypes, Cmds
    <2> QED
      BY <1>1, <2>1, <2>4, NotDown DEF Types, RuntimeTypes, CmdTypes
  <1> QED
    BY <1>2, <1>3 DEF StartOne

LEMMA RemoveOneKeeps ==
  ASSUME Types, DownGoes, NEW c \in cmd.todo, RemoveOne(c)
  PROVE  CmdPart'
  <1>1. /\ cmd.kind \in {"rm", "rmstop"} /\ UNCHANGED <<doc, mtime, known>>
        /\ OnlyPodsOf(c.n, TearDown(c.n, {c.k})) /\ Handled(c)
    BY DEF RemoveOne, OnlyPodsOf
  <1>2. TearDown(c.n, {c.k}) \in Seq(Pods)
    BY OneIsNamed, TornDown DEF Types
  <1>3. pods' \in [Names -> Seq(Pods)]
    BY <1>1, <1>2, OthersStay DEF Types
  <1> QED
    BY <1>1, <1>3, HandledDoes, NotDown DEF Types, RuntimeTypes

LEMMA PodAppended ==
  ASSUME Types, NEW c \in Wanted, NEW st \in PodStates,
         pods' = [pods EXCEPT ![c.n] = Append(@, [st |-> st, def |-> c.def])]
  PROVE  pods' \in [Names -> Seq(Pods)]
  <1> DEFINE r == [st |-> st, def |-> c.def]
  <1>1. r \in Pods /\ c.n \in Names /\ pods[c.n] \in Seq(Pods)
    BY DEF Wanted, Pods, Types, RuntimeTypes
  <1>2. OnlyPodsOf(c.n, Append(pods[c.n], r))
    BY DEF OnlyPodsOf
  <1> HIDE DEF r
  <1>3. Append(pods[c.n], r) \in Seq(Pods)
    BY <1>1, AppendProperties
  <1> QED
    BY <1>2, <1>3, OthersStay DEF Types

LEMMA CreateOneKeeps ==
  ASSUME Types, DownGoes, NEW c \in cmd.todo, CreateOne(c)
  PROVE  CmdPart'
  <1>1. cmd.kind = "create" /\ UNCHANGED <<doc, mtime, known>> /\ Handled(c)
    BY DEF CreateOne
  <1>2. c \in Wanted
    BY <1>1 DEF Types, CmdTypes
  <1>3. pods' \in [Names -> Seq(Pods)]
    BY <1>2, PodAppended DEF CreateOne, PodStates
  <1> QED
    BY <1>1, <1>3, HandledDoes, NotDown DEF Types, RuntimeTypes, CmdTypes

LEMMA CommandFailsKeeps ==
  ASSUME Types, DownGoes, CommandFails
  PROVE  CmdPart'
  <1>1. cmd.kind # "down" /\ UNCHANGED <<doc, mtime, known>> /\ CmdGoes("failed")
    BY DEF CommandFails, DownGoes
  <1>2. pods' \in [Names -> Seq(Pods)]
    <2>1. CASE UNCHANGED pods
      BY <2>1 DEF Types, RuntimeTypes
    <2>2. CASE /\ cmd.kind = "create"
               /\ \E c \in cmd.todo :
                    pods' = [pods EXCEPT ![c.n] = Append(@, [st |-> "sandbox", def |-> c.def])]
      <3>1. PICK c \in cmd.todo :
              pods' = [pods EXCEPT ![c.n] = Append(@, [st |-> "sandbox", def |-> c.def])]
        BY <2>2
      <3>2. c \in Wanted
        BY <2>2 DEF Types, CmdTypes
      <3> QED
        BY <3>1, <3>2, PodAppended DEF PodStates
    <2>3. CASE \E c \in cmd.todo : pods' = SetState(c.n, c.k, "sandbox")
      BY <2>3, SetStateDoes DEF Types, PodStates
    <2> QED
      BY <2>1, <2>2, <2>3 DEF CommandFails
  <1>3. cmd' \in Cmds /\ cmd'.kind = cmd.kind /\ cmd'.todo = cmd.todo /\ cmd'.pc = "failed"
    BY <1>1, CmdGoesTo
  <1> QED
    BY <1>1, <1>2, <1>3, NotDown DEF Types, RuntimeTypes, CmdTypes

LEMMA NamesInCmds ==
  ASSUME NEW q \in Seq(Names)
  PROVE  q \in Seq(Names \cup Listed \cup Wanted)
BY SeqMonotonic

LEMMA DownBeginsKeeps ==
  ASSUME Types, NEW evaluated, DownBegins(evaluated)
  PROVE  CmdPart'
  <1> DEFINE ordered == evaluated /\ HasStartOrder(doc)
             q == IF ordered THEN StopOrder(doc) ELSE SortedNames(Names)
             K == IF ordered THEN DOMAIN doc ELSE Names
  <1>1. /\ cmd' = [kind |-> "down", pc |-> "down", todo |-> {}, svcs |-> q]
        /\ known' = K /\ UNCHANGED <<pods, doc, mtime>>
    BY DEF DownBegins, rtVars
  <1>2. Lists(q, K) /\ K \subseteq Names
    <2>1. DOMAIN doc \subseteq Names
      BY DocsAreNamed DEF Types, RuntimeTypes
    <2>2. Lists(StopOrder(doc), DOMAIN doc) /\ Lists(SortedNames(Names), Names)
      BY <2>1, OrdersList, SortedNamesLists
    <2> QED
      BY <2>1, <2>2
  <1> HIDE DEF q, K
  <1>3. Range(q) = K /\ q \in Seq(Names)
    BY <1>2, ListNonempty, SeqMonotonic DEF Lists
  <1>4. q \in Seq(Names \cup Listed \cup Wanted)
    BY <1>3, NamesInCmds
  <1>5. /\ cmd' \in Cmds /\ cmd'.kind = "down" /\ cmd'.pc = "down" /\ cmd'.svcs = q
    BY <1>1, <1>4 DEF Cmds
  <1>6. CmdTypes'
    BY <1>1, <1>2, <1>5 DEF CmdTypes
  <1>7. DownGoes'
    BY <1>1, <1>3, <1>5 DEF DownGoes
  <1> QED
    BY <1>1, <1>6, <1>7 DEF CmdPart, Types, RuntimeTypes

\* A down at work has a nonempty list of names left.
LEMMA DownHead ==
  ASSUME Types, DownGoes, cmd.pc = "down", cmd.svcs # <<>>
  PROVE  /\ Head(cmd.svcs) \in Names /\ Tail(cmd.svcs) \in Seq(Names)
         /\ Range(cmd.svcs) \subseteq {Head(cmd.svcs)} \cup Range(Tail(cmd.svcs))
  <1> DEFINE q == cmd.svcs
  <1>1. q \in Seq(Names) /\ q # <<>>
    BY DEF DownGoes
  <1> HIDE DEF q
  <1>2. /\ Len(q) \in Nat /\ Len(q) >= 1 /\ Head(q) = q[1] /\ q[1] \in Names
        /\ Tail(q) \in Seq(Names) /\ Len(Tail(q)) = Len(q) - 1
        /\ \A i \in 1..(Len(q) - 1) : Tail(q)[i] = q[i + 1]
        /\ DOMAIN q = 1..Len(q) /\ DOMAIN Tail(q) = 1..(Len(q) - 1)
    BY <1>1
  <1>3. ASSUME NEW i \in DOMAIN q, i # 1
        PROVE  i - 1 \in DOMAIN Tail(q) /\ Tail(q)[i - 1] = q[i]
    BY <1>2, <1>3
  <1>4. Range(q) \subseteq {Head(q)} \cup Range(Tail(q))
    <2> SUFFICES ASSUME NEW i \in DOMAIN q, i # 1
                 PROVE  q[i] \in Range(Tail(q))
      BY <1>2 DEF Range
    <2> QED
      BY <1>3 DEF Range
  <1> QED
    BY <1>2, <1>4 DEF q

LEMMA DownOneKeeps ==
  ASSUME Types, DownGoes, DownOne, raced' = (CmdActive /\ raced)
  PROVE  CmdPart'
  <1> DEFINE h == Head(cmd.svcs)
             t == Tail(cmd.svcs)
  <1>1. /\ cmd.pc = "down" /\ cmd.kind = "down" /\ cmd.svcs # <<>> /\ ServiceDown(h)
        /\ cmd' = [cmd EXCEPT !.svcs = t]
        /\ UNCHANGED <<doc, mtime, known>>
    BY DEF DownOne, DownGoes
  <1>2. h \in Names /\ t \in Seq(Names) /\ Range(cmd.svcs) \subseteq {h} \cup Range(t)
    BY <1>1, DownHead
  <1> HIDE DEF h, t
  <1>3. /\ pods' \in [Names -> Seq(Pods)] /\ LiveIn(pods'[h]) = {}
        /\ \A m \in Names \ {h} : pods'[m] = pods[m]
    BY <1>1, <1>2, ServiceDownDoes DEF Types
  <1>4. t \in Seq(Names \cup Listed \cup Wanted)
    BY <1>2, NamesInCmds
  <1>5. /\ cmd' \in Cmds /\ cmd'.kind = "down" /\ cmd'.pc = "down" /\ cmd'.svcs = t
    BY <1>1, <1>4 DEF Types, CmdTypes, Cmds
  <1>6. CmdTypes'
    BY <1>1, <1>5 DEF Types, CmdTypes
  <1>7. ~raced' => ~raced
    BY <1>1 DEF CmdActive
  <1>8. ASSUME ~raced', NEW n \in known
        PROVE  n \in Range(t) \/ LiveIn(pods'[n]) = {}
    <2>1. n \in Names /\ (n \in Range(cmd.svcs) \/ LiveIn(pods[n]) = {})
      BY <1>1, <1>7, <1>8 DEF DownGoes, Types, CmdTypes
    <2> QED
      BY <2>1, <1>2, <1>3
  <1>9. DownGoes'
    BY <1>1, <1>2, <1>5, <1>8 DEF DownGoes
  <1> QED
    BY <1>1, <1>3, <1>6, <1>9 DEF CmdPart, Types, RuntimeTypes

LEMMA DownEndKeeps ==
  ASSUME Types, DownGoes, DownEnds \/ DownFails, raced' = (CmdActive /\ raced)
  PROVE  CmdPart'
  <1>1. /\ cmd.pc = "down" /\ cmd.kind = "down" /\ UNCHANGED <<doc, mtime, known>>
        /\ ~raced' => ~raced
    BY DEF DownEnds, DownFails, DownGoes, rtVars, CmdActive
  <1>2. CASE DownEnds
    <2>1. cmd.svcs = <<>> /\ CmdGoes("ok") /\ UNCHANGED pods
      BY <1>2 DEF DownEnds, rtVars
    <2>2. cmd' \in Cmds /\ cmd'.kind = "down" /\ cmd'.svcs = <<>> /\ cmd'.pc = "ok"
      BY <1>1, <2>1, CmdGoesTo
    <2>3. DownGoes'
      BY <1>1, <2>1, <2>2 DEF DownGoes
    <2> QED
      BY <1>1, <2>1, <2>2, <2>3 DEF CmdPart, Types, RuntimeTypes, CmdTypes
  <1>3. CASE DownFails
    <2>1. cmd.svcs # <<>> /\ CmdGoes("failed") /\ ServiceDownFails(Head(cmd.svcs))
      BY <1>3 DEF DownFails
    <2>2. pods' \in [Names -> Seq(Pods)]
      BY <1>1, <2>1, DownHead, ServiceDownFailsDoes DEF Types
    <2>3. /\ cmd' \in Cmds /\ cmd'.kind = "down" /\ cmd'.svcs = cmd.svcs /\ cmd'.pc = "failed"
      BY <1>1, <2>1, CmdGoesTo
    <2>4. DownGoes'
      BY <1>1, <2>3 DEF DownGoes
    <2> QED
      BY <1>1, <2>2, <2>3, <2>4 DEF CmdPart, Types, RuntimeTypes, CmdTypes
  <1> QED
    BY <1>2, <1>3

LEMMA CmdKeepsCmd ==
  ASSUME Types, DownGoes, CmdProcess
  PROVE  CmdPart'
  <1>1. CASE CommandEnds
    <2>1. cmd.pc = "run" /\ CmdGoes("ok") /\ UNCHANGED <<pods, doc, mtime, known>>
      BY <1>1 DEF CommandEnds, rtVars
    <2>2. cmd' \in Cmds /\ cmd'.kind = cmd.kind /\ cmd'.todo = cmd.todo /\ cmd'.pc = "ok"
      BY <2>1, CmdGoesTo
    <2> QED
      BY <2>1, <2>2, NotDown DEF DownGoes, Types, RuntimeTypes, CmdTypes
  <1>2. raced' = (CmdActive /\ raced)
    BY DEF CmdProcess
  <1> QED
    BY <1>1, <1>2, CommandBeginsKeeps, CreateBeginsKeeps, DownBeginsKeeps, StopOneKeeps,
       StartOneKeeps, RemoveOneKeeps, CreateOneKeeps, CommandFailsKeeps, DownOneKeeps,
       DownEndKeeps
    DEF CmdProcess, CmdNext

\* Other processes leave the command alone; when they change a pod it is raced.
LEMMA CmdLeftAlone ==
  ASSUME Types, DownGoes, RuntimeTypes', UNCHANGED <<cmd, known>>,
         cmd.kind = "down" /\ ~raced' =>
           ~raced /\ \A n \in Names : LiveIn(pods[n]) = {} => LiveIn(pods'[n]) = {}
  PROVE  CmdPart'
  <1>1. CmdTypes'
    BY DEF Types, CmdTypes
  <1>2. DownGoes'
    BY DEF DownGoes, Types, CmdTypes
  <1> QED
    BY <1>1, <1>2 DEF CmdPart

----------------------------------------------------------------------------
(***************************************************************************)
(* The watcher.                                                            *)
(***************************************************************************)
WatchPart == RuntimeTypes /\ WatchTypes /\ Watching /\ Currency

LEMMA OnwardDoes ==
  ASSUME NEW v \in Watches
  PROVE  /\ Onward(v) \in Watches
         /\ Onward(v).seen = v.seen /\ Onward(v).new = v.new
         /\ Onward(v).remove = v.remove /\ Onward(v).restart = v.restart
         /\ v.remove # <<>> \/ v.restart # <<>> => Onward(v).current = v.current
         /\ v.remove # <<>> => Onward(v).pc = "remove"
         /\ v.remove = <<>> /\ v.restart # <<>> => Onward(v).pc = "down"
         /\ v.remove = <<>> /\ v.restart = <<>> =>
              Onward(v).pc = "idle" /\ Onward(v).current = v.new
  <1>1. CASE v.remove # <<>>
    <2>1. Onward(v) = [v EXCEPT !.pc = "remove"]
      BY <1>1 DEF Onward
    <2> QED
      BY <1>1, <2>1 DEF Watches
  <1>2. CASE v.remove = <<>> /\ v.restart # <<>>
    <2>1. Onward(v) = [v EXCEPT !.pc = "down"]
      BY <1>2 DEF Onward
    <2> QED
      BY <1>2, <2>1 DEF Watches
  <1>3. CASE v.remove = <<>> /\ v.restart = <<>>
    <2>1. Onward(v) = [v EXCEPT !.pc = "idle", !.current = v.new, !.fresh = TRUE]
      BY <1>3 DEF Onward
    <2> QED
      BY <1>3, <2>1 DEF Watches
  <1> QED
    BY <1>1, <1>2, <1>3

\* Mirroring one document or one that says the same of n.
LEMMA SameMirrors ==
  ASSUME NEW p, NEW n, NEW c, NEW d, SameIn(n, c, d), Mirrors(p, n, c)
  PROVE  Mirrors(p, n, d)
BY DEF SameIn, Mirrors

\* The head of a round's list.
LEMMA RoundHead ==
  ASSUME Types, Watching
  PROVE  /\ w.pc = "remove" =>
              /\ Head(w.remove) \in Range(w.remove) /\ Head(w.remove) \in Names
              /\ Tail(w.remove) \in Seq(Names)
              /\ Lists(Tail(w.remove), Range(w.remove) \ {Head(w.remove)})
         /\ w.pc \in {"down", "up"} =>
              /\ Head(w.restart) \in Range(w.restart) /\ Head(w.restart) \in Names
              /\ Tail(w.restart) \in Seq(Names)
              /\ Lists(Tail(w.restart), Range(w.restart) \ {Head(w.restart)})
  <1>1. /\ w.remove \in Seq(Names) /\ w.restart \in Seq(Names)
    BY DEF Types, WatchTypes, Watches
  <1>2. Lists(w.remove, Range(w.remove)) /\ Lists(w.restart, Range(w.restart))
    BY DEF Watching, RoundTodo
  <1>3. Range(w.remove) \subseteq Names /\ Range(w.restart) \subseteq Names
    BY <1>1 DEF Range
  <1>4. w.pc = "remove" => w.remove # <<>>
    BY DEF Watching, RoundTodo
  <1>5. w.pc \in {"down", "up"} => w.restart # <<>>
    BY DEF Watching, RoundTodo
  <1>6. w.pc = "remove" => /\ Head(w.remove) \in Range(w.remove)
                           /\ Lists(Tail(w.remove), Range(w.remove) \ {Head(w.remove)})
    BY <1>2, <1>4, ListWorkedOff
  <1>7. w.pc \in {"down", "up"} =>
                           /\ Head(w.restart) \in Range(w.restart)
                           /\ Lists(Tail(w.restart), Range(w.restart) \ {Head(w.restart)})
    BY <1>2, <1>5, ListWorkedOff
  <1>8. /\ w.remove # <<>> => Tail(w.remove) \in Seq(Names)
        /\ w.restart # <<>> => Tail(w.restart) \in Seq(Names)
    BY <1>1
  <1> QED
    BY <1>3, <1>4, <1>5, <1>6, <1>7, <1>8

\* A round is through with service h.
LEMMA ServiceHandled ==
  ASSUME Types, Watching, Currency, InRound,
         NEW v \in Watches, NEW h \in Left,
         v.seen = w.seen, v.new = w.new, v.current = w.current,
         Lists(v.remove, Range(v.remove)), Lists(v.restart, Range(v.restart)),
         Range(v.remove) = Range(w.remove) \ {h}, Range(v.restart) = Range(w.restart) \ {h},
         w.pc = "up" => h = Head(w.restart),
         w' = Onward(v),
         pods' \in [Names -> Seq(Pods)], \A m \in Names \ {h} : pods'[m] = pods[m],
         UNCHANGED <<doc, mtime, disturbed>>,
         torn' \ {h} = torn \ {h},
         h \notin torn' => Mirrors(pods'[h], h, w.new),
         trail' = IF w'.pc = "idle" THEN {} ELSE trail \cup {h},
         managed' = managed \cup DOMAIN w'.current
  PROVE  WatchPart'
  <1>1. /\ w' \in Watches
        /\ w'.seen = w.seen /\ w'.new = w.new
        /\ w'.remove = v.remove /\ w'.restart = v.restart
        /\ v.remove # <<>> \/ v.restart # <<>> => w'.current = w.current
        /\ v.remove # <<>> => w'.pc = "remove"
        /\ v.remove = <<>> /\ v.restart # <<>> => w'.pc = "down"
        /\ v.remove = <<>> /\ v.restart = <<>> => w'.pc = "idle" /\ w'.current = w.new
    BY OnwardDoes
  <1>2. /\ w.current \in Comps /\ w.new \in Comps
        /\ DOMAIN w.current \subseteq Names /\ DOMAIN w.new \subseteq Names
        /\ managed \subseteq Names /\ trail \subseteq Names
        /\ w.remove \in Seq(Names) /\ w.restart \in Seq(Names)
    BY CompFacts DEF Types, WatchTypes, Watches, Watching
  <1>3. /\ Left \subseteq Names /\ h \in Names
        /\ DOMAIN w.current \subseteq managed
    <2>1. Range(w.remove) \subseteq Names /\ Range(w.restart) \subseteq Names
      BY <1>2 DEF Range
    <2> QED
      BY <2>1 DEF Left, Watching, WatchActive, InRound
  <1>4. /\ v.remove = <<>> <=> Range(v.remove) = {}
        /\ v.restart = <<>> <=> Range(v.restart) = {}
    BY ListNonempty
  <1>5. h \notin trail
    BY DEF Watching, RoundMirrors
  <1>6. RuntimeTypes' /\ WatchTypes'
    BY <1>1, <1>2 DEF Types, RuntimeTypes, WatchTypes
  <1>7. RoundTodo'
    BY <1>1, <1>4 DEF Watching, RoundTodo
  <1>8. ASSUME NEW n \in (trail \cup {h}) \ (torn' \cup disturbed)
        PROVE  Mirrors(pods'[n], n, w.new)
    <2>1. CASE n = h
      BY <2>1, <1>8
    <2>2. CASE n # h
      <3>1. n \in trail /\ n \in Names /\ n \notin torn /\ n \notin disturbed
        BY <2>2, <1>2, <1>8
      <3>2. Mirrors(pods[n], n, w.new)
        BY <3>1 DEF Watching, RoundMirrors
      <3> QED
        BY <2>2, <3>1, <3>2
    <2> QED
      BY <2>1, <2>2
  <1>9. ASSUME NEW n \in managed \ (torn' \cup disturbed \cup trail \cup {h})
        PROVE  Mirrors(pods'[n], n, w.current)
    <2>1. n \in managed /\ n \in Names /\ n # h /\ n \notin torn /\ n \notin disturbed /\ n \notin trail
      BY <1>2, <1>9
    <2>2. Mirrors(pods[n], n, w.current)
      BY <2>1 DEF Watching, RoundMirrors
    <2> QED
      BY <2>1, <2>2
  <1>10. Left' = Left \ {h}
    BY <1>1 DEF Left
  <1>11. CASE w'.pc = "idle"
    <2>1. Left = {h} /\ w'.current = w.new /\ trail' = {}
      BY <1>1, <1>4, <1>11 DEF Left
    <2>2. ASSUME NEW n \in managed' \ (torn' \cup disturbed)
          PROVE  Mirrors(pods'[n], n, w.new)
      <3>1. CASE n \in trail \cup {h}
        BY <3>1, <2>2, <1>8
      <3>2. CASE n \notin trail \cup {h}
        <4>1. n \in Names /\ SameIn(n, w.current, w.new)
          BY <3>2, <2>1, <2>2, <1>2 DEF Watching, RoundMirrors
        <4>2. n \in managed
          BY <4>1, <2>1, <2>2, <1>3 DEF SameIn
        <4>3. Mirrors(pods'[n], n, w.current)
          BY <4>2, <3>2, <2>2, <1>9
        <4> QED
          BY <4>1, <4>3, SameMirrors
      <3> QED
        BY <3>1, <3>2
    <2>3. Watching'
      BY <2>1, <2>2, <1>7, <1>11 DEF Watching, WatchActive, InRound, RoundMirrors, IdleMirrors
    <2>4. Currency'
      BY <2>1, <1>1, <1>11 DEF Currency, InRound
    <2> QED
      BY <2>3, <2>4, <1>6 DEF WatchPart
  <1>12. CASE w'.pc # "idle"
    <2>1. /\ w'.pc \in {"remove", "down"} /\ w'.current = w.current
          /\ trail' = trail \cup {h} /\ managed' = managed
      BY <1>1, <1>3, <1>12
    <2>2. RoundMirrors'
      <3>1. /\ trail' \cap Left' = {}
            /\ Range(w'.remove) \cap DOMAIN w'.new = {}
            /\ Range(w'.restart) \subseteq DOMAIN w'.new
        BY <1>1, <1>10, <2>1 DEF Watching, RoundMirrors
      <3>2. \A n \in Names \ (trail' \cup Left') : SameIn(n, w'.current, w'.new)
        BY <1>1, <1>10, <2>1 DEF Watching, RoundMirrors
      <3> QED
        BY <3>1, <3>2, <1>1, <1>8, <1>9, <2>1 DEF RoundMirrors
    <2>3. Watching'
      BY <2>1, <2>2, <1>2, <1>3, <1>7 DEF Watching, WatchActive, IdleMirrors
    <2>4. Currency'
      BY <2>1, <1>1 DEF Currency, InRound
    <2> QED
      BY <2>3, <2>4, <1>6 DEF WatchPart
  <1> QED
    BY <1>11, <1>12

LEMMA TickKeeps ==
  ASSUME Types, Watching, Currency, Tick, UNCHANGED disturbed
  PROVE  WatchPart'
  <1>1. /\ w.pc = "idle" /\ w' = [w EXCEPT !.pc = "eval", !.seen = mtime]
        /\ UNCHANGED <<pods, doc, mtime, trail, torn, managed>>
    BY DEF Tick, rtVars
  <1>2. mtime \in Nat /\ w \in Watches
    BY DEF Types, RuntimeTypes, WatchTypes
  <1>3. /\ w' \in Watches /\ w'.pc = "eval" /\ w'.seen = mtime /\ w'.current = w.current
        /\ w'.remove = w.remove /\ w'.restart = w.restart
    BY <1>1, <1>2 DEF Watches
  <1>4. RuntimeTypes' /\ WatchTypes'
    BY <1>1, <1>3 DEF Types, RuntimeTypes, WatchTypes
  <1>5. RoundTodo' /\ RoundMirrors' /\ IdleMirrors'
    BY <1>1, <1>3 DEF Watching, RoundTodo, RoundMirrors, IdleMirrors, InRound
  <1>6. Watching' /\ Currency'
    BY <1>1, <1>2, <1>3, <1>5 DEF Watching, Currency, InRound, WatchActive
  <1> QED
    BY <1>4, <1>6 DEF WatchPart

\* What the difference of two documents leaves to do.
LEMMA DiffDoes ==
  ASSUME NEW c, NEW d, DOMAIN c \subseteq Names, DOMAIN d \subseteq Names
  PROVE  LET diff == DiffCompositions(c, d)
             remove == SortedNames(diff.removed)
             restart == SortedNames(diff.changed) \o SortedNames(diff.added)
         IN  /\ remove \in Seq(Names) /\ restart \in Seq(Names)
             /\ Lists(remove, Range(remove)) /\ Lists(restart, Range(restart))
             /\ Range(remove) \cap DOMAIN d = {} /\ Range(restart) \subseteq DOMAIN d
             /\ \A n : n \notin Range(remove) \cup Range(restart) => SameIn(n, c, d)
  <1> DEFINE R == DOMAIN c \ DOMAIN d
             C == {s \in DOMAIN c \cap DOMAIN d : c[s] # d[s]}
             A == DOMAIN d \ DOMAIN c
             q == SortedNames(C) \o SortedNames(A)
  <1>1. Lists(SortedNames(R), R) /\ Lists(SortedNames(C), C) /\ Lists(SortedNames(A), A)
    <2>1. R \subseteq Names /\ C \subseteq Names /\ A \subseteq Names
      OBVIOUS
    <2> HIDE DEF R, C, A
    <2> QED
      BY <2>1, SortedNamesLists
  <1>2. C \cap A = {}
    OBVIOUS
  <1>3. Lists(q, C \cup A)
    <2> HIDE DEF R, C, A
    <2> QED
      BY <1>1, <1>2, ListsConcat
  <1>4. /\ DiffCompositions(c, d).removed = R /\ DiffCompositions(c, d).changed = C
        /\ DiffCompositions(c, d).added = A
    BY DEF DiffCompositions
  <1>5. /\ R \subseteq Names /\ C \cup A \subseteq Names
        /\ R \cap DOMAIN d = {} /\ C \cup A \subseteq DOMAIN d
        /\ \A n : n \notin R \cup C \cup A => SameIn(n, c, d)
    BY DEF SameIn
  <1> HIDE DEF R, C, A, q
  <1>6. Range(SortedNames(R)) = R /\ Range(q) = C \cup A
    BY <1>1, <1>3, ListNonempty
  <1>7. SortedNames(R) \in Seq(Names) /\ q \in Seq(Names)
    BY <1>1, <1>3, <1>5, SeqMonotonic DEF Lists
  <1>8. \A n : n \notin Range(SortedNames(R)) \cup Range(q) => SameIn(n, c, d)
    BY <1>5, <1>6
  <1> QED
    BY <1>1, <1>3, <1>4, <1>5, <1>6, <1>7, <1>8 DEF q

LEMMA ReEvalKeeps ==
  ASSUME Types, Watching, Currency, ReEval, UNCHANGED disturbed
  PROVE  WatchPart'
  <1> DEFINE diff == DiffCompositions(w.current, doc)
             remove == SortedNames(diff.removed)
             restart == SortedNames(diff.changed) \o SortedNames(diff.added)
             v == [w EXCEPT !.new = doc, !.remove = remove, !.restart = restart]
  <1>1. /\ w.pc = "eval" /\ w' = Onward(v)
        /\ UNCHANGED <<pods, doc, mtime, trail, torn, managed>>
    BY DEF ReEval, rtVars
  <1>2. w \in Watches /\ doc \in Comps /\ w.current \in Comps /\ trail = {}
    BY <1>1 DEF Types, RuntimeTypes, WatchTypes, Watches, Comps, Watching, RoundTodo
  <1>3. DOMAIN w.current \subseteq Names /\ DOMAIN doc \subseteq Names
    BY <1>2, CompFacts
  <1>4. /\ remove \in Seq(Names) /\ restart \in Seq(Names)
        /\ Lists(remove, Range(remove)) /\ Lists(restart, Range(restart))
        /\ Range(remove) \cap DOMAIN doc = {} /\ Range(restart) \subseteq DOMAIN doc
        /\ \A n : n \notin Range(remove) \cup Range(restart) => SameIn(n, w.current, doc)
    BY <1>3, DiffDoes
  <1> HIDE DEF remove, restart, diff
  <1>5. /\ v \in Watches /\ v.seen = w.seen /\ v.new = doc /\ v.current = w.current
        /\ v.remove = remove /\ v.restart = restart
    BY <1>2, <1>4 DEF Watches
  <1> HIDE DEF v
  <1>6. /\ w' \in Watches /\ w'.seen = w.seen /\ w'.new = doc
        /\ w'.remove = remove /\ w'.restart = restart
        /\ remove # <<>> \/ restart # <<>> => w'.current = w.current
        /\ remove # <<>> => w'.pc = "remove"
        /\ remove = <<>> /\ restart # <<>> => w'.pc = "down"
        /\ remove = <<>> /\ restart = <<>> => w'.pc = "idle" /\ w'.current = doc
    BY <1>1, <1>5, OnwardDoes
  <1>7. RuntimeTypes' /\ WatchTypes'
    BY <1>1, <1>6 DEF Types, RuntimeTypes, WatchTypes
  <1>8. RoundTodo'
    <2>1. Range(remove) \cap Range(restart) = {}
      BY <1>4
    <2> QED
      BY <2>1, <1>1, <1>2, <1>4, <1>6 DEF RoundTodo
  <1>9. /\ DOMAIN w.current \subseteq managed
        /\ \A n \in managed \ (torn \cup disturbed) : Mirrors(pods[n], n, w.current)
    BY <1>1 DEF Watching, WatchActive, IdleMirrors
  <1>10. CASE remove = <<>> /\ restart = <<>>
    <2>1. Range(remove) = {} /\ Range(restart) = {}
      BY <1>4, <1>10, ListNonempty
    <2>2. \A n : SameIn(n, w.current, doc)
      BY <2>1, <1>4
    <2>3. DOMAIN doc \subseteq managed
      BY <2>2, <1>9 DEF SameIn
    <2>4. \A n \in managed \ (torn \cup disturbed) : Mirrors(pods[n], n, doc)
      BY <2>2, <1>9, SameMirrors
    <2>5. RoundMirrors' /\ IdleMirrors' /\ Currency'
      BY <2>4, <1>1, <1>6, <1>10 DEF RoundMirrors, IdleMirrors, Currency, InRound
    <2> QED
      BY <2>3, <2>5, <1>1, <1>2, <1>6, <1>7, <1>8, <1>10 DEF WatchPart, Watching
  <1>11. CASE remove # <<>> \/ restart # <<>>
    <2>1. w'.pc \in {"remove", "down"} /\ w'.current = w.current
      BY <1>6, <1>11
    <2>2. RoundMirrors'
      BY <2>1, <1>1, <1>2, <1>4, <1>6, <1>9 DEF RoundMirrors, Left
    <2>3. IdleMirrors' /\ Currency'
      BY <2>1, <1>1, <1>6 DEF IdleMirrors, Currency, InRound
    <2> QED
      BY <2>1, <2>2, <2>3, <1>1, <1>2, <1>7, <1>8, <1>9 DEF WatchPart, Watching
  <1> QED
    BY <1>10, <1>11

LEMMA RemoveServiceKeeps ==
  ASSUME Types, Watching, Currency, RemoveService, UNCHANGED disturbed
  PROVE  WatchPart'
  <1> DEFINE h == Head(w.remove)
             t == Tail(w.remove)
             v == [w EXCEPT !.remove = t]
  <1>1. /\ w.pc = "remove" /\ ServiceDown(h) /\ w' = Onward(v)
        /\ trail' = IF w'.pc = "idle" THEN {} ELSE trail \cup {h}
        /\ torn' = torn \ {h} /\ managed' = managed \cup DOMAIN w'.current
        /\ UNCHANGED <<doc, mtime>>
    BY DEF RemoveService
  <1>2. /\ h \in Range(w.remove) /\ h \in Names /\ t \in Seq(Names)
        /\ Lists(t, Range(w.remove) \ {h})
    BY <1>1, RoundHead
  <1> HIDE DEF h, t
  <1>3. /\ Lists(w.restart, Range(w.restart)) /\ Range(w.restart) \ {h} = Range(w.restart)
        /\ h \in Left /\ InRound /\ h \notin DOMAIN w.new
    BY <1>1, <1>2 DEF Watching, RoundTodo, RoundMirrors, Left, InRound
  <1>4. Range(t) = Range(w.remove) \ {h}
    BY <1>2, ListNonempty
  <1>5. /\ v \in Watches /\ v.seen = w.seen /\ v.new = w.new /\ v.current = w.current
        /\ v.remove = t /\ v.restart = w.restart
    BY <1>2 DEF Types, WatchTypes, Watches
  <1>6. /\ pods' \in [Names -> Seq(Pods)] /\ LiveIn(pods'[h]) = {}
        /\ \A m \in Names \ {h} : pods'[m] = pods[m]
    BY <1>1, <1>2, ServiceDownDoes DEF Types
  <1>7. Mirrors(pods'[h], h, w.new)
    BY <1>3, <1>6 DEF Mirrors
  <1> HIDE DEF v
  <1> QED
    BY <1>1, <1>2, <1>3, <1>4, <1>5, <1>6, <1>7, ServiceHandled

LEMMA RestartUpKeeps ==
  ASSUME Types, Watching, Currency, RestartUp, UNCHANGED disturbed
  PROVE  WatchPart'
  <1> DEFINE h == Head(w.restart)
             t == Tail(w.restart)
             v == [w EXCEPT !.restart = t]
  <1>1. /\ w.pc = "up" /\ w' = Onward(v)
        /\ IF h \in DOMAIN doc THEN ServiceUp(h, doc[h]) ELSE UNCHANGED pods
        /\ torn' = IF h \in DOMAIN doc /\ doc[h] = w.new[h] THEN torn \ {h} ELSE torn \cup {h}
        /\ trail' = IF w'.pc = "idle" THEN {} ELSE trail \cup {h}
        /\ managed' = managed \cup DOMAIN w'.current
        /\ UNCHANGED <<doc, mtime>>
    BY DEF RestartUp
  <1>2. /\ h \in Range(w.restart) /\ h \in Names /\ t \in Seq(Names)
        /\ Lists(t, Range(w.restart) \ {h})
    BY <1>1, RoundHead
  <1>3. h = Head(w.restart)
    OBVIOUS
  <1> HIDE DEF h, t
  <1>4. /\ Lists(w.remove, Range(w.remove)) /\ Range(w.remove) \ {h} = Range(w.remove)
        /\ h \in Left /\ InRound /\ h \in DOMAIN w.new
    BY <1>1, <1>2 DEF Watching, RoundTodo, RoundMirrors, Left, InRound
  <1>5. Range(t) = Range(w.restart) \ {h}
    BY <1>2, ListNonempty
  <1>6. /\ v \in Watches /\ v.seen = w.seen /\ v.new = w.new /\ v.current = w.current
        /\ v.remove = w.remove /\ v.restart = t
    BY <1>2 DEF Types, WatchTypes, Watches
  <1>7. /\ pods' \in [Names -> Seq(Pods)]
        /\ h \in DOMAIN doc => BuiltIn(pods'[h], doc[h])
        /\ \A m \in Names \ {h} : pods'[m] = pods[m]
    <2>1. doc \in Comps
      BY DEF Types, RuntimeTypes, Comps
    <2>2. h \in DOMAIN doc => doc[h] \in Defs
      BY <2>1, CompFacts
    <2>3. CASE h \in DOMAIN doc
      BY <2>2, <2>3, <1>1, <1>2, ServiceUpDoes DEF Types
    <2>4. CASE h \notin DOMAIN doc
      BY <2>4, <1>1 DEF Types, RuntimeTypes
    <2> QED
      BY <2>3, <2>4
  <1>8. h \notin torn' => Mirrors(pods'[h], h, w.new)
    BY <1>1, <1>4, <1>7 DEF Mirrors
  <1>9. torn' \ {h} = torn \ {h}
    BY <1>1
  <1> HIDE DEF v
  <1> QED
    BY <1>1, <1>2, <1>3, <1>4, <1>5, <1>6, <1>7, <1>8, <1>9, ServiceHandled

LEMMA RestartDownKeeps ==
  ASSUME Types, Watching, Currency, RestartDown, UNCHANGED disturbed
  PROVE  WatchPart'
  <1> DEFINE h == Head(w.restart)
  <1>1. /\ w.pc = "down" /\ ServiceDown(h) /\ w' = [w EXCEPT !.pc = "up"]
        /\ UNCHANGED <<doc, mtime, trail, torn, managed>>
    BY DEF RestartDown
  <1>2. h \in Names /\ h \in Range(w.restart)
    BY <1>1, RoundHead
  <1>3. /\ pods' \in [Names -> Seq(Pods)]
        /\ \A m \in Names \ {h} : pods'[m] = pods[m]
    BY <1>1, <1>2, ServiceDownDoes DEF Types
  <1>4. /\ w' \in Watches /\ w'.pc = "up" /\ w'.seen = w.seen /\ w'.new = w.new
        /\ w'.current = w.current /\ w'.remove = w.remove /\ w'.restart = w.restart
    BY <1>1 DEF Types, WatchTypes, Watches
  <1>5. RuntimeTypes' /\ WatchTypes'
    BY <1>1, <1>3, <1>4 DEF Types, RuntimeTypes, WatchTypes
  <1>6. RoundTodo'
    BY <1>1, <1>4 DEF Watching, RoundTodo
  <1>7. RoundMirrors'
    <2>1. Left' = Left /\ h \in Left /\ InRound /\ Head(w'.restart) = h
      BY <1>1, <1>2, <1>4 DEF Left, InRound
    <2>2. h \notin trail /\ trail \subseteq Names /\ managed \subseteq Names
      BY <2>1 DEF Watching, RoundMirrors, Types, WatchTypes
    <2>3. \A n \in trail \ (torn \cup disturbed) : Mirrors(pods'[n], n, w.new)
      BY <2>1, <2>2, <1>3 DEF Watching, RoundMirrors
    <2>4. \A n \in managed \ (torn \cup disturbed \cup trail) :
            n = h \/ Mirrors(pods'[n], n, w.current)
      BY <2>1, <2>2, <1>1, <1>3 DEF Watching, RoundMirrors
    <2> HIDE DEF h
    <2> QED
      BY <2>1, <2>3, <2>4, <1>1, <1>4 DEF Watching, RoundMirrors
  <1>8. Watching' /\ Currency'
    BY <1>1, <1>4, <1>6, <1>7 DEF Watching, IdleMirrors, Currency, InRound, WatchActive
  <1> QED
    BY <1>5, <1>8 DEF WatchPart

\* An error ends the round: what it has touched is torn.
LEMMA RoundFailsKeeps ==
  ASSUME Types, Watching, Currency, NEW s, RoundFails(s), InRound \/ w.pc = "eval",
         w.pc = "up" => Head(w.restart) \in s,
         pods' \in [Names -> Seq(Pods)], \A m \in Names \ s : pods'[m] = pods[m],
         UNCHANGED <<doc, mtime, managed, disturbed>>
  PROVE  WatchPart'
  <1>1. /\ w' = [w EXCEPT !.pc = "idle", !.fresh = FALSE]
        /\ torn' = torn \cup trail \cup s /\ trail' = {}
    BY DEF RoundFails
  <1>2. /\ w' \in Watches /\ w'.pc = "idle" /\ w'.seen = w.seen /\ w'.current = w.current
        /\ w'.remove = w.remove /\ w'.restart = w.restart /\ ~w'.fresh
    BY <1>1 DEF Types, WatchTypes, Watches
  <1>3. RuntimeTypes' /\ WatchTypes'
    BY <1>2 DEF Types, RuntimeTypes, WatchTypes
  <1>4. RoundTodo'
    BY <1>1, <1>2 DEF Watching, RoundTodo
  <1>5. ASSUME NEW n \in managed \ (torn' \cup disturbed)
        PROVE  Mirrors(pods'[n], n, w.current)
    <2>1. /\ n \in managed /\ n \in Names /\ n \notin torn /\ n \notin trail
          /\ n \notin s /\ n \notin disturbed
      BY <1>1, <1>5 DEF Types, WatchTypes
    <2>2. Mirrors(pods[n], n, w.current)
      BY <2>1 DEF Watching, RoundMirrors, IdleMirrors
    <2> QED
      BY <2>1, <2>2
  <1>6. RoundMirrors' /\ IdleMirrors'
    BY <1>2, <1>5 DEF RoundMirrors, IdleMirrors, InRound
  <1>7. Watching' /\ Currency'
    <2>1. WatchActive
      BY DEF WatchActive, InRound
    <2> QED
      BY <2>1, <1>1, <1>2, <1>4, <1>6 DEF Watching, Currency, InRound
  <1> QED
    BY <1>3, <1>7 DEF WatchPart

LEMMA WatchFailsKeeps ==
  ASSUME Types, Watching, Currency, UNCHANGED disturbed,
         ReEvalFails \/ RemoveServiceFails \/ RestartFails
  PROVE  WatchPart'
  <1>1. UNCHANGED <<doc, mtime, managed>>
    BY DEF ReEvalFails, RemoveServiceFails, RestartFails
  <1>2. CASE ReEvalFails
    <2>1. w.pc = "eval" /\ RoundFails({}) /\ UNCHANGED pods
      BY <1>2 DEF ReEvalFails
    <2> QED
      BY <2>1, <1>1, RoundFailsKeeps DEF Types, RuntimeTypes
  <1>3. CASE RemoveServiceFails
    <2> DEFINE h == Head(w.remove)
    <2>1. w.pc = "remove" /\ RoundFails({h}) /\ ServiceDownFails(h)
      BY <1>3 DEF RemoveServiceFails
    <2>2. h \in Names
      BY <2>1, RoundHead
    <2>3. /\ pods' \in [Names -> Seq(Pods)]
          /\ \A m \in Names \ {h} : pods'[m] = pods[m]
      BY <2>1, <2>2, ServiceDownFailsDoes DEF Types
    <2> QED
      BY <2>1, <2>3, <1>1, RoundFailsKeeps DEF InRound
  <1>4. CASE RestartFails
    <2> DEFINE h == Head(w.restart)
    <2>1. /\ w.pc \in {"down", "up"} /\ RoundFails({h})
          /\ \/ ServiceDownFails(h) \/ UNCHANGED pods
             \/ h \in DOMAIN doc /\ ServiceUpFails(h, doc[h])
      BY <1>4 DEF RestartFails
    <2>2. h \in Names
      BY <2>1, RoundHead
    <2>3. doc \in Comps
      BY DEF Types, RuntimeTypes, Comps
    <2>4. h \in DOMAIN doc => doc[h] \in Defs
      BY <2>3, CompFacts
    <2>5. /\ pods' \in [Names -> Seq(Pods)]
          /\ \A m \in Names \ {h} : pods'[m] = pods[m]
      <3>1. CASE ServiceDownFails(h)
        BY <3>1, <2>2, ServiceDownFailsDoes DEF Types
      <3>2. CASE UNCHANGED pods
        BY <3>2 DEF Types, RuntimeTypes
      <3>3. CASE h \in DOMAIN doc /\ ServiceUpFails(h, doc[h])
        BY <3>3, <2>2, <2>4, ServiceUpFailsDoes DEF Types
      <3> QED
        BY <2>1, <3>1, <3>2, <3>3
    <2> QED
      BY <2>1, <2>5, <1>1, RoundFailsKeeps DEF InRound
  <1> QED
    BY <1>2, <1>3, <1>4

\* No watcher.
LEMMA OffTyped ==
  /\ WatchOff \in Watches /\ WatchOff.pc = "off" /\ WatchOff.seen = 0
  /\ WatchOff.remove = <<>> /\ WatchOff.restart = <<>> /\ WatchOff.fresh = FALSE
  /\ <<>> \in Comps /\ <<>> \in Seq(Names) /\ Range(<<>>) = {} /\ Lists(<<>>, {})
  <1>1. <<>> \in Comps /\ <<>> \in Seq(Names) /\ Range(<<>>) = {} /\ Lists(<<>>, {})
    BY DEF Comps, Range, Lists
  <1> QED
    BY <1>1 DEF WatchOff, Watches

LEMMA WatchEndsKeeps ==
  ASSUME Types, Watching, Currency, WatchEnds
  PROVE  WatchPart'
  <1>1. /\ w' = WatchOff /\ trail' = {} /\ torn' = {} /\ managed' = {}
        /\ UNCHANGED <<pods, doc, mtime>>
    BY DEF WatchEnds, rtVars
  <1>2. RuntimeTypes' /\ WatchTypes' /\ mtime \in Nat
    BY <1>1, OffTyped DEF Types, RuntimeTypes, WatchTypes
  <1>3. RoundTodo' /\ RoundMirrors' /\ IdleMirrors'
    BY <1>1, OffTyped DEF RoundTodo, RoundMirrors, IdleMirrors, InRound
  <1>4. Watching' /\ Currency'
    BY <1>1, <1>2, <1>3, OffTyped DEF Watching, Currency, InRound, WatchActive
  <1> QED
    BY <1>2, <1>4 DEF WatchPart

LEMMA WatchKeepsWatch ==
  ASSUME Types, Watching, Currency, WatchProcess
  PROVE  WatchPart'
  <1>1. WatchNext /\ UNCHANGED disturbed
    BY DEF WatchProcess
  <1> QED
    BY <1>1, TickKeeps, ReEvalKeeps, RemoveServiceKeeps, RestartDownKeeps, RestartUpKeeps,
       WatchFailsKeeps, WatchEndsKeeps
    DEF WatchNext, WatchStep

\* The watcher takes over what up has built.
LEMMA EnterWatchKeeps ==
  ASSUME Types, UpTodo, Prefix, EnterWatch
  PROVE  UpPart' /\ WatchPart' /\ OneLoop'
  <1>1. /\ up.pc = "ok" /\ up' = Idle /\ before' = [n \in Names |-> <<>>]
        /\ w' = [WatchOff EXCEPT !.pc = "idle", !.seen = mtime, !.current = up.comp]
        /\ managed' = DOMAIN up.comp /\ torn' = {} /\ trail' = {}
        /\ UNCHANGED <<pods, doc, mtime, disturbed>>
    BY DEF EnterWatch, WatchBegins, rtVars, ghosts
  <1>2. up.comp \in Comps /\ up.todo = <<>> /\ mtime \in Nat /\ DOMAIN up.comp \subseteq Names
    <2>1. up.comp \in Comps /\ up.todo = <<>> /\ mtime \in Nat
      BY <1>1 DEF Types, UpTypes, Ups, RuntimeTypes, UpTodo
    <2> QED
      BY <2>1, CompFacts
  <1>3. Idle \in Ups /\ Idle.pc = "idle" /\ Idle.todo = <<>> /\ Idle.comp = <<>>
    BY OffTyped DEF Idle, Ups
  <1>4. /\ w' \in Watches /\ w'.pc = "idle" /\ w'.seen = mtime /\ w'.current = up.comp
        /\ w'.remove = <<>> /\ w'.restart = <<>> /\ w'.fresh = FALSE
    BY <1>1, <1>2, OffTyped DEF Watches
  <1>5. RuntimeTypes' /\ UpTypes' /\ WatchTypes'
    <2>1. <<>> \in Seq(Pods)
      OBVIOUS
    <2> QED
      BY <2>1, <1>1, <1>2, <1>3, <1>4 DEF Types, RuntimeTypes, UpTypes, WatchTypes
  <1>6. UpTodo' /\ Prefix'
    BY <1>1, <1>3, OffTyped DEF UpTodo, Prefix
  <1>7. \A n \in DOMAIN up.comp \ disturbed : Mirrors(pods[n], n, up.comp)
    <2>1. Started = DOMAIN up.comp
      BY <1>2 DEF Started
    <2> QED
      BY <2>1, <1>1, <1>2 DEF Prefix, Mirrors
  <1>8. RoundTodo' /\ RoundMirrors' /\ IdleMirrors'
    BY <1>1, <1>4, <1>7, OffTyped DEF RoundTodo, RoundMirrors, IdleMirrors, InRound
  <1>9. Watching' /\ Currency'
    BY <1>1, <1>2, <1>4, <1>8 DEF Watching, Currency, InRound
  <1> QED
    BY <1>1, <1>3, <1>5, <1>6, <1>9 DEF UpPart, WatchPart, OneLoop

\* Other processes leave the watcher alone; the services they change are disturbed.
LEMMA WatchLeftAlone ==
  ASSUME Types, Watching, Currency, RuntimeTypes', UNCHANGED watchVars,
         WatchActive =>
           /\ disturbed \subseteq disturbed'
           /\ \A m \in Names \ disturbed' : LikeIn(pods'[m], pods[m]),
         UNCHANGED <<doc, mtime>> \/ mtime' = mtime + 1
  PROVE  WatchPart'
  <1>1. UNCHANGED <<w, trail, torn, managed>>
    BY DEF watchVars
  <1>2. WatchTypes' /\ RoundTodo' /\ Left' = Left /\ (InRound' <=> InRound)
    BY <1>1 DEF Types, WatchTypes, Watching, RoundTodo, Left, InRound
  <1>3. ASSUME WatchActive, NEW n \in Names \ disturbed', NEW comp, Mirrors(pods[n], n, comp)
        PROVE  Mirrors(pods'[n], n, comp)
    BY <1>3, LikeKeeps
  <1>4. trail \subseteq Names /\ managed \subseteq Names
    BY DEF Watching, Types, WatchTypes
  <1>5. RoundMirrors'
    <2> SUFFICES ASSUME InRound PROVE RoundMirrors'
      BY <1>2 DEF RoundMirrors
    <2>1. WatchActive
      BY DEF InRound, WatchActive
    <2>2. /\ trail \cap Left = {}
          /\ Range(w.remove) \cap DOMAIN w.new = {}
          /\ Range(w.restart) \subseteq DOMAIN w.new
          /\ \A n \in Names \ (trail \cup Left) : SameIn(n, w.current, w.new)
      BY DEF Watching, RoundMirrors
    <2>3. \A n \in trail \ (torn \cup disturbed') : Mirrors(pods'[n], n, w.new)
      BY <2>1, <1>3, <1>4 DEF Watching, RoundMirrors
    <2>4. \A n \in managed \ (torn \cup disturbed' \cup trail) :
            (w.pc = "up" /\ n = Head(w.restart)) \/ Mirrors(pods'[n], n, w.current)
      BY <2>1, <1>3, <1>4 DEF Watching, RoundMirrors
    <2> QED
      BY <2>2, <2>3, <2>4, <1>1, <1>2 DEF RoundMirrors
  <1>6. IdleMirrors'
    <2> SUFFICES ASSUME w.pc \in {"idle", "eval"}, NEW n \in managed \ (torn \cup disturbed')
                 PROVE  Mirrors(pods'[n], n, w.current)
      BY <1>1 DEF IdleMirrors
    <2>1. WatchActive
      BY DEF WatchActive
    <2>2. Mirrors(pods[n], n, w.current)
      BY <2>1 DEF Watching, IdleMirrors
    <2> QED
      BY <2>1, <2>2, <1>3, <1>4
  <1>7. Watching'
    BY <1>1, <1>2, <1>5, <1>6 DEF Watching, WatchActive
  <1>8. Currency'
    <2>1. w.seen \in Nat /\ mtime \in Nat
      BY DEF Types, RuntimeTypes, WatchTypes, Watches
    <2>2. CASE UNCHANGED <<doc, mtime>>
      BY <2>2, <1>1, <1>2 DEF Currency
    <2>3. CASE mtime' = mtime + 1
      <3>1. w.seen <= mtime
        BY DEF Currency
      <3>2. w'.seen < mtime'
        BY <2>1, <2>3, <3>1, <1>1
      <3> QED
        BY <3>2, <2>1, <2>3, <1>1 DEF Currency
    <2> QED
      BY <2>2, <2>3
  <1> QED
    BY <1>2, <1>7, <1>8 DEF WatchPart

\* Nothing is claimed of an up that has not begun.
LEMMA IdleUpAlone ==
  ASSUME Types, UpTodo, up.pc = "idle", UNCHANGED <<up, before>>, RuntimeTypes'
  PROVE  UpPart'
BY DEF UpPart, Types, UpTypes, UpTodo, Prefix

----------------------------------------------------------------------------
(***************************************************************************)
(* The project.                                                            *)
(***************************************************************************)
LEMMA PartsMake ==
  ASSUME UpPart', CmdPart', WatchPart', OneLoop'
  PROVE  ProjectInv'
BY DEF UpPart, CmdPart, WatchPart, ProjectInv, Types

LEMMA InitProject ==
  ASSUME Init
  PROVE  ProjectInv
  <1>1. /\ pods = [n \in Names |-> <<>>] /\ doc \in Docs /\ mtime = 0
        /\ up = Idle /\ before = pods /\ cmd = NoCmd /\ known = {}
        /\ w = WatchOff /\ trail = {} /\ torn = {} /\ managed = {}
    BY DEF Init, RuntimeInit, UpInit, CmdInit, WatchInit
  <1>2. RuntimeTypes
    <2>1. <<>> \in Seq(Pods)
      OBVIOUS
    <2> QED
      BY <2>1, <1>1 DEF RuntimeTypes
  <1>3. Idle \in Ups /\ Idle.pc = "idle" /\ Idle.todo = <<>> /\ Idle.comp = <<>>
    BY OffTyped DEF Idle, Ups
  <1>4. UpPart
    BY <1>1, <1>2, <1>3, OffTyped DEF UpPart, UpTypes, RuntimeTypes, UpTodo, Prefix
  <1>5. NoCmd \in Cmds /\ NoCmd.kind = "none" /\ NoCmd.pc = "off"
    <2>1. <<>> \in Seq(Names \cup Listed \cup Wanted)
      OBVIOUS
    <2> QED
      BY <2>1 DEF NoCmd, Cmds
  <1>6. CmdPart
    BY <1>1, <1>2, <1>5 DEF CmdPart, CmdTypes, DownGoes
  <1>7. WatchPart
    <2>1. WatchTypes /\ mtime \in Nat
      BY <1>1, <1>2, OffTyped DEF WatchTypes, RuntimeTypes
    <2>2. RoundTodo /\ RoundMirrors /\ IdleMirrors
      BY <1>1, OffTyped DEF RoundTodo, RoundMirrors, IdleMirrors, InRound
    <2>3. Watching /\ Currency
      BY <1>1, <2>1, <2>2, OffTyped DEF Watching, Currency, InRound, WatchActive
    <2> QED
      BY <1>2, <2>1, <2>3 DEF WatchPart
  <1>8. OneLoop
    BY <1>1, <1>3 DEF OneLoop
  <1> QED
    BY <1>4, <1>6, <1>7, <1>8 DEF UpPart, CmdPart, WatchPart, ProjectInv, Types

\* A down notices that up or watch has changed a pod.
LEMMA RacedNotices ==
  ASSUME raced' = (raced \/ (cmd.kind = "down" /\ Changed # {}))
  PROVE  cmd.kind = "down" /\ ~raced' =>
           ~raced /\ \A n \in Names : LiveIn(pods[n]) = {} => LiveIn(pods'[n]) = {}
BY DEF Changed

LEMMA UpProcessKeeps ==
  ASSUME ProjectInv, UpProcess
  PROVE  ProjectInv'
  <1> USE DEF ProjectInv
  <1>1. UpPart'
    BY UpKeepsUp
  <1>2. RuntimeTypes' /\ UNCHANGED <<cmd, known>> /\ UNCHANGED watchVars /\ ~WatchActive
    BY <1>1 DEF UpPart, UpProcess, cmdVars
  <1>3. CmdPart'
    BY <1>2, RacedNotices, CmdLeftAlone DEF UpProcess
  <1>4. UNCHANGED <<doc, mtime>>
    BY DEF UpProcess, UpNext, UpStep, UpBegins, UpEval, UpService, WaitRefused, WaitExited,
           WaitHealthy, WaitBegins, UpEvalFails, UpServiceFails, WaitFails, Probe, rtVars
  <1>5. WatchPart'
    BY <1>2, <1>4, WatchLeftAlone
  <1>6. OneLoop'
    BY <1>2 DEF OneLoop, WatchActive, watchVars
  <1> QED
    BY <1>1, <1>3, <1>5, <1>6, PartsMake

LEMMA WatchProcessKeeps ==
  ASSUME ProjectInv, WatchProcess
  PROVE  ProjectInv'
  <1> USE DEF ProjectInv
  <1>1. WatchPart'
    BY WatchKeepsWatch
  <1>2. RuntimeTypes' /\ UNCHANGED <<cmd, known, up, before>>
    BY <1>1 DEF WatchPart, WatchProcess, cmdVars, upVars
  <1>3. up.pc = "idle"
    BY DEF OneLoop, WatchActive, WatchProcess, WatchNext, WatchStep, Tick, ReEval, RemoveService,
           RestartDown, RestartUp, WatchEnds, ReEvalFails, RemoveServiceFails, RestartFails
  <1>4. UpPart'
    BY <1>2, <1>3, IdleUpAlone
  <1>5. CmdPart'
    BY <1>2, RacedNotices, CmdLeftAlone DEF WatchProcess
  <1>6. OneLoop'
    BY <1>2, <1>3 DEF OneLoop
  <1> QED
    BY <1>1, <1>4, <1>5, <1>6, PartsMake

LEMMA CmdProcessKeeps ==
  ASSUME ProjectInv, CmdProcess
  PROVE  ProjectInv'
  <1> USE DEF ProjectInv
  <1>1. CmdPart'
    BY CmdKeepsCmd
  <1>2. /\ RuntimeTypes' /\ UNCHANGED <<up, before>> /\ UNCHANGED watchVars
        /\ disturbed' = disturbed \cup Changed
    BY <1>1 DEF CmdPart, CmdProcess, upVars
  <1>3. \A m \in Names \ disturbed' : LikeIn(pods'[m], pods[m])
    BY <1>2, LikeItself DEF Changed
  <1>4. UpPart'
    BY <1>2, <1>3, UpLeftAlone
  <1>5. UNCHANGED <<doc, mtime>>
    BY DEF CmdProcess, CmdNext, CreateBegins, CommandBegins, DownBegins, StopOne, StartOne,
           RemoveOne, CreateOne, CommandEnds, CommandFails, DownOne, DownFails, DownEnds, rtVars
  <1>6. WatchPart'
    BY <1>2, <1>3, <1>5, WatchLeftAlone
  <1>7. OneLoop'
    BY <1>2 DEF OneLoop, WatchActive, watchVars
  <1> QED
    BY <1>1, <1>4, <1>6, <1>7, PartsMake

LEMMA NextProject ==
  ASSUME ProjectInv, [Next]_vars
  PROVE  ProjectInv'
  <1> USE DEF ProjectInv
  <1>1. CASE EnterWatch
    <2>1. UpPart' /\ WatchPart' /\ OneLoop'
      BY <1>1, EnterWatchKeeps
    <2>2. UNCHANGED <<cmd, known, pods, raced>> /\ RuntimeTypes'
      BY <1>1, <2>1 DEF EnterWatch, WatchBegins, cmdVars, ghosts, rtVars, UpPart
    <2>3. CmdPart'
      BY <2>2, CmdLeftAlone
    <2> QED
      BY <2>1, <2>3, PartsMake
  <1>2. ASSUME RuntimeTypes', Quiet, UNCHANGED <<upVars, cmdVars, watchVars, ghosts>>,
               UNCHANGED <<doc, mtime>> \/ mtime' = mtime + 1
        PROVE  ProjectInv'
    <2>1. UNCHANGED <<up, before, cmd, known, disturbed, raced>> /\ UNCHANGED watchVars
      BY <1>2 DEF upVars, cmdVars, ghosts
    <2>2. \A m \in Names : LikeIn(pods'[m], pods[m])
      BY <1>2 DEF Quiet
    <2>3. UpPart'
      BY <1>2, <2>1, <2>2, UpLeftAlone
    <2>4. CmdPart'
      BY <1>2, <2>1, <2>2, LikeKeeps, CmdLeftAlone
    <2>5. WatchPart'
      BY <1>2, <2>1, <2>2, WatchLeftAlone
    <2>6. OneLoop'
      BY <2>1 DEF OneLoop, WatchActive, watchVars
    <2> QED
      BY <2>3, <2>4, <2>5, <2>6, PartsMake
  <1>3. CASE ContainerExits
    <2>1. UNCHANGED <<doc, mtime>> /\ UNCHANGED <<upVars, cmdVars, watchVars, ghosts>>
      BY <1>3 DEF ContainerExits, Exit
    <2> QED
      BY <2>1, <1>2, <1>3, ExitDoes DEF Types
  <1>4. CASE UserEdits
    <2>1. /\ UNCHANGED pods /\ mtime' = mtime + 1 /\ doc' \in Docs
          /\ UNCHANGED <<upVars, cmdVars, watchVars, ghosts>>
      BY <1>4 DEF UserEdits, Edit
    <2>2. RuntimeTypes'
      BY <2>1 DEF Types, RuntimeTypes
    <2> QED
      BY <2>1, <2>2, <1>2, UnchangedIsQuiet
  <1>5. CASE UNCHANGED vars
    <2>1. /\ UNCHANGED <<pods, doc, mtime>>
          /\ UNCHANGED <<upVars, cmdVars, watchVars, ghosts>>
      BY <1>5 DEF vars, rtVars
    <2>2. RuntimeTypes'
      BY <2>1 DEF Types, RuntimeTypes
    <2> QED
      BY <2>1, <2>2, <1>2, UnchangedIsQuiet
  <1> QED
    BY <1>1, <1>3, <1>4, <1>5, UpProcessKeeps, WatchProcessKeeps, CmdProcessKeeps DEF Next

----------------------------------------------------------------------------
\* ProjectInv is inductive: it holds in every reachable state.
THEOREM ProjectInvariant == Spec => []ProjectInv
  <1>1. Init => ProjectInv
    BY InitProject
  <1>2. ProjectInv /\ [Next]_vars => ProjectInv'
    BY NextProject
  <1> QED
    BY <1>1, <1>2, PTL DEF Spec

\* The pods of every service, and the three processes, have their types.
THEOREM ProjectTypeCorrect == Spec => []ProjectTypeOK
  <1>1. ProjectInv => ProjectTypeOK
    <2> SUFFICES ASSUME ProjectInv PROVE ProjectTypeOK
      OBVIOUS
    <2>1. Types
      BY DEF ProjectInv
    <2> DEFINE D == {<<>>} \cup (UNION {Range(d) : d \in Docs})
                    \cup (UNION {Range(TransformComposition(d)) : d \in Docs})
    <2>2. Defs \subseteq D
      <3>1. Range(<<>>) = {}
        BY OffTyped
      <3>2. ASSUME NEW c \in Comps, NEW x \in Range(c) PROVE x \in D
        <4>1. CASE c = <<>>
          BY <4>1, <3>1, <3>2
        <4>2. CASE c \in Docs
          BY <4>2, <3>2
        <4>3. CASE \E d \in Docs : c = TransformComposition(d)
          BY <4>3, <3>2
        <4> QED
          BY <4>1, <4>2, <4>3 DEF Comps
      <3>3. <<>> \in D
        OBVIOUS
      <3> HIDE DEF D
      <3> QED
        BY <3>2, <3>3 DEF Defs
    <2> HIDE DEF D
    <2>3. Pods \subseteq [st : PodStates, def : D]
      BY <2>2 DEF Pods
    <2>4. pods \in [Names -> Seq([st : PodStates, def : D])]
      <3>1. \A n \in Names : pods[n] \in Seq([st : PodStates, def : D])
        BY <2>1, <2>3, SeqMonotonic DEF Types, RuntimeTypes
      <3> QED
        BY <2>1, <3>1 DEF Types, RuntimeTypes
    <2>5. /\ up.pc \in {"idle", "eval", "service", "wait", "ok", "failed"}
          /\ cmd.pc \in {"off", "run", "start", "down", "ok", "failed"}
          /\ w.pc \in {"off", "idle", "eval", "remove", "down", "up"}
      BY <2>1 DEF Types, UpTypes, Ups, CmdTypes, Cmds, WatchTypes, Watches
    <2> QED
      BY <2>4, <2>5 DEF ProjectTypeOK, PodStates, D
  <1> QED
    BY <1>1, ProjectInvariant, PTL

\* criUp builds the services one after the other: those it is through with have
\* the one new pod, the others what they had before.
THEOREM UpInOrder == Spec => []UpIsAPrefix
  <1>1. ProjectInv => UpIsAPrefix
    BY LiveIsLiveIn DEF ProjectInv, Prefix, UpIsAPrefix
  <1> QED
    BY <1>1, ProjectInvariant, PTL

\* A down that reports success has left no pod of a service it knew, unless up or
\* watch has changed one in the meantime.
THEOREM DownLeavesNothing == Spec => []DownIsComplete
  <1>1. ProjectInv => DownIsComplete
    <2> SUFFICES ASSUME ProjectInv, cmd.kind = "down", cmd.pc = "ok", ~raced, NEW n \in known
                 PROVE  LiveIn(pods[n]) = {}
      BY LiveIsLiveIn DEF DownIsComplete
    <2>1. cmd.svcs = <<>> /\ Range(<<>>) = {}
      BY OffTyped DEF ProjectInv, DownGoes
    <2> QED
      BY <2>1 DEF ProjectInv, DownGoes
  <1> QED
    BY <1>1, ProjectInvariant, PTL

\* Between two rounds the watcher's services are what they are in the composition
\* in force, but for those an error, an edit or a command has caught.
THEOREM WatcherMirrors == Spec => []WatchMirrors
  <1>1. ProjectInv => WatchMirrors
    BY LiveIsLiveIn DEF ProjectInv, Watching, IdleMirrors, WatchMirrors, Mirrors
  <1> QED
    BY <1>1, ProjectInvariant, PTL

\* No edit is lost: after a round without an error, and no newer file, the
\* composition in force is the document.
THEOREM WatcherIsCurrent == Spec => []WatchIsCurrent
  <1>1. ProjectInv => WatchIsCurrent
    BY DEF ProjectInv, Currency, WatchIsCurrent
  <1> QED
    BY <1>1, ProjectInvariant, PTL

----------------------------------------------------------------------------
(***************************************************************************)
(* Conditions.                                                             *)
(***************************************************************************)
\* The strictest condition is at least as strict as any.
LEMMA HighestIsHighest ==
  ASSUME NEW comp, NEW s \in DOMAIN comp, NEW d \in DepsOf(comp, s)
  PROVE  /\ comp[s].deps[d] = "healthy" => HighestConditionOf(d, comp) = "healthy"
         /\ comp[s].deps[d] = "completed" =>
              \/ HighestConditionOf(d, comp) = "completed"
              \/ /\ HighestConditionOf(d, comp) = "healthy"
                 /\ \E t \in DOMAIN comp : d \in DepsOf(comp, t) /\ comp[t].deps[d] = "healthy"
  <1> DEFINE conds == {comp[t].deps[d] : t \in {u \in DOMAIN comp : d \in DepsOf(comp, u)}}
             Top(c) == \A e \in conds : CondPriority(c) >= CondPriority(e)
  <1>1. comp[s].deps[d] \in conds
    OBVIOUS
  <1>2. \A c \in conds : \E t \in DOMAIN comp : d \in DepsOf(comp, t) /\ comp[t].deps[d] = c
    OBVIOUS
  <1>3. HighestConditionOf(d, comp) = CHOOSE c \in conds : Top(c)
    BY <1>1 DEF HighestConditionOf
  <1> HIDE DEF conds
  <1>4. \A c : /\ CondPriority(c) \in 0..3
               /\ CondPriority(c) = 3 <=> c = "healthy"
               /\ CondPriority(c) = 2 <=> c = "completed"
    BY DEF CondPriority
  <1>5. \E c \in conds : Top(c)
    <2> DEFINE Gaps == {3 - CondPriority(c) : c \in conds}
    <2>1. Gaps \subseteq Nat /\ Gaps # {}
      BY <1>1, <1>4
    <2>2. PICK n \in Gaps : \A m \in Nat : m < n => m \notin Gaps
      <3> HIDE DEF Gaps
      <3> QED
        BY <2>1, LeastNumber
    <2>3. PICK c \in conds : n = 3 - CondPriority(c)
      BY <2>2
    <2>4. ASSUME NEW e \in conds PROVE CondPriority(c) >= CondPriority(e)
      <3>1. 3 - CondPriority(e) \in Gaps
        OBVIOUS
      <3> HIDE DEF Gaps
      <3>2. CondPriority(e) \in 0..3 /\ CondPriority(c) \in 0..3
        BY <1>4
      <3>3. 3 - CondPriority(e) \in Nat
        BY <3>2
      <3>4. ~(3 - CondPriority(e) < n)
        BY <3>1, <3>3, <2>2
      <3> QED
        BY <3>2, <3>4, <2>3
    <2> QED
      BY <2>4
  <1> DEFINE top == HighestConditionOf(d, comp)
  <1>6. top \in conds /\ Top(top)
    <2> HIDE DEF Top
    <2> QED
      BY <1>3, <1>5
  <1>7. CondPriority(top) >= CondPriority(comp[s].deps[d])
    BY <1>1, <1>6
  <1> HIDE DEF top, Top
  <1>8. CondPriority(top) \in 0..3
    BY <1>4
  <1>9. CASE comp[s].deps[d] = "healthy"
    <2>1. CondPriority(comp[s].deps[d]) = 3
      BY <1>4, <1>9
    <2>2. CondPriority(top) = 3
      BY <2>1, <1>7, <1>8
    <2> QED
      BY <2>2, <1>4, <1>9 DEF top
  <1>10. CASE comp[s].deps[d] = "completed"
    <2>1. CondPriority(comp[s].deps[d]) = 2
      BY <1>4, <1>10
    <2>2. CondPriority(top) = 3 \/ CondPriority(top) = 2
      BY <2>1, <1>7, <1>8
    <2>3. top = "healthy" \/ top = "completed"
      BY <2>2, <1>4
    <2> QED
      BY <2>3, <1>2, <1>6, <1>10 DEF top
  <1> QED
    BY <1>9, <1>10

\* The dependencies of the service up turns to are behind it.
LEMMA CurrentReady ==
  ASSUME Types, UpTodo, up.todo # <<>>, HasStartOrder(up.comp), Rising(up.comp, up.todo)
  PROVE  DepsOf(up.comp, Current) \subseteq DOMAIN up.comp \ Range(up.todo)
  <1> SUFFICES ASSUME NEW d \in DepsOf(up.comp, Current)
               PROVE  d \in DOMAIN up.comp /\ d \notin Range(up.todo)
    OBVIOUS
  <1> DEFINE level == StartLevel(up.comp)
  <1>1. up.comp \in Comps /\ up.todo \in Seq(Names)
    BY DEF Types, UpTypes, Ups
  <1>2. DOMAIN up.comp \subseteq Names
    BY <1>1, CompFacts
  <1>3. Current \in DOMAIN up.comp
    BY TodoNamed
  <1>4. d \in DOMAIN up.comp /\ level[d] < level[Current]
    BY <1>2, <1>3, LevelsRise
  <1>5. level[d] \in Nat /\ level[Current] \in Nat
    BY <1>2, <1>3, <1>4, StartLevelIsNat
  <1> HIDE DEF level
  <1>6. ASSUME d \in Range(up.todo) PROVE FALSE
    <2>1. DOMAIN up.todo = 1..Len(up.todo) /\ Len(up.todo) \in Nat /\ Current = up.todo[1]
      BY <1>1 DEF Current
    <2>2. PICK i \in 1..Len(up.todo) : up.todo[i] = d
      BY <1>6, <2>1 DEF Range
    <2>3. i # 1
      BY <2>1, <2>2, <1>4, <1>5
    <2>4. 1 < i /\ 1 \in 1..Len(up.todo)
      BY <2>1, <2>2, <2>3
    <2>5. level[Current] <= level[d]
      BY <2>1, <2>2, <2>4 DEF Rising, level
    <2> QED
      BY <2>5, <1>4, <1>5
  <1> QED
    BY <1>4, <1>6

\* What was satisfied stays so.
LEMMA SatisfiedStays ==
  ASSUME NEW comp, NEW a, NEW b, a \subseteq b, NEW d, Satisfied(comp, a, d)
  PROVE  Satisfied(comp, b, d)
BY DEF Satisfied

LEMMA SeenAdvances ==
  ASSUME Types, UpTodo, UpSeen, up.pc \in {"service", "wait"}, Advance,
         seen \subseteq seen', Satisfied(up.comp, seen', Current)
  PROVE  UpSeen'
  <1>1. up.todo # <<>> /\ up.todo \in Seq(Names)
    BY DEF UpTodo, Types, UpTypes, Ups
  <1>2. /\ up'.comp = up.comp /\ up'.todo = Tail(up.todo)
        /\ up'.pc = IF Tail(up.todo) = <<>> THEN "ok" ELSE "service"
    BY <1>1, AdvanceTyped
  <1>3. Lists(Tail(up.todo), Range(up.todo) \ {Current}) /\ Current \in DOMAIN up.comp
    BY <1>1, TodoNamed
  <1>4. Range(Tail(up.todo)) = Range(up.todo) \ {Current}
    BY <1>3, ListNonempty, Zenon
  <1>5. HasStartOrder(up.comp) /\ Rising(up.comp, up.todo)
    BY DEF UpSeen
  <1>6. Rising(up.comp, Tail(up.todo))
    <2>1. /\ Len(Tail(up.todo)) = Len(up.todo) - 1 /\ Len(up.todo) \in Nat
          /\ \A i \in 1..(Len(up.todo) - 1) : Tail(up.todo)[i] = up.todo[i + 1]
      BY <1>1
    <2> SUFFICES ASSUME NEW i \in 1..Len(Tail(up.todo)), NEW j \in 1..Len(Tail(up.todo)), i < j
                 PROVE  StartLevel(up.comp)[Tail(up.todo)[i]] <= StartLevel(up.comp)[Tail(up.todo)[j]]
      BY DEF Rising
    <2>2. /\ i + 1 \in 1..Len(up.todo) /\ j + 1 \in 1..Len(up.todo) /\ i + 1 < j + 1
          /\ Tail(up.todo)[i] = up.todo[i + 1] /\ Tail(up.todo)[j] = up.todo[j + 1]
      BY <2>1
    <2>3. StartLevel(up.comp)[up.todo[i + 1]] <= StartLevel(up.comp)[up.todo[j + 1]]
      BY <2>2, <1>5 DEF Rising
    <2> QED
      BY <2>2, <2>3
  <1>7. DepsOf(up.comp, Current) \cap Range(up.todo) = {}
    BY <1>1, <1>5, CurrentReady
  <1>8. ASSUME NEW s \in DOMAIN up.comp \ Range(Tail(up.todo))
        PROVE  DepsOf(up.comp, s) \cap Range(Tail(up.todo)) = {} /\ Satisfied(up.comp, seen', s)
    <2>1. CASE s = Current
      BY <2>1, <1>4, <1>7
    <2>2. CASE s # Current
      <3>1. s \in DOMAIN up.comp \ Range(up.todo)
        BY <2>2, <1>4, <1>8
      <3>2. DepsOf(up.comp, s) \cap Range(up.todo) = {} /\ Satisfied(up.comp, seen, s)
        BY <3>1 DEF UpSeen
      <3> QED
        BY <3>2, <1>4, SatisfiedStays
    <2> QED
      BY <2>1, <2>2
  <1> QED
    BY <1>2, <1>5, <1>6, <1>8 DEF UpSeen

\* Whoever leaves up and seen alone.
LEMMA SeenLeftAlone ==
  ASSUME UpSeen, UNCHANGED seen, up'.comp = up.comp, up'.todo = up.todo,
         up'.pc = up.pc \/ up'.pc \notin {"service", "wait"}
  PROVE  UpSeen'
BY DEF UpSeen, Current

LEMMA UpProcessSees ==
  ASSUME Types, UpTodo, UpSeen, UpNext
  PROVE  UpSeen'
  <1>1. CASE UpBegins
    <2>1. up'.pc = "eval"
      BY <1>1 DEF UpBegins, Idle
    <2> QED
      BY <2>1 DEF UpSeen
  <1>2. CASE UpEval
    <2> DEFINE comp == TransformComposition(doc)
    <2>1. CASE ~HasStartOrder(comp)
      <3>1. UpGoes("failed")
        BY <1>2, <2>1 DEF UpEval
      <3> QED
        BY <3>1, UpGoesTo DEF UpSeen
    <2>2. CASE HasStartOrder(comp)
      <3>1. up' = [up EXCEPT !.comp = comp, !.todo = StartOrder(comp),
                             !.pc = IF DOMAIN comp = {} THEN "ok" ELSE "service"]
        BY <1>2, <2>2 DEF UpEval
      <3>2. comp \in Comps
        BY DEF Comps, Types, RuntimeTypes
      <3> HIDE DEF comp
      <3>3. up'.comp = comp /\ up'.todo = StartOrder(comp) /\ up'.pc # "wait"
        BY <3>1 DEF Types, UpTypes, Ups
      <3>4. /\ Lists(StartOrder(comp), DOMAIN comp)
            /\ Rising(comp, StartOrder(comp))
        BY <3>2, CompFacts, OrdersList DEF Rising
      <3>5. Range(StartOrder(comp)) = DOMAIN comp
        BY <3>4, ListNonempty
      <3> QED
        BY <2>2, <3>3, <3>4, <3>5 DEF UpSeen
    <2> QED
      BY <2>1, <2>2
  <1>3. CASE UpService
    <2>1. /\ up.pc = "service" /\ up.todo # <<>> /\ seen' = seen \cup {<<Current, "started">>}
      BY <1>3 DEF UpService, UpTodo
    <2>2. CASE HighestConditionOf(Current, up.comp) \in {"healthy", "completed"}
      <3>1. UpGoes("wait")
        BY <1>3, <2>2 DEF UpService
      <3>2. up'.comp = up.comp /\ up'.todo = up.todo /\ up'.pc = "wait"
        BY <3>1, UpGoesTo
      <3>3. \A s \in DOMAIN up.comp \ Range(up.todo) :
              DepsOf(up.comp, s) \cap Range(up.todo) = {} /\ Satisfied(up.comp, seen', s)
        BY <2>1, SatisfiedStays DEF UpSeen
      <3> QED
        BY <2>1, <3>2, <3>3 DEF UpSeen, Current
    <2>3. CASE HighestConditionOf(Current, up.comp) \notin {"healthy", "completed"}
      <3>1. Advance
        BY <1>3, <2>3 DEF UpService
      <3>2. Satisfied(up.comp, seen', Current)
        BY <2>1, <2>3 DEF Satisfied
      <3> QED
        BY <2>1, <3>1, <3>2, SeenAdvances
    <2> QED
      BY <2>2, <2>3
  <1>4. CASE WaitExited \/ WaitHealthy
    <2>1. /\ up.pc = "wait"
          /\ \/ UpGoes("failed") /\ UNCHANGED seen
             \/ /\ Advance
                /\ HighestConditionOf(Current, up.comp) \in {"healthy", "completed"}
                /\ seen' = seen \cup {<<Current, HighestConditionOf(Current, up.comp)>>}
      BY <1>4 DEF WaitExited, WaitHealthy
    <2>2. CASE UpGoes("failed") /\ UNCHANGED seen
      BY <2>2, UpGoesTo DEF UpSeen
    <2>3. CASE /\ Advance
               /\ HighestConditionOf(Current, up.comp) \in {"healthy", "completed"}
               /\ seen' = seen \cup {<<Current, HighestConditionOf(Current, up.comp)>>}
      <3>1. Satisfied(up.comp, seen', Current)
        BY <2>1, <2>3 DEF Satisfied, UpSeen
      <3> QED
        BY <2>1, <2>3, <3>1, SeenAdvances
    <2> QED
      BY <2>1, <2>2, <2>3
  <1>5. CASE WaitRefused \/ UpEvalFails \/ UpServiceFails \/ WaitFails
    <2>1. UpGoes("failed")
      BY <1>5 DEF WaitRefused, UpEvalFails, UpServiceFails, WaitFails
    <2> QED
      BY <2>1, UpGoesTo DEF UpSeen
  <1>6. ASSUME NEW k, WaitBegins(k) PROVE UpSeen'
    <2>1. UNCHANGED seen /\ up' = [up EXCEPT !.k = k]
      BY <1>6 DEF WaitBegins
    <2>2. up'.comp = up.comp /\ up'.todo = up.todo /\ up'.pc = up.pc
      BY <2>1 DEF Types, UpTypes, Ups
    <2> QED
      BY <2>1, <2>2, SeenLeftAlone
  <1>7. CASE \E ok \in BOOLEAN : Probe(ok)
    <2>1. UNCHANGED <<up, seen>>
      BY <1>7 DEF Probe
    <2> QED
      BY <2>1, SeenLeftAlone
  <1> QED
    BY <1>1, <1>2, <1>3, <1>4, <1>5, <1>6, <1>7 DEF UpNext, UpStep

\* When up turns to a service, the conditions it has on its dependencies have
\* been seen to hold, in every project (criUp, waitCondition, highestConditionOf).
THEOREM ConditionsHold == Spec => []ConditionsSeen
  <1>1. Init => UpSeen
    BY DEF Init, UpInit, Idle, UpSeen
  <1>2. ProjectInv /\ UpSeen /\ [Next]_vars => UpSeen'
    <2> SUFFICES ASSUME ProjectInv, UpSeen, [Next]_vars PROVE UpSeen'
      OBVIOUS
    <2>1. CASE UpProcess
      BY <2>1, UpProcessSees DEF UpProcess, ProjectInv
    <2>2. CASE EnterWatch
      BY <2>2 DEF EnterWatch, Idle, UpSeen
    <2>3. CASE WatchProcess \/ CmdProcess \/ ContainerExits \/ UserEdits \/ UNCHANGED vars
      <3>1. UNCHANGED <<up, seen>>
        BY <2>3 DEF WatchProcess, CmdProcess, ContainerExits, UserEdits, vars, upVars
      <3> QED
        BY <3>1, SeenLeftAlone
    <2> QED
      BY <2>1, <2>2, <2>3 DEF Next
  <1>3. ProjectInv /\ UpSeen => ConditionsSeen
    <2> SUFFICES ASSUME ProjectInv, UpSeen, UpActive,
                        NEW s \in Started \cup (IF up.pc = "service" THEN {Current} ELSE {}),
                        NEW d \in DepsOf(up.comp, s)
                 PROVE  LET cond == Asked(up.comp[s].deps[d])
                        IN  \/ <<d, cond>> \in seen
                            \/ /\ cond = "completed" /\ <<d, "healthy">> \in seen
                               /\ \E t \in DOMAIN up.comp :
                                    d \in DepsOf(up.comp, t) /\ up.comp[t].deps[d] = "healthy"
      BY DEF ConditionsSeen
    <2>1. Types /\ UpTodo
      BY DEF ProjectInv
    <2>2. up.pc \in {"service", "wait"} /\ up.todo # <<>>
      <3>1. ASSUME up.pc = "eval" PROVE FALSE
        <4>1. up.todo = <<>> /\ up.comp = <<>>
          BY <2>1, <3>1 DEF UpTodo
        <4>2. Started = {}
          BY <4>1 DEF Started
        <4> QED
          BY <3>1, <4>2
      <3> QED
        BY <2>1, <3>1 DEF UpActive, UpTodo
    <2>3. Started = DOMAIN up.comp \ Range(up.todo)
      BY <2>2 DEF Started
    <2>4. s \in DOMAIN up.comp /\ DepsOf(up.comp, s) \subseteq DOMAIN up.comp \ Range(up.todo)
      <3>1. CASE s \in Started
        <4>1. DOMAIN up.comp \subseteq Names
          BY <2>1, CompFacts DEF Types, UpTypes, Ups
        <4>2. s \in DOMAIN up.comp /\ DepsOf(up.comp, s) \cap Range(up.todo) = {}
          BY <3>1, <2>2, <2>3 DEF UpSeen
        <4>3. DepsOf(up.comp, s) \subseteq DOMAIN up.comp
          BY <4>1, <4>2, <2>2, LevelsRise DEF UpSeen
        <4> QED
          BY <4>2, <4>3
      <3>2. CASE s = Current
        BY <3>2, <2>1, <2>2, TodoNamed, CurrentReady DEF UpSeen
      <3> QED
        BY <3>1, <3>2
    <2>5. Satisfied(up.comp, seen, d)
      BY <2>2, <2>4 DEF UpSeen
    <2> QED
      BY <2>4, <2>5, HighestIsHighest DEF Satisfied, Asked
  <1> QED
    BY <1>1, <1>2, <1>3, ProjectInvariant, PTL DEF Spec
=============================================================================
