---------------------------- MODULE EngineProofs ----------------------------
(***************************************************************************)
(* What is proved of planning, ordering and Engine for every set of        *)
(* compositions and every bound.  First what the pure operators compute:   *)
(* conversion, plan, sort.  Then the store, and then the engine with its   *)
(* invariants: what it handles stems from compositions (Shape), order,     *)
(* conditions, what is destroyed, what a success means, drift.             *)
(***************************************************************************)
EXTENDS Engine, SequenceTheorems, FiniteSetTheorems, WellFoundedInduction, TLAPS

(***************************************************************************)
(* Recursion.                                                              *)
(***************************************************************************)

\* A nonempty set of numbers has a least element.
LEMMA LeastNumber ==
  ASSUME NEW S, S \subseteq Nat, S # {}
  PROVE  \E n \in S : n \in Nat /\ \A m \in Nat : m < n => m \notin S
  <1>1. PICK n \in S : \A m \in S : ~(<<m, n>> \in OpToRel(<, Nat))
    BY NatLessThanWellFounded, WFMin
  <1>2. n \in Nat /\ \A m \in S : ~(m < n)
    BY <1>1 DEF OpToRel
  <1> QED
    BY <1>2

\* The values of f over 0..N follow from base by step.
Recurses(N, V, base, step, f) ==
  /\ f \in [0..N -> V]
  /\ f[0] = base
  /\ \A k \in 1..N : f[k] = step[<<k, f[k - 1]>>]

\* step leads from values to values.
StepsWithin(N, V, step) == \A k \in 1..N : \A v \in V : step[<<k, v>>] \in V

\* A recursion over the first n numbers has a solution.
LEMMA NumberRecursion ==
  ASSUME NEW N \in Nat, NEW V, NEW base \in V, NEW step, StepsWithin(N, V, step)
  PROVE  \E f : Recurses(N, V, base, step, f)
  <1> DEFINE Sol(n, f) == /\ f \in [0..n -> V]
                          /\ f[0] = base
                          /\ \A k \in 1..n : f[k] = step[<<k, f[k - 1]>>]
             Bad == {n \in 0..N : ~\E f : Sol(n, f)}
  <1> SUFFICES ASSUME N \in Bad PROVE FALSE
    BY DEF Recurses
  <1> USE DEF StepsWithin
  <1>0. Bad \subseteq Nat /\ Bad # {}
    <2>1. Bad \subseteq Nat
      OBVIOUS
    <2> HIDE DEF Bad
    <2> QED
      BY <2>1
  <1>1. PICK n \in Bad : n \in Nat /\ \A m \in Nat : m < n => m \notin Bad
    <2> HIDE DEF Bad
    <2> QED
      BY <1>0, LeastNumber
  <1>2. CASE n = 0
    <2>1. Sol(0, [k \in 0..0 |-> base])
      OBVIOUS
    <2> QED
      BY <1>1, <1>2, <2>1
  <1>3. CASE n # 0
    <2>1. n - 1 \in Nat /\ n - 1 < n /\ n - 1 \in 0..N /\ n \in 1..N
      BY <1>1, <1>3
    <2>2. PICK f : Sol(n - 1, f)
      BY <1>1, <2>1
    <2> DEFINE g == [k \in 0..n |-> IF k = n THEN step[<<n, f[n - 1]>>] ELSE f[k]]
    <2>3. /\ DOMAIN g = 0..n /\ g = [k \in 0..n |-> g[k]]
          /\ g[n] = step[<<n, f[n - 1]>>]
          /\ \A k \in 0..(n - 1) : g[k] = f[k]
      BY <2>1
    <2>4. step[<<n, f[n - 1]>>] \in V /\ \A k \in 0..(n - 1) : f[k] \in V
      <3>1. f[n - 1] \in V /\ \A k \in 0..(n - 1) : f[k] \in V
        BY <2>1, <2>2
      <3> QED
        BY <2>1, <3>1
    <2> HIDE DEF g
    <2>5. g \in [0..n -> V]
      <3>1. \A k \in 0..n : k = n \/ k \in 0..(n - 1)
        BY <2>1
      <3>2. \A k \in 0..n : g[k] \in V
        BY <2>3, <2>4, <3>1
      <3> QED
        BY <2>3, <3>2
    <2>6. g[0] = base
      <3>1. 0 \in 0..(n - 1) /\ f[0] = base
        BY <2>1, <2>2
      <3> QED
        BY <2>3, <3>1
    <2>7. ASSUME NEW k \in 1..n PROVE g[k] = step[<<k, g[k - 1]>>]
      <3>0. k - 1 \in 0..(n - 1)
        BY <2>1
      <3>1. k - 1 \in 0..(n - 1) /\ g[k - 1] = f[k - 1]
        BY <3>0, <2>3
      <3>2. CASE k = n
        BY <3>1, <3>2, <2>3
      <3>3. CASE k # n
        <4>1. k \in 1..(n - 1) /\ k \in 0..(n - 1)
          BY <2>1, <3>3
        <4> QED
          BY <4>1, <3>1, <2>2, <2>3
      <3> QED
        BY <3>2, <3>3
    <2>8. Sol(n, g)
      BY <2>5, <2>6, <2>7
    <2> QED
      BY <2>8, <1>1
  <1> QED
    BY <1>2, <1>3

\* A recursion over the subsets of D that takes one element away at a time,
\* down to the sets where it stops.
Descends(D, V, stop, end, pick, step) ==
  /\ \A s \in SUBSET D : s \in stop => end[s] \in V
  /\ \A s \in SUBSET D : s \notin stop => pick[s] \in s
  /\ \A d \in D : \A v \in V : step[<<d, v>>] \in V

SolvesDescent(D, V, stop, end, pick, step, f) ==
  /\ f \in [SUBSET D -> V]
  /\ \A s \in SUBSET D :
       f[s] = IF s \in stop THEN end[s] ELSE step[<<pick[s], f[s \ {pick[s]}]>>]

\* It has a solution if D is finite.
LEMMA SubsetRecursion ==
  ASSUME NEW D, IsFiniteSet(D), NEW V, NEW stop, NEW end, NEW pick, NEW step,
         Descends(D, V, stop, end, pick, step)
  PROVE  \E f : SolvesDescent(D, V, stop, end, pick, step, f)
  <1> USE DEF Descends
  <1> DEFINE Small(n) == {s \in SUBSET D : Cardinality(s) <= n}
             Sol(n, f) ==
               /\ f \in [Small(n) -> V]
               /\ \A s \in Small(n) :
                    f[s] = IF s \in stop THEN end[s] ELSE step[<<pick[s], f[s \ {pick[s]}]>>]
             N == Cardinality(D)
             Bad == {n \in 0..N : ~\E f : Sol(n, f)}
  <1>1. N \in Nat
    BY FS_CardinalityType
  <1>2. \A s \in SUBSET D : IsFiniteSet(s) /\ Cardinality(s) \in Nat /\ Cardinality(s) <= N
    BY FS_Subset, FS_CardinalityType
  <1>3. ASSUME NEW s \in SUBSET D, NEW n \in Nat, Cardinality(s) <= n, s \notin stop
        PROVE  /\ pick[s] \in D /\ s \ {pick[s]} \in SUBSET D
               /\ n # 0 /\ Cardinality(s \ {pick[s]}) <= n - 1
    <2>1. pick[s] \in s
      BY <1>3
    <2>2. Cardinality(s \ {pick[s]}) = Cardinality(s) - 1
      BY <1>2, <2>1, FS_RemoveElement
    <2>3. Cardinality(s \ {pick[s]}) \in Nat
      BY <1>2
    <2> QED
      BY <1>2, <1>3, <2>1, <2>2, <2>3
  <1>4. ASSUME N \in Bad PROVE FALSE
    <2>0. Bad \subseteq Nat /\ Bad # {}
      <3>1. Bad \subseteq Nat
        BY <1>1
      <3> HIDE DEF Bad
      <3> QED
        BY <1>4, <3>1
    <2>1. PICK n \in Bad : n \in Nat /\ \A m \in Nat : m < n => m \notin Bad
      <3> HIDE DEF Bad
      <3> QED
        BY <2>0, LeastNumber
    <2>2. CASE n = 0
      <3> DEFINE f == [s \in Small(0) |-> end[s]]
      <3>1. \A s \in Small(0) : s \in stop
        BY <1>3
      <3>2. Sol(0, f)
        BY <3>1
      <3>3. ~\E h : Sol(0, h)
        BY <2>1, <2>2
      <3> HIDE DEF Sol, f
      <3> QED
        BY <3>2, <3>3
    <2>3. CASE n # 0
      <3>1. n - 1 \in Nat /\ n - 1 < n /\ n - 1 \in 0..N
        BY <2>1, <2>3, <1>1
      <3>2. PICK f : Sol(n - 1, f)
        BY <2>1, <3>1
      <3> DEFINE g == [s \in Small(n) |-> IF s \in stop THEN end[s]
                                          ELSE step[<<pick[s], f[s \ {pick[s]}]>>]]
      <3>3. \A s \in Small(n) :
               g[s] = IF s \in stop THEN end[s] ELSE step[<<pick[s], f[s \ {pick[s]}]>>]
        OBVIOUS
      <3>4. \A s \in Small(n - 1) : s \in Small(n) /\ g[s] = f[s]
        <4>1. \A s \in Small(n - 1) : s \in Small(n)
          BY <1>2, <2>1, <3>1
        <4>2. \A s \in Small(n - 1) :
                f[s] = IF s \in stop THEN end[s] ELSE step[<<pick[s], f[s \ {pick[s]}]>>]
          BY <3>2
        <4> QED
          BY <4>1, <4>2, <3>3
      <3>5. ASSUME NEW s \in Small(n), s \notin stop
            PROVE  s \ {pick[s]} \in Small(n - 1) /\ pick[s] \in D
        BY <3>5, <1>3, <2>1
      <3>6. ASSUME NEW s \in Small(n) PROVE g[s] \in V
        <4>1. CASE s \in stop
          BY <4>1, <3>3
        <4>2. CASE s \notin stop
          <5>1. f[s \ {pick[s]}] \in V
            BY <4>2, <3>2, <3>5
          <5> QED
            BY <4>2, <5>1, <3>3, <3>5
        <4> QED
          BY <4>1, <4>2
      <3>7. g \in [Small(n) -> V]
        <4>1. g = [s \in Small(n) |-> g[s]]
          OBVIOUS
        <4> HIDE DEF g
        <4> QED
          BY <4>1, <3>6
      <3> HIDE DEF g
      <3>8. \A s \in Small(n) :
               g[s] = IF s \in stop THEN end[s] ELSE step[<<pick[s], g[s \ {pick[s]}]>>]
        BY <3>3, <3>4, <3>5
      <3>9. Sol(n, g)
        BY <3>7, <3>8
      <3> QED
        BY <3>9, <2>1
    <2> QED
      BY <2>2, <2>3
  <1>5. PICK f : Sol(N, f)
    <2> HIDE DEF Sol
    <2> QED
      BY <1>1, <1>4
  <1>6. Small(N) = SUBSET D
    BY <1>2
  <1> QED
    BY <1>5, <1>6 DEF SolvesDescent

(***************************************************************************)
(* Sequences.                                                              *)
(***************************************************************************)

\* The range of a sequence, by places.
LEMMA SeqRange ==
  ASSUME NEW S, NEW q \in Seq(S)
  PROVE  /\ Len(q) \in Nat /\ DOMAIN q = 1..Len(q)
         /\ Range(q) = {q[i] : i \in 1..Len(q)}
         /\ Range(q) \subseteq S
         /\ q \in Seq(Range(q))
  <1>1. Len(q) \in Nat /\ DOMAIN q = 1..Len(q) /\ \A i \in 1..Len(q) : q[i] \in S
    BY LenProperties
  <1>2. Range(q) = {q[i] : i \in 1..Len(q)}
    BY <1>1 DEF Range
  <1>3. q \in [1..Len(q) -> Range(q)]
    BY <1>1, <1>2, LenProperties
  <1>4. q \in Seq(Range(q))
    BY <1>1, <1>3, SeqDef
  <1> QED
    BY <1>1, <1>2, <1>4

\* Concatenation joins the ranges.
LEMMA ConcatRange ==
  ASSUME NEW S, NEW q \in Seq(S), NEW r \in Seq(S)
  PROVE  q \o r \in Seq(S) /\ Range(q \o r) = Range(q) \cup Range(r)
  <1>1. /\ q \o r \in Seq(S)
        /\ Len(q \o r) = Len(q) + Len(r)
        /\ \A i \in 1..Len(q) + Len(r) : (q \o r)[i] =
              IF i <= Len(q) THEN q[i] ELSE r[i - Len(q)]
    BY ConcatProperties
  <1>2. /\ Len(q) \in Nat /\ Range(q) = {q[i] : i \in 1..Len(q)}
        /\ Len(r) \in Nat /\ Range(r) = {r[i] : i \in 1..Len(r)}
        /\ Range(q \o r) = {(q \o r)[i] : i \in 1..(Len(q) + Len(r))}
    BY <1>1, SeqRange
  <1> DEFINE t == q \o r
  <1> HIDE DEF t
  <1>3. ASSUME NEW i \in 1..(Len(q) + Len(r)) PROVE t[i] \in Range(q) \cup Range(r)
    <2>1. CASE i <= Len(q)
      BY <2>1, <1>1, <1>2 DEF t
    <2>2. CASE ~(i <= Len(q))
      <3>1. i - Len(q) \in 1..Len(r)
        BY <2>2, <1>2
      <3> QED
        BY <2>2, <3>1, <1>1, <1>2 DEF t
    <2> QED
      BY <2>1, <2>2
  <1>4. ASSUME NEW i \in 1..Len(q) PROVE q[i] \in Range(t)
    <2>1. i \in 1..(Len(q) + Len(r)) /\ i <= Len(q)
      BY <1>2
    <2> QED
      BY <2>1, <1>1, <1>2 DEF t
  <1>5. ASSUME NEW i \in 1..Len(r) PROVE r[i] \in Range(t)
    <2>1. i + Len(q) \in 1..(Len(q) + Len(r)) /\ ~(i + Len(q) <= Len(q)) /\ (i + Len(q)) - Len(q) = i
      BY <1>2
    <2>2. t[i + Len(q)] = r[i]
      BY <2>1, <1>1 DEF t
    <2> QED
      BY <2>1, <2>2, <1>2 DEF t
  <1>6. t \in Seq(S) /\ Range(t) = {t[i] : i \in 1..(Len(q) + Len(r))}
    BY <1>1, <1>2 DEF t
  <1>7. Range(t) \subseteq Range(q) \cup Range(r)
    BY <1>3, <1>6
  <1>8. Range(q) \subseteq Range(t) /\ Range(r) \subseteq Range(t)
    BY <1>2, <1>4, <1>5
  <1>9. t \in Seq(S) /\ Range(t) = Range(q) \cup Range(r)
    BY <1>6, <1>7, <1>8
  <1> QED
    BY <1>9 DEF t

\* A batch is filtered at the given places.
LEMMA AtIs ==
  ASSUME NEW S, NEW q \in Seq(S), NEW places, places \subseteq DOMAIN q
  PROVE  At(q, places) \in Seq(S) /\ Range(At(q, places)) = {q[i] : i \in places}
  <1> DEFINE N == Len(q)
             V == Seq(S)
             next(k, v) == IF k \in places THEN Append(v, q[k]) ELSE v
             step == [x \in (1..N) \X V |-> next(x[1], x[2])]
             Eq(f) == f = [k \in 0..N |-> IF k = 0 THEN <<>>
                                           ELSE IF k \in places THEN Append(f[k - 1], q[k])
                                           ELSE f[k - 1]]
  <1>1. N \in Nat /\ DOMAIN q = 1..N /\ \A i \in 1..N : q[i] \in S
    BY SeqRange, ElementOfSeq
  <1>2. \A k \in 1..N : \A v \in V : next(k, v) \in V /\ step[<<k, v>>] = next(k, v)
    BY <1>1, AppendProperties
  <1>3. StepsWithin(N, V, step)
    BY <1>2 DEF StepsWithin
  <1>4. N \in Nat /\ <<>> \in V
    BY <1>1
  <1>5. PICK g : Recurses(N, V, <<>>, step, g)
    <2> HIDE DEF step, V, N
    <2> QED
      BY <1>3, <1>4, NumberRecursion
  <1> USE DEF Recurses
  <1> HIDE DEF step
  <1>6. Eq(g)
    <2>0. \A k \in 1..N : k - 1 \in 0..N
      <3> HIDE DEF N
      <3> QED
        BY <1>1
    <2>1. \A k \in 1..N : k - 1 \in 0..N /\ g[k - 1] \in V
      BY <2>0, <1>5
    <2>2. \A k \in 1..N : g[k] = next(k, g[k - 1])
      BY <2>1, <1>2, <1>5
    <2>3. \A k \in 0..N : k = 0 \/ k \in 1..N
      BY <1>1
    <2> QED
      BY <2>2, <2>3, <1>5
  <1> DEFINE f == CHOOSE h : Eq(h)
  <1>7. Eq(f)
    <2> HIDE DEF Eq
    <2> QED
      BY <1>6
  <1>8. At(q, places) = f[N]
    BY DEF At
  <1> HIDE DEF f
  <1>9. f[0] = <<>> /\ \A k \in 1..N : f[k] = next(k, f[k - 1])
    <2> HIDE DEF N
    <2>1. 0 \in 0..N /\ \A k \in 1..N : k \in 0..N /\ k # 0
      BY <1>1
    <2> QED
      BY <2>1, <1>7
  <1> HIDE DEF Eq
  <1> DEFINE Good(n) == f[n] \in V /\ Range(f[n]) = {q[i] : i \in places \cap 1..n}
             Bad == {n \in 0..N : ~Good(n)}
  <1>10. ASSUME N \in Bad PROVE FALSE
    <2>0. Bad \subseteq Nat /\ Bad # {}
      <3>1. Bad \subseteq Nat
        BY <1>1
      <3> HIDE DEF Bad
      <3> QED
        BY <1>10, <3>1
    <2>1. PICK n \in Bad : n \in Nat /\ \A m \in Nat : m < n => m \notin Bad
      <3> HIDE DEF Bad
      <3> QED
        BY <2>0, LeastNumber
    <2>2. n # 0
      <3>1. Range(<<>>) = {} /\ \A i \in 1..0 : FALSE
        BY DEF Range
      <3>2. Good(0)
        BY <1>9, <3>1
      <3> QED
        BY <3>2, <2>1
    <2>3. n - 1 \in Nat /\ n - 1 < n /\ n - 1 \in 0..N /\ n \in 1..N
      BY <1>1, <2>1, <2>2
    <2>4. Good(n - 1)
      BY <2>1, <2>3
    <2>5. f[n] = next(n, f[n - 1])
      BY <1>9, <2>3
    <2>6. 1..n = (1..(n - 1)) \cup {n}
      BY <2>3
    <2>7. CASE n \in places
      <3>1. q[n] \in S
        BY <1>1, <2>3
      <3> DEFINE v == f[n - 1]
      <3>2. v \in Seq(S)
        BY <2>4
      <3> HIDE DEF v
      <3>3. Append(v, q[n]) \in Seq(S)
        BY <3>1, <3>2, AppendProperties
      <3>4. Range(Append(v, q[n])) = Range(v) \cup {q[n]}
        <4>1. <<q[n]>> \in Seq(S) /\ Range(<<q[n]>>) = {q[n]} /\ Append(v, q[n]) = v \o <<q[n]>>
          BY <3>1, <3>2, AppendIsConcat DEF Range
        <4> DEFINE x == <<q[n]>>
        <4>2. x \in Seq(S) /\ Range(x) = {q[n]} /\ Append(v, q[n]) = v \o x
          BY <4>1
        <4> HIDE DEF x
        <4> QED
          BY <3>2, <4>2, ConcatRange
      <3>5. {q[i] : i \in places \cap 1..n} = {q[i] : i \in places \cap 1..(n - 1)} \cup {q[n]}
        BY <2>6, <2>7
      <3>6. Good(n)
        BY <2>4, <2>5, <2>7, <3>3, <3>4, <3>5 DEF v
      <3> QED
        BY <3>6, <2>1
    <2>8. CASE n \notin places
      <3>1. places \cap 1..n = places \cap 1..(n - 1)
        BY <2>6, <2>8
      <3>2. Good(n)
        BY <2>4, <2>5, <2>8, <3>1
      <3> QED
        BY <3>2, <2>1
    <2> QED
      BY <2>7, <2>8
  <1>11. Good(N)
    <2> HIDE DEF Good
    <2> QED
      BY <1>1, <1>10
  <1>12. places \cap 1..N = places
    BY <1>1
  <1> QED
    BY <1>8, <1>11, <1>12

(***************************************************************************)
(* Ordering.                                                               *)
(***************************************************************************)

\* The ids of a batch that are on a cycle of links or depend on one.
TangledIn(ids, links) ==
  UNION {S \in SUBSET ids : \A i \in S : \E j \in S : <<i, j>> \in links}

\* A batch holds one request at least for each id of left, and nothing in it
\* depends on what comes later, but for cycles within ids.
Ordered(q, left, ids, links) ==
  /\ IdsOf(q) = left
  /\ \A i, j \in DOMAIN q :
       i < j /\ <<q[i].id, q[j].id>> \in links => {q[i].id, q[j].id} \subseteq TangledIn(ids, links)

\* Of a nonempty set of numbers Min is an element.
LEMMA MinIn ==
  ASSUME NEW S, S \subseteq Nat, S # {}
  PROVE  Min(S) \in S
  <1>1. PICK n \in S : n \in Nat /\ \A m \in Nat : m < n => m \notin S
    BY LeastNumber
  <1>2. \A m \in S : n <= m
    BY <1>1
  <1> QED
    BY <1>1, <1>2 DEF Min

\* buildRequestSet finds a request for every id of the batch.
LEMMA RequestSetHas ==
  ASSUME NEW R, NEW reqs \in Seq(R), NEW id \in IdsOf(reqs)
  PROVE  BuildRequestSet(reqs)[id] \in Range(reqs) /\ BuildRequestSet(reqs)[id].id = id
  <1> DEFINE N == Len(reqs)
             Places == {N - i : i \in {j \in 1..N : reqs[j].id = id}}
  <1>1. N \in Nat /\ DOMAIN reqs = 1..N /\ Range(reqs) = {reqs[i] : i \in 1..N}
    BY SeqRange
  <1>2. Places \subseteq Nat /\ Places # {}
    BY <1>1 DEF IdsOf
  <1>3. PICK d \in Places : d \in Nat /\ \A m \in Nat : m < d => m \notin Places
    <2> HIDE DEF Places
    <2> QED
      BY <1>2, LeastNumber
  <1>4. PICK i \in 1..N : reqs[i].id = id /\ d = N - i
    BY <1>3
  <1>5. \A j \in 1..N : reqs[j].id = id => j <= i
    <2> SUFFICES ASSUME NEW j \in 1..N, reqs[j].id = id, ~(j <= i) PROVE FALSE
      OBVIOUS
    <2>1. N - j \in Nat /\ N - j < d
      BY <1>1, <1>4
    <2>2. N - j \in Places
      OBVIOUS
    <2> QED
      BY <2>1, <2>2, <1>3
  <1> DEFINE L(k) == reqs[k].id = id /\ \A j \in DOMAIN reqs : reqs[j].id = id => j <= k
             c == CHOOSE k \in DOMAIN reqs : L(k)
  <1>6. c \in DOMAIN reqs /\ L(c)
    BY <1>1, <1>4, <1>5
  <1>7. BuildRequestSet(reqs)[id] = reqs[c]
    BY DEF BuildRequestSet
  <1> HIDE DEF c
  <1> QED
    BY <1>1, <1>6, <1>7

\* A batch has finitely many ids.
LEMMA IdsOfFinite ==
  ASSUME NEW R, NEW reqs \in Seq(R)
  PROVE  IsFiniteSet(IdsOf(reqs)) /\ IdsOf(reqs) = {r.id : r \in Range(reqs)}
  <1>1. Len(reqs) \in Nat /\ DOMAIN reqs = 1..Len(reqs) /\ Range(reqs) = {reqs[i] : i \in 1..Len(reqs)}
    BY SeqRange
  <1>2. IsFiniteSet(1..Len(reqs))
    BY <1>1, FS_Interval
  <1> DEFINE f == [i \in 1..Len(reqs) |-> reqs[i].id]
  <1>3. f \in Surjection(1..Len(reqs), IdsOf(reqs))
    BY <1>1 DEF IdsOf, Surjection
  <1> HIDE DEF f
  <1> QED
    BY <1>1, <1>2, <1>3, FS_Surjection DEF IdsOf

\* What follows when nothing is ready any more is a cycle, or depends on one.
LEMMA OrphansOrdered ==
  ASSUME NEW R, NEW reqs \in Seq(R), NEW X, NEW links \in SUBSET (X \X X),
         NEW left \in SUBSET IdsOf(reqs), Ready(links, left) = {}
  PROVE  /\ AppendCycleOrphans(left, reqs) \in Seq(Range(reqs))
         /\ Ordered(AppendCycleOrphans(left, reqs), left, IdsOf(reqs), links)
  <1> DEFINE q == AppendCycleOrphans(left, reqs)
             places == {i \in DOMAIN reqs : reqs[i].id \in left}
  <1>1. reqs \in Seq(Range(reqs))
    BY SeqRange
  <1>2. q \in Seq(Range(reqs)) /\ Range(q) = {reqs[i] : i \in places}
    BY <1>1, AtIs DEF AppendCycleOrphans
  <1> HIDE DEF q
  <1>3. IdsOf(q) = {r.id : r \in Range(q)}
    BY <1>2, IdsOfFinite
  <1>4. IdsOf(q) = left
    <2>1. \A x \in left : \E i \in places : reqs[i].id = x
      BY DEF IdsOf
    <2>2. \A i \in places : reqs[i].id \in left
      OBVIOUS
    <2> HIDE DEF places
    <2> QED
      BY <1>2, <1>3, <2>1, <2>2
  <1>5. \A i \in left : \E j \in left : <<i, j>> \in links
    <2> SUFFICES ASSUME NEW i \in left PROVE \E j \in left : <<i, j>> \in links
      OBVIOUS
    <2>1. PICK l \in links : l[1] = i /\ l[2] \in left
      BY DEF Ready
    <2>2. l = <<l[1], l[2]>>
      BY <2>1
    <2> QED
      BY <2>1, <2>2
  <1>6. left \subseteq TangledIn(IdsOf(reqs), links)
    BY <1>5 DEF TangledIn
  <1>7. \A i \in DOMAIN q : q[i].id \in left
    BY <1>4 DEF IdsOf
  <1> QED
    BY <1>2, <1>4, <1>6, <1>7 DEF Ordered, q

\* A request that depends on nothing left may come before all of them.
LEMMA FirstOrdered ==
  ASSUME NEW R, NEW q \in Seq(R), NEW ids, NEW left, NEW links, NEW r \in R,
         r.id \in left, r.id \in Ready(links, left), Ordered(q, left \ {r.id}, ids, links)
  PROVE  <<r>> \o q \in Seq(R) /\ Ordered(<<r>> \o q, left, ids, links)
  <1> DEFINE h == <<r>>
             t == h \o q
  <1>1. h \in Seq(R) /\ Len(h) = 1 /\ h[1] = r
    OBVIOUS
  <1> HIDE DEF h
  <1>0. /\ t \in Seq(R)
        /\ Len(t) = Len(h) + Len(q)
        /\ \A i \in 1..Len(h) + Len(q) : t[i] = IF i <= Len(h) THEN h[i] ELSE q[i - Len(h)]
    BY <1>1, ConcatProperties
  <1>2. /\ t \in Seq(R)
        /\ Len(t) = 1 + Len(q)
        /\ \A i \in 1..1 + Len(q) : t[i] = IF i <= 1 THEN h[i] ELSE q[i - 1]
    BY <1>0, <1>1
  <1>3. /\ Len(q) \in Nat /\ DOMAIN q = 1..Len(q) /\ DOMAIN t = 1..(1 + Len(q))
    BY <1>2, SeqRange
  <1> HIDE DEF t
  <1>4. t[1] = r
    BY <1>1, <1>2, <1>3
  <1>5. \A i \in 2..(1 + Len(q)) : t[i] = q[i - 1] /\ i - 1 \in 1..Len(q)
    BY <1>2, <1>3
  <1>6. IdsOf(t) = left
    <2>1. IdsOf(q) = left \ {r.id}
      BY DEF Ordered
    <2>2. \A i \in DOMAIN t : t[i].id \in left
      BY <1>3, <1>4, <1>5, <2>1 DEF IdsOf
    <2>3. \A i \in DOMAIN q : i + 1 \in DOMAIN t /\ t[i + 1] = q[i]
      BY <1>3, <1>5
    <2>4. 1 \in DOMAIN t
      BY <1>3
    <2> QED
      BY <2>1, <2>2, <2>3, <2>4, <1>4 DEF IdsOf
  <1>7. ASSUME NEW i \in DOMAIN t, NEW j \in DOMAIN t, i < j, <<t[i].id, t[j].id>> \in links
        PROVE  {t[i].id, t[j].id} \subseteq TangledIn(ids, links)
    <2>1. t[j].id \in left
      BY <1>6 DEF IdsOf
    <2>2. i # 1
      <3> SUFFICES ASSUME i = 1 PROVE FALSE
        OBVIOUS
      <3> DEFINE l == <<t[i].id, t[j].id>>
      <3>1. l \in links /\ l[1] = r.id /\ l[2] \in left
        BY <1>4, <1>7, <2>1
      <3> QED
        BY <3>1 DEF Ready
    <2>3. /\ i - 1 \in DOMAIN q /\ t[i] = q[i - 1]
          /\ j - 1 \in DOMAIN q /\ t[j] = q[j - 1]
          /\ i - 1 < j - 1
      <3>1. i \in 2..(1 + Len(q)) /\ j \in 2..(1 + Len(q))
        BY <1>3, <1>7, <2>2
      <3> QED
        BY <1>3, <1>5, <1>7, <3>1
    <2> QED
      BY <1>7, <2>3 DEF Ordered
  <1> QED
    BY <1>2, <1>6, <1>7 DEF Ordered, t, h

\* Kahn's algorithm orders the batch.
LEMMA KahnSortOrders ==
  ASSUME NEW R, NEW reqs \in Seq(R), IdsOf(reqs) \subseteq Nat,
         NEW X, NEW links \in SUBSET (X \X X)
  PROVE  /\ KahnSort(reqs, links) \in Seq(Range(reqs))
         /\ Ordered(KahnSort(reqs, links), IdsOf(reqs), IdsOf(reqs), links)
  <1> DEFINE ids == IdsOf(reqs)
             B == BuildRequestSet(reqs)
             V == Seq(Range(reqs))
             m(left) == Min(Ready(links, left))
             Next(left, v) == <<B[m(left)]>> \o v
             Eq(f) == f = [left \in SUBSET ids |->
                             IF Ready(links, left) = {} THEN AppendCycleOrphans(left, reqs)
                             ELSE <<B[m(left)]>> \o f[left \ {m(left)}]]
             stop == {left \in SUBSET ids : Ready(links, left) = {}}
             end == [left \in SUBSET ids |-> AppendCycleOrphans(left, reqs)]
             pick == [left \in SUBSET ids |-> m(left)]
             step == [x \in ids \X V |-> <<B[x[1]]>> \o x[2]]
  <1>1. IsFiniteSet(ids)
    BY IdsOfFinite
  <1>2. \A left \in SUBSET ids : left \in stop =>
           AppendCycleOrphans(left, reqs) \in V /\ Ordered(AppendCycleOrphans(left, reqs), left, ids, links)
    BY OrphansOrdered
  <1>3. \A left \in SUBSET ids : left \notin stop => m(left) \in Ready(links, left) /\ m(left) \in left
    <2> SUFFICES ASSUME NEW left \in SUBSET ids, Ready(links, left) # {}
                 PROVE  m(left) \in Ready(links, left) /\ m(left) \in left
      OBVIOUS
    <2>1. Ready(links, left) \subseteq left /\ Ready(links, left) \subseteq Nat
      BY DEF Ready
    <2> QED
      BY <2>1, MinIn
  <1>4. \A d \in ids : B[d] \in Range(reqs) /\ B[d].id = d
    BY RequestSetHas
  <1>5. \A d \in ids : \A v \in V : <<B[d]>> \o v \in V /\ step[<<d, v>>] = <<B[d]>> \o v
    <2> SUFFICES ASSUME NEW d \in ids, NEW v \in V
                 PROVE  <<B[d]>> \o v \in V /\ step[<<d, v>>] = <<B[d]>> \o v
      OBVIOUS
    <2>1. <<B[d]>> \in V
      BY <1>4
    <2>2. <<B[d]>> \o v \in V
      BY <2>1, ConcatProperties
    <2> QED
      BY <2>2
  <1>6. Descends(ids, V, stop, end, pick, step)
    <2>1. \A left \in SUBSET ids : end[left] = AppendCycleOrphans(left, reqs) /\ pick[left] = m(left)
      OBVIOUS
    <2> HIDE DEF stop, end, pick, step, V, ids, B, m
    <2> QED
      BY <1>2, <1>3, <1>5, <2>1 DEF Descends
  <1>7. PICK g : SolvesDescent(ids, V, stop, end, pick, step, g)
    <2> HIDE DEF stop, end, pick, step, V, ids, B, m
    <2> QED
      BY <1>1, <1>6, SubsetRecursion
  <1>8. Eq(g)
    <2>1. g \in [SUBSET ids -> V]
      BY <1>7 DEF SolvesDescent
    <2>2. ASSUME NEW left \in SUBSET ids
          PROVE  g[left] = IF Ready(links, left) = {} THEN AppendCycleOrphans(left, reqs)
                           ELSE <<B[m(left)]>> \o g[left \ {m(left)}]
      <3>1. g[left] = IF left \in stop THEN end[left] ELSE step[<<pick[left], g[left \ {pick[left]}]>>]
        BY <1>7 DEF SolvesDescent
      <3>2. end[left] = AppendCycleOrphans(left, reqs) /\ pick[left] = m(left)
        OBVIOUS
      <3>3. left \in stop <=> Ready(links, left) = {}
        OBVIOUS
      <3>4. CASE left \in stop
        BY <3>1, <3>2, <3>3, <3>4
      <3>5. CASE left \notin stop
        <4>1. m(left) \in ids /\ left \ {m(left)} \in SUBSET ids
          BY <1>3, <3>5
        <4>2. g[left \ {m(left)}] \in V
          BY <2>1, <4>1
        <4> HIDE DEF stop, end, pick, step, V, ids, B, m
        <4>3. step[<<m(left), g[left \ {m(left)}]>>] = <<B[m(left)]>> \o g[left \ {m(left)}]
          BY <1>5, <4>1, <4>2
        <4> QED
          BY <3>1, <3>2, <3>3, <3>5, <4>3
      <3> QED
        BY <3>4, <3>5
    <2>3. g = [left \in SUBSET ids |-> g[left]]
      BY <2>1
    <2> HIDE DEF B, m, ids
    <2> QED
      BY <2>2, <2>3
  <1> DEFINE f == CHOOSE h : Eq(h)
  <1>9. Eq(f)
    <2> HIDE DEF Eq
    <2> QED
      BY <1>8
  <1>10. KahnSort(reqs, links) = f[ids]
    BY DEF KahnSort
  <1> HIDE DEF f
  <1>11. \A left \in SUBSET ids :
            f[left] = IF left \in stop THEN AppendCycleOrphans(left, reqs)
                      ELSE <<B[m(left)]>> \o f[left \ {m(left)}]
    BY <1>9
  <1> HIDE DEF Eq, B, m, stop, end, pick, step, V, ids
  <1> DEFINE Good(left) == f[left] \in V /\ Ordered(f[left], left, ids, links)
             Bad == {Cardinality(left) : left \in {x \in SUBSET ids : ~Good(x)}}
  <1>12. \A left \in SUBSET ids : IsFiniteSet(left) /\ Cardinality(left) \in Nat
    BY <1>1, FS_Subset, FS_CardinalityType
  <1>13. ASSUME Bad # {} PROVE FALSE
    <2>1. Bad \subseteq Nat
      BY <1>12
    <2>2. PICK n \in Bad : n \in Nat /\ \A k \in Nat : k < n => k \notin Bad
      <3> HIDE DEF Bad
      <3> QED
        BY <2>1, <1>13, LeastNumber
    <2>3. PICK left \in SUBSET ids : ~Good(left) /\ Cardinality(left) = n
      BY <2>2
    <2>4. CASE left \in stop
      BY <2>3, <2>4, <1>2, <1>11
    <2>5. CASE left \notin stop
      <3> DEFINE d == m(left)
                 rest == left \ {d}
      <3>1. d \in Ready(links, left) /\ d \in left /\ d \in ids /\ rest \in SUBSET ids
        BY <2>5, <1>3
      <3> HIDE DEF d
      <3>2. Cardinality(rest) = Cardinality(left) - 1
        BY <3>1, <1>12, FS_RemoveElement
      <3>3. Cardinality(rest) \in Nat /\ Cardinality(rest) < n
        BY <3>1, <3>2, <2>3, <1>12
      <3>4. Good(rest)
        <4>1. Cardinality(rest) \notin Bad
          BY <3>3, <2>2
        <4> QED
          BY <3>1, <4>1
      <3>5. B[d] \in Range(reqs) /\ B[d].id = d
        BY <3>1, <1>4
      <3> DEFINE r == B[d]
                 q == f[rest]
      <3>6. /\ r \in Range(reqs) /\ r.id = d
            /\ q \in Seq(Range(reqs)) /\ Ordered(q, left \ {r.id}, ids, links)
        BY <3>4, <3>5 DEF V
      <3>7. f[left] = <<r>> \o q
        BY <2>5, <1>11 DEF d
      <3> HIDE DEF r, q
      <3>8. <<r>> \o q \in Seq(Range(reqs)) /\ Ordered(<<r>> \o q, left, ids, links)
        BY <3>1, <3>6, FirstOrdered
      <3> QED
        BY <3>7, <3>8, <2>3 DEF V
    <2> QED
      BY <2>4, <2>5
  <1>14. Good(ids)
    BY <1>13
  <1> QED
    BY <1>10, <1>14 DEF V, ids

\* A batch in the order of creates, and in the order of deletes.
DependenciesBefore(q, reqs, links) ==
  /\ q \in Seq(Range(reqs)) /\ IdsOf(q) = IdsOf(reqs)
  /\ \A i, j \in DOMAIN q :
       i < j /\ <<q[i].id, q[j].id>> \in links =>
         {q[i].id, q[j].id} \subseteq TangledIn(IdsOf(reqs), links)

DependentsBefore(q, reqs, links) ==
  /\ q \in Seq(Range(reqs)) /\ IdsOf(q) = IdsOf(reqs)
  /\ \A i, j \in DOMAIN q :
       i < j /\ <<q[j].id, q[i].id>> \in links =>
         {q[i].id, q[j].id} \subseteq TangledIn(IdsOf(reqs), links)

(***************************************************************************)
(* The order in which creates are executed: of two requests with a link    *)
(* from one to the other the dependency is first, unless both depend on a  *)
(* cycle; no id is lost and nothing is added (apply.go:150-244).           *)
(***************************************************************************)
THEOREM CreatesInOrder ==
  ASSUME NEW R, NEW reqs \in Seq(R), IdsOf(reqs) \subseteq Nat,
         NEW X, NEW links \in SUBSET (X \X X),
         NEW q, q = TopoSortRequests(reqs, links, FALSE)
  PROVE  DependenciesBefore(q, reqs, links)
  <1>1. q = KahnSort(reqs, links)
    BY DEF TopoSortRequests
  <1>2. q \in Seq(Range(reqs)) /\ Ordered(q, IdsOf(reqs), IdsOf(reqs), links)
    BY <1>1, KahnSortOrders
  <1> QED
    BY <1>2 DEF Ordered, DependenciesBefore

(***************************************************************************)
(* Deletes are executed the other way round: dependents first.             *)
(***************************************************************************)
THEOREM DeletesInOrder ==
  ASSUME NEW R, NEW reqs \in Seq(R), IdsOf(reqs) \subseteq Nat,
         NEW X, NEW links \in SUBSET (X \X X),
         NEW q, q = TopoSortRequests(reqs, links, TRUE)
  PROVE  DependentsBefore(q, reqs, links)
  <1> DEFINE k == KahnSort(reqs, links)
             n == Len(k)
  <1>1. k \in Seq(Range(reqs)) /\ Ordered(k, IdsOf(reqs), IdsOf(reqs), links)
    BY KahnSortOrders
  <1>2. q = [i \in 1..n |-> k[(n - i) + 1]]
    BY DEF TopoSortRequests, Reverse
  <1> HIDE DEF k
  <1>3. n \in Nat /\ DOMAIN k = 1..n /\ \A i \in 1..n : k[i] \in Range(reqs)
    BY <1>1, SeqRange, ElementOfSeq
  <1> HIDE DEF n
  <1>4. \A i \in 1..n : (n - i) + 1 \in 1..n /\ (n - ((n - i) + 1)) + 1 = i
    BY <1>3
  <1>5. q \in [1..n -> Range(reqs)]
    BY <1>2, <1>3, <1>4
  <1>6. q \in Seq(Range(reqs)) /\ DOMAIN q = 1..n
    <2>1. DOMAIN q = 1..n
      BY <1>5
    <2>2. q \in Seq(Range(reqs))
      BY <1>3, <1>5, SeqDef
    <2> QED
      BY <2>1, <2>2
  <1>7. IdsOf(q) = IdsOf(k)
    <2>1. \A i \in 1..n : q[i] = k[(n - i) + 1]
      BY <1>2
    <2>2. \A i \in 1..n : q[(n - i) + 1] = k[i]
      BY <1>4, <2>1
    <2>3. ASSUME NEW i \in 1..n PROVE q[i].id \in IdsOf(k)
      <3>1. (n - i) + 1 \in DOMAIN k
        BY <1>3, <1>4
      <3> QED
        BY <2>1, <3>1 DEF IdsOf
    <2>4. \A x \in IdsOf(k) : x \in IdsOf(q)
      BY <1>3, <1>4, <1>6, <2>2 DEF IdsOf
    <2> QED
      BY <1>6, <2>3, <2>4 DEF IdsOf
  <1>8. ASSUME NEW i \in DOMAIN q, NEW j \in DOMAIN q, i < j, <<q[j].id, q[i].id>> \in links
        PROVE  {q[i].id, q[j].id} \subseteq TangledIn(IdsOf(reqs), links)
    <2> DEFINE a == (n - j) + 1
               b == (n - i) + 1
    <2>0. i \in 1..n /\ j \in 1..n
      BY <1>6
    <2>1. a \in DOMAIN k /\ b \in DOMAIN k /\ a < b
      <3>1. a \in 1..n /\ b \in 1..n
        BY <1>4, <2>0
      <3>2. a < b
        BY <1>3, <1>8, <2>0
      <3> QED
        BY <1>3, <3>1, <3>2
    <2>2. q[j] = k[a] /\ q[i] = k[b]
      BY <1>2, <2>0
    <2> QED
      BY <1>1, <1>8, <2>1, <2>2 DEF Ordered
  <1> QED
    BY <1>1, <1>6, <1>7, <1>8 DEF Ordered, DependentsBefore

\* splitRequests keeps the requests of one type.
LEMMA SplitIs ==
  ASSUME NEW R, NEW reqs \in Seq(R)
  PROVE  /\ CreatesOf(reqs) \in Seq(R) /\ DeletesOf(reqs) \in Seq(R)
         /\ Range(CreatesOf(reqs)) = {r \in Range(reqs) : IsCreate(r)}
         /\ Range(DeletesOf(reqs)) = {r \in Range(reqs) : IsDelete(r)}
  <1> DEFINE C == {i \in DOMAIN reqs : IsCreate(reqs[i])}
             D == {i \in DOMAIN reqs : IsDelete(reqs[i])}
  <1>1. C \subseteq DOMAIN reqs /\ D \subseteq DOMAIN reqs
    OBVIOUS
  <1>2. {reqs[i] : i \in C} = {r \in Range(reqs) : IsCreate(r)}
    BY DEF Range
  <1>3. {reqs[i] : i \in D} = {r \in Range(reqs) : IsDelete(r)}
    BY DEF Range
  <1> HIDE DEF C, D
  <1> QED
    BY <1>1, <1>2, <1>3, AtIs DEF CreatesOf, DeletesOf, C, D

\* sortedKeys lists every element of a finite set of numbers once.
LEMMA SortedLists ==
  ASSUME NEW S, IsFiniteSet(S), S \subseteq Int
  PROVE  /\ Sorted(S) \in Seq(S)
         /\ Range(Sorted(S)) = S
         /\ \A i, j \in DOMAIN Sorted(S) : Sorted(S)[i] = Sorted(S)[j] => i = j
  <1> DEFINE N == Cardinality(S)
             UpTo(x) == {y \in S : y <= x}
             rank == [x \in S |-> Cardinality(UpTo(x))]
  <1>1. N \in Nat
    BY FS_CardinalityType
  <1>2. ASSUME NEW x \in S
        PROVE  /\ Cardinality(UpTo(x)) \in 1..N /\ IsFiniteSet(UpTo(x))
    <2>1. UpTo(x) \in SUBSET S /\ x \in UpTo(x)
      OBVIOUS
    <2> HIDE DEF UpTo
    <2>2. IsFiniteSet(UpTo(x)) /\ Cardinality(UpTo(x)) <= N
      BY <2>1, FS_Subset
    <2>3. Cardinality(UpTo(x)) \in Nat /\ Cardinality(UpTo(x)) # 0
      BY <2>1, <2>2, FS_CardinalityType, FS_EmptySet
    <2> QED
      BY <1>1, <2>2, <2>3
  <1>3. ASSUME NEW x \in S, NEW y \in S, Cardinality(UpTo(x)) = Cardinality(UpTo(y)), x < y
        PROVE  FALSE
    <2>0. x \in Int /\ y \in Int
      OBVIOUS
    <2>1. UpTo(x) \in SUBSET UpTo(y)
      <3>1. ASSUME NEW z \in UpTo(x) PROVE z \in UpTo(y)
        <4>1. z \in S /\ z \in Int /\ z <= x
          OBVIOUS
        <4>2. z <= y
          BY <1>3, <2>0, <4>1
        <4> QED
          BY <4>1, <4>2
      <3> QED
        BY <3>1
    <2>2. y \in UpTo(y) /\ y \notin UpTo(x)
      BY <1>3, <2>0
    <2> HIDE DEF UpTo
    <2> QED
      BY <1>2, <1>3, <2>1, <2>2, FS_Subset
  <1>4. \A x, y \in S : x < y \/ y < x \/ x = y
    OBVIOUS
  <1>5. \A x, y \in S : Cardinality(UpTo(x)) = Cardinality(UpTo(y)) => x = y
    <2> HIDE DEF UpTo
    <2> QED
      BY <1>3, <1>4
  <1> HIDE DEF UpTo
  <1>6. rank \in Injection(S, 1..N)
    <2>1. rank \in [S -> 1..N]
      BY <1>2
    <2> QED
      BY <1>5, <2>1 DEF Injection, IsInjective
  <1>7. rank \in Surjection(S, 1..N)
    <2>1. IsFiniteSet(1..N) /\ Cardinality(1..N) = N
      BY <1>1, FS_Interval
    <2> QED
      BY <1>6, <2>1, FS_Injection
  <1> DEFINE q == Sorted(S)
  <1>8. q = [i \in 1..N |-> CHOOSE x \in S : Cardinality(UpTo(x)) = i]
    BY DEF Sorted, UpTo
  <1>9. ASSUME NEW i \in 1..N PROVE q[i] \in S /\ Cardinality(UpTo(q[i])) = i
    <2>1. PICK x \in S : rank[x] = i
      BY <1>7 DEF Surjection
    <2>2. Cardinality(UpTo(x)) = i
      BY <2>1
    <2> QED
      BY <2>2, <1>8
  <1> HIDE DEF q
  <1>10. q \in [1..N -> S]
    BY <1>8, <1>9
  <1>11. q \in Seq(S) /\ DOMAIN q = 1..N
    BY <1>1, <1>10, SeqDef
  <1>12. \A x \in S : \E i \in 1..N : q[i] = x
    BY <1>2, <1>5, <1>9
  <1>13. Range(q) = S
    BY <1>9, <1>11, <1>12 DEF Range
  <1> QED
    BY <1>9, <1>11, <1>13 DEF q

(***************************************************************************)
(* Planning.                                                               *)
(***************************************************************************)

\* A number of 1..N is the greatest of a nonempty set of such numbers.
LEMMA MaxIn ==
  ASSUME NEW N \in Nat, NEW S \in SUBSET (1..N), S # {}
  PROVE  Max(S) \in S /\ \A y \in S : Max(S) >= y
  <1> DEFINE Rest == {N - i : i \in S}
  <1>1. Rest \subseteq Nat /\ Rest # {}
    <2>1. \A i \in S : i \in 1..N /\ N - i \in Nat
      OBVIOUS
    <2>2. PICK i : i \in S
      OBVIOUS
    <2>3. N - i \in Rest
      BY <2>2
    <2> QED
      BY <2>1, <2>3
  <1>2. PICK d \in Rest : d \in Nat /\ \A m \in Nat : m < d => m \notin Rest
    <2> HIDE DEF Rest
    <2> QED
      BY <1>1, LeastNumber
  <1>3. PICK x \in S : d = N - x
    BY <1>2
  <1>4. \A y \in S : x >= y
    <2> SUFFICES ASSUME NEW y \in S, ~(x >= y) PROVE FALSE
      OBVIOUS
    <2>1. N - y \in Nat /\ N - y < d /\ N - y \in Rest
      BY <1>3
    <2> QED
      BY <1>2, <2>1
  <1> QED
    BY <1>3, <1>4 DEF Max

\* The walk of ComputePlan over the create requests q.
Walk(rolls, q) ==
  FoldLeft(LAMBDA acc, r : PlanRequest(rolls, acc, r),
           [current |-> DOMAIN rolls, actions |-> <<>>, requests |-> <<>>], q)

WalkStart(rolls) == [current |-> DOMAIN rolls, actions |-> <<>>, requests |-> <<>>]

\* What the walk holds at any time.
PlannedRequests(R) == R \cup {DeleteRequest(r.id, r.key) : r \in R}

WalkValues(R, D) ==
  [current : SUBSET D,
   actions : Seq({Action(t, r) : t \in {"create", "update", "noop"}, r \in R}),
   requests : Seq(PlannedRequests(R))]

\* One step of it, field by field.
PlannedAs(rolls, a, r, p) ==
  \/ /\ r.id \notin a.current
     /\ p = [current |-> a.current, actions |-> Append(a.actions, Action("create", r)),
             requests |-> Append(a.requests, r)]
  \/ /\ r.id \in a.current /\ rolls[r.id].body # r.body
     /\ p = [current |-> a.current \ {r.id}, actions |-> Append(a.actions, Action("update", r)),
             requests |-> a.requests \o <<DeleteRequest(r.id, r.key), r>>]
  \/ /\ r.id \in a.current /\ rolls[r.id].body = r.body
     /\ p = [current |-> a.current \ {r.id}, actions |-> Append(a.actions, Action("noop", r)),
             requests |-> a.requests]

LEMMA PlanRequestIs ==
  ASSUME NEW R, NEW r, NEW rolls, NEW D, NEW a \in WalkValues(R, D)
  PROVE  PlannedAs(rolls, a, r, PlanRequest(rolls, a, r))
  <1>1. ASSUME NEW x, NEW y
       PROVE  [a EXCEPT !.actions = x, !.requests = y] = [current |-> a.current, actions |-> x, requests |-> y]
    <2> DEFINE b == [a EXCEPT !.actions = x]
    <2>1. b = [current |-> a.current, actions |-> x, requests |-> a.requests]
      BY DEF WalkValues
    <2> HIDE DEF b
    <2>2. b \in [current : {a.current}, actions : {x}, requests : {a.requests}]
      BY <2>1
    <2>3. [b EXCEPT !.requests = y] = [current |-> a.current, actions |-> x, requests |-> y]
      BY <2>2
    <2> QED
      BY <2>3 DEF b
  <1>2. ASSUME NEW x, NEW y
       PROVE  [a EXCEPT !.actions = x, !.current = y] = [current |-> y, actions |-> x, requests |-> a.requests]
    <2> DEFINE b == [a EXCEPT !.actions = x]
    <2>1. b = [current |-> a.current, actions |-> x, requests |-> a.requests]
      BY DEF WalkValues
    <2> HIDE DEF b
    <2>2. b \in [current : {a.current}, actions : {x}, requests : {a.requests}]
      BY <2>1
    <2>3. [b EXCEPT !.current = y] = [current |-> y, actions |-> x, requests |-> a.requests]
      BY <2>2
    <2> QED
      BY <2>3 DEF b
  <1> QED
    BY <1>1, <1>2, Zenon DEF PlanRequest, PlannedAs

LEMMA PlanRequestTyped ==
  ASSUME NEW R, NEW r \in R, NEW rolls, NEW a \in WalkValues(R, DOMAIN rolls)
  PROVE  PlanRequest(rolls, a, r) \in WalkValues(R, DOMAIN rolls)
  <1> DEFINE A == {Action(t, x) : t \in {"create", "update", "noop"}, x \in R}
             Q == PlannedRequests(R)
  <1>1. /\ a.current \in SUBSET (DOMAIN rolls) /\ a.actions \in Seq(A) /\ a.requests \in Seq(Q)
        /\ a = [current |-> a.current, actions |-> a.actions, requests |-> a.requests]
    BY DEF WalkValues
  <1>2. /\ Action("create", r) \in A /\ Action("update", r) \in A /\ Action("noop", r) \in A
        /\ r \in Q /\ DeleteRequest(r.id, r.key) \in Q
    BY DEF PlannedRequests
  <1> HIDE DEF A, Q
  <1>3. /\ Append(a.actions, Action("create", r)) \in Seq(A)
        /\ Append(a.actions, Action("update", r)) \in Seq(A)
        /\ Append(a.actions, Action("noop", r)) \in Seq(A)
        /\ Append(a.requests, r) \in Seq(Q)
    BY <1>1, <1>2, AppendProperties
  <1>4. a.requests \o <<DeleteRequest(r.id, r.key), r>> \in Seq(Q)
    <2>1. <<DeleteRequest(r.id, r.key), r>> \in Seq(Q)
      BY <1>2
    <2> QED
      BY <1>1, <2>1, ConcatProperties
  <1>5. /\ [current |-> a.current, actions |-> Append(a.actions, Action("create", r)),
            requests |-> Append(a.requests, r)] \in WalkValues(R, DOMAIN rolls)
        /\ [current |-> a.current \ {r.id}, actions |-> Append(a.actions, Action("update", r)),
            requests |-> a.requests \o <<DeleteRequest(r.id, r.key), r>>]
             \in WalkValues(R, DOMAIN rolls)
        /\ [current |-> a.current \ {r.id}, actions |-> Append(a.actions, Action("noop", r)),
            requests |-> a.requests] \in WalkValues(R, DOMAIN rolls)
    BY <1>1, <1>3, <1>4 DEF WalkValues, A, Q
  <1>6. PlannedAs(rolls, a, r, PlanRequest(rolls, a, r))
    BY PlanRequestIs
  <1> QED
    BY <1>5, <1>6, Zenon DEF PlannedAs

\* The walk is a recursion over the batch.
LEMMA WalkSteps ==
  ASSUME NEW R, NEW q \in Seq(R), NEW rolls
  PROVE  \E g : /\ \A k \in 0..Len(q) : g[k] \in WalkValues(R, DOMAIN rolls)
                /\ g[0] = WalkStart(rolls)
                /\ \A k \in 1..Len(q) : g[k] = PlanRequest(rolls, g[k - 1], q[k])
                /\ Walk(rolls, q) = g[Len(q)]
  <1> DEFINE N == Len(q)
             D == DOMAIN q
             V == WalkValues(R, DOMAIN rolls)
             base == WalkStart(rolls)
             Next(x, v) == PlanRequest(rolls, v, q[x])
             Eq(f) == f = [s \in SUBSET D |-> IF s = {} THEN base
                                              ELSE Next(Max(s), f[s \ {Max(s)}])]
             stop == {{}}
             end == [s \in SUBSET D |-> base]
             pick == [s \in SUBSET D |-> Max(s)]
             step == [x \in D \X V |-> Next(x[1], x[2])]
  <1>1. N \in Nat /\ D = 1..N /\ \A i \in D : q[i] \in R
    BY SeqRange, ElementOfSeq
  <1>2. IsFiniteSet(D)
    BY <1>1, FS_Interval
  <1>3. base \in V
    BY DEF WalkStart, WalkValues
  <1>4. \A s \in SUBSET D : s # {} => Max(s) \in s
    BY <1>1, MaxIn
  <1>5. \A d \in D : \A v \in V : Next(d, v) \in V
    BY <1>1, PlanRequestTyped
  <1>6. \A d \in D : \A v \in V : step[<<d, v>>] = Next(d, v)
    OBVIOUS
  <1>7. \A s \in SUBSET D : end[s] = base /\ pick[s] = Max(s) /\ (s \in stop <=> s = {})
    OBVIOUS
  <1>8. Descends(D, V, stop, end, pick, step)
    <2> HIDE DEF stop, end, pick, step, V, D, base, Next
    <2> QED
      BY <1>3, <1>4, <1>5, <1>6, <1>7 DEF Descends
  <1>9. PICK h : SolvesDescent(D, V, stop, end, pick, step, h)
    <2> HIDE DEF stop, end, pick, step, V, D, base, Next
    <2> QED
      BY <1>2, <1>8, SubsetRecursion
  <1>10. Eq(h)
    <2>1. h \in [SUBSET D -> V]
      BY <1>9 DEF SolvesDescent
    <2> HIDE DEF stop, end, pick, step, V, D, base, Next
    <2>2. ASSUME NEW s \in SUBSET D
          PROVE  h[s] = IF s = {} THEN base ELSE Next(Max(s), h[s \ {Max(s)}])
      <3>1. h[s] = IF s \in stop THEN end[s] ELSE step[<<pick[s], h[s \ {pick[s]}]>>]
        BY <1>9 DEF SolvesDescent
      <3>2. CASE s = {}
        BY <3>1, <3>2, <1>7
      <3>3. CASE s # {}
        <4>1. Max(s) \in D /\ s \ {Max(s)} \in SUBSET D
          BY <3>3, <1>4
        <4>2. h[s \ {Max(s)}] \in V
          BY <2>1, <4>1
        <4> QED
          BY <3>1, <3>3, <4>1, <4>2, <1>6, <1>7
      <3> QED
        BY <3>2, <3>3
    <2>3. h = [s \in SUBSET D |-> h[s]]
      BY <2>1
    <2> QED
      BY <2>2, <2>3
  <1> DEFINE f == CHOOSE x : Eq(x)
  <1>11. Eq(f)
    <2> HIDE DEF Eq
    <2> QED
      BY <1>10
  <1>12. Walk(rolls, q) = f[DOMAIN q]
    BY DEF Walk, FoldLeft, MapThenFoldSet, WalkStart
  <1> HIDE DEF f
  <1>13. \A s \in SUBSET D : f[s] = IF s = {} THEN base ELSE Next(Max(s), f[s \ {Max(s)}])
    BY <1>11
  <1> HIDE DEF Eq, stop, end, pick, step, base
  <1> DEFINE g == [k \in 0..N |-> f[1..k]]
  <1>14. g[0] = WalkStart(rolls)
    <2>1. 0 \in 0..N /\ 1..0 = {} /\ {} \in SUBSET D
      BY <1>1
    <2>2. f[{}] = base
      BY <1>13
    <2> QED
      BY <2>1, <2>2 DEF base
  <1>15. ASSUME NEW k \in 1..N PROVE g[k] = PlanRequest(rolls, g[k - 1], q[k])
    <2>1. k \in 0..N /\ k - 1 \in 0..N /\ 1..k \in SUBSET D /\ k \in 1..k /\ \A y \in 1..k : k >= y
      BY <1>1
    <2>2. Max(1..k) = k
      <3>1. Max(1..k) \in 1..k /\ \A y \in 1..k : Max(1..k) >= y
        BY <1>1, <2>1, MaxIn
      <3> QED
        BY <2>1, <3>1
    <2>3. (1..k) \ {k} = 1..(k - 1)
      BY <1>1
    <2>4. f[1..k] = Next(k, f[1..(k - 1)])
      BY <1>13, <2>1, <2>2, <2>3
    <2> QED
      BY <2>1, <2>4
  <1>16. Walk(rolls, q) = g[N]
    BY <1>1, <1>12
  <1>17. \A k \in 0..N : g[k] \in V
    <2> SUFFICES ASSUME {k \in 0..N : g[k] \notin V} # {} PROVE FALSE
      OBVIOUS
    <2> DEFINE Bad == {k \in 0..N : g[k] \notin V}
    <2>1. Bad \subseteq Nat /\ Bad # {}
      <3>1. Bad \subseteq Nat
        BY <1>1
      <3> QED
        BY <3>1
    <2>2. PICK k \in Bad : k \in Nat /\ \A m \in Nat : m < k => m \notin Bad
      <3> HIDE DEF Bad
      <3> QED
        BY <2>1, LeastNumber
    <2> HIDE DEF g
    <2>3. k # 0
      BY <1>3, <1>14, <2>2 DEF base
    <2>4. k \in 1..N /\ k - 1 \in Nat /\ k - 1 < k /\ k - 1 \in 0..N
      BY <1>1, <2>2, <2>3
    <2>5. g[k - 1] \in V
      BY <2>2, <2>4
    <2> QED
      BY <1>5, <1>15, <2>2, <2>4, <2>5
  <1> HIDE DEF g
  <1> QED
    BY <1>14, <1>15, <1>16, <1>17

\* Adding one at the end.
LEMMA AppendRange ==
  ASSUME NEW S, NEW q \in Seq(S), NEW x
  PROVE  /\ Append(q, x) \in Seq(S \cup {x})
         /\ Range(Append(q, x)) = Range(q) \cup {x}
  <1>1. q \in Seq(S \cup {x})
    OBVIOUS
  <1>2. /\ Append(q, x) \in Seq(S \cup {x})
        /\ Len(Append(q, x)) = Len(q) + 1
        /\ \A i \in 1..Len(q) : Append(q, x)[i] = q[i]
        /\ Append(q, x)[Len(q) + 1] = x
    BY <1>1, AppendProperties
  <1>3. /\ DOMAIN q = 1..Len(q)
        /\ DOMAIN Append(q, x) = 1..(Len(q) + 1)
        /\ Len(q) \in Nat
    BY <1>1, <1>2, LenProperties
  <1> QED
    BY <1>2, <1>3 DEF Range

\* What the walk has established after k requests.
WalkInv(rolls, q, k, current, actions, requests) ==
  /\ \A i \in 1..k : q[i].id \notin current
  /\ (\A x \in actions : x.type = "noop") =>
       \A i \in 1..k : q[i].id \in DOMAIN rolls /\ rolls[q[i].id].body = q[i].body
  /\ \A r \in requests : r \in Range(q) \/
       /\ r.id \in DOMAIN rolls /\ r.id \notin current
       /\ r = DeleteRequest(r.id, r.key)
       /\ \E c \in requests : c \in Range(q) /\ c.id = r.id
  /\ \A r, s \in requests : IsDelete(r) /\ IsDelete(s) /\ r.id = s.id => r = s

LEMMA WalkStep ==
  ASSUME NEW R, \A r \in R : IsCreate(r), NEW q \in Seq(R), NEW rolls,
         NEW a \in WalkValues(R, DOMAIN rolls), NEW k \in 1..Len(q),
         WalkInv(rolls, q, k - 1, a.current, Range(a.actions), Range(a.requests)),
         NEW p, p = PlanRequest(rolls, a, q[k])
  PROVE  WalkInv(rolls, q, k, p.current, Range(p.actions), Range(p.requests))
  <1> DEFINE r == q[k]
             del == DeleteRequest(r.id, r.key)
             both == a.requests \o <<del, r>>
  <1>1. /\ Len(q) \in Nat /\ r \in R /\ r \in Range(q) /\ \A i \in Range(q) : IsCreate(i)
    BY SeqRange, ElementOfSeq
  <1>2. \A i \in 1..k : i = k \/ i \in 1..(k - 1)
    BY <1>1
  <1>3. PlannedAs(rolls, a, r, p)
    BY PlanRequestIs
  <1>4. PICK A, Q : a.actions \in Seq(A) /\ a.requests \in Seq(Q) /\ a.current \subseteq DOMAIN rolls
    BY DEF WalkValues
  <1>5. \A x : Range(Append(a.actions, x)) = Range(a.actions) \cup {x}
    BY <1>4, AppendRange
  <1>6. Range(Append(a.requests, r)) = Range(a.requests) \cup {r}
    BY <1>4, AppendRange
  <1>7. Range(both) = Range(a.requests) \cup {del, r}
    <2> DEFINE t == <<del, r>>
    <2>1. t \in Seq(Q \cup {del, r}) /\ Range(t) = {del, r}
      <3>1. t \in Seq(Q \cup {del, r}) /\ DOMAIN t = 1..2 /\ t[1] = del /\ t[2] = r
        OBVIOUS
      <3> HIDE DEF t
      <3>2. \A i \in 1..2 : i = 1 \/ i = 2
        OBVIOUS
      <3> QED
        BY <3>1, <3>2 DEF Range
    <2>2. a.requests \in Seq(Q \cup {del, r})
      BY <1>4
    <2> HIDE DEF t, del, r
    <2>3. Range(a.requests \o t) = Range(a.requests) \cup Range(t)
      BY <2>1, <2>2, ConcatRange
    <2> QED
      BY <2>1, <2>3, Zenon DEF t, both
  <1>8. /\ del.id = r.id /\ del.key = r.key /\ IsDelete(del) /\ ~IsDelete(r) /\ ~IsCreate(del)
        /\ \A t : Action(t, r).type = t
    BY <1>1 DEF DeleteRequest, IsDelete, IsCreate, Action
  <1> HIDE DEF r, del, both
  <1>9. CASE r.id \notin a.current /\ p = [current |-> a.current,
                actions |-> Append(a.actions, Action("create", r)), requests |-> Append(a.requests, r)]
    <2>1. /\ p.current = a.current
          /\ Range(p.actions) = Range(a.actions) \cup {Action("create", r)}
          /\ Range(p.requests) = Range(a.requests) \cup {r}
      BY <1>5, <1>6, <1>9
    <2>2. Action("create", r) \in Range(p.actions) /\ Action("create", r).type # "noop"
      BY <1>8, <2>1
    <2>3. \A i \in 1..k : q[i].id \notin p.current
      BY <1>2, <1>9, <2>1 DEF WalkInv, r
    <2>4. \A x, y \in Range(p.requests) : IsDelete(x) /\ IsDelete(y) /\ x.id = y.id => x = y
      BY <1>8, <2>1 DEF WalkInv
    <2>5. ASSUME NEW x \in Range(p.requests), x \notin Range(q)
          PROVE  /\ x.id \in DOMAIN rolls /\ x.id \notin p.current
                 /\ x = DeleteRequest(x.id, x.key)
                 /\ \E c \in Range(p.requests) : c \in Range(q) /\ c.id = x.id
      BY <1>1, <2>1, <2>5 DEF WalkInv
    <2> QED
      BY <2>2, <2>3, <2>4, <2>5 DEF WalkInv
  <1>10. CASE /\ r.id \in a.current
              /\ p = [current |-> a.current \ {r.id},
                      actions |-> Append(a.actions, Action("update", r)),
                      requests |-> both]
    <2>1. /\ p.current = a.current \ {r.id}
          /\ Range(p.actions) = Range(a.actions) \cup {Action("update", r)}
          /\ Range(p.requests) = Range(a.requests) \cup {del, r}
      BY <1>5, <1>7, <1>10
    <2>2. Action("update", r) \in Range(p.actions) /\ Action("update", r).type # "noop"
      BY <1>8, <2>1
    <2>3. \A i \in 1..k : q[i].id \notin p.current
      BY <1>2, <2>1 DEF WalkInv, r
    <2>4. ASSUME NEW x \in Range(a.requests), IsDelete(x) PROVE x.id # r.id
      <3>1. x \notin Range(q)
        BY <1>1, <2>4 DEF IsDelete, IsCreate
      <3> QED
        BY <1>10, <3>1 DEF WalkInv
    <2>5. \A x, y \in Range(p.requests) : IsDelete(x) /\ IsDelete(y) /\ x.id = y.id => x = y
      BY <1>8, <2>1, <2>4 DEF WalkInv
    <2>6. ASSUME NEW x \in Range(p.requests), x \notin Range(q)
          PROVE  /\ x.id \in DOMAIN rolls /\ x.id \notin p.current
                 /\ x = DeleteRequest(x.id, x.key)
                 /\ \E c \in Range(p.requests) : c \in Range(q) /\ c.id = x.id
      <3>1. CASE x = del
        <4>1. x = DeleteRequest(x.id, x.key)
          BY <1>8, <3>1 DEF del
        <4>2. r \in Range(p.requests) /\ r \in Range(q) /\ r.id = x.id
          BY <1>1, <1>8, <2>1, <3>1
        <4> QED
          BY <1>4, <1>10, <2>1, <4>1, <4>2
      <3>2. CASE x \in Range(a.requests)
        BY <2>1, <2>6, <3>2 DEF WalkInv
      <3> QED
        BY <1>1, <2>1, <2>6, <3>1, <3>2
    <2> QED
      BY <2>2, <2>3, <2>5, <2>6 DEF WalkInv
  <1>11. CASE /\ r.id \in a.current /\ rolls[r.id].body = r.body
              /\ p = [current |-> a.current \ {r.id},
                      actions |-> Append(a.actions, Action("noop", r)),
                      requests |-> a.requests]
    <2>1. /\ p.current = a.current \ {r.id}
          /\ Range(p.actions) = Range(a.actions) \cup {Action("noop", r)}
          /\ p.requests = a.requests
      BY <1>5, <1>11
    <2>2. (\A x \in Range(p.actions) : x.type = "noop") =>
            \A i \in 1..k : q[i].id \in DOMAIN rolls /\ rolls[q[i].id].body = q[i].body
      BY <1>2, <1>4, <1>11, <2>1 DEF WalkInv, r
    <2>3. \A i \in 1..k : q[i].id \notin p.current
      BY <1>2, <2>1 DEF WalkInv, r
    <2> QED
      BY <2>1, <2>2, <2>3 DEF WalkInv
  <1> QED
    BY <1>3, <1>9, <1>10, <1>11, Zenon DEF PlannedAs, del, both

\* The walk over a whole batch of creates.
LEMMA WalkIs ==
  ASSUME NEW R, \A r \in R : IsCreate(r), NEW q \in Seq(R), NEW rolls
  PROVE  /\ Walk(rolls, q) \in WalkValues(R, DOMAIN rolls)
         /\ WalkInv(rolls, q, Len(q), Walk(rolls, q).current, Range(Walk(rolls, q).actions),
                    Range(Walk(rolls, q).requests))
  <1> DEFINE N == Len(q)
             V == WalkValues(R, DOMAIN rolls)
             I(k, a) == WalkInv(rolls, q, k, a.current, Range(a.actions), Range(a.requests))
  <1>1. PICK g : /\ \A k \in 0..N : g[k] \in V
                 /\ g[0] = WalkStart(rolls)
                 /\ \A k \in 1..N : g[k] = PlanRequest(rolls, g[k - 1], q[k])
                 /\ Walk(rolls, q) = g[N]
    BY WalkSteps
  <1>2. N \in Nat
    BY SeqRange
  <1>3. I(0, g[0])
    <2>1. g[0].current = DOMAIN rolls /\ Range(g[0].actions) = {} /\ Range(g[0].requests) = {}
      BY <1>1 DEF WalkStart, Range
    <2> QED
      BY <2>1 DEF WalkInv
  <1>4. ASSUME NEW k \in 1..N, I(k - 1, g[k - 1]) PROVE I(k, g[k])
    <2>1. k - 1 \in 0..N
      BY <1>2
    <2>2. g[k - 1] \in V /\ g[k] = PlanRequest(rolls, g[k - 1], q[k])
      BY <1>1, <2>1
    <2> QED
      BY <1>4, <2>2, WalkStep
  <1> HIDE DEF I, N
  <1>5. ASSUME ~I(N, g[N]) PROVE FALSE
    <2> DEFINE Bad == {k \in 0..N : ~I(k, g[k])}
    <2>1. Bad \subseteq Nat /\ Bad # {}
      <3>1. Bad \subseteq Nat /\ N \in Bad
        BY <1>2, <1>5
      <3> HIDE DEF Bad
      <3> QED
        BY <3>1
    <2>2. PICK k \in Bad : k \in Nat /\ \A m \in Nat : m < k => m \notin Bad
      <3> HIDE DEF Bad
      <3> QED
        BY <2>1, LeastNumber
    <2>3. k # 0
      BY <1>3, <2>2
    <2>4. k \in 1..N /\ k - 1 \in Nat /\ k - 1 < k /\ k - 1 \in 0..N
      BY <1>2, <2>2, <2>3
    <2>5. I(k - 1, g[k - 1])
      BY <2>2, <2>4
    <2> QED
      BY <1>4, <2>2, <2>4, <2>5
  <1>6. N \in 0..N
    BY <1>2
  <1> QED
    BY <1>1, <1>5, <1>6 DEF I, N

(***************************************************************************)
(* A plan p of what is desired over what is recorded: it carries the links *)
(* and conditions over; it creates nothing but what is desired, and deletes*)
(* nothing but what is recorded, each id under one kind; what it deletes   *)
(* for good is not desired; and if it changes nothing, everything desired  *)
(* is recorded with the desired body.                                      *)
(***************************************************************************)
Plans(desired, rolls, p) ==
  /\ p.links = desired.links /\ p.conditions = desired.conditions
  /\ p.requests \in Seq(Range(p.requests))
  /\ \A r \in Range(p.requests) :
       \/ IsCreate(r) /\ r \in Range(desired.requests)
       \/ r.id \in DOMAIN rolls /\ r = DeleteRequest(r.id, r.key)
  /\ \A r, s \in Range(p.requests) : IsDelete(r) /\ IsDelete(s) /\ r.id = s.id => r = s
  /\ \A r \in Range(p.requests) : IsDelete(r) /\ ~HasCreate(p, r.id) =>
       \A d \in Range(desired.requests) : IsCreate(d) => d.id # r.id
  /\ ~HasChanges(p) => \A d \in Range(desired.requests) : IsCreate(d) =>
       d.id \in DOMAIN rolls /\ rolls[d.id].body = d.body

THEOREM PlanIsSound ==
  ASSUME NEW desired, NEW S, desired.requests \in Seq(S),
         NEW rolls, IsFiniteSet(DOMAIN rolls), DOMAIN rolls \subseteq Int,
         NEW p, p = ComputePlan(desired, rolls)
  PROVE  Plans(desired, rolls, p)
  <1> DEFINE q == CreatesOf(desired.requests)
             R == Range(q)
             w == Walk(rolls, q)
             ids == Sorted(w.current)
             orphans == [i \in DOMAIN ids |-> DeleteRequest(ids[i], rolls[ids[i]].key)]
             destroys == [i \in DOMAIN ids |-> Action("destroy", orphans[i])]
             A == {Action(t, r) : t \in {"create", "update", "noop"}, r \in R}
             all == PlannedRequests(R) \cup Range(orphans)
             acts == A \cup Range(destroys)
  <1>1. /\ q \in Seq(R) /\ R = {r \in Range(desired.requests) : IsCreate(r)}
        /\ \A r \in R : IsCreate(r)
    BY SplitIs, SeqRange
  <1>2. p = [requests |-> w.requests \o orphans, actions |-> w.actions \o destroys,
             links |-> desired.links, conditions |-> desired.conditions]
    BY DEF ComputePlan, Walk
  <1> HIDE DEF q, R
  <1>3. /\ w \in WalkValues(R, DOMAIN rolls)
        /\ WalkInv(rolls, q, Len(q), w.current, Range(w.actions), Range(w.requests))
    BY <1>1, WalkIs
  <1> HIDE DEF w
  <1>4. /\ w.current \subseteq DOMAIN rolls /\ w.actions \in Seq(A)
        /\ w.requests \in Seq(PlannedRequests(R))
    BY <1>3 DEF WalkValues
  <1>5. /\ ids \in Seq(w.current) /\ Range(ids) = w.current
        /\ \A i, j \in DOMAIN ids : ids[i] = ids[j] => i = j
    <2>1. IsFiniteSet(w.current) /\ w.current \subseteq Int
      BY <1>4, FS_Subset
    <2> QED
      BY <2>1, SortedLists
  <1> HIDE DEF ids
  <1>6. Len(ids) \in Nat /\ DOMAIN ids = 1..Len(ids) /\ \A i \in 1..Len(ids) : ids[i] \in w.current
    BY <1>5, SeqRange, ElementOfSeq
  <1>7. /\ orphans \in Seq(Range(orphans)) /\ destroys \in Seq(Range(destroys))
        /\ Range(orphans) = {DeleteRequest(i, rolls[i].key) : i \in w.current}
    <2>1. DOMAIN orphans = 1..Len(ids) /\ DOMAIN destroys = 1..Len(ids)
      BY <1>6
    <2>2. Range(orphans) = {DeleteRequest(i, rolls[i].key) : i \in w.current}
      <3>1. Range(orphans) = {DeleteRequest(ids[i], rolls[ids[i]].key) : i \in DOMAIN ids}
        BY DEF Range
      <3>2. w.current = {ids[i] : i \in DOMAIN ids}
        BY <1>5 DEF Range
      <3> QED
        BY <3>1, <3>2
    <2>3. /\ orphans = [i \in 1..Len(ids) |-> orphans[i]]
          /\ destroys = [i \in 1..Len(ids) |-> destroys[i]]
      BY <1>6
    <2> HIDE DEF orphans, destroys
    <2>4. \A i \in 1..Len(ids) : orphans[i] \in Range(orphans) /\ destroys[i] \in Range(destroys)
      BY <2>1 DEF Range
    <2>5. orphans \in [1..Len(ids) -> Range(orphans)] /\ destroys \in [1..Len(ids) -> Range(destroys)]
      BY <2>3, <2>4
    <2>6. ASSUME NEW E, NEW f \in [1..Len(ids) -> E] PROVE f \in Seq(E)
      BY <1>6, SeqDef
    <2>7. orphans \in Seq(Range(orphans)) /\ destroys \in Seq(Range(destroys))
      BY <2>5, <2>6
    <2> QED
      BY <2>2, <2>7
  <1> HIDE DEF orphans, destroys
  <1>8. /\ w.requests \o orphans \in Seq(all)
        /\ Range(w.requests \o orphans) = Range(w.requests) \cup Range(orphans)
    <2>1. w.requests \in Seq(all) /\ orphans \in Seq(all)
      BY <1>4, <1>7
    <2> HIDE DEF all
    <2> QED
      BY <2>1, ConcatRange
  <1>9. Range(w.actions) \subseteq Range(p.actions)
    <2> HIDE DEF A
    <2>1. w.actions \in Seq(acts) /\ destroys \in Seq(acts)
      BY <1>4, <1>7
    <2> HIDE DEF acts
    <2>2. Range(w.actions \o destroys) = Range(w.actions) \cup Range(destroys)
      BY <2>1, ConcatRange
    <2> QED
      BY <1>2, <2>2
  <1>10. p.requests \in Seq(all) /\ Range(p.requests) = Range(w.requests) \cup Range(orphans)
    BY <1>2, <1>8
  <1>11. p.requests \in Seq(Range(p.requests))
    BY <1>10, SeqRange
  <1>12. \A r \in Range(orphans) :
            /\ r.id \in w.current /\ r.id \in DOMAIN rolls /\ r = DeleteRequest(r.id, r.key)
            /\ IsDelete(r) /\ ~IsCreate(r) /\ r = DeleteRequest(r.id, rolls[r.id].key)
    BY <1>4, <1>7 DEF DeleteRequest, IsDelete, IsCreate
  <1>13. \A r \in R : IsCreate(r) /\ ~IsDelete(r)
    BY <1>1 DEF IsCreate, IsDelete
  <1>14. \A r \in Range(w.requests) : r \in R \/
            /\ r.id \in DOMAIN rolls /\ r.id \notin w.current
            /\ r = DeleteRequest(r.id, r.key)
            /\ \E c \in Range(w.requests) : c \in R /\ c.id = r.id
    BY <1>3 DEF WalkInv, R
  <1>15. \A r \in Range(p.requests) :
            \/ IsCreate(r) /\ r \in Range(desired.requests)
            \/ r.id \in DOMAIN rolls /\ r = DeleteRequest(r.id, r.key)
    BY <1>1, <1>10, <1>12, <1>14
  <1>16. ASSUME NEW r \in Range(p.requests), NEW s \in Range(p.requests),
                IsDelete(r), IsDelete(s), r.id = s.id
         PROVE  r = s
    <2>1. CASE r \in Range(orphans) /\ s \in Range(orphans)
      BY <1>12, <1>16, <2>1
    <2>2. CASE r \in Range(w.requests) /\ s \in Range(w.requests)
      BY <1>3, <1>16, <2>2 DEF WalkInv
    <2>3. \A x \in Range(w.requests) : IsDelete(x) => x.id \notin w.current
      BY <1>13, <1>14
    <2> QED
      BY <1>10, <1>12, <1>16, <2>1, <2>2, <2>3
  <1>17. ASSUME NEW r \in Range(p.requests), IsDelete(r), ~HasCreate(p, r.id),
                NEW d \in Range(desired.requests), IsCreate(d)
         PROVE  d.id # r.id
    <2>1. r \in Range(orphans)
      <3>1. SUFFICES ASSUME r \in Range(w.requests) PROVE FALSE
        BY <1>10
      <3>2. PICK c \in Range(w.requests) : c \in R /\ c.id = r.id
        BY <1>13, <1>14, <1>17, <3>1
      <3> QED
        BY <1>10, <1>13, <1>17, <3>2 DEF HasCreate
    <2>2. d \in R
      BY <1>1, <1>17
    <2>3. PICK i \in 1..Len(q) : d = q[i]
      BY <1>1, <2>2, SeqRange DEF R
    <2>4. d.id \notin w.current
      BY <1>3, <2>3 DEF WalkInv
    <2> QED
      BY <1>12, <2>1, <2>4
  <1>18. ASSUME ~HasChanges(p), NEW d \in Range(desired.requests), IsCreate(d)
         PROVE  d.id \in DOMAIN rolls /\ rolls[d.id].body = d.body
    <2>1. \A x \in Range(w.actions) : x.type = "noop"
      BY <1>9, <1>18 DEF HasChanges, Range
    <2>2. d \in R
      BY <1>1, <1>18
    <2>3. PICK i \in 1..Len(q) : d = q[i]
      BY <1>1, <2>2, SeqRange DEF R
    <2> QED
      BY <1>3, <2>1, <2>3 DEF WalkInv
  <1>19. p.links = desired.links /\ p.conditions = desired.conditions
    BY <1>2
  <1> QED
    BY <1>11, <1>15, <1>16, <1>17, <1>18, <1>19 DEF Plans

(***************************************************************************)
(* Conversion.                                                             *)
(***************************************************************************)

\* A function on the places of a sequence is a sequence.
LEMMA SeqLike ==
  ASSUME NEW R, NEW p \in Seq(R), NEW q, q = [i \in DOMAIN p |-> q[i]],
         NEW S, \A i \in DOMAIN p : q[i] \in S
  PROVE  q \in Seq(S) /\ DOMAIN q = DOMAIN p
  <1>1. Len(p) \in Nat /\ DOMAIN p = 1..Len(p)
    BY SeqRange
  <1>2. DOMAIN q = DOMAIN p
    OBVIOUS
  <1>3. q \in [1..Len(p) -> S]
    BY <1>1
  <1>4. q \in Seq(S)
    BY <1>1, <1>3, SeqDef
  <1> QED
    BY <1>2, <1>4

\* A set of names is finite.
LEMMA NamesAreFinite == ASSUME NEW S, S \subseteq 1..99 PROVE IsFiniteSet(S)
  <1> DEFINE N == 99
  <1>1. N \in Int /\ 1 \in Int
    OBVIOUS
  <1>2. S \subseteq 1..N
    OBVIOUS
  <1> HIDE DEF N
  <1>3. IsFiniteSet(1..N)
    BY <1>1, FS_Interval
  <1> QED
    BY <1>2, <1>3, FS_Subset

\* The numbers below a bound that a set holds can be sorted.
LEMMA SortedNames ==
  ASSUME NEW S, S \subseteq 1..99
  PROVE  /\ Sorted(S) \in Seq(S) /\ Range(Sorted(S)) = S
         /\ S = {Sorted(S)[i] : i \in DOMAIN Sorted(S)}
  <1>1. S \subseteq Int
    OBVIOUS
  <1>2. IsFiniteSet(S)
    BY NamesAreFinite
  <1>3. Sorted(S) \in Seq(S) /\ Range(Sorted(S)) = S
    BY <1>1, <1>2, SortedLists
  <1> QED
    BY <1>3 DEF Range

ServiceManifest(comp, n) ==
  Manifest("Service", NamedId(comp.project, n), BuildContainerSpec(comp, n))

VolumeManifest(comp, v) ==
  Manifest("Volume", NamedId(comp.project, v), [project |-> comp.project, volume |-> v])

NetworkManifest(comp) ==
  Manifest("Network", ProjectId(comp.project), [network |-> comp.project])

ImageManifest(img) == Manifest("Image", ResolvedImageRef(img), [image |-> img])

\* The manifests of a composition, without their order.
IsManifest(comp, m) ==
  \/ m = ProjectManifest(comp)
  \/ m = NetworkManifest(comp)
  \/ \E n \in ServiceNames(comp) : m = ImageManifest(comp.services[n].image)
  \/ \E v \in comp.volumes : m = VolumeManifest(comp, v)
  \/ \E n \in ServiceNames(comp) : m = ServiceManifest(comp, n)

LEMMA ManifestsAre ==
  ASSUME NEW comp, WellFormed(comp)
  PROVE  /\ Manifests(comp) \in Seq(Range(Manifests(comp)))
         /\ \A m \in Range(Manifests(comp)) : IsManifest(comp, m)
         /\ ProjectManifest(comp) \in Range(Manifests(comp))
         /\ \A n \in ServiceNames(comp) :
              /\ ImageManifest(comp.services[n].image) \in Range(Manifests(comp))
              /\ ServiceManifest(comp, n) \in Range(Manifests(comp))
         /\ \A v \in comp.volumes : VolumeManifest(comp, v) \in Range(Manifests(comp))
  <1> DEFINE imgs == {comp.services[n].image : n \in ServiceNames(comp)}
             a == <<ProjectManifest(comp)>>
             b == ConvertNetwork(comp)
             c == ConvertImages(comp)
             d == ConvertVolumes(comp)
             e == ConvertServices(comp)
             S == Range(a) \cup Range(b) \cup Range(c) \cup Range(d) \cup Range(e)
  <1>1. ServiceNames(comp) \subseteq 1..99 /\ comp.volumes \subseteq 1..99
    BY DEF WellFormed
  <1>2. IsFiniteSet(imgs) /\ imgs \subseteq Int
    <2>2. IsFiniteSet(ServiceNames(comp))
      BY <1>1, NamesAreFinite
    <2> DEFINE f == [n \in ServiceNames(comp) |-> comp.services[n].image]
    <2>3. f \in Surjection(ServiceNames(comp), imgs)
      BY DEF Surjection
    <2> HIDE DEF f, imgs
    <2>4. IsFiniteSet(imgs)
      BY <2>2, <2>3, FS_Surjection
    <2> QED
      BY <2>4 DEF imgs, WellFormed
  <1>3. a \in Seq(Range(a)) /\ Range(a) = {ProjectManifest(comp)}
    <2>1. a \in Seq({ProjectManifest(comp)}) /\ DOMAIN a = 1..1 /\ a[1] = ProjectManifest(comp)
      OBVIOUS
    <2> HIDE DEF a
    <2>2. \A i \in 1..1 : i = 1
      OBVIOUS
    <2>3. Range(a) = {ProjectManifest(comp)}
      BY <2>1, <2>2 DEF Range
    <2> QED
      BY <2>1, <2>3
  <1>4. b \in Seq(Range(b)) /\ Range(b) \subseteq {NetworkManifest(comp)}
    <2>1. b = <<NetworkManifest(comp)>> \/ b = <<>>
      BY DEF ConvertNetwork, NetworkManifest
    <2> DEFINE m == NetworkManifest(comp)
    <2> HIDE DEF m
    <2>0. <<m>> \in Seq({m}) /\ <<>> \in Seq({m})
      OBVIOUS
    <2>2. b \in Seq({NetworkManifest(comp)})
      BY <2>0, <2>1, Zenon DEF m
    <2> HIDE DEF b
    <2> QED
      BY <2>2, SeqRange
  <1>5. c \in Seq(Range(c)) /\ Range(c) = {ImageManifest(img) : img \in imgs}
    <2> DEFINE q == Sorted(imgs)
    <2>1. q \in Seq(imgs) /\ Range(q) = imgs
      BY <1>2, SortedLists
    <2>2. c = [i \in DOMAIN q |-> ImageManifest(q[i])]
      BY DEF ConvertImages, ImageManifest
    <2> HIDE DEF c, q, imgs
    <2>3. Range(c) = {ImageManifest(q[i]) : i \in DOMAIN q}
      BY <2>2, Zenon DEF Range
    <2>4. Range(c) = {ImageManifest(img) : img \in imgs}
      BY <2>1, <2>3 DEF Range
    <2>5. c = [i \in DOMAIN q |-> c[i]] /\ \A i \in DOMAIN q : c[i] \in Range(c)
      BY <2>2, <2>3
    <2>6. c \in Seq(Range(c))
      BY <2>1, <2>5, SeqLike
    <2> QED
      BY <2>4, <2>6
  <1>6. d \in Seq(Range(d)) /\ Range(d) = {VolumeManifest(comp, v) : v \in comp.volumes}
    <2> DEFINE q == Sorted(comp.volumes)
    <2>1. q \in Seq(comp.volumes) /\ Range(q) = comp.volumes
      BY <1>1, SortedNames
    <2>2. d = [i \in DOMAIN q |-> VolumeManifest(comp, q[i])]
      BY DEF ConvertVolumes, VolumeManifest
    <2> HIDE DEF d, q
    <2>3. Range(d) = {VolumeManifest(comp, q[i]) : i \in DOMAIN q}
      BY <2>2, Zenon DEF Range
    <2>4. Range(d) = {VolumeManifest(comp, v) : v \in comp.volumes}
      BY <2>1, <2>3 DEF Range
    <2>5. d = [i \in DOMAIN q |-> d[i]] /\ \A i \in DOMAIN q : d[i] \in Range(d)
      BY <2>2, <2>3
    <2>6. d \in Seq(Range(d))
      BY <2>1, <2>5, SeqLike
    <2> QED
      BY <2>4, <2>6
  <1>7. e \in Seq(Range(e)) /\ Range(e) = {ServiceManifest(comp, n) : n \in ServiceNames(comp)}
    <2> DEFINE q == Sorted(ServiceNames(comp))
    <2>1. q \in Seq(ServiceNames(comp)) /\ Range(q) = ServiceNames(comp)
      BY <1>1, SortedNames
    <2>2. e = [i \in DOMAIN q |-> ServiceManifest(comp, q[i])]
      BY DEF ConvertServices, ServiceManifest
    <2> HIDE DEF e, q
    <2>3. Range(e) = {ServiceManifest(comp, q[i]) : i \in DOMAIN q}
      BY <2>2, Zenon DEF Range
    <2>4. Range(e) = {ServiceManifest(comp, n) : n \in ServiceNames(comp)}
      BY <2>1, <2>3 DEF Range
    <2>5. e = [i \in DOMAIN q |-> e[i]] /\ \A i \in DOMAIN q : e[i] \in Range(e)
      BY <2>2, <2>3
    <2>6. e \in Seq(Range(e))
      BY <2>1, <2>5, SeqLike
    <2> QED
      BY <2>4, <2>6
  <1>8. Manifests(comp) = a \o b \o c \o d \o e
    BY DEF Manifests
  <1> HIDE DEF a, b, c, d, e
  <1>9. a \in Seq(S) /\ b \in Seq(S) /\ c \in Seq(S) /\ d \in Seq(S) /\ e \in Seq(S)
    BY <1>3, <1>4, <1>5, <1>6, <1>7
  <1>10. Manifests(comp) \in Seq(S) /\ Range(Manifests(comp)) = S
    <2> DEFINE T == S
    <2> HIDE DEF T
    <2>0. a \in Seq(T) /\ b \in Seq(T) /\ c \in Seq(T) /\ d \in Seq(T) /\ e \in Seq(T)
      BY <1>9 DEF T
    <2> DEFINE ab == a \o b
               abc == ab \o c
               abcd == abc \o d
    <2>1. ab \in Seq(T) /\ Range(ab) = Range(a) \cup Range(b)
      BY <2>0, ConcatRange
    <2> HIDE DEF ab
    <2>2. abc \in Seq(T) /\ Range(abc) = Range(ab) \cup Range(c)
      BY <2>0, <2>1, ConcatRange
    <2> HIDE DEF abc
    <2>3. abcd \in Seq(T) /\ Range(abcd) = Range(abc) \cup Range(d)
      BY <2>0, <2>2, ConcatRange
    <2> HIDE DEF abcd
    <2>4. abcd \o e \in Seq(T) /\ Range(abcd \o e) = Range(abcd) \cup Range(e)
      BY <2>0, <2>3, ConcatRange
    <2>5. Manifests(comp) = abcd \o e
      BY <1>8 DEF ab, abc, abcd
    <2>6. Range(abcd \o e) = S
      BY <2>1, <2>2, <2>3, <2>4
    <2> QED
      BY <2>4, <2>5, <2>6 DEF T
  <1>11. \A m \in S : IsManifest(comp, m)
    BY <1>3, <1>4, <1>5, <1>6, <1>7 DEF IsManifest
  <1>12. \A n \in ServiceNames(comp) : comp.services[n].image \in imgs
    OBVIOUS
  <1> HIDE DEF imgs
  <1> QED
    BY <1>3, <1>5, <1>6, <1>7, <1>10, <1>11, <1>12

\* What the edges of a service may lead to.
Targets(comp, n) ==
  {ProjectId(comp.project), ResolvedImageRef(comp.services[n].image)}
    \cup {NamedId(comp.project, v) : v \in comp.volumes}
    \cup {NamedId(comp.project, d) : d \in ServiceNames(comp)}

LEMMA EdgesAre ==
  ASSUME NEW comp, WellFormed(comp), NEW n \in ServiceNames(comp)
  PROVE  /\ BuildServiceEdges(comp, n) \in Seq(Range(BuildServiceEdges(comp, n)))
         /\ \A x \in Range(BuildServiceEdges(comp, n)) :
              x.from = NamedId(comp.project, n) /\ x.to \in Targets(comp, n)
  <1> DEFINE svc == comp.services[n]
             from == NamedId(comp.project, n)
             vols == Sorted(svc.vols \cap comp.volumes)
             deps == Sorted(DOMAIN svc.deps)
             T == Targets(comp, n)
             E == [from : {from}, to : T, cond : {"", "started", "healthy", "completed"}]
             a == <<Edge(from, ProjectId(comp.project), ""),
                    Edge(from, ResolvedImageRef(svc.image), "")>>
             b == IF svc.host THEN <<>> ELSE <<Edge(from, ProjectId(comp.project), "")>>
             c == [i \in DOMAIN vols |-> Edge(from, NamedId(comp.project, vols[i]), "")]
             d == [i \in DOMAIN deps |-> Edge(from, NamedId(comp.project, deps[i]),
                                              MapCondition(svc.deps[deps[i]]))]
  <1>1. BuildServiceEdges(comp, n) = a \o b \o c \o d
    BY DEF BuildServiceEdges
  <1>2. \A t \in T : \A k \in {"", "started", "healthy", "completed"} : Edge(from, t, k) \in E
    BY DEF Edge
  <1>3. ProjectId(comp.project) \in T /\ ResolvedImageRef(svc.image) \in T
    BY DEF Targets
  <1>4. \A x : MapCondition(x) \in {"", "started", "healthy", "completed"}
    BY DEF MapCondition
  <1>5. vols \in Seq(svc.vols \cap comp.volumes)
    BY SortedNames DEF WellFormed
  <1>6. deps \in Seq(DOMAIN svc.deps) /\ DOMAIN svc.deps \subseteq ServiceNames(comp)
    BY SortedNames DEF WellFormed
  <1>7. \A x \in E : x.from = from /\ x.to \in T
    OBVIOUS
  <1> HIDE DEF E, svc, from, vols, deps
  <1>8. a \in Seq(E)
    <2> DEFINE x == Edge(from, ProjectId(comp.project), "")
               y == Edge(from, ResolvedImageRef(svc.image), "")
    <2>1. x \in E /\ y \in E
      BY <1>2, <1>3
    <2> HIDE DEF x, y
    <2>2. <<x, y>> \in Seq(E)
      BY <2>1
    <2>3. a = <<x, y>>
      BY DEF x, y
    <2> QED
      BY <2>2, <2>3, Zenon
  <1>9. b \in Seq(E)
    <2> DEFINE x == Edge(from, ProjectId(comp.project), "")
    <2>1. x \in E
      BY <1>2, <1>3
    <2> HIDE DEF x
    <2>2. <<x>> \in Seq(E) /\ <<>> \in Seq(E)
      BY <2>1
    <2>3. b = <<>> \/ b = <<x>>
      BY DEF x
    <2> QED
      BY <2>2, <2>3, Zenon
  <1>10. c \in Seq(E)
    <2>1. \A i \in DOMAIN vols : vols[i] \in comp.volumes
      BY <1>5, SeqRange, ElementOfSeq
    <2>2. \A i \in DOMAIN vols : NamedId(comp.project, vols[i]) \in T
      BY <2>1 DEF Targets
    <2>3. c = [i \in DOMAIN vols |-> c[i]] /\ \A i \in DOMAIN vols : c[i] \in E
      BY <1>2, <2>2
    <2> HIDE DEF c
    <2> QED
      BY <1>5, <2>3, SeqLike
  <1>11. d \in Seq(E)
    <2>1. \A i \in DOMAIN deps : deps[i] \in ServiceNames(comp)
      BY <1>6, SeqRange, ElementOfSeq
    <2>2. \A i \in DOMAIN deps : NamedId(comp.project, deps[i]) \in T
      BY <2>1 DEF Targets
    <2>3. d = [i \in DOMAIN deps |-> d[i]] /\ \A i \in DOMAIN deps : d[i] \in E
      BY <1>2, <1>4, <2>2
    <2> HIDE DEF d
    <2> QED
      BY <1>6, <2>3, SeqLike
  <1> HIDE DEF a, b, c, d
  <1>12. a \o b \o c \o d \in Seq(E)
    BY <1>8, <1>9, <1>10, <1>11, ConcatProperties
  <1> HIDE DEF T
  <1>13. /\ BuildServiceEdges(comp, n) \in Seq(Range(BuildServiceEdges(comp, n)))
         /\ Range(BuildServiceEdges(comp, n)) \subseteq E
    <2> DEFINE t == a \o b \o c \o d
    <2>1. t \in Seq(E) /\ BuildServiceEdges(comp, n) = t
      BY <1>1, <1>12
    <2> HIDE DEF t
    <2>2. t \in Seq(Range(t)) /\ Range(t) \subseteq E
      BY <2>1, SeqRange
    <2> QED
      BY <2>1, <2>2
  <1> QED
    BY <1>7, <1>13 DEF from, T

\* The links of one manifest.
LEMMA LinksOfAre ==
  ASSUME NEW comp, WellFormed(comp), NEW m
  PROVE  /\ LinksOf(comp, m) \in Seq(Range(LinksOf(comp, m)))
         /\ \A l \in Range(LinksOf(comp, m)) : \E n \in ServiceNames(comp) :
              l = <<l[1], l[2]>> /\ l[1] = NamedId(comp.project, n) /\ l[2] \in Targets(comp, n)
         /\ \A n \in ServiceNames(comp) : m = ServiceManifest(comp, n) =>
              \A x \in Range(BuildServiceEdges(comp, n)) : <<x.from, x.to>> \in Range(LinksOf(comp, m))
  <1> DEFINE k == m.id % 100
             edges == BuildServiceEdges(comp, k)
             q == [i \in DOMAIN edges |-> <<edges[i].from, edges[i].to>>]
  <1>1. LinksOf(comp, m) = IF m.key \in {"Service", "Volume"} /\ k \in ServiceNames(comp)
                           THEN q ELSE <<>>
    BY DEF LinksOf
  <1>2. ASSUME NEW n \in ServiceNames(comp), m = ServiceManifest(comp, n)
        PROVE  m.key = "Service" /\ k = n
    <2>1. n \in 1..99 /\ comp.project \in Nat /\ m.id = 100 * comp.project + n /\ m.key = "Service"
      BY <1>2 DEF WellFormed, ServiceManifest, Manifest, NamedId
    <2> QED
      BY <2>1
  <1>3. CASE m.key \in {"Service", "Volume"} /\ k \in ServiceNames(comp)
    <2>1. /\ edges \in Seq(Range(edges))
          /\ \A x \in Range(edges) : x.from = NamedId(comp.project, k) /\ x.to \in Targets(comp, k)
      BY <1>3, EdgesAre
    <2>2. LinksOf(comp, m) = q
      BY <1>1, <1>3
    <2> HIDE DEF edges, k
    <2>3. Range(q) = {<<edges[i].from, edges[i].to>> : i \in DOMAIN edges}
      BY DEF Range
    <2>4. Range(q) = {<<x.from, x.to>> : x \in Range(edges)}
      BY <2>3 DEF Range
    <2>5. q = [i \in DOMAIN edges |-> q[i]] /\ \A i \in DOMAIN edges : q[i] \in Range(q)
      BY <2>3
    <2> HIDE DEF q
    <2>6. q \in Seq(Range(q))
      BY <2>1, <2>5, SeqLike
    <2>7. \A l \in Range(q) : /\ l = <<l[1], l[2]>> /\ l[1] = NamedId(comp.project, k)
                              /\ l[2] \in Targets(comp, k)
      BY <2>1, <2>4
    <2>8. ASSUME NEW n \in ServiceNames(comp), m = ServiceManifest(comp, n),
                 NEW x \in Range(BuildServiceEdges(comp, n))
          PROVE  <<x.from, x.to>> \in Range(q)
      <3>1. x \in Range(edges)
        BY <1>2, <2>8 DEF edges
      <3> QED
        BY <2>4, <3>1
    <2> QED
      BY <1>3, <2>2, <2>6, <2>7, <2>8
  <1>4. CASE ~(m.key \in {"Service", "Volume"} /\ k \in ServiceNames(comp))
    <2>1. LinksOf(comp, m) = <<>>
      BY <1>1, <1>4
    <2>2. Range(<<>>) = {} /\ <<>> \in Seq({})
      BY DEF Range
    <2> QED
      BY <1>2, <1>4, <2>1, <2>2
  <1> QED
    BY <1>3, <1>4

\* The links of all manifests, one after the other.
LEMMA BridgeLinks ==
  ASSUME NEW comp, WellFormed(comp)
  PROVE  LET ms == Manifests(comp)
             links == Bridge(comp).links
         IN  /\ links \in Seq(Range(links))
             /\ Range(links) = UNION {Range(LinksOf(comp, m)) : m \in Range(ms)}
  <1> DEFINE ms == Manifests(comp)
             N == Len(ms)
             V == Seq(UNION {Range(LinksOf(comp, m)) : m \in Range(ms)})
             next(k, v) == v \o LinksOf(comp, ms[k])
             step == [x \in (1..N) \X V |-> next(x[1], x[2])]
             Eq(f) == f = [k \in 0..N |-> IF k = 0 THEN <<>> ELSE f[k - 1] \o LinksOf(comp, ms[k])]
  <1>1. /\ N \in Nat /\ DOMAIN ms = 1..N /\ Range(ms) = {ms[i] : i \in 1..N}
        /\ \A i \in 1..N : ms[i] \in Range(ms)
    <2>1. ms \in Seq(Range(ms))
      BY ManifestsAre
    <2> HIDE DEF ms
    <2>2. N \in Nat /\ DOMAIN ms = 1..N /\ Range(ms) = {ms[i] : i \in 1..N}
      BY <2>1, SeqRange
    <2> QED
      BY <2>2
  <1> HIDE DEF ms
  <1>2. \A i \in 1..N : LinksOf(comp, ms[i]) \in V
    <2> SUFFICES ASSUME NEW i \in 1..N PROVE LinksOf(comp, ms[i]) \in V
      OBVIOUS
    <2>1. LinksOf(comp, ms[i]) \in Seq(Range(LinksOf(comp, ms[i])))
      BY LinksOfAre
    <2>2. Range(LinksOf(comp, ms[i])) \subseteq UNION {Range(LinksOf(comp, m)) : m \in Range(ms)}
      BY <1>1
    <2> QED
      BY <2>1, <2>2
  <1>3. \A k \in 1..N : \A v \in V : next(k, v) \in V /\ step[<<k, v>>] = next(k, v)
    <2> SUFFICES ASSUME NEW k \in 1..N, NEW v \in V
                 PROVE  next(k, v) \in V /\ step[<<k, v>>] = next(k, v)
      OBVIOUS
    <2>1. LinksOf(comp, ms[k]) \in V
      BY <1>2
    <2>2. next(k, v) \in V
      BY <2>1, ConcatProperties
    <2> QED
      BY <2>2
  <1>4. N \in Nat /\ <<>> \in V
    BY <1>1
  <1>5. StepsWithin(N, V, step)
    BY <1>3 DEF StepsWithin
  <1> HIDE DEF step
  <1>6. PICK g : Recurses(N, V, <<>>, step, g)
    <2> HIDE DEF V, N
    <2> QED
      BY <1>4, <1>5, NumberRecursion
  <1> USE DEF Recurses
  <1>7. Eq(g)
    <2>0. \A k \in 1..N : k - 1 \in 0..N
      <3> HIDE DEF N
      <3> QED
        BY <1>1
    <2>1. \A k \in 1..N : k - 1 \in 0..N /\ g[k - 1] \in V
      BY <2>0, <1>6
    <2>2. \A k \in 1..N : g[k] = next(k, g[k - 1])
      BY <2>1, <1>3, <1>6
    <2>3. \A k \in 0..N : k = 0 \/ k \in 1..N
      BY <1>1
    <2> QED
      BY <2>2, <2>3, <1>6
  <1> DEFINE f == CHOOSE h : Eq(h)
  <1>8. Eq(f)
    <2> HIDE DEF Eq
    <2> QED
      BY <1>7
  <1>9. Bridge(comp).links = f[N]
    BY DEF Bridge, ms
  <1> HIDE DEF f
  <1>10. f[0] = <<>> /\ \A k \in 1..N : f[k] = next(k, f[k - 1])
    <2> HIDE DEF N
    <2>1. 0 \in 0..N /\ \A k \in 1..N : k \in 0..N /\ k # 0
      BY <1>1
    <2> QED
      BY <2>1, <1>8
  <1> HIDE DEF Eq
  <1> DEFINE Good(n) == f[n] \in V /\ Range(f[n]) = UNION {Range(LinksOf(comp, ms[i])) : i \in 1..n}
             Bad == {n \in 0..N : ~Good(n)}
  <1>11. ASSUME N \in Bad PROVE FALSE
    <2>1. Bad \subseteq Nat /\ Bad # {}
      <3>1. Bad \subseteq Nat
        BY <1>1
      <3> HIDE DEF Bad
      <3> QED
        BY <1>11, <3>1
    <2>2. PICK n \in Bad : n \in Nat /\ \A m \in Nat : m < n => m \notin Bad
      <3> HIDE DEF Bad
      <3> QED
        BY <2>1, LeastNumber
    <2>3. n # 0
      <3>1. Range(<<>>) = {} /\ 1..0 = {}
        BY DEF Range
      <3>2. Good(0)
        BY <1>4, <1>10, <3>1
      <3> QED
        BY <3>2, <2>2
    <2>4. n - 1 \in Nat /\ n - 1 < n /\ n - 1 \in 0..N /\ n \in 1..N /\ 1..n = (1..(n - 1)) \cup {n}
      BY <1>1, <2>2, <2>3
    <2>5. Good(n - 1)
      BY <2>2, <2>4
    <2>6. f[n] = next(n, f[n - 1])
      BY <1>10, <2>4
    <2> DEFINE v == f[n - 1]
               w == LinksOf(comp, ms[n])
    <2>7. v \in V /\ w \in V
      BY <1>2, <2>4, <2>5
    <2> HIDE DEF v, w
    <2>8. v \o w \in V /\ Range(v \o w) = Range(v) \cup Range(w)
      BY <2>7, ConcatRange
    <2>9. UNION {Range(LinksOf(comp, ms[i])) : i \in 1..n}
            = (UNION {Range(LinksOf(comp, ms[i])) : i \in 1..(n - 1)}) \cup Range(w)
      BY <2>4 DEF w
    <2>10. Good(n)
      BY <2>5, <2>6, <2>8, <2>9 DEF v, w
    <2> QED
      BY <2>2, <2>10
  <1>12. Good(N)
    <2> HIDE DEF Good
    <2> QED
      BY <1>1, <1>11
  <1>13. UNION {Range(LinksOf(comp, ms[i])) : i \in 1..N} = UNION {Range(LinksOf(comp, m)) : m \in Range(ms)}
    BY <1>1
  <1> DEFINE links == Bridge(comp).links
  <1>14. links \in V /\ Range(links) = UNION {Range(LinksOf(comp, m)) : m \in Range(ms)}
    BY <1>9, <1>12, <1>13
  <1> HIDE DEF links
  <1>15. links \in Seq(Range(links))
    BY <1>14, SeqRange
  <1> QED
    BY <1>14, <1>15 DEF links, ms

(***************************************************************************)
(* What Bridge makes of a composition: a create request for each manifest, *)
(* links between the ids of these, at least one for each condition, and no *)
(* two services under one id.                                              *)
(***************************************************************************)
Bridged(comp, b) ==
  /\ b.requests \in Seq(Range(b.requests))
  /\ Range(b.requests) = {CreateRequest(m) : m \in Range(Manifests(comp))}
  /\ b.links \in Seq(Range(b.links))
  /\ \A l \in Range(b.links) : l = <<l[1], l[2]>> /\ {l[1], l[2]} \subseteq IdsOf(b.requests)
  /\ \A k \in b.conditions : <<k[2], k[1]>> \in Range(b.links)
  /\ \A r, s \in Range(b.requests) : r.key = "Service" /\ s.key = "Service" /\ r.id = s.id => r = s

THEOREM BridgeIsClosed ==
  ASSUME NEW comp, WellFormed(comp)
  PROVE  Bridged(comp, Bridge(comp))
  <1> DEFINE ms == Manifests(comp)
             b == Bridge(comp)
             q == [i \in DOMAIN ms |-> CreateRequest(ms[i])]
  <1>1. /\ ms \in Seq(Range(ms))
        /\ \A m \in Range(ms) : IsManifest(comp, m)
        /\ ProjectManifest(comp) \in Range(ms)
        /\ \A n \in ServiceNames(comp) : /\ ImageManifest(comp.services[n].image) \in Range(ms)
                                         /\ ServiceManifest(comp, n) \in Range(ms)
        /\ \A v \in comp.volumes : VolumeManifest(comp, v) \in Range(ms)
    BY ManifestsAre
  <1>2. b.requests = q /\ b.conditions = ConditionMap(comp)
    BY DEF Bridge
  <1>3. /\ b.links \in Seq(Range(b.links))
        /\ Range(b.links) = UNION {Range(LinksOf(comp, m)) : m \in Range(ms)}
    BY BridgeLinks
  <1> HIDE DEF b, ms
  <1>4. q \in Seq(Range(q)) /\ Range(q) = {CreateRequest(m) : m \in Range(ms)}
    <2>1. Range(q) = {CreateRequest(ms[i]) : i \in DOMAIN ms}
      BY DEF Range
    <2>2. q = [i \in DOMAIN ms |-> q[i]] /\ \A i \in DOMAIN ms : q[i] \in Range(q)
      BY <2>1
    <2> HIDE DEF q
    <2>3. q \in Seq(Range(q))
      BY <1>1, <2>2, SeqLike
    <2> QED
      BY <2>1, <2>3 DEF Range
  <1> HIDE DEF q
  <1>5. IdsOf(b.requests) = {m.id : m \in Range(ms)}
    <2>1. IdsOf(q) = {r.id : r \in Range(q)}
      BY <1>4, IdsOfFinite
    <2>2. \A m : CreateRequest(m).id = m.id
      BY DEF CreateRequest
    <2>3. {r.id : r \in Range(q)} = {m.id : m \in Range(ms)}
      BY <1>4, <2>2
    <2> QED
      BY <1>2, <2>1, <2>3, Zenon
  <1>6. ASSUME NEW n \in ServiceNames(comp)
        PROVE  NamedId(comp.project, n) \in IdsOf(b.requests) /\ Targets(comp, n) \subseteq IdsOf(b.requests)
    <2>1. /\ ProjectManifest(comp).id = ProjectId(comp.project)
          /\ ImageManifest(comp.services[n].image).id = ResolvedImageRef(comp.services[n].image)
          /\ \A v : VolumeManifest(comp, v).id = NamedId(comp.project, v)
          /\ \A d : ServiceManifest(comp, d).id = NamedId(comp.project, d)
      BY DEF ProjectManifest, ImageManifest, VolumeManifest, ServiceManifest, Manifest
    <2>2. \A d \in ServiceNames(comp) : NamedId(comp.project, d) \in IdsOf(b.requests)
      BY <1>1, <1>5, <2>1
    <2>3. \A v \in comp.volumes : NamedId(comp.project, v) \in IdsOf(b.requests)
      BY <1>1, <1>5, <2>1
    <2>4. ProjectId(comp.project) \in IdsOf(b.requests)
          /\ ResolvedImageRef(comp.services[n].image) \in IdsOf(b.requests)
      BY <1>1, <1>5, <2>1
    <2> QED
      BY <2>2, <2>3, <2>4 DEF Targets
  <1>7. \A l \in Range(b.links) : l = <<l[1], l[2]>> /\ {l[1], l[2]} \subseteq IdsOf(b.requests)
    <2> SUFFICES ASSUME NEW l \in Range(b.links)
                 PROVE  l = <<l[1], l[2]>> /\ {l[1], l[2]} \subseteq IdsOf(b.requests)
      OBVIOUS
    <2>1. PICK m \in Range(ms) : l \in Range(LinksOf(comp, m))
      BY <1>3
    <2>2. PICK n \in ServiceNames(comp) :
             l = <<l[1], l[2]>> /\ l[1] = NamedId(comp.project, n) /\ l[2] \in Targets(comp, n)
      BY <2>1, LinksOfAre
    <2> QED
      BY <1>6, <2>2
  <1>8. ASSUME NEW k \in b.conditions PROVE <<k[2], k[1]>> \in Range(b.links)
    <2>0. PICK e \in AllEdges(comp) : k = <<e.to, e.from, e.cond>>
      BY <1>2, <1>8 DEF ConditionMap
    <2>1. PICK n \in ServiceNames(comp) : e \in Range(BuildServiceEdges(comp, n))
      BY DEF AllEdges
    <2>2. <<e.from, e.to>> \in Range(LinksOf(comp, ServiceManifest(comp, n)))
      BY <2>1, LinksOfAre
    <2>3. <<e.from, e.to>> \in Range(b.links)
      BY <1>1, <1>3, <2>1, <2>2
    <2> QED
      BY <2>0, <2>3
  <1>9. ASSUME NEW r \in Range(b.requests), NEW s \in Range(b.requests),
               r.key = "Service", s.key = "Service", r.id = s.id
        PROVE  r = s
    <2>1. PICK m \in Range(ms), m2 \in Range(ms) : r = CreateRequest(m) /\ s = CreateRequest(m2)
      BY <1>2, <1>4
    <2>2. m.key = "Service" /\ m2.key = "Service" /\ m.id = m2.id
      BY <1>9, <2>1 DEF CreateRequest
    <2>3. PICK n \in ServiceNames(comp), n2 \in ServiceNames(comp) :
             m = ServiceManifest(comp, n) /\ m2 = ServiceManifest(comp, n2)
      BY <1>1, <2>2 DEF IsManifest, ProjectManifest, NetworkManifest, ImageManifest, VolumeManifest,
                        Manifest
    <2>4. n = n2
      <3>1. n \in 1..99 /\ n2 \in 1..99 /\ comp.project \in Nat
        BY DEF WellFormed
      <3>2. 100 * comp.project + n = 100 * comp.project + n2
        BY <2>2, <2>3 DEF ServiceManifest, Manifest, NamedId
      <3> QED
        BY <3>1, <3>2
    <2> QED
      BY <2>1, <2>3, <2>4
  <1> QED
    BY <1>2, <1>3, <1>4, <1>7, <1>8, <1>9 DEF Bridged, b, ms

(***************************************************************************)
(* The store on its own, under any transactions.                           *)
(***************************************************************************)
DBInv == DBTypeOK /\ LinksMirror

\* The empty store satisfies the invariant.
LEMMA InitDBInv == DBInit => DBInv
  <1> SUFFICES ASSUME DBInit PROVE DBInv
    OBVIOUS
  <1>1. deployments \in Seq(Deployments)
    BY DEF DBInit
  <1> QED
    BY <1>1 DEF DBInit, DBInv, DBTypeOK, LinksMirror

\* Every transaction preserves the invariant.
LEMMA NextDBInv == DBInv /\ [DBNext]_dbVars => DBInv'
  <1> SUFFICES ASSUME DBInv, [DBNext]_dbVars PROVE DBInv'
    OBVIOUS
  <1>0. /\ rollouts \in [Ids -> RolloutRecords \cup {NoRollout}]
        /\ deployments \in Seq(Deployments)
        /\ bySource \in [Ids -> SUBSET Ids]
        /\ byTarget \in [Ids -> SUBSET Ids]
    BY DEF DBInv, DBTypeOK
  <1>1. ASSUME NEW i \in Ids, NEW r \in RolloutRecords, SaveRollout(i, r)
        PROVE  DBInv'
    <2>1. rollouts' \in [Ids -> RolloutRecords \cup {NoRollout}]
      BY <1>0, <1>1 DEF SaveRollout
    <2> QED
      BY <2>1, <1>1 DEF DBInv, DBTypeOK, LinksMirror, SaveRollout
  <1>2. ASSUME NEW d \in Deployments, SaveDeployment(d)
        PROVE  DBInv'
    <2>1. deployments' \in Seq(Deployments)
      BY <1>0, <1>2, AppendProperties DEF SaveDeployment
    <2> QED
      BY <2>1, <1>2 DEF DBInv, DBTypeOK, LinksMirror, SaveDeployment
  <1>3. ASSUME NEW s \in Ids, NEW t \in Ids, AddLink(s, t)
        PROVE  DBInv'
    <2>1. DBTypeOK'
      BY <1>0, <1>3 DEF DBTypeOK, AddLink
    <2>2. LinksMirror'
      BY <1>0, <1>3 DEF DBInv, LinksMirror, AddLink
    <2> QED
      BY <2>1, <2>2 DEF DBInv
  <1>4. ASSUME NEW r \in Ids, RemoveLink(r)
        PROVE  DBInv'
    <2>1. DBTypeOK'
      BY <1>0, <1>4 DEF DBTypeOK, RemoveLink
    <2>2. LinksMirror'
      BY <1>0, <1>4 DEF DBInv, LinksMirror, RemoveLink
    <2> QED
      BY <2>1, <2>2 DEF DBInv
  <1>5. CASE UNCHANGED dbVars
    BY <1>5 DEF dbVars, DBInv, DBTypeOK, LinksMirror
  <1> QED
    BY <1>1, <1>2, <1>3, <1>4, <1>5 DEF DBNext

(***************************************************************************)
(* The two link buckets always mirror each other.                          *)
(***************************************************************************)
THEOREM Mirror == DBSpec => []LinksMirror
  <1>1. DBInv => LinksMirror
    BY DEF DBInv
  <1> QED
    BY <1>1, InitDBInv, NextDBInv, PTL DEF DBSpec

(***************************************************************************)
(* Both reads of the store return what the abstract set of links holds.    *)
(***************************************************************************)
THEOREM Reads == DBSpec => []ReadsAgree
  <1>1. DBInv => ReadsAgree
    BY DEF DBInv, DBTypeOK, LinksMirror, ReadsAgree, GetDependencies, GetDepending,
       Abs!Dependencies, Abs!Depending, Links
  <1> QED
    BY <1>1, InitDBInv, NextDBInv, PTL DEF DBSpec

(***************************************************************************)
(* The store implements the abstract set of links: every transaction adds  *)
(* one link, removes one resource's outgoing links, or changes none.       *)
(***************************************************************************)
THEOREM Refinement == DBSpec => ImplementsLinkStore
  <1>1. DBInit => Abs!Init
    BY DEF DBInit, Abs!Init, Links
  <1>2. DBInv /\ [DBNext]_dbVars => [Abs!Next]_Links
    <2> SUFFICES ASSUME DBInv, [DBNext]_dbVars PROVE [Abs!Next]_Links
      OBVIOUS
    <2>0. bySource \in [Ids -> SUBSET Ids]
      BY DEF DBInv, DBTypeOK
    <2>1. ASSUME bySource' = bySource PROVE Links' = Links
      BY <2>1 DEF Links
    <2>2. ASSUME NEW s \in Ids, NEW t \in Ids, AddLink(s, t)
          PROVE  Abs!Add(s, t)
      <3>1. Links' = Links \cup {<<s, t>>}
        BY <2>0, <2>2 DEF AddLink, Links
      <3> QED
        BY <3>1 DEF Abs!Add
    <2>3. ASSUME NEW r \in Ids, RemoveLink(r)
          PROVE  Abs!RemoveFrom(r)
      <3>1. Links' = {l \in Links : l[1] # r}
        BY <2>0, <2>3 DEF RemoveLink, Links
      <3> QED
        BY <3>1 DEF Abs!RemoveFrom
    <2> QED
      BY <2>1, <2>2, <2>3 DEF DBNext, dbVars, SaveRollout, SaveDeployment, Abs!Next
  <1> QED
    BY <1>1, <1>2, InitDBInv, NextDBInv, PTL DEF DBSpec, ImplementsLinkStore, Abs!Spec
----------------------------------------------------------------------------
(***************************************************************************)
(* Links.                                                                  *)
(***************************************************************************)
BucketsAreFunctions ==
  /\ bySource = [i \in Ids |-> bySource[i]]
  /\ byTarget = [i \in Ids |-> byTarget[i]]

EngineLinksInv == BucketsAreFunctions /\ LinksMirror

\* AddLink keeps the buckets in step, even for ids outside Ids.
LEMMA AddLinkMirror ==
  ASSUME EngineLinksInv, NEW s, NEW t, AddLink(s, t)
  PROVE  EngineLinksInv'
BY DEF EngineLinksInv, BucketsAreFunctions, LinksMirror, AddLink

\* So does RemoveLink.
LEMMA RemoveLinkMirror ==
  ASSUME EngineLinksInv, NEW r, RemoveLink(r)
  PROVE  EngineLinksInv'
BY DEF EngineLinksInv, BucketsAreFunctions, LinksMirror, RemoveLink

\* A step that leaves both buckets alone keeps the invariant.
LEMMA SameLinks ==
  ASSUME EngineLinksInv, UNCHANGED <<bySource, byTarget>>
  PROVE  EngineLinksInv'
BY DEF EngineLinksInv, BucketsAreFunctions, LinksMirror

LinkStep ==
  \/ \E s, t : AddLink(s, t)
  \/ \E r : RemoveLink(r)
  \/ UNCHANGED <<bySource, byTarget>>

\* Every step of the engine adds one link, removes one resource's links, or
\* leaves both buckets alone.
LEMMA EngineStepLinks ==
  ASSUME [EngineNext]_vars
  PROVE  LinkStep
  <1>1. ASSUME NEW c \in Comps, Up(c) PROVE LinkStep
    BY <1>1 DEF LinkStep, Up, Begin, dbVars
  <1>2. ASSUME NEW k \in DOMAIN deployments, Rollback(k) PROVE LinkStep
    BY <1>2 DEF LinkStep, Rollback, Begin, dbVars
  <1>3. CASE PersistLink
    <2>1. AddLink(Head(todoLinks)[1], Head(todoLinks)[2])
      BY <1>3 DEF PersistLink
    <2> QED
      BY <2>1 DEF LinkStep
  <1>4. CASE Unlink
    <2>1. RemoveLinkOrWarn(Head(deletes).id)
      BY <1>4 DEF Unlink
    <2> QED
      BY <2>1 DEF RemoveLinkOrWarn, LinkStep, dbVars
  <1>5. CASE RollbackUnlink
    <2>1. RemoveLinkOrWarn(Last(applied).id)
      BY <1>5 DEF RollbackUnlink
    <2> QED
      BY <2>1 DEF RemoveLinkOrWarn, LinkStep, dbVars
  <1>6. CASE OrderRequests \/ DeleteNext \/ DeleteFails \/ PersistLinkFails
             \/ DeletesCancelled \/ DeletesDone
    BY <1>6 DEF LinkStep, OrderRequests, DeleteNext, DeleteFails, PersistLinkFails,
       DeletesCancelled,
       DeletesDone, dbVars
  <1>7. CASE CreateNext \/ CreateFails \/ CreatesCancelled \/ WaitMet \/ WaitFails
    BY <1>7 DEF LinkStep, CreateNext, CreateFails, CreatesCancelled, WaitMet, WaitFails,
       dbVars
  <1>8. CASE RecordSuccess
    BY <1>8 DEF LinkStep, RecordSuccess, SaveOrWarn, SaveRollout, dbVars
  <1>9. CASE RecordError
    BY <1>9 DEF LinkStep, RecordError, SaveOrWarn, SaveRollout, dbVars
  <1>10. CASE RollbackNext \/ RollbackFails \/ RollbackDone
    BY <1>10 DEF LinkStep, RollbackNext, RollbackFails, RollbackDone, dbVars
  <1>11. CASE Finish
    BY <1>11 DEF LinkStep, Finish, SaveDeployment, dbVars
  <1>12. CASE Cancel \/ Crash
    BY <1>12 DEF LinkStep, Cancel, Crash, dbVars
  <1>13. ASSUME NEW p \in Projects, Teardown(p) PROVE LinkStep
    BY <1>13 DEF LinkStep, Teardown, dbVars
  <1>14. ASSUME NEW i \in Ids, BecomeHealthy(i) \/ Exit(i, "done") \/ Exit(i, "failed")
         PROVE  LinkStep
    BY <1>14 DEF LinkStep, BecomeHealthy, Exit, dbVars
  <1>15. CASE UNCHANGED vars
    BY <1>15 DEF LinkStep, vars, dbVars
  <1> QED
    BY <1>1, <1>2, <1>3, <1>4, <1>5, <1>6, <1>7, <1>8, <1>9, <1>10, <1>11, <1>12,
       <1>13, <1>14, <1>15 DEF EngineNext, EngineStep

LEMMA InitLinks == EngineInit => EngineLinksInv
BY DEF EngineInit, DBInit, EngineLinksInv, BucketsAreFunctions, LinksMirror

LEMMA NextLinks == EngineLinksInv /\ [EngineNext]_vars => EngineLinksInv'
  <1> SUFFICES ASSUME EngineLinksInv, LinkStep PROVE EngineLinksInv'
    BY EngineStepLinks
  <1> QED
    BY AddLinkMirror, RemoveLinkMirror, SameLinks DEF LinkStep

(***************************************************************************)
(* Whatever the compositions, and wherever an apply is cancelled, fails or *)
(* is killed, the two link buckets hold the same links.                    *)
(***************************************************************************)
THEOREM EngineMirror == EngineSpec => []LinksMirror
  <1>1. EngineLinksInv => LinksMirror
    BY DEF EngineLinksInv
  <1> QED
    BY <1>1, InitLinks, NextLinks, PTL DEF EngineSpec

(***************************************************************************)
(* Under every behaviour of the engine the store is one set of links: each *)
(* step adds one link, removes the links of one resource or changes none,  *)
(* also where a link leads out of the known ids (dependencies.go:39-169).  *)
(***************************************************************************)
THEOREM EngineRefinement == EngineSpec => ImplementsLinkStore
  <1>1. EngineInit => Abs!Init
    BY DEF EngineInit, DBInit, Abs!Init, Links
  <1>2. EngineLinksInv /\ [EngineNext]_vars => [Abs!Next]_Links
    <2> SUFFICES ASSUME EngineLinksInv, LinkStep PROVE [Abs!Next]_Links
      BY EngineStepLinks
    <2>0. bySource = [i \in Ids |-> bySource[i]]
      BY DEF EngineLinksInv, BucketsAreFunctions
    <2>1. CASE UNCHANGED <<bySource, byTarget>>
      BY <2>1 DEF Links
    <2>2. ASSUME NEW s, NEW t, AddLink(s, t) PROVE [Abs!Next]_Links
      <3>1. bySource' = [bySource EXCEPT ![s] = @ \cup {t}]
        BY <2>2 DEF AddLink
      <3>2. CASE s \in Ids /\ t \in Ids
        <4>1. Links' = Links \cup {<<s, t>>}
          BY <2>0, <3>1, <3>2 DEF Links
        <4> QED
          BY <3>2, <4>1 DEF Abs!Add, Abs!Next
      <3>3. CASE ~(s \in Ids /\ t \in Ids)
        <4>1. Links' = Links
          BY <2>0, <3>1, <3>3 DEF Links
        <4> QED
          BY <4>1
      <3> QED
        BY <3>2, <3>3
    <2>3. ASSUME NEW r, RemoveLink(r) PROVE [Abs!Next]_Links
      <3>1. bySource' = [bySource EXCEPT ![r] = {}]
        BY <2>3 DEF RemoveLink
      <3>2. CASE r \in Ids
        <4>1. Links' = {l \in Links : l[1] # r}
          BY <2>0, <3>1, <3>2 DEF Links
        <4> QED
          BY <3>2, <4>1 DEF Abs!RemoveFrom, Abs!Next
      <3>3. CASE r \notin Ids
        <4>1. Links' = Links
          BY <2>0, <3>1, <3>3 DEF Links
        <4> QED
          BY <4>1
      <3> QED
        BY <3>2, <3>3
    <2> QED
      BY <2>1, <2>2, <2>3 DEF LinkStep
  <1> QED
    BY <1>1, <1>2, InitLinks, NextLinks, PTL DEF EngineSpec, ImplementsLinkStore, Abs!Spec

----------------------------------------------------------------------------
(***************************************************************************)
(* Rollback.                                                               *)
(***************************************************************************)

\* Removing the last element of a nonempty sequence.
LEMMA FrontLast ==
  ASSUME NEW S, NEW q \in Seq(S), q # <<>>
  PROVE  /\ Front(q) \in Seq(S)
         /\ Last(q) \in S
         /\ Range(q) = Range(Front(q)) \cup {Last(q)}
  <1>1. /\ Len(q) \in Nat \ {0}
        /\ \A i \in 1..Len(q) : q[i] \in S
        /\ DOMAIN q = 1..Len(q)
    BY EmptySeq, LenProperties
  <1>2. /\ Front(q) = SubSeq(q, 1, Len(q) - 1)
        /\ Last(q) = q[Len(q)]
    BY DEF Front, Last
  <1>3. /\ Front(q) \in Seq(S)
        /\ DOMAIN Front(q) = 1..(Len(q) - 1)
        /\ \A i \in 1..(Len(q) - 1) : Front(q)[i] = q[i]
    BY <1>1, <1>2
  <1>4. Range(q) = Range(Front(q)) \cup {Last(q)}
    <2>1. 1..Len(q) = (1..(Len(q) - 1)) \cup {Len(q)}
      BY <1>1
    <2>2. Range(q) = {q[i] : i \in 1..(Len(q) - 1)} \cup {q[Len(q)]}
      BY <1>1, <2>1, Zenon DEF Range
    <2>3. Range(Front(q)) = {q[i] : i \in 1..(Len(q) - 1)}
      BY <1>3, Zenon DEF Range
    <2> QED
      BY <1>2, <2>2, <2>3
  <1> QED
    BY <1>1, <1>2, <1>3, <1>4

\* The pods map and the set of other resources only lose entries.
Shrinks ==
  /\ Running' \subseteq Running
  /\ present' \subseteq present

\* What is gone stays gone when the runtime only loses entries.
LEMMA GoneStays ==
  ASSUME Shrinks, NEW r, Gone(r)
  PROVE  Gone(r)'
BY DEF Shrinks, Gone, IsLive

\* A successful delete only removes, and what it deletes is gone.
LEMMA DeleteRemoves ==
  ASSUME NEW r, RuntimeDelete(r)
  PROVE  Shrinks /\ Gone(r)'
  <1>1. ASSUME NEW T, pods' = DownIn(T)
        PROVE  Running' \subseteq Running /\ \A i \in T : \A b : <<i, b>> \notin Running'
    BY <1>1 DEF DownIn, Running
  <1>2. CASE r.key = "Service"
    BY <1>1, <1>2 DEF RuntimeDelete, Shrinks, Gone, IsLive
  <1>3. CASE r.key = "Project"
    BY <1>1, <1>3 DEF RuntimeDelete, Shrinks, Gone, IsLive
  <1>4. CASE r.key \notin {"Service", "Project"}
    <2>1. pods' = pods
      BY <1>4 DEF RuntimeDelete
    <2>2. Running' = Running
      BY <2>1 DEF Running
    <2> QED
      BY <1>4, <2>2 DEF RuntimeDelete, Shrinks, Gone, IsLive
  <1> QED
    BY <1>2, <1>3, <1>4

\* A step that leaves the control state alone, and under which the runtime only
\* loses entries, keeps the invariant.
LEMMA RollbackInvFrame ==
  ASSUME RollbackInv, Shrinks, UNCHANGED <<pc, applied, result, created>>,
         ~disturbed' => ~disturbed
  PROVE  RollbackInv'
  <1>1. \A r : Gone(r) => Gone(r)'
    BY GoneStays, Zenon
  <1> QED
    BY <1>1 DEF RollbackInv

\* The initial state satisfies it.
LEMMA RollbackInvInit == EngineInit => RollbackInv
BY DEF EngineInit, RollbackInv

\* Planning a request starts with empty lists.
LEMMA BeginRollbackInv ==
  ASSUME RollbackInv, NEW o, NEW p, NEW always \in BOOLEAN, Begin(o, p, always)
  PROVE  RollbackInv'
  <1> DEFINE go == (HasChanges(p) \/ always) /\ CheckReferences(p, State, byTarget)
  <1>1. /\ pc = "idle"
        /\ applied = <<>>
        /\ applied' = applied
        /\ created' = {}
        /\ pc' = IF go THEN "links" ELSE "idle"
    BY DEF Begin, RollbackInv
  <1>2. result' = CASE ~HasChanges(p) /\ ~always -> "nochange"
                    [] go -> "none"
                    [] OTHER -> "rejected"
    BY DEF Begin
  <1>3. go => result' = "none"
    BY <1>2
  <1>4. ~go => result' \in {"nochange", "rejected"}
    BY <1>2
  <1> HIDE DEF go
  <1> QED
    BY <1>1, <1>3, <1>4 DEF RollbackInv

\* A return other than from the rollback.
LEMMA ReturnRollbackInv ==
  ASSUME RollbackInv, NEW res, res # "failed", Return(res), created' = created
  PROVE  RollbackInv'
BY DEF RollbackInv, Return

\* Steps before the rollback that create nothing may do anything to the runtime.
LEMMA ForwardRollbackInv ==
  ASSUME RollbackInv,
         pc \notin {"idle", "rollback", "rollbackUnlink"},
         pc' \notin {"idle", "rollback", "rollbackUnlink"},
         UNCHANGED <<applied, result, created>>,
         disturbed' = disturbed \/ disturbed' = TRUE
  PROVE  RollbackInv'
BY DEF RollbackInv

\* The rollback starts with the complete list.
LEMMA EnterRollbackInv ==
  ASSUME RollbackInv,
         pc \notin {"idle", "rollback", "rollbackUnlink"},
         pc' = "rollback",
         UNCHANGED <<applied, result, created>>,
         disturbed' = disturbed \/ disturbed' = TRUE
  PROVE  RollbackInv'
BY DEF RollbackInv

\* A create that succeeds joins both the ghost set and the list.
LEMMA RecordSuccessRollbackInv ==
  ASSUME RollbackInv, RecordSuccess
  PROVE  RollbackInv'
  <1>1. PICK x : /\ applied' = Append(applied, x)
                 /\ created' = created \cup {x}
    BY Zenon DEF RecordSuccess
  <1>2. /\ pc = "record"
        /\ pc' \in {"wait", "creates"}
        /\ result' = result
        /\ disturbed' = disturbed \/ disturbed' = TRUE
    BY DEF RecordSuccess, SaveOrWarn
  <1>3. applied \in Seq(created)
    BY DEF RollbackInv
  <1>4. /\ applied' \in Seq(created')
        /\ Range(applied') = Range(applied) \cup {x}
    BY <1>1, <1>3, AppendRange
  <1> QED
    BY <1>1, <1>2, <1>4 DEF RollbackInv

\* Each round of the rollback removes the last of the list from the runtime ...
LEMMA RollbackNextRollbackInv ==
  ASSUME RollbackInv, RollbackNext
  PROVE  RollbackInv'
  <1>1. /\ applied \in Seq(created)
        /\ applied # <<>>
        /\ pc = "rollback"
        /\ pc' = "rollbackUnlink"
        /\ UNCHANGED <<applied, result, created, disturbed>>
    BY DEF RollbackInv, RollbackNext, ghostVars
  <1>2. Shrinks /\ Gone(Last(applied))'
    <2>1. RuntimeDelete(Last(applied))
      BY DEF RollbackNext
    <2>2. Shrinks /\ (\A r : r = Last(applied) => Gone(r)')
      BY <2>1, DeleteRemoves, Zenon
    <2> QED
      BY <1>1, <2>2 DEF Gone, IsLive
  <1>3. \A r : Gone(r) => Gone(r)'
    BY <1>2, GoneStays, Zenon
  <1>4. Range(applied) = Range(Front(applied)) \cup {Last(applied)}
    BY <1>1, FrontLast
  <1>5. ~disturbed => \A r \in created : r \in Range(Front(applied)) \/ Gone(r)'
    <2> SUFFICES ASSUME ~disturbed, NEW r \in created
                 PROVE  r \in Range(Front(applied)) \/ Gone(r)'
      OBVIOUS
    <2>1. r \in Range(applied) \/ Gone(r)
      BY <1>1 DEF RollbackInv
    <2>2. CASE Gone(r)
      BY <2>2, <1>3
    <2>3. CASE r = Last(applied)
      BY <2>3, <1>1, <1>2 DEF Gone, IsLive
    <2> QED
      BY <2>1, <2>2, <2>3, <1>4
  <1> QED
    BY <1>1, <1>5 DEF RollbackInv

\* ... and then from the list.
LEMMA RollbackUnlinkRollbackInv ==
  ASSUME RollbackInv, RollbackUnlink
  PROVE  RollbackInv'
  <1>1. /\ applied \in Seq(created)
        /\ applied # <<>>
        /\ pc = "rollbackUnlink"
        /\ pc' = "rollback"
        /\ applied' = Front(applied)
        /\ UNCHANGED <<result, created, disturbed, pods, present>>
    BY DEF RollbackInv, RollbackUnlink, ghostVars, rtVars
  <1>2. Front(applied) \in Seq(created)
    BY <1>1, FrontLast
  <1>3. Shrinks
    BY <1>1 DEF Shrinks, Running
  <1>4. \A r : Gone(r) => Gone(r)'
    BY <1>3, GoneStays, Zenon
  <1> QED
    BY <1>1, <1>2, <1>4 DEF RollbackInv

\* A delete that fails is passed over.
LEMMA RollbackFailsRollbackInv ==
  ASSUME RollbackInv, RollbackFails
  PROVE  RollbackInv'
  <1>1. /\ applied \in Seq(created)
        /\ applied # <<>>
        /\ pc = "rollback"
        /\ applied' = Front(applied)
        /\ disturbed'
        /\ UNCHANGED <<pc, result, created>>
    BY DEF RollbackInv, RollbackFails
  <1>2. Front(applied) \in Seq(created)
    BY <1>1, FrontLast
  <1> QED
    BY <1>1, <1>2 DEF RollbackInv

\* At the end the list is empty, so everything in the ghost set is gone.
LEMMA RollbackDoneRollbackInv ==
  ASSUME RollbackInv, RollbackDone
  PROVE  RollbackInv'
  <1>1. /\ pc = "rollback"
        /\ applied = <<>>
        /\ pc' = "idle"
        /\ applied' = <<>>
        /\ result' = "failed"
        /\ UNCHANGED <<created, disturbed, pods, present>>
    BY DEF RollbackDone, Return, ghostVars, rtVars
  <1>2. Range(applied) = {}
    BY <1>1 DEF Range
  <1>3. Shrinks
    BY <1>1 DEF Shrinks, Running
  <1>4. \A r : Gone(r) => Gone(r)'
    BY <1>3, GoneStays, Zenon
  <1> QED
    BY <1>1, <1>2, <1>4 DEF RollbackInv

\* Steps of the world around the engine only disturb, or change no body.
LEMMA WorldRollbackInv ==
  ASSUME RollbackInv, NEW i \in Ids,
         BecomeHealthy(i) \/ Exit(i, "done") \/ Exit(i, "failed")
  PROVE  RollbackInv'
  <1>1. PICK st \in {"healthy", "done", "failed"} :
          /\ pods[i] # NoPod
          /\ pods[i].st \in {"running", "healthy"}
          /\ pods' = [pods EXCEPT ![i].st = st]
    BY DEF BecomeHealthy, Exit
  <1>2. UNCHANGED <<pc, applied, result, created, present>>
    BY DEF BecomeHealthy, Exit, ctlVars, ghostVars
  <1>3. ~disturbed' => ~disturbed
    <2>1. CASE BecomeHealthy(i)
      BY <2>1 DEF BecomeHealthy, ghostVars
    <2>2. ASSUME NEW x, Exit(i, x) PROVE ~disturbed' => ~disturbed
      BY <2>2, Zenon DEF Exit
    <2> QED
      BY <2>1, <2>2
  <1>4. Running' \subseteq Running
    <2> SUFFICES ASSUME NEW j \in Ids, pods'[j] # NoPod, pods'[j].st # "partial"
                 PROVE  <<j, pods'[j].body>> \in Running
      BY DEF Running
    <2>1. pods[j] # NoPod /\ pods[j].st # "partial" /\ pods'[j].body = pods[j].body
      BY <1>1
    <2> QED
      BY <2>1 DEF Running
  <1>5. Shrinks
    BY <1>2, <1>4 DEF Shrinks
  <1> QED
    BY <1>2, <1>3, <1>5, RollbackInvFrame

\* Every step preserves the invariant.
LEMMA RollbackInvNext ==
  ASSUME RollbackInv, [EngineNext]_vars
  PROVE  RollbackInv'
  <1>1. ASSUME NEW c \in Comps, Up(c) PROVE RollbackInv'
    BY <1>1, BeginRollbackInv, Zenon DEF Up
  <1>2. ASSUME NEW k \in DOMAIN deployments, Rollback(k) PROVE RollbackInv'
    BY <1>2, BeginRollbackInv, Zenon DEF Rollback
  <1>3. CASE PersistLink \/ OrderRequests
    BY <1>3, ForwardRollbackInv DEF PersistLink, OrderRequests, ghostVars
  <1>4. CASE DeleteNext \/ DeleteFails \/ Unlink \/ DeletesDone
    BY <1>4, ForwardRollbackInv DEF DeleteNext, DeleteFails, Unlink, DeletesDone, ghostVars
  <1>5. CASE CreateNext \/ CreateFails \/ WaitMet
    BY <1>5, ForwardRollbackInv DEF CreateNext, CreateFails, WaitMet, ghostVars
  <1>6. CASE CreatesCancelled \/ WaitFails
    BY <1>6, EnterRollbackInv DEF CreatesCancelled, WaitFails, ghostVars
  <1>7. CASE RecordError
    BY <1>7, EnterRollbackInv DEF RecordError, SaveOrWarn
  <1>8. CASE RecordSuccess
    BY <1>8, RecordSuccessRollbackInv
  <1>9. CASE RollbackNext \/ RollbackFails \/ RollbackUnlink \/ RollbackDone
    BY <1>9, RollbackNextRollbackInv, RollbackFailsRollbackInv, RollbackUnlinkRollbackInv,
       RollbackDoneRollbackInv
  <1>10. CASE PersistLinkFails \/ DeletesCancelled
    BY <1>10, ReturnRollbackInv DEF PersistLinkFails, DeletesCancelled, ghostVars
  <1>11. CASE Finish
    BY <1>11, ReturnRollbackInv DEF Finish
  <1>12. CASE Crash
    BY <1>12, ReturnRollbackInv DEF Crash, ghostVars
  <1>13. CASE Cancel
    <2>1. Shrinks
      BY <1>13 DEF Cancel, rtVars, Shrinks, Running
    <2> QED
      BY <1>13, <2>1, RollbackInvFrame DEF Cancel, ghostVars
  <1>14. ASSUME NEW p \in Projects, Teardown(p) PROVE RollbackInv'
    BY <1>14 DEF Teardown, ctlVars, RollbackInv
  <1>15. ASSUME NEW i \in Ids, BecomeHealthy(i) \/ Exit(i, "done") \/ Exit(i, "failed")
         PROVE  RollbackInv'
    BY <1>15, WorldRollbackInv
  <1>16. CASE UNCHANGED vars
    <2>1. Shrinks
      BY <1>16 DEF vars, rtVars, Shrinks, Running
    <2> QED
      BY <1>16, <2>1, RollbackInvFrame DEF vars, ctlVars, ghostVars
  <1> QED
    BY <1>1, <1>2, <1>3, <1>4, <1>5, <1>6, <1>7, <1>8, <1>9, <1>10, <1>11, <1>12,
       <1>13, <1>14, <1>15, <1>16 DEF EngineNext, EngineStep

(***************************************************************************)
(* For every set of compositions: when an apply that nothing interfered    *)
(* with fails at whatever point, or is cancelled while it creates, nothing *)
(* it created is left in the runtime.                                      *)
(***************************************************************************)
THEOREM FailedApplyLeavesNothing == EngineSpec => []RollbackClean
  <1>1. RollbackInv => RollbackClean
    BY DEF RollbackInv, RollbackClean
  <1> QED
    BY <1>1, RollbackInvInit, RollbackInvNext, PTL DEF EngineSpec

----------------------------------------------------------------------------
(***************************************************************************)
(* The state an apply works on: what is stored, what is planned and how far*)
(* the plan has been carried out.                                          *)
(***************************************************************************)
RolloutRecordsOf == {Rollout(r, st) : r \in KnownRequests, st \in {"SUCCEEDED", "ERROR"}}

PodsOf == {Pod(r.body, st) : r \in KnownRequests, st \in PodStates}

\* Requests of one composition and deletes of known ids, one per service.
RequestsKnown(reqs) ==
  /\ reqs \in Seq(Range(reqs))
  /\ \A r \in Range(reqs) :
       \/ IsCreate(r) /\ r \in KnownRequests
       \/ r.id \in Ids /\ r = DeleteRequest(r.id, r.key)
  /\ \A r, s \in Range(reqs) :
       IsCreate(r) /\ IsCreate(s) /\ r.key = "Service" /\ s.key = "Service" /\ r.id = s.id => r = s

PlanShape(p) ==
  /\ RequestsKnown(p.requests)
  /\ \A r, s \in Range(p.requests) : IsDelete(r) /\ IsDelete(s) /\ r.id = s.id => r = s
  /\ p.links \in Seq(Ids \X Ids)
  /\ \A c \in p.conditions : <<c[2], c[1]>> \in Range(p.links)

PlanCreates == {r \in Range(plan.requests) : IsCreate(r)}

PlanDeletes == {r \in Range(plan.requests) : IsDelete(r)}

StoreShape ==
  /\ rollouts \in [Ids -> RolloutRecordsOf \cup {NoRollout}]
  /\ bySource \in [Ids -> SUBSET Ids] /\ byTarget \in [Ids -> SUBSET Ids]
  /\ deployments \in Seq(Range(deployments))
  /\ \A d \in Range(deployments) : RequestsKnown(d.requests) /\ d.links \in Seq(Ids \X Ids)

RuntimeShape ==
  /\ pods \in [Ids -> PodsOf \cup {NoPod}]
  /\ budget \in [applies : Nat, faults : Nat, crashes : Nat, teardowns : Nat]

PlannedShape ==
  /\ PlanShape(plan)
  /\ op.kind = "up" => op.comp \in Comps

\* The lists hold what is left of the plan, and are empty outside their phase.
ListShape ==
  /\ todoLinks \in Seq(Range(plan.links)) /\ (pc # "links" => todoLinks = <<>>)
  /\ deletes \in Seq(PlanDeletes) /\ (pc \notin {"deletes", "unlink"} => deletes = <<>>)
  /\ pc = "unlink" => deletes # <<>>
  /\ creates \in Seq(PlanCreates)
  /\ pc \in {"idle", "links", "rollback", "rollbackUnlink"} => creates = <<>>
  /\ pc \in {"record", "recordErr", "wait"} => creates # <<>>
  /\ created \subseteq PlanCreates
  /\ pc \in {"links", "deletes", "unlink"} => created = {}

\* While links are persisted each link of the plan is stored or still to come.
PersistShape ==
  pc = "links" => \A l \in Range(plan.links) : l \in Links \/ l \in Range(todoLinks)

Shape == StoreShape /\ RuntimeShape /\ PlannedShape /\ ListShape /\ PersistShape

----------------------------------------------------------------------------
(***************************************************************************)
(* Order and conditions.                                                   *)
(***************************************************************************)
Executing == {"deletes", "unlink", "creates", "record", "recordErr", "wait"}

CreatedIds == {r.id : r \in created}

BothTangled(l) == {l[1], l[2]} \subseteq tangled.creates

OrderInv ==
  /\ pc \in Executing => {r.id : r \in PlanCreates} = IdsOf(creates) \cup CreatedIds
  /\ pc = "wait" => Head(creates) \in created
  /\ \A i, j \in DOMAIN creates :
       i <= j /\ <<creates[i].id, creates[j].id>> \in Range(plan.links) =>
         {creates[i].id, creates[j].id} \subseteq tangled.creates
  /\ \A l \in Range(plan.links) :
       l[1] \in CreatedIds /\ HasCreate(plan, l[2]) => l[2] \in CreatedIds \/ BothTangled(l)
  /\ DependentsDeletedFirst

Seen(c) == \E o \in observed : o[1] = c[1] /\ CondPriority(o[2]) >= CondPriority(c[3])

ConditionInv ==
  /\ pc \notin {"idle", "rollback", "rollbackUnlink"} =>
       \A c \in plan.conditions :
         c[1] \in CreatedIds => Seen(c) \/ (pc = "wait" /\ c[1] = Head(creates).id)
  /\ \A c \in plan.conditions :
       c[2] \in CreatedIds /\ HasCreate(plan, c[1]) => Seen(c) \/ BothTangled(c)

(***************************************************************************)
(* What is destroyed for good.                                             *)
(***************************************************************************)
DestroyInv ==
  pc \in {"links", "deletes", "unlink"} /\ op.kind = "up" =>
    \A r \in PlanDeletes : ~HasCreate(plan, r.id) =>
      /\ \A i \in byTarget[r.id] : rollouts[i] = NoRollout \/ HasDelete(plan, i)
      /\ \A l \in Range(plan.links) : l[2] # r.id

(***************************************************************************)
(* What has been carried out.                                              *)
(***************************************************************************)
DestroyedServices == {r \in PlanDeletes : r.key = "Service" /\ ~HasCreate(plan, r.id)}

ConvergeInv ==
  ~disturbed =>
    /\ pc \in {"creates", "record", "wait"} => \A r \in created : IsLive(r)
    /\ pc = "record" => IsLive(Head(creates))
    /\ pc = "deletes" =>
         \A r \in DestroyedServices : r \in Range(deletes) \/ pods[r.id] = NoPod
    /\ pc = "unlink" =>
         \A r \in DestroyedServices : r \in Range(Tail(deletes)) \/ pods[r.id] = NoPod
    /\ pc \in {"creates", "record", "wait"} => \A r \in DestroyedServices : pods[r.id] = NoPod
    /\ result = "ok" =>
         /\ CreatedIds = {r.id : r \in PlanCreates}
         /\ \A r \in created : IsLive(r)
         /\ \A r \in DestroyedServices : pods[r.id] = NoPod

(***************************************************************************)
(* Drift.                                                                  *)
(***************************************************************************)
ServiceIds == {r.id : r \in {x \in KnownRequests : x.key = "Service"}}

InDoubt == IF pc \in {"record", "recordErr"} THEN {Head(creates).id} ELSE {}

\* A pod whose runtime call failed may be whatever its record will say.
Drifted == IF pc = "recordErr" THEN Unrecorded \cup InDoubt ELSE Unrecorded \ InDoubt

DriftInv ==
  /\ \A i \in Ids : pods[i] # NoPod => i \in ServiceIds
  /\ pc = "record" /\ Head(creates).key = "Service" =>
       pods[Head(creates).id] = NoPod \/ pods[Head(creates).id].body = Head(creates).body
  /\ Cardinality(Drifted) <= budget.faults + budget.crashes

(***************************************************************************)
(* Nothing to do.                                                          *)
(***************************************************************************)
NoChangeInv ==
  result = "nochange" /\ op.kind = "up" =>
    \A r \in Desired : r.id \in DOMAIN State /\ State[r.id].body = r.body

----------------------------------------------------------------------------
(***************************************************************************)
(* Requests.                                                               *)
(***************************************************************************)

\* The requests of the compositions are creates of known ids.
LEMMA KnownAre ==
  ASSUME NEW r \in KnownRequests
  PROVE  /\ IsCreate(r) /\ ~IsDelete(r) /\ r.id \in Ids
         /\ \E c \in Comps : r \in Range(Bridge(c).requests) /\
              \E m \in Range(Manifests(c)) : IsManifest(c, m) /\ r = CreateRequest(m)
  <1>1. PICK c \in Comps : r \in Range(Bridge(c).requests)
    BY DEF KnownRequests
  <1>2. WellFormed(c)
    BY CompsAreWellFormed
  <1>3. Bridged(c, Bridge(c)) /\ \A m \in Range(Manifests(c)) : IsManifest(c, m)
    BY <1>2, BridgeIsClosed, ManifestsAre
  <1>4. PICK m \in Range(Manifests(c)) : r = CreateRequest(m)
    BY <1>1, <1>3 DEF Bridged
  <1>5. m.id \in Ids
    BY IdsCoverComps
  <1>6. r.type = "create" /\ r.id = m.id
    BY <1>4 DEF CreateRequest
  <1> QED
    BY <1>1, <1>3, <1>4, <1>5, <1>6 DEF IsCreate, IsDelete

\* What is recorded of a request tells its kind.
LEMMA BodyTellsKey ==
  ASSUME NEW r \in KnownRequests, NEW s \in KnownRequests, r.body = s.body
  PROVE  r.key = s.key
  <1> DEFINE Fields(k) == CASE k = "Project" -> {"name"}
                            [] k = "Network" -> {"network"}
                            [] k = "Image" -> {"image"}
                            [] k = "Volume" -> {"project", "volume"}
                            [] k = "Service" -> {"project", "service", "version", "compVolumes"}
  <1>1. ASSUME NEW x \in KnownRequests
        PROVE  /\ x.key \in {"Project", "Network", "Image", "Volume", "Service"}
               /\ DOMAIN x.body = Fields(x.key)
    <2>1. PICK c, m : IsManifest(c, m) /\ x = CreateRequest(m)
      BY KnownAre
    <2>2. x.key = m.key /\ x.body = m.body
      BY <2>1 DEF CreateRequest
    <2>3. /\ m.key \in {"Project", "Network", "Image", "Volume", "Service"}
          /\ DOMAIN m.body = Fields(m.key)
      <3>1. CASE m = ProjectManifest(c)
        BY <3>1 DEF ProjectManifest, Manifest
      <3>2. CASE m = NetworkManifest(c)
        BY <3>2 DEF NetworkManifest, Manifest
      <3>3. ASSUME NEW n \in ServiceNames(c), m = ImageManifest(c.services[n].image)
            PROVE  m.key = "Image" /\ DOMAIN m.body = {"image"}
        BY <3>3 DEF ImageManifest, Manifest
      <3>4. ASSUME NEW v \in c.volumes, m = VolumeManifest(c, v)
            PROVE  m.key = "Volume" /\ DOMAIN m.body = {"project", "volume"}
        BY <3>4 DEF VolumeManifest, Manifest
      <3>5. ASSUME NEW n \in ServiceNames(c), m = ServiceManifest(c, n)
            PROVE  m.key = "Service" /\ DOMAIN m.body = {"project", "service", "version", "compVolumes"}
        BY <3>5 DEF ServiceManifest, Manifest, BuildContainerSpec
      <3> QED
        BY <2>1, <3>1, <3>2, <3>3, <3>4, <3>5 DEF IsManifest
    <2> QED
      BY <2>2, <2>3
  <1>2. \A j, k \in {"Project", "Network", "Image", "Volume", "Service"} : Fields(j) = Fields(k) => j = k
    OBVIOUS
  <1> HIDE DEF Fields
  <1> QED
    BY <1>1, <1>2

\* A composition asks for known requests, and links their ids.
LEMMA BridgeKnown ==
  ASSUME NEW c \in Comps
  PROVE  /\ RequestsKnown(Bridge(c).requests)
         /\ \A r \in Range(Bridge(c).requests) : IsCreate(r) /\ r \in KnownRequests
         /\ Bridge(c).links \in Seq(Ids \X Ids)
         /\ \A l \in Range(Bridge(c).links) : \E r \in Range(Bridge(c).requests) : r.id = l[2]
         /\ \A k \in Bridge(c).conditions : <<k[2], k[1]>> \in Range(Bridge(c).links)
  <1> DEFINE b == Bridge(c)
  <1>1. Bridged(c, b)
    BY CompsAreWellFormed, BridgeIsClosed
  <1>2. \A r \in Range(b.requests) : r \in KnownRequests
    BY DEF KnownRequests
  <1>3. \A r \in Range(b.requests) : IsCreate(r) /\ r.id \in Ids
    BY <1>2, KnownAre
  <1> HIDE DEF b
  <1>4. b.requests \in Seq(Range(b.requests))
    BY <1>1 DEF Bridged
  <1>5. IdsOf(b.requests) = {r.id : r \in Range(b.requests)}
    BY <1>4, IdsOfFinite
  <1>6. \A l \in Range(b.links) : l = <<l[1], l[2]>> /\ {l[1], l[2]} \subseteq IdsOf(b.requests)
    BY <1>1 DEF Bridged
  <1>7. Range(b.links) \subseteq Ids \X Ids
    BY <1>3, <1>5, <1>6
  <1>8. b.links \in Seq(Ids \X Ids)
    BY <1>1, <1>7 DEF Bridged
  <1>9. RequestsKnown(b.requests)
    BY <1>1, <1>2, <1>3 DEF Bridged, RequestsKnown
  <1>10. \A l \in Range(b.links) : \E r \in Range(b.requests) : r.id = l[2]
    BY <1>5, <1>6
  <1> QED
    BY <1>1, <1>2, <1>3, <1>8, <1>9, <1>10 DEF b, Bridged

\* A plan over what is recorded has the shape of a plan.
LEMMA PlansShape ==
  ASSUME NEW d, NEW rolls, DOMAIN rolls \subseteq Ids, NEW p, p = ComputePlan(d, rolls),
         RequestsKnown(d.requests), d.links \in Seq(Ids \X Ids),
         \A c \in d.conditions : <<c[2], c[1]>> \in Range(d.links)
  PROVE  Plans(d, rolls, p) /\ PlanShape(p)
  <1>1. IsFiniteSet(DOMAIN rolls) /\ DOMAIN rolls \subseteq Int
    BY IdsCoverComps, FS_Subset
  <1>2. d.requests \in Seq(Range(d.requests))
    BY DEF RequestsKnown
  <1>3. Plans(d, rolls, p)
    BY <1>1, <1>2, PlanIsSound
  <1>4. ASSUME NEW r \in Range(p.requests)
        PROVE  \/ IsCreate(r) /\ r \in KnownRequests /\ r \in Range(d.requests)
               \/ r.id \in Ids /\ r = DeleteRequest(r.id, r.key) /\ ~IsCreate(r)
    <2>1. \A i, k : ~IsCreate(DeleteRequest(i, k))
      BY DEF IsCreate, DeleteRequest
    <2>2. \/ IsCreate(r) /\ r \in Range(d.requests)
          \/ r.id \in DOMAIN rolls /\ r = DeleteRequest(r.id, r.key)
      BY <1>3 DEF Plans
    <2> QED
      BY <2>1, <2>2 DEF RequestsKnown
  <1>5. RequestsKnown(p.requests)
    <2>1. p.requests \in Seq(Range(p.requests))
      BY <1>3 DEF Plans
    <2>2. \A r, s \in Range(p.requests) :
             IsCreate(r) /\ IsCreate(s) /\ r.key = "Service" /\ s.key = "Service" /\ r.id = s.id => r = s
      BY <1>4 DEF RequestsKnown
    <2> QED
      BY <1>4, <2>1, <2>2 DEF RequestsKnown
  <1> QED
    BY <1>3, <1>5 DEF Plans, PlanShape

\* Up plans the composition over the recorded state, Rollback what a stored
\* deployment created.
LEMMA UpPlan ==
  ASSUME NEW c \in Comps
  PROVE  LET p == ComputePlan(Bridge(c), State) IN Plans(Bridge(c), State, p) /\ PlanShape(p)
  <1> DEFINE d == Bridge(c)
             p == ComputePlan(d, State)
  <1>1. DOMAIN State \subseteq Ids
    BY DEF State
  <1>2. /\ RequestsKnown(d.requests) /\ d.links \in Seq(Ids \X Ids)
        /\ \A k \in d.conditions : <<k[2], k[1]>> \in Range(d.links)
    BY BridgeKnown
  <1>3. p = ComputePlan(d, State)
    OBVIOUS
  <1> HIDE DEF d, p
  <1>4. Plans(d, State, p) /\ PlanShape(p)
    BY <1>1, <1>2, <1>3, PlansShape
  <1> QED
    BY <1>4 DEF d, p

LEMMA RollbackPlan ==
  ASSUME NEW e, RequestsKnown(e.requests), e.links \in Seq(Ids \X Ids),
         NEW d, d = [requests |-> CreatesOf(e.requests), links |-> e.links, conditions |-> {}]
  PROVE  PlanShape(ComputePlan(d, State))
  <1> DEFINE q == CreatesOf(e.requests)
             p == ComputePlan(d, State)
  <1>1. DOMAIN State \subseteq Ids
    BY DEF State
  <1>2. e.requests \in Seq(Range(e.requests))
    BY DEF RequestsKnown
  <1>3. q \in Seq(Range(e.requests)) /\ Range(q) = {r \in Range(e.requests) : IsCreate(r)}
    BY <1>2, SplitIs
  <1>4. q \in Seq(Range(q)) /\ Range(q) \subseteq Range(e.requests)
    BY <1>3, SeqRange
  <1>5. RequestsKnown(q)
    BY <1>4 DEF RequestsKnown
  <1>6. d.requests = q /\ d.links = e.links /\ d.conditions = {}
    OBVIOUS
  <1>7. p = ComputePlan(d, State)
    OBVIOUS
  <1> HIDE DEF q, p
  <1>8. PlanShape(p)
    BY <1>1, <1>5, <1>6, <1>7, PlansShape
  <1> QED
    BY <1>8 DEF p

----------------------------------------------------------------------------
(***************************************************************************)
(* What a step can do to the store, the runtime and the budget.            *)
(***************************************************************************)
RolloutStep ==
  \/ rollouts' = rollouts
  \/ /\ pc \in {"record", "recordErr"}
     /\ \E st \in {"SUCCEEDED", "ERROR"} :
          rollouts' = [rollouts EXCEPT ![Head(creates).id] = Rollout(Head(creates), st)]

DeploymentStep ==
  \/ deployments' = deployments
  \/ deployments' = Append(deployments, [requests |-> plan.requests, links |-> plan.links])

BucketStep ==
  \/ pc = "links" /\ todoLinks # <<>> /\ AddLink(Head(todoLinks)[1], Head(todoLinks)[2])
  \/ pc \in {"unlink", "rollbackUnlink"} /\ \E r : RemoveLink(r)
  \/ UNCHANGED <<bySource, byTarget>>

StoreStep == RolloutStep /\ DeploymentStep /\ BucketStep

LEMMA SameStore ==
  ASSUME UNCHANGED dbVars
  PROVE  StoreStep
BY DEF dbVars, StoreStep, RolloutStep, DeploymentStep, BucketStep

LEMMA RecordStore ==
  ASSUME pc \in {"record", "recordErr"}, NEW st \in {"SUCCEEDED", "ERROR"},
         SaveOrWarn(Head(creates), st)
  PROVE  StoreStep
  <1>1. CASE SaveRollout(Head(creates).id, Rollout(Head(creates), st))
    BY <1>1 DEF SaveRollout, StoreStep, RolloutStep, DeploymentStep, BucketStep
  <1>2. CASE UNCHANGED dbVars
    BY <1>2, SameStore
  <1> QED
    BY <1>1, <1>2 DEF SaveOrWarn

LEMMA UnlinkStore ==
  ASSUME pc \in {"unlink", "rollbackUnlink"}, NEW r, RemoveLinkOrWarn(r)
  PROVE  StoreStep
  <1>1. CASE RemoveLink(r)
    <2>1. BucketStep
      BY <1>1 DEF BucketStep
    <2> QED
      BY <1>1, <2>1 DEF RemoveLink, StoreStep, RolloutStep, DeploymentStep
  <1>2. CASE UNCHANGED dbVars
    BY <1>2, SameStore
  <1> QED
    BY <1>1, <1>2 DEF RemoveLinkOrWarn

LEMMA StoreSteps ==
  ASSUME [EngineNext]_vars
  PROVE  StoreStep
  <1>1. ASSUME NEW c \in Comps, Up(c) PROVE StoreStep
    BY <1>1, SameStore DEF Up, Begin
  <1>2. ASSUME NEW k \in DOMAIN deployments, Rollback(k) PROVE StoreStep
    BY <1>2, SameStore DEF Rollback, Begin
  <1>3. CASE PersistLink
    BY <1>3 DEF PersistLink, AddLink, StoreStep, RolloutStep, DeploymentStep, BucketStep
  <1>4. CASE Unlink
    BY <1>4, UnlinkStore DEF Unlink
  <1>5. CASE RollbackUnlink
    BY <1>5, UnlinkStore DEF RollbackUnlink
  <1>6. CASE OrderRequests \/ DeleteNext \/ DeleteFails \/ PersistLinkFails
             \/ DeletesCancelled \/ DeletesDone
    BY <1>6, SameStore DEF OrderRequests, DeleteNext, DeleteFails, PersistLinkFails,
       DeletesCancelled, DeletesDone
  <1>7. CASE CreateNext \/ CreateFails \/ CreatesCancelled \/ WaitMet \/ WaitFails
    BY <1>7, SameStore DEF CreateNext, CreateFails, CreatesCancelled, WaitMet, WaitFails
  <1>8. CASE RecordSuccess
    BY <1>8, RecordStore DEF RecordSuccess
  <1>9. CASE RecordError
    BY <1>9, RecordStore DEF RecordError
  <1>10. CASE RollbackNext \/ RollbackFails \/ RollbackDone
    BY <1>10, SameStore DEF RollbackNext, RollbackFails, RollbackDone
  <1>11. CASE Finish
    BY <1>11 DEF Finish, SaveDeployment, dbVars, StoreStep, RolloutStep, DeploymentStep, BucketStep
  <1>12. CASE Cancel \/ Crash
    BY <1>12, SameStore DEF Cancel, Crash
  <1>13. ASSUME NEW p \in Projects, Teardown(p) PROVE StoreStep
    BY <1>13, SameStore DEF Teardown
  <1>14. ASSUME NEW i \in Ids, BecomeHealthy(i) \/ Exit(i, "done") \/ Exit(i, "failed")
         PROVE  StoreStep
    BY <1>14, SameStore DEF BecomeHealthy, Exit
  <1>15. CASE UNCHANGED vars
    BY <1>15, SameStore DEF vars
  <1> QED
    BY <1>1, <1>2, <1>3, <1>4, <1>5, <1>6, <1>7, <1>8, <1>9, <1>10, <1>11, <1>12,
       <1>13, <1>14, <1>15 DEF EngineNext, EngineStep

\* The first of what is still to be created is a known request.
LEMMA HeadKnown ==
  ASSUME PlannedShape, ListShape, creates # <<>>
  PROVE  /\ Head(creates) \in PlanCreates /\ Head(creates) \in KnownRequests
         /\ Head(creates).id \in Ids
         /\ Tail(creates) \in Seq(PlanCreates)
  <1>1. creates \in Seq(PlanCreates)
    BY DEF ListShape
  <1>2. Head(creates) \in PlanCreates /\ Tail(creates) \in Seq(PlanCreates)
    BY <1>1, HeadTailProperties
  <1>3. \A i, k : ~IsCreate(DeleteRequest(i, k))
    BY DEF IsCreate, DeleteRequest
  <1>4. Head(creates) \in KnownRequests
    BY <1>2, <1>3 DEF PlanCreates, PlannedShape, PlanShape, RequestsKnown
  <1> QED
    BY <1>2, <1>4, KnownAre

LEMMA StoreShapeNext ==
  ASSUME Shape, [EngineNext]_vars
  PROVE  StoreShape'
  <1>1. StoreStep
    BY StoreSteps
  <1>2. rollouts' \in [Ids -> RolloutRecordsOf \cup {NoRollout}]
    <2>1. CASE rollouts' = rollouts
      BY <2>1 DEF Shape, StoreShape
    <2>2. ASSUME pc \in {"record", "recordErr"}, NEW st \in {"SUCCEEDED", "ERROR"},
                 rollouts' = [rollouts EXCEPT ![Head(creates).id] = Rollout(Head(creates), st)]
          PROVE  rollouts' \in [Ids -> RolloutRecordsOf \cup {NoRollout}]
      <3>1. Head(creates) \in KnownRequests
        BY <2>2, HeadKnown DEF Shape, ListShape
      <3>2. Rollout(Head(creates), st) \in RolloutRecordsOf
        BY <3>1 DEF RolloutRecordsOf
      <3> QED
        BY <2>2, <3>2 DEF Shape, StoreShape
    <2> QED
      BY <1>1, <2>1, <2>2 DEF StoreStep, RolloutStep
  <1>3. /\ deployments' \in Seq(Range(deployments'))
        /\ \A d \in Range(deployments') : RequestsKnown(d.requests) /\ d.links \in Seq(Ids \X Ids)
    <2> DEFINE e == [requests |-> plan.requests, links |-> plan.links]
    <2>0. /\ deployments \in Seq(Range(deployments))
          /\ \A d \in Range(deployments) : RequestsKnown(d.requests) /\ d.links \in Seq(Ids \X Ids)
      BY DEF Shape, StoreShape
    <2>1. CASE deployments' = deployments
      BY <2>0, <2>1
    <2>2. CASE deployments' = Append(deployments, e)
      <3>1. RequestsKnown(e.requests) /\ e.links \in Seq(Ids \X Ids)
        BY DEF Shape, PlannedShape, PlanShape
      <3> HIDE DEF e
      <3>2. /\ deployments' \in Seq(Range(deployments) \cup {e})
            /\ Range(deployments') = Range(deployments) \cup {e}
        BY <2>0, <2>2, AppendRange
      <3>3. deployments' \in Seq(Range(deployments'))
        BY <3>2
      <3> QED
        BY <2>0, <3>1, <3>2, <3>3
    <2> QED
      BY <1>1, <2>1, <2>2 DEF StoreStep, DeploymentStep
  <1>4. bySource' \in [Ids -> SUBSET Ids] /\ byTarget' \in [Ids -> SUBSET Ids]
    <2>0. bySource \in [Ids -> SUBSET Ids] /\ byTarget \in [Ids -> SUBSET Ids]
      BY DEF Shape, StoreShape
    <2>1. CASE UNCHANGED <<bySource, byTarget>>
      BY <2>0, <2>1
    <2>2. ASSUME NEW r, RemoveLink(r)
          PROVE  bySource' \in [Ids -> SUBSET Ids] /\ byTarget' \in [Ids -> SUBSET Ids]
      BY <2>0, <2>2 DEF RemoveLink
    <2>3. CASE todoLinks # <<>> /\ AddLink(Head(todoLinks)[1], Head(todoLinks)[2])
      <3>1. todoLinks \in Seq(Range(plan.links)) /\ plan.links \in Seq(Ids \X Ids)
        BY DEF Shape, ListShape, PlannedShape, PlanShape
      <3>2. Head(todoLinks) \in Ids \X Ids
        BY <2>3, <3>1, HeadTailProperties, SeqRange
      <3> QED
        BY <2>0, <2>3, <3>2 DEF AddLink
    <2> QED
      BY <1>1, <2>1, <2>2, <2>3 DEF StoreStep, BucketStep
  <1> QED
    BY <1>2, <1>3, <1>4 DEF StoreShape

\* Left alone a pod fades: it changes its state, or goes.
Fade(x, y) ==
  \/ y = x \/ y = NoPod
  \/ x # NoPod /\ \E st \in PodStates : y = Pod(x.body, st)

\* Only the request being executed makes a pod.
MakesPod(i) ==
  /\ pc = "creates" /\ pc' \in {"record", "recordErr"} /\ creates # <<>>
  /\ Head(creates).key = "Service" /\ Head(creates).id = i
  /\ \E st \in {"running", "partial"} : pods'[i] = Pod(Head(creates).body, st)

PodStep ==
  /\ DOMAIN pods' = Ids /\ pods' = [i \in Ids |-> pods'[i]]
  /\ \A i \in Ids : Fade(pods[i], pods'[i]) \/ MakesPod(i)

LEMMA SamePods ==
  ASSUME RuntimeShape, UNCHANGED pods
  PROVE  PodStep
BY DEF RuntimeShape, PodStep, Fade

LEMMA DownFades ==
  ASSUME NEW S, pods' = DownIn(S)
  PROVE  PodStep
BY DEF DownIn, PodStep, Fade

\* One pod changes.
LEMMA OnePodFades ==
  ASSUME RuntimeShape, NEW k, NEW y, pods' = [pods EXCEPT ![k] = y],
         k \in Ids => Fade(pods[k], y) \/ MakesPod(k)
  PROVE  PodStep
BY DEF RuntimeShape, PodStep, Fade

\* A pod in another state is the pod of the same body.
LEMMA PodInState ==
  ASSUME RuntimeShape, NEW i \in Ids, pods[i] # NoPod, NEW st \in PodStates
  PROVE  [pods[i] EXCEPT !.st = st] = Pod(pods[i].body, st)
BY DEF RuntimeShape, PodsOf, Pod

LEMMA DamagedFades ==
  ASSUME RuntimeShape, NEW i \in Ids, NEW x \in Damaged(i)
  PROVE  Fade(pods[i], x)
  <1>1. CASE pods[i] = NoPod
    BY <1>1 DEF Damaged, Fade
  <1>2. CASE pods[i] # NoPod
    <2>1. "partial" \in PodStates
      BY DEF PodStates
    <2> QED
      BY <1>2, <2>1, PodInState DEF Damaged, Fade
  <1> QED
    BY <1>1, <1>2

LEMMA DeleteFades ==
  ASSUME RuntimeShape, NEW r, RuntimeDelete(r) \/ RuntimeDeleteFails(r)
  PROVE  PodStep
  <1>1. CASE RuntimeDelete(r)
    BY <1>1, SamePods, DownFades DEF RuntimeDelete
  <1>2. CASE RuntimeDeleteFails(r)
    <2>1. CASE r.key = "Service"
      <3>1. PICK x \in Damaged(r.id) : pods' = [pods EXCEPT ![r.id] = x]
        BY <1>2, <2>1 DEF RuntimeDeleteFails
      <3> QED
        BY <3>1, DamagedFades, OnePodFades
    <2> QED
      BY <1>2, <2>1, SamePods, DownFades DEF RuntimeDeleteFails
  <1> QED
    BY <1>1, <1>2

LEMMA PodSteps ==
  ASSUME Shape, [EngineNext]_vars
  PROVE  PodStep
  <1> USE DEF Shape
  <1>1. ASSUME NEW c \in Comps, Up(c) PROVE PodStep
    BY <1>1, SamePods DEF Up, Begin, rtVars
  <1>2. ASSUME NEW k \in DOMAIN deployments, Rollback(k) PROVE PodStep
    BY <1>2, SamePods DEF Rollback, Begin, rtVars
  <1>3. CASE PersistLink \/ OrderRequests \/ Unlink \/ PersistLinkFails
             \/ DeletesCancelled \/ DeletesDone
    BY <1>3, SamePods DEF PersistLink, OrderRequests, Unlink, PersistLinkFails,
       DeletesCancelled, DeletesDone, rtVars
  <1>4. CASE DeleteNext \/ DeleteFails
    BY <1>4, DeleteFades DEF DeleteNext, DeleteFails
  <1>5. CASE CreateNext
    <2>1. CASE Head(creates).key = "Service"
      <3>1. pods' = [pods EXCEPT ![Head(creates).id] = Pod(Head(creates).body, "running")]
        BY <1>5, <2>1 DEF CreateNext, RuntimeApply
      <3>2. Head(creates).id \in Ids => MakesPod(Head(creates).id)
        BY <1>5, <2>1, <3>1 DEF CreateNext, MakesPod, RuntimeShape
      <3> QED
        BY <3>1, <3>2, OnePodFades
    <2>2. CASE Head(creates).key # "Service"
      BY <1>5, <2>2, SamePods DEF CreateNext, RuntimeApply
    <2> QED
      BY <2>1, <2>2
  <1>6. CASE CreateFails
    <2>1. CASE Head(creates).key = "Service"
      <3> DEFINE id == Head(creates).id
                 new == Pod(Head(creates).body, "partial")
      <3>1. PICK x \in Damaged(id) \cup {NoPod, new} : pods' = [pods EXCEPT ![id] = x]
        BY <1>6, <2>1 DEF CreateFails, RuntimeApplyFails
      <3>2. id \in Ids /\ x = new => MakesPod(id)
        BY <1>6, <2>1, <3>1 DEF CreateFails, MakesPod, RuntimeShape
      <3>3. x = NoPod => Fade(pods[id], x)
        BY DEF Fade
      <3> QED
        BY <3>1, <3>2, <3>3, DamagedFades, OnePodFades
    <2>2. CASE Head(creates).key # "Service"
      BY <1>6, <2>2, SamePods DEF CreateFails, RuntimeApplyFails
    <2> QED
      BY <2>1, <2>2
  <1>7. CASE CreatesCancelled \/ RecordSuccess \/ RecordError \/ WaitMet \/ WaitFails
    BY <1>7, SamePods DEF CreatesCancelled, RecordSuccess, RecordError, WaitMet, WaitFails, rtVars
  <1>8. CASE RollbackNext \/ RollbackFails
    BY <1>8, DeleteFades DEF RollbackNext, RollbackFails
  <1>9. CASE RollbackUnlink \/ RollbackDone \/ Finish \/ Cancel \/ Crash \/ UNCHANGED vars
    BY <1>9, SamePods DEF RollbackUnlink, RollbackDone, Finish, Cancel, Crash, vars, rtVars
  <1>10. ASSUME NEW p \in Projects, Teardown(p) PROVE PodStep
    BY <1>10, DownFades DEF Teardown
  <1>11. ASSUME NEW i \in Ids, BecomeHealthy(i) PROVE PodStep
    <2>1. /\ pods[i] # NoPod /\ "healthy" \in PodStates
          /\ pods' = [pods EXCEPT ![i] = [pods[i] EXCEPT !.st = "healthy"]]
      BY <1>11 DEF BecomeHealthy, PodStates
    <2>2. Fade(pods[i], [pods[i] EXCEPT !.st = "healthy"])
      BY <2>1, PodInState DEF Fade
    <2> QED
      BY <2>1, <2>2, OnePodFades
  <1>12. ASSUME NEW i \in Ids, NEW st \in {"done", "failed"}, Exit(i, st) PROVE PodStep
    <2>1. /\ pods[i] # NoPod /\ st \in PodStates
          /\ pods' = [pods EXCEPT ![i] = [pods[i] EXCEPT !.st = st]]
      BY <1>12 DEF Exit, PodStates
    <2>2. Fade(pods[i], [pods[i] EXCEPT !.st = st])
      BY <2>1, PodInState DEF Fade
    <2> QED
      BY <2>1, <2>2, OnePodFades
  <1> QED
    BY <1>1, <1>2, <1>3, <1>4, <1>5, <1>6, <1>7, <1>8, <1>9, <1>10, <1>11, <1>12
       DEF EngineNext, EngineStep

\* Every bounded event is counted, and nothing else is.
BudgetStep == UNCHANGED budget \/ \E what \in {"applies", "faults", "crashes", "teardowns"} : Spend(what)

LEMMA BudgetSteps ==
  ASSUME [EngineNext]_vars
  PROVE  BudgetStep
  <1>1. CASE \E c \in Comps : Up(c)
    BY <1>1 DEF Up, Begin, BudgetStep
  <1>2. CASE \E k \in DOMAIN deployments : Rollback(k)
    BY <1>2 DEF Rollback, Begin, BudgetStep
  <1>3. CASE PersistLink \/ OrderRequests \/ DeleteNext \/ DeleteFails \/ Unlink
    BY <1>3 DEF PersistLink, OrderRequests, DeleteNext, DeleteFails, Unlink,
       RemoveLinkOrWarn, BudgetStep
  <1>4. CASE PersistLinkFails \/ DeletesCancelled \/ DeletesDone \/ CreateNext
             \/ CreateFails \/ CreatesCancelled
    BY <1>4 DEF PersistLinkFails, DeletesCancelled, DeletesDone, CreateNext, CreateFails,
       CreatesCancelled, BudgetStep
  <1>5. CASE RecordSuccess \/ RecordError \/ WaitMet \/ WaitFails
    BY <1>5 DEF RecordSuccess, RecordError, SaveOrWarn, WaitMet, WaitFails, BudgetStep
  <1>6. CASE RollbackNext \/ RollbackFails \/ RollbackUnlink \/ RollbackDone \/ Finish
    BY <1>6 DEF RollbackNext, RollbackFails, RollbackUnlink, RemoveLinkOrWarn, RollbackDone,
       Finish, BudgetStep
  <1>7. CASE Cancel \/ Crash \/ (\E p \in Projects : Teardown(p))
    BY <1>7 DEF Cancel, Crash, Teardown, BudgetStep
  <1>8. CASE (\E i \in Ids : BecomeHealthy(i) \/ Exit(i, "done") \/ Exit(i, "failed")) \/ UNCHANGED vars
    BY <1>8 DEF BecomeHealthy, Exit, vars, BudgetStep
  <1> QED
    BY <1>1, <1>2, <1>3, <1>4, <1>5, <1>6, <1>7, <1>8 DEF EngineNext, EngineStep

LEMMA RuntimeShapeNext ==
  ASSUME Shape, [EngineNext]_vars
  PROVE  RuntimeShape'
  <1>1. PodStep /\ BudgetStep
    BY PodSteps, BudgetSteps
  <1>2. pods' \in [Ids -> PodsOf \cup {NoPod}]
    <2>1. ASSUME NEW i \in Ids PROVE pods'[i] \in PodsOf \cup {NoPod}
      <3>1. CASE Fade(pods[i], pods'[i])
        <4>1. pods[i] \in PodsOf \cup {NoPod}
          BY DEF Shape, RuntimeShape
        <4>2. ASSUME pods[i] # NoPod, NEW st \in PodStates, pods'[i] = Pod(pods[i].body, st)
              PROVE  pods'[i] \in PodsOf
          <5>1. PICK r \in KnownRequests, x \in PodStates : pods[i] = Pod(r.body, x)
            BY <4>1, <4>2 DEF PodsOf
          <5>2. pods[i].body = r.body
            BY <5>1 DEF Pod
          <5> QED
            BY <4>2, <5>2 DEF PodsOf
        <4> QED
          BY <3>1, <4>1, <4>2 DEF Fade
      <3>2. CASE MakesPod(i)
        <4>1. Head(creates) \in KnownRequests
          BY <3>2, HeadKnown DEF MakesPod, Shape
        <4> QED
          BY <3>2, <4>1 DEF MakesPod, PodsOf, PodStates
      <3> QED
        BY <1>1, <3>1, <3>2 DEF PodStep
    <2> QED
      BY <1>1, <2>1 DEF PodStep
  <1>3. budget' \in [applies : Nat, faults : Nat, crashes : Nat, teardowns : Nat]
    BY <1>1 DEF BudgetStep, Spend, Shape, RuntimeShape
  <1> QED
    BY <1>2, <1>3 DEF RuntimeShape

----------------------------------------------------------------------------
(***************************************************************************)
(* The plan and what is left of it.                                        *)
(***************************************************************************)
\* A stored deployment makes a plan.
LEMMA RollbackPlanned ==
  ASSUME StoreShape, NEW k \in DOMAIN deployments, Rollback(k)
  PROVE  \E p : PlanShape(p) /\ Begin([kind |-> "rollback", to |-> k], p, TRUE)
  <1> DEFINE e == deployments[k]
             d == [requests |-> CreatesOf(e.requests), links |-> e.links, conditions |-> {}]
             p == ComputePlan(d, State)
  <1>1. RequestsKnown(e.requests) /\ e.links \in Seq(Ids \X Ids)
    BY SeqRange DEF StoreShape
  <1>2. Begin([kind |-> "rollback", to |-> k], p, TRUE)
    BY DEF Rollback
  <1>3. PlanShape(p)
    <2> HIDE DEF e
    <2>1. \A y : y = d => PlanShape(ComputePlan(y, State))
      BY <1>1, RollbackPlan
    <2> QED
      BY <2>1
  <1> HIDE DEF p
  <1> QED
    BY <1>2, <1>3

LEMMA BeginPlannedShape ==
  ASSUME NEW o, NEW p, NEW always, Begin(o, p, always), PlanShape(p),
         o.kind = "up" => o.comp \in Comps
  PROVE  PlannedShape'
  <1>1. op' = o /\ plan' = p
    BY DEF Begin
  <1> QED
    BY <1>1 DEF PlannedShape

LEMMA PlannedShapeNext ==
  ASSUME Shape, [EngineNext]_vars
  PROVE  PlannedShape'
  <1>1. ASSUME NEW c \in Comps, Up(c) PROVE PlannedShape'
    <2>1. PlanShape(ComputePlan(Bridge(c), State))
      BY UpPlan
    <2> QED
      BY <1>1, <2>1, BeginPlannedShape DEF Up
  <1>2. ASSUME NEW k \in DOMAIN deployments, Rollback(k) PROVE PlannedShape'
    <2>1. PICK p : PlanShape(p) /\ Begin([kind |-> "rollback", to |-> k], p, TRUE)
      BY <1>2, RollbackPlanned DEF Shape
    <2> QED
      BY <2>1, BeginPlannedShape
  <1>3. CASE UNCHANGED <<op, plan>>
    BY <1>3 DEF Shape, PlannedShape
  <1>4. CASE PersistLink \/ OrderRequests \/ DeleteNext \/ DeleteFails \/ Unlink
             \/ PersistLinkFails \/ DeletesCancelled
    BY <1>3, <1>4 DEF PersistLink, OrderRequests, DeleteNext, DeleteFails, Unlink,
       PersistLinkFails, DeletesCancelled, Return
  <1>5. CASE DeletesDone \/ CreateNext \/ CreateFails \/ CreatesCancelled \/ RecordSuccess
    BY <1>3, <1>5 DEF DeletesDone, CreateNext, CreateFails, CreatesCancelled, RecordSuccess
  <1>6. CASE RecordError \/ WaitMet \/ WaitFails \/ RollbackNext \/ RollbackFails \/ RollbackUnlink
    BY <1>3, <1>6 DEF RecordError, WaitMet, WaitFails, RollbackNext, RollbackFails, RollbackUnlink
  <1>7. CASE RollbackDone \/ Finish \/ Cancel \/ Crash \/ \E p \in Projects : Teardown(p)
    BY <1>3, <1>7 DEF RollbackDone, Finish, Cancel, Crash, Teardown, Return, ctlVars
  <1>8. CASE (\E i \in Ids : BecomeHealthy(i) \/ Exit(i, "done") \/ Exit(i, "failed")) \/ UNCHANGED vars
    BY <1>3, <1>8 DEF BecomeHealthy, Exit, vars, ctlVars
  <1> QED
    BY <1>1, <1>2, <1>4, <1>5, <1>6, <1>7, <1>8 DEF EngineNext, EngineStep

LEMMA PlanIds ==
  ASSUME PlannedShape
  PROVE  /\ \A r \in Range(plan.requests) : r.id \in Ids
         /\ \A r \in PlanCreates : r.id \in Ids /\ IsCreate(r) /\ r \in KnownRequests
         /\ \A r \in PlanDeletes : r.id \in Ids /\ IsDelete(r) /\ r = DeleteRequest(r.id, r.key)
  <1>1. \A i, k : ~IsCreate(DeleteRequest(i, k))
    BY DEF IsCreate, DeleteRequest
  <1>2. \A r \in Range(plan.requests) :
           \/ IsCreate(r) /\ r \in KnownRequests
           \/ r.id \in Ids /\ r = DeleteRequest(r.id, r.key)
    BY DEF PlannedShape, PlanShape, RequestsKnown
  <1>3. \A r \in KnownRequests : r.id \in Ids /\ ~IsDelete(r)
    BY KnownAre
  <1> QED
    BY <1>1, <1>2, <1>3 DEF PlanCreates, PlanDeletes

\* The lists that an apply works off hold the plan, dependencies first, or last.
LEMMA OrderingIs ==
  ASSUME Shape, OrderRequests
  PROVE  /\ creates' \in Seq(PlanCreates) /\ IdsOf(creates') = {r.id : r \in PlanCreates}
         /\ \A i, j \in DOMAIN creates' :
              i < j /\ <<creates'[i].id, creates'[j].id>> \in Links =>
                {creates'[i].id, creates'[j].id} \subseteq tangled'.creates
         /\ tangled'.creates = TangledIn({r.id : r \in PlanCreates}, Links)
         /\ deletes' \in Seq(PlanDeletes) /\ IdsOf(deletes') = {r.id : r \in PlanDeletes}
         /\ \A i, j \in DOMAIN deletes' :
              i < j /\ <<deletes'[j].id, deletes'[i].id>> \in Links =>
                {deletes'[i].id, deletes'[j].id} \subseteq tangled'.deletes
  <1> DEFINE adds == CreatesOf(plan.requests)
             dels == DeletesOf(plan.requests)
  <1>1. plan.requests \in Seq(Range(plan.requests))
    BY DEF Shape, PlannedShape, PlanShape, RequestsKnown
  <1>2. /\ adds \in Seq(Range(plan.requests)) /\ dels \in Seq(Range(plan.requests))
        /\ Range(adds) = PlanCreates /\ Range(dels) = PlanDeletes
    BY <1>1, SplitIs DEF PlanCreates, PlanDeletes
  <1>3. /\ creates' = TopoSortRequests(adds, Links, FALSE)
        /\ deletes' = TopoSortRequests(dels, Links, TRUE)
        /\ tangled' = [deletes |-> Tangled(dels), creates |-> Tangled(adds)]
    BY DEF OrderRequests
  <1> HIDE DEF adds, dels
  <1>4. IdsOf(adds) = {r.id : r \in PlanCreates} /\ IdsOf(dels) = {r.id : r \in PlanDeletes}
    <2>1. IdsOf(adds) = {r.id : r \in Range(adds)}
      BY <1>2, IdsOfFinite
    <2>2. IdsOf(dels) = {r.id : r \in Range(dels)}
      BY <1>2, IdsOfFinite
    <2> QED
      BY <1>2, <2>1, <2>2
  <1>5. IdsOf(adds) \subseteq Nat /\ IdsOf(dels) \subseteq Nat
    BY <1>4, PlanIds, IdsCoverComps DEF Shape
  <1> DEFINE L == Links
  <1>6. L \in SUBSET (Ids \X Ids)
    BY DEF Links
  <1>7. /\ tangled'.creates = TangledIn(IdsOf(adds), Links)
        /\ tangled'.deletes = TangledIn(IdsOf(dels), Links)
    BY <1>3 DEF Tangled, TangledIn
  <1> DEFINE q == creates'
             d == deletes'
  <1>8. q = TopoSortRequests(adds, L, FALSE) /\ d = TopoSortRequests(dels, L, TRUE)
    BY <1>3
  <1> HIDE DEF q, d, L
  <1>9. DependenciesBefore(q, adds, L)
    BY <1>2, <1>5, <1>6, <1>8, CreatesInOrder
  <1>10. DependentsBefore(d, dels, L)
    BY <1>2, <1>5, <1>6, <1>8, DeletesInOrder
  <1> QED
    BY <1>2, <1>4, <1>7, <1>9, <1>10 DEF q, d, L, DependenciesBefore, DependentsBefore

LEMMA BeginListShape ==
  ASSUME Shape, NEW o, NEW p, NEW always, Begin(o, p, always), PlanShape(p)
  PROVE  ListShape'
  <1>1. /\ pc = "idle" /\ pc' \in {"idle", "links"} /\ plan' = p
        /\ (todoLinks' = <<>> \/ (pc' = "links" /\ todoLinks' = p.links))
        /\ created' = {} /\ UNCHANGED <<deletes, creates>>
    BY DEF Begin
  <1>2. deletes' = <<>> /\ creates' = <<>>
    BY <1>1 DEF Shape, ListShape
  <1>3. p.links \in Seq(Range(p.links))
    BY SeqRange DEF PlanShape
  <1>4. todoLinks' \in Seq(Range(plan'.links)) /\ (pc' # "links" => todoLinks' = <<>>)
    <2>1. CASE todoLinks' = <<>>
      BY <2>1
    <2>2. CASE pc' = "links" /\ todoLinks' = p.links
      BY <1>1, <1>3, <2>2
    <2> QED
      BY <1>1, <2>1, <2>2
  <1>5. deletes' \in Seq(PlanDeletes') /\ creates' \in Seq(PlanCreates')
    BY <1>2
  <1>6. created' \subseteq PlanCreates'
    BY <1>1
  <1> QED
    BY <1>1, <1>2, <1>4, <1>5, <1>6 DEF ListShape

LEMMA ListShapeNext ==
  ASSUME Shape, [EngineNext]_vars
  PROVE  ListShape'
  <1> USE DEF Shape, ListShape
  <1>1. ASSUME NEW c \in Comps, Up(c) PROVE ListShape'
    BY <1>1, UpPlan, BeginListShape DEF Up
  <1>2. ASSUME NEW k \in DOMAIN deployments, Rollback(k) PROVE ListShape'
    <2>1. PICK p : PlanShape(p) /\ Begin([kind |-> "rollback", to |-> k], p, TRUE)
      BY <1>2, RollbackPlanned DEF Shape
    <2> QED
      BY <2>1, BeginListShape
  <1>3. CASE PersistLink
    <2>1. Tail(todoLinks) \in Seq(Range(plan.links))
      BY <1>3, HeadTailProperties DEF PersistLink
    <2> QED
      BY <1>3, <2>1 DEF PersistLink, PlanCreates, PlanDeletes, ghostVars
  <1>4. CASE OrderRequests
    <2>1. creates' \in Seq(PlanCreates) /\ deletes' \in Seq(PlanDeletes)
      BY <1>4, OrderingIs
    <2> QED
      BY <1>4, <2>1 DEF OrderRequests, PlanCreates, PlanDeletes
  <1>5. CASE DeleteNext \/ DeletesDone
    BY <1>5 DEF DeleteNext, DeletesDone, PlanCreates, PlanDeletes, ghostVars
  <1>6. CASE DeleteFails \/ Unlink
    <2>1. deletes # <<>> /\ deletes' = Tail(deletes)
      BY <1>6 DEF DeleteFails, Unlink
    <2>2. deletes' \in Seq(PlanDeletes)
      BY <2>1, HeadTailProperties
    <2> QED
      BY <1>6, <2>2 DEF DeleteFails, Unlink, PlanCreates, PlanDeletes, ghostVars
  <1>7. CASE PersistLinkFails \/ DeletesCancelled \/ RollbackDone \/ Finish \/ Crash
    <2>1. Return(result') /\ created' = created /\ plan' = plan
      BY <1>7 DEF PersistLinkFails, DeletesCancelled, RollbackDone, Finish, Crash, Return,
       ghostVars
    <2> QED
      BY <2>1 DEF Return, PlanCreates, PlanDeletes
  <1>8. CASE CreateNext \/ CreateFails
    BY <1>8 DEF CreateNext, CreateFails, PlanCreates, PlanDeletes, ghostVars
  <1>9. CASE CreatesCancelled \/ RecordError \/ WaitFails
    BY <1>9 DEF CreatesCancelled, RecordError, WaitFails, PlanCreates, PlanDeletes, ghostVars
  <1>10. CASE RecordSuccess
    <2>1. Head(creates) \in PlanCreates /\ Tail(creates) \in Seq(PlanCreates)
      BY <1>10, HeadKnown DEF RecordSuccess
    <2> QED
      BY <1>10, <2>1 DEF RecordSuccess, PlanCreates, PlanDeletes
  <1>11. CASE WaitMet
    <2>1. Tail(creates) \in Seq(PlanCreates)
      BY <1>11, HeadKnown DEF WaitMet
    <2> QED
      BY <1>11, <2>1 DEF WaitMet, PlanCreates, PlanDeletes
  <1>12. CASE RollbackNext \/ RollbackFails \/ RollbackUnlink
    BY <1>12 DEF RollbackNext, RollbackFails, RollbackUnlink, PlanCreates, PlanDeletes, ghostVars
  <1>13. CASE Cancel \/ \E p \in Projects : Teardown(p)
    BY <1>13 DEF Cancel, Teardown, PlanCreates, PlanDeletes, ctlVars, ghostVars
  <1>14. CASE (\E i \in Ids : BecomeHealthy(i) \/ Exit(i, "done") \/ Exit(i, "failed")) \/ UNCHANGED vars
    BY <1>14 DEF BecomeHealthy, Exit, vars, PlanCreates, PlanDeletes, ctlVars, ghostVars
  <1> QED
    BY <1>1, <1>2, <1>3, <1>4, <1>5, <1>6, <1>7, <1>8, <1>9, <1>10, <1>11, <1>12, <1>13, <1>14
       DEF EngineNext, EngineStep

\* One link is stored, the links of one resource are dropped, or none change.
LEMMA AddsLink ==
  ASSUME StoreShape, NEW l, l \in Ids \X Ids, AddLink(l[1], l[2])
  PROVE  Links' = Links \cup {l}
  <1>1. bySource' = [bySource EXCEPT ![l[1]] = @ \cup {l[2]}]
    BY DEF AddLink
  <1>2. bySource \in [Ids -> SUBSET Ids]
    BY DEF StoreShape
  <1>3. \A s \in Ids : bySource'[s] = bySource[s] \cup (IF s = l[1] THEN {l[2]} ELSE {})
    BY <1>1, <1>2
  <1>4. l = <<l[1], l[2]>> /\ l[1] \in Ids /\ l[2] \in Ids
    OBVIOUS
  <1>5. \A k \in Ids \X Ids : k[2] \in bySource'[k[1]] <=> k[2] \in bySource[k[1]] \/ k = l
    <2>1. ASSUME NEW k \in Ids \X Ids
          PROVE  k[2] \in bySource'[k[1]] <=> k[2] \in bySource[k[1]] \/ k = l
      <3>1. k = <<k[1], k[2]>> /\ k[1] \in Ids
        OBVIOUS
      <3>2. (k[1] = l[1] /\ k[2] = l[2]) <=> k = l
        BY <1>4, <3>1
      <3> QED
        BY <1>3, <3>1, <3>2
    <2> QED
      BY <2>1
  <1> QED
    BY <1>5 DEF Links

LEMMA DropsLinks ==
  ASSUME StoreShape, NEW r, RemoveLink(r)
  PROVE  Links' \subseteq Links /\ \A t \in Ids : byTarget'[t] \subseteq byTarget[t]
  <1>1. \A s \in Ids : bySource'[s] \subseteq bySource[s]
    BY DEF StoreShape, RemoveLink
  <1>2. \A t \in Ids : byTarget'[t] \subseteq byTarget[t]
    BY DEF RemoveLink
  <1>3. Links' \subseteq Links
    <2>1. ASSUME NEW l \in Links' PROVE l \in Links
      <3>1. l \in Ids \X Ids /\ l[2] \in bySource'[l[1]] /\ l[1] \in Ids
        BY <2>1 DEF Links
      <3> QED
        BY <1>1, <3>1 DEF Links
    <2> QED
      BY <2>1
  <1> QED
    BY <1>2, <1>3

LEMMA HeadOrTail ==
  ASSUME NEW S, NEW q \in Seq(S), q # <<>>
  PROVE  /\ Head(q) \in S /\ Head(q) \in Range(q) /\ Tail(q) \in Seq(S)
         /\ Range(q) = {Head(q)} \cup Range(Tail(q))
  <1>1. /\ Head(q) = q[1] /\ Tail(q) \in Seq(S) /\ Len(q) \in Nat \ {0}
        /\ Len(Tail(q)) = Len(q) - 1 /\ \A i \in 1..Len(Tail(q)) : Tail(q)[i] = q[i + 1]
    BY HeadTailProperties, EmptySeq
  <1>2. DOMAIN q = 1..Len(q) /\ DOMAIN Tail(q) = 1..Len(Tail(q)) /\ 1 \in DOMAIN q
    BY <1>1, SeqRange
  <1>3. \A i \in DOMAIN q : q[i] \in S /\ (i = 1 \/ i - 1 \in DOMAIN Tail(q))
    BY <1>1, <1>2, ElementOfSeq
  <1>4. ASSUME NEW i \in DOMAIN q PROVE q[i] = Head(q) \/ q[i] \in Range(Tail(q))
    <2>1. CASE i = 1
      BY <1>1, <2>1
    <2>2. CASE i - 1 \in DOMAIN Tail(q)
      <3>1. i \in Nat /\ Tail(q)[i - 1] = q[(i - 1) + 1]
        BY <1>1, <1>2, <2>2
      <3>2. (i - 1) + 1 = i
        BY <3>1
      <3>3. Tail(q)[i - 1] = q[i]
        BY <3>1, <3>2
      <3> QED
        BY <2>2, <3>3 DEF Range
    <2> QED
      BY <1>3, <2>1, <2>2
  <1>5. ASSUME NEW i \in DOMAIN Tail(q) PROVE Tail(q)[i] \in Range(q)
    <2>1. i + 1 \in DOMAIN q /\ Tail(q)[i] = q[i + 1]
      BY <1>1, <1>2
    <2> QED
      BY <2>1 DEF Range
  <1> QED
    BY <1>1, <1>2, <1>3, <1>4, <1>5 DEF Range

LEMMA PersistShapeNext ==
  ASSUME Shape, [EngineNext]_vars
  PROVE  PersistShape'
  <1>1. CASE UNCHANGED <<pc, plan, todoLinks, bySource>>
    BY <1>1 DEF Shape, PersistShape, Links
  <1>2. CASE pc' # "links"
    BY <1>2 DEF PersistShape
  <1>3. ASSUME NEW o, NEW p, NEW always, Begin(o, p, always), PlanShape(p)
        PROVE  PersistShape'
    <2>1. plan' = p /\ (pc' = "links" => todoLinks' = p.links)
      BY <1>3 DEF Begin
    <2> QED
      BY <2>1 DEF PersistShape
  <1>4. ASSUME NEW c \in Comps, Up(c) PROVE PersistShape'
    BY <1>3, <1>4, UpPlan DEF Up
  <1>5. ASSUME NEW k \in DOMAIN deployments, Rollback(k) PROVE PersistShape'
    <2>1. PICK p : PlanShape(p) /\ Begin([kind |-> "rollback", to |-> k], p, TRUE)
      BY <1>5, RollbackPlanned DEF Shape
    <2> QED
      BY <1>3, <2>1
  <1>6. CASE PersistLink
    <2> DEFINE h == Head(todoLinks)
    <2>1. /\ todoLinks # <<>> /\ AddLink(h[1], h[2]) /\ todoLinks' = Tail(todoLinks)
          /\ pc = "links" /\ UNCHANGED <<plan>>
      BY <1>6 DEF PersistLink
    <2>2. todoLinks \in Seq(Range(plan.links)) /\ plan.links \in Seq(Ids \X Ids)
      BY DEF Shape, ListShape, PlannedShape, PlanShape
    <2>3. h \in Range(plan.links) /\ Range(todoLinks) = {h} \cup Range(todoLinks')
      BY <2>1, <2>2, HeadOrTail
    <2>4. h \in Ids \X Ids
      BY <2>2, <2>3, SeqRange
    <2> HIDE DEF h
    <2>5. Links' = Links \cup {h}
      BY <2>1, <2>4, AddsLink DEF Shape
    <2>6. \A l \in Range(plan.links) : l \in Links \/ l \in Range(todoLinks)
      BY <2>1 DEF Shape, PersistShape
    <2> QED
      BY <2>1, <2>3, <2>5, <2>6 DEF PersistShape
  <1>7. CASE OrderRequests \/ DeleteNext \/ DeleteFails \/ PersistLinkFails
             \/ DeletesCancelled \/ DeletesDone
    BY <1>2, <1>7 DEF OrderRequests, DeleteNext, DeleteFails, PersistLinkFails,
       DeletesCancelled, DeletesDone, Return
  <1>8. CASE Unlink \/ CreateNext \/ CreateFails \/ CreatesCancelled \/ WaitMet \/ WaitFails
    BY <1>2, <1>8 DEF Unlink, CreateNext, CreateFails, CreatesCancelled, WaitMet, WaitFails
  <1>9. CASE RecordSuccess \/ RecordError \/ RollbackNext \/ RollbackFails \/ RollbackUnlink
    BY <1>2, <1>9 DEF RecordSuccess, RecordError, RollbackNext, RollbackFails, RollbackUnlink
  <1>10. CASE RollbackDone \/ Finish \/ Crash
    BY <1>2, <1>10 DEF RollbackDone, Finish, Crash, Return
  <1>11. CASE Cancel \/ \E p \in Projects : Teardown(p)
    BY <1>1, <1>11 DEF Cancel, Teardown, dbVars, ctlVars
  <1>12. CASE (\E i \in Ids : BecomeHealthy(i) \/ Exit(i, "done") \/ Exit(i, "failed")) \/ UNCHANGED vars
    BY <1>1, <1>12 DEF BecomeHealthy, Exit, vars, dbVars, ctlVars
  <1> QED
    BY <1>4, <1>5, <1>6, <1>7, <1>8, <1>9, <1>10, <1>11, <1>12 DEF EngineNext, EngineStep

LEMMA ShapeInit == EngineInit => Shape
  <1> SUFFICES ASSUME EngineInit PROVE Shape
    OBVIOUS
  <1>1. StoreShape
    <2>1. deployments = <<>> /\ Range(deployments) = {}
      BY DEF EngineInit, DBInit, Range
    <2> QED
      BY <2>1 DEF EngineInit, DBInit, StoreShape
  <1>2. RuntimeShape
    BY DEF EngineInit, RuntimeShape
  <1>3. plan.requests = <<>> /\ plan.links = <<>> /\ plan.conditions = {} /\ op.kind = "none"
    BY DEF EngineInit, NoPlan, NoOp
  <1>4. Range(plan.requests) = {} /\ Range(plan.links) = {}
    BY <1>3 DEF Range
  <1>5. PlannedShape
    BY <1>3, <1>4 DEF PlannedShape, PlanShape, RequestsKnown
  <1>6. ListShape
    BY DEF EngineInit, ListShape
  <1>7. PersistShape
    BY DEF EngineInit, PersistShape
  <1> QED
    BY <1>1, <1>2, <1>5, <1>6, <1>7 DEF Shape

LEMMA ShapeNext == Shape /\ [EngineNext]_vars => Shape'
BY StoreShapeNext, RuntimeShapeNext, PlannedShapeNext, ListShapeNext, PersistShapeNext DEF Shape

(***************************************************************************)
(* The apply works on a plan of known requests, and its lists hold nothing *)
(* else: whatever is planned, stored, recorded or running stems from a     *)
(* composition (engine.go:43-137, apply.go:18-125, request.go:30-108).     *)
(***************************************************************************)
THEOREM ShapeHolds == EngineSpec => []Shape
BY ShapeInit, ShapeNext, PTL DEF EngineSpec

----------------------------------------------------------------------------
(***************************************************************************)
(* Order.                                                                  *)
(***************************************************************************)
LEMMA TailPlaces ==
  ASSUME NEW S, NEW q \in Seq(S), q # <<>>
  PROVE  /\ \A i \in DOMAIN Tail(q) : i \in Nat /\ i + 1 \in DOMAIN q /\ Tail(q)[i] = q[i + 1]
         /\ IdsOf(q) = {Head(q).id} \cup IdsOf(Tail(q))
         /\ 1 \in DOMAIN q /\ Head(q) = q[1] /\ \A i \in DOMAIN q : i \in Nat /\ 1 <= i
  <1>1. /\ Head(q) = q[1] /\ Tail(q) \in Seq(S) /\ Len(q) \in Nat \ {0}
        /\ Len(Tail(q)) = Len(q) - 1 /\ \A i \in 1..Len(Tail(q)) : Tail(q)[i] = q[i + 1]
    BY HeadTailProperties, EmptySeq
  <1>2. DOMAIN q = 1..Len(q) /\ DOMAIN Tail(q) = 1..Len(Tail(q)) /\ 1 \in DOMAIN q
    BY <1>1, SeqRange
  <1>3. IdsOf(q) = {r.id : r \in Range(q)}
    BY IdsOfFinite
  <1>4. IdsOf(Tail(q)) = {r.id : r \in Range(Tail(q))}
    BY <1>1, IdsOfFinite
  <1>5. Range(q) = {Head(q)} \cup Range(Tail(q))
    BY HeadOrTail
  <1>6. \A i \in DOMAIN Tail(q) : i \in Nat /\ i + 1 \in DOMAIN q /\ Tail(q)[i] = q[i + 1]
    BY <1>1, <1>2
  <1> QED
    BY <1>1, <1>2, <1>3, <1>4, <1>5, <1>6

LEMMA CreatedIdsOf == PlanCreates = {r \in Range(plan.requests) : IsCreate(r)} /\
                      \A id : HasCreate(plan, id) <=> id \in {r.id : r \in PlanCreates}
BY DEF PlanCreates, HasCreate

\* Nothing happens to the lists.
LEMMA OrderSame ==
  ASSUME OrderInv, UNCHANGED <<plan, creates, created, tangled, deletes>>, Links' \subseteq Links,
         pc' \in Executing => pc \in Executing, pc' = "wait" => pc = "wait"
  PROVE  OrderInv'
BY DEF OrderInv, PlanCreates, CreatedIds, BothTangled, HasCreate, DependentsDeletedFirst

\* The apply is over, or rolls back.
LEMMA OrderStops ==
  ASSUME OrderInv, UNCHANGED <<plan, created, tangled>>, creates' = <<>>, deletes' = <<>>,
         pc' \notin Executing
  PROVE  OrderInv'
  <1>1. pc' # "wait" /\ DOMAIN creates' = {} /\ DOMAIN deletes' = {}
    BY DEF Executing
  <1> QED
    BY <1>1 DEF OrderInv, CreatedIds, BothTangled, HasCreate, DependentsDeletedFirst

LEMMA OrderBegins ==
  ASSUME Shape, NEW o, NEW p, NEW always, Begin(o, p, always)
  PROVE  OrderInv'
  <1>1. /\ pc = "idle" /\ pc' \notin Executing /\ pc' # "wait"
        /\ created' = {} /\ creates' = creates /\ deletes' = deletes
    BY DEF Begin, Executing
  <1>2. DOMAIN creates' = {} /\ DOMAIN deletes' = {}
    BY <1>1 DEF Shape, ListShape
  <1> QED
    BY <1>1, <1>2 DEF OrderInv, CreatedIds, DependentsDeletedFirst

LEMMA OrderOrders ==
  ASSUME Shape, OrderRequests
  PROVE  OrderInv'
  <1> DEFINE ids == {r.id : r \in PlanCreates}
  <1>1. /\ creates' \in Seq(PlanCreates) /\ IdsOf(creates') = ids
        /\ \A i, j \in DOMAIN creates' :
              i < j /\ <<creates'[i].id, creates'[j].id>> \in Links =>
                {creates'[i].id, creates'[j].id} \subseteq tangled'.creates
        /\ tangled'.creates = TangledIn(ids, Links)
        /\ \A i, j \in DOMAIN deletes' :
              i < j /\ <<deletes'[j].id, deletes'[i].id>> \in Links =>
                {deletes'[i].id, deletes'[j].id} \subseteq tangled'.deletes
    BY OrderingIs
  <1>2. /\ pc = "links" /\ pc' = "deletes" /\ todoLinks = <<>> /\ Links' = Links
        /\ plan' = plan /\ created' = created
    BY DEF OrderRequests, dbVars, Links
  <1>3. created = {} /\ CreatedIds' = {}
    BY <1>2 DEF Shape, ListShape, CreatedIds
  <1>4. \A l \in Range(plan.links) : l \in Links
    BY <1>2 DEF Shape, PersistShape, Range
  <1>5. ASSUME NEW x \in ids, <<x, x>> \in Links PROVE x \in tangled'.creates
    <2>1. {x} \in SUBSET ids /\ \A i \in {x} : \E j \in {x} : <<i, j>> \in Links
      BY <1>5
    <2>2. {x} \subseteq TangledIn(ids, Links)
      <3> HIDE DEF ids
      <3> QED
        BY <2>1 DEF TangledIn
    <2> QED
      BY <1>1, <2>2
  <1>6. \A i \in DOMAIN creates' : creates'[i].id \in ids /\ i \in Nat
    <2>1. \A i \in DOMAIN creates' : i \in Nat /\ creates'[i] \in PlanCreates
      BY <1>1, SeqRange, ElementOfSeq
    <2> QED
      BY <2>1
  <1>7. ASSUME NEW i \in DOMAIN creates', NEW j \in DOMAIN creates', i <= j,
               <<creates'[i].id, creates'[j].id>> \in Range(plan.links)
        PROVE  {creates'[i].id, creates'[j].id} \subseteq tangled'.creates
    <2>1. <<creates'[i].id, creates'[j].id>> \in Links
      BY <1>4, <1>7
    <2>2. CASE i = j
      BY <1>5, <1>6, <2>1, <2>2
    <2>3. CASE i < j
      BY <1>1, <2>1, <2>3
    <2> QED
      BY <1>6, <1>7, <2>2, <2>3
  <1>8. DependentsDeletedFirst'
    BY <1>1, <1>2 DEF DependentsDeletedFirst
  <1>9. {r.id : r \in PlanCreates'} = IdsOf(creates') \cup CreatedIds'
    BY <1>1, <1>2, <1>3 DEF PlanCreates
  <1>10. \A l \in Range(plan'.links) : l[1] \notin CreatedIds'
    BY <1>3
  <1> QED
    BY <1>2, <1>7, <1>8, <1>9, <1>10 DEF OrderInv

\* One delete less.
LEMMA OrderDeletes ==
  ASSUME Shape, OrderInv, UNCHANGED <<plan, creates, created, tangled>>, Links' \subseteq Links,
         deletes # <<>>, deletes' = Tail(deletes), pc' = "deletes", pc \in {"deletes", "unlink"}
  PROVE  OrderInv'
  <1>1. pc \in Executing /\ pc' # "wait"
    BY DEF Executing
  <1>2. deletes \in Seq(PlanDeletes)
    BY DEF Shape, ListShape
  <1>3. \A i \in DOMAIN deletes' : i \in Nat /\ i + 1 \in DOMAIN deletes /\ deletes'[i] = deletes[i + 1]
    BY <1>2, TailPlaces
  <1>4. DependentsDeletedFirst'
    <2> SUFFICES ASSUME NEW i \in DOMAIN deletes', NEW j \in DOMAIN deletes', i < j,
                        <<deletes'[j].id, deletes'[i].id>> \in Links'
                 PROVE  {deletes'[i].id, deletes'[j].id} \subseteq tangled'.deletes
      BY DEF DependentsDeletedFirst
    <2>1. i + 1 \in DOMAIN deletes /\ j + 1 \in DOMAIN deletes /\ i + 1 < j + 1
      BY <1>3
    <2>2. <<deletes[j + 1].id, deletes[i + 1].id>> \in Links
      BY <1>3
    <2> QED
      BY <1>3, <2>1, <2>2 DEF OrderInv, DependentsDeletedFirst
  <1>5. PlanCreates' = PlanCreates /\ CreatedIds' = CreatedIds /\ IdsOf(creates') = IdsOf(creates)
    BY DEF PlanCreates, CreatedIds
  <1>6. \A l : /\ BothTangled(l)' <=> BothTangled(l)
               /\ HasCreate(plan', l[2]) <=> HasCreate(plan, l[2])
    BY DEF BothTangled
  <1> QED
    BY <1>1, <1>4, <1>5, <1>6 DEF OrderInv

\* The first of the creates depends on what is created, or on a cycle.
LEMMA FirstInOrder ==
  ASSUME Shape, OrderInv, pc \in Executing, creates # <<>>, NEW l \in Range(plan.links),
         l[1] = Head(creates).id, HasCreate(plan, l[2])
  PROVE  l[2] \in CreatedIds \/ BothTangled(l)
  <1>1. l[2] \in IdsOf(creates) \cup CreatedIds
    BY CreatedIdsOf DEF OrderInv
  <1>2. creates \in Seq(PlanCreates)
    BY DEF Shape, ListShape
  <1>3. ASSUME NEW j \in DOMAIN creates, creates[j].id = l[2] PROVE BothTangled(l)
    <2>1. 1 \in DOMAIN creates /\ Head(creates) = creates[1] /\ 1 <= j
      BY <1>2, TailPlaces
    <2>2. l = <<l[1], l[2]>>
      <3>1. l \in Ids \X Ids
        BY SeqRange DEF Shape, PlannedShape, PlanShape
      <3> QED
        BY <3>1
    <2>3. <<creates[1].id, creates[j].id>> \in Range(plan.links)
      BY <1>3, <2>1, <2>2
    <2> QED
      BY <1>3, <2>1, <2>3 DEF OrderInv, BothTangled
  <1> QED
    BY <1>1, <1>3 DEF IdsOf

\* Nothing but the first leaves the creates, and only once it is created.
LEMMA OrderCreates ==
  ASSUME Shape, OrderInv, UNCHANGED <<plan, tangled, deletes>>, Links' = Links,
         pc \in {"record", "wait"}, pc' \in {"creates", "wait"},
         created' = created \cup {Head(creates)},
         creates' = Tail(creates) \/ creates' = creates,
         pc' = "wait" => creates' = creates
  PROVE  OrderInv'
  <1>1. creates # <<>> /\ creates \in Seq(PlanCreates) /\ pc \in Executing /\ pc' \in Executing
    BY DEF Shape, ListShape, Executing
  <1>2. CreatedIds' = CreatedIds \cup {Head(creates).id}
    BY DEF CreatedIds
  <1>3. PlanCreates' = PlanCreates
    BY DEF PlanCreates
  <1>4. /\ \A i \in DOMAIN Tail(creates) :
             i \in Nat /\ i + 1 \in DOMAIN creates /\ Tail(creates)[i] = creates[i + 1]
        /\ IdsOf(creates) = {Head(creates).id} \cup IdsOf(Tail(creates))
    BY <1>1, TailPlaces
  <1>5. {r.id : r \in PlanCreates'} = IdsOf(creates') \cup CreatedIds'
    <2>1. {r.id : r \in PlanCreates} = IdsOf(creates) \cup CreatedIds
      BY <1>1 DEF OrderInv
    <2> HIDE DEF PlanCreates
    <2>2. {r.id : r \in PlanCreates'} = {r.id : r \in PlanCreates}
      BY <1>3
    <2>3. CASE creates' = creates
      <3>1. IdsOf(creates') = IdsOf(creates)
        BY <2>3
      <3> QED
        BY <1>2, <1>4, <2>1, <2>2, <3>1
    <2>4. CASE creates' = Tail(creates)
      <3>1. IdsOf(creates') = IdsOf(Tail(creates))
        BY <2>4
      <3> QED
        BY <1>2, <1>4, <2>1, <2>2, <3>1
    <2> QED
      BY <2>3, <2>4
  <1>6. ASSUME NEW i \in DOMAIN creates', NEW j \in DOMAIN creates', i <= j,
               <<creates'[i].id, creates'[j].id>> \in Range(plan'.links)
        PROVE  {creates'[i].id, creates'[j].id} \subseteq tangled'.creates
    <2>1. CASE creates' = creates
      BY <1>6, <2>1 DEF OrderInv
    <2>2. CASE creates' = Tail(creates)
      <3>1. i + 1 \in DOMAIN creates /\ j + 1 \in DOMAIN creates /\ i + 1 <= j + 1
        BY <1>4, <1>6, <2>2
      <3>2. creates'[i] = creates[i + 1] /\ creates'[j] = creates[j + 1]
        BY <1>4, <1>6, <2>2
      <3> QED
        BY <1>6, <3>1, <3>2 DEF OrderInv
    <2> QED
      BY <2>1, <2>2
  <1>7. ASSUME NEW l \in Range(plan.links), l[1] \in CreatedIds', HasCreate(plan, l[2])
        PROVE  l[2] \in CreatedIds' \/ BothTangled(l)
    <2>1. CASE l[1] \in CreatedIds
      BY <1>2, <1>7, <2>1 DEF OrderInv
    <2>2. CASE l[1] = Head(creates).id
      BY <1>1, <1>2, <1>7, <2>2, FirstInOrder
    <2> QED
      BY <1>2, <1>7, <2>1, <2>2
  <1>8. DependentsDeletedFirst'
    BY DEF OrderInv, DependentsDeletedFirst
  <1>9. \A l \in Range(plan'.links) :
          l[1] \in CreatedIds' /\ HasCreate(plan', l[2]) =>
            l[2] \in CreatedIds' \/ {l[1], l[2]} \subseteq tangled'.creates
    BY <1>7 DEF BothTangled, HasCreate
  <1>10. pc' = "wait" => Head(creates') \in created'
    OBVIOUS
  <1> QED
    BY <1>5, <1>6, <1>8, <1>9, <1>10 DEF OrderInv, BothTangled, HasCreate

LEMMA OrderNext ==
  ASSUME Shape, OrderInv, [EngineNext]_vars
  PROVE  OrderInv'
  <1>1. ASSUME NEW c \in Comps, Up(c) PROVE OrderInv'
    BY <1>1, OrderBegins DEF Up
  <1>2. ASSUME NEW k \in DOMAIN deployments, Rollback(k) PROVE OrderInv'
    BY <1>2, OrderBegins DEF Rollback
  <1>3. CASE PersistLink
    <2>1. pc = "links" /\ pc' = pc /\ UNCHANGED <<plan, creates, created, tangled, deletes>>
      BY <1>3 DEF PersistLink, ghostVars
    <2>2. creates = <<>> /\ deletes = <<>> /\ created = {}
      BY <2>1 DEF Shape, ListShape
    <2>3. pc' \notin Executing
      BY <2>1 DEF Executing
    <2> QED
      BY <2>1, <2>2, <2>3, OrderStops
  <1>4. CASE OrderRequests
    BY <1>4, OrderOrders
  <1>5. CASE UNCHANGED <<pc, plan, creates, created, tangled, deletes, bySource>>
    BY <1>5, OrderSame DEF Links
  <1>6. CASE DeleteNext \/ DeletesDone \/ CreateNext \/ CreateFails
    <2>1. UNCHANGED <<plan, creates, created, tangled, deletes, bySource>>
      BY <1>6 DEF DeleteNext, DeletesDone, CreateNext, CreateFails, dbVars, ghostVars
    <2>2. pc \in Executing /\ pc' # "wait"
      BY <1>6 DEF DeleteNext, DeletesDone, CreateNext, CreateFails, Executing
    <2> QED
      BY <2>1, <2>2, OrderSame DEF Links
  <1>7. CASE DeleteFails
    BY <1>7, OrderDeletes DEF DeleteFails, dbVars, Links
  <1>8. CASE Unlink
    <2>1. Links' \subseteq Links
      <3>1. CASE RemoveLink(Head(deletes).id)
        BY <3>1, DropsLinks DEF Shape
      <3>2. CASE UNCHANGED dbVars
        BY <3>2 DEF dbVars, Links
      <3> QED
        BY <1>8, <3>1, <3>2 DEF Unlink, RemoveLinkOrWarn
    <2>2. deletes # <<>>
      BY <1>8 DEF Unlink, Shape, ListShape
    <2> QED
      BY <1>8, <2>1, <2>2, OrderDeletes DEF Unlink, ghostVars
  <1>9. CASE PersistLinkFails \/ DeletesCancelled \/ RollbackDone \/ Finish \/ Crash
    <2>1. Return(result') /\ UNCHANGED <<created, tangled>>
      BY <1>9 DEF PersistLinkFails, DeletesCancelled, RollbackDone, Finish, Crash, Return,
       ghostVars
    <2>2. pc' \notin Executing
      BY <2>1 DEF Return, Executing
    <2> QED
      BY <2>1, <2>2, OrderStops DEF Return
  <1>10. CASE CreatesCancelled \/ RecordError \/ WaitFails
    <2>1. /\ pc \notin {"deletes", "unlink"} /\ pc' = "rollback" /\ creates' = <<>>
          /\ UNCHANGED <<plan, deletes, created, tangled>>
      BY <1>10 DEF CreatesCancelled, RecordError, WaitFails, ghostVars
    <2>2. pc' \notin Executing /\ deletes' = <<>>
      BY <2>1 DEF Shape, ListShape, Executing
    <2> QED
      BY <2>1, <2>2, OrderStops
  <1>11. CASE RecordSuccess
    <2>1. Links' = Links
      BY <1>11 DEF RecordSuccess, SaveOrWarn, SaveRollout, dbVars, Links
    <2>2. /\ UNCHANGED <<plan, tangled, deletes>> /\ pc = "record" /\ pc' \in {"creates", "wait"}
          /\ created' = created \cup {Head(creates)}
          /\ (creates' = Tail(creates) \/ creates' = creates)
          /\ (pc' = "wait" => creates' = creates)
      BY <1>11 DEF RecordSuccess
    <2> QED
      BY <2>1, <2>2, OrderCreates
  <1>12. CASE WaitMet
    <2>1. Head(creates) \in created
      BY <1>12 DEF WaitMet, OrderInv
    <2>2. created' = created \cup {Head(creates)}
      BY <1>12, <2>1 DEF WaitMet
    <2> QED
      BY <1>12, <2>2, OrderCreates DEF WaitMet, dbVars, Links
  <1>13. CASE RollbackNext \/ RollbackFails \/ RollbackUnlink
    <2>1. /\ pc \in {"rollback", "rollbackUnlink"} /\ pc' \in {"rollback", "rollbackUnlink"}
          /\ UNCHANGED <<plan, creates, created, tangled, deletes>>
      BY <1>13 DEF RollbackNext, RollbackFails, RollbackUnlink, ghostVars
    <2>2. creates = <<>> /\ deletes = <<>> /\ pc' \notin Executing
      BY <2>1 DEF Shape, ListShape, Executing
    <2> QED
      BY <2>1, <2>2, OrderStops
  <1>14. CASE Cancel \/ \E p \in Projects : Teardown(p)
    BY <1>5, <1>14 DEF Cancel, Teardown, dbVars, ctlVars, ghostVars
  <1>15. CASE (\E i \in Ids : BecomeHealthy(i) \/ Exit(i, "done") \/ Exit(i, "failed")) \/ UNCHANGED vars
    BY <1>5, <1>15 DEF BecomeHealthy, Exit, vars, dbVars, ctlVars, ghostVars
  <1> QED
    BY <1>1, <1>2, <1>3, <1>4, <1>6, <1>7, <1>8, <1>9, <1>10, <1>11, <1>12, <1>13, <1>14, <1>15
       DEF EngineNext, EngineStep

LEMMA OrderInit == EngineInit => OrderInv
  <1> SUFFICES ASSUME EngineInit PROVE OrderInv
    OBVIOUS
  <1>1. creates = <<>> /\ deletes = <<>> /\ created = {} /\ pc = "idle"
    BY DEF EngineInit
  <1> QED
    BY <1>1 DEF OrderInv, CreatedIds, DependentsDeletedFirst, Executing

(***************************************************************************)
(* Creates follow what they depend on and deletes precede it, whatever the *)
(* compositions, the stored links and the failures: only requests on a     *)
(* cycle, or that depend on one, escape the order (apply.go:68-111,        *)
(* 150-244).                                                               *)
(***************************************************************************)
THEOREM Order == EngineSpec => []OrderRespected
  <1>1. ASSUME Shape, OrderInv PROVE OrderRespected
    <2>1. DependentsDeletedFirst
      BY <1>1 DEF OrderInv
    <2>2. DependenciesFirst
      <3> SUFFICES ASSUME pc # "idle", NEW l \in Range(plan.links), l[1] \in StartedIds,
                          HasCreate(plan, l[2])
                   PROVE  l[2] \in CreatedIds \/ BothTangled(l)
        BY DEF DependenciesFirst, CreatedIds, BothTangled
      <3>1. CASE l[1] \in CreatedIds
        BY <1>1, <3>1 DEF OrderInv
      <3>2. CASE pc \in {"record", "recordErr"} /\ l[1] = Head(creates).id
        <4>1. pc \in Executing /\ creates # <<>>
          BY <1>1, <3>2 DEF Executing, Shape, ListShape
        <4> QED
          BY <1>1, <3>2, <4>1, FirstInOrder
      <3> QED
        BY <3>1, <3>2 DEF StartedIds, CreatedIds
    <2> QED
      BY <2>1, <2>2 DEF OrderRespected
  <1> QED
    BY <1>1, ShapeInit, ShapeNext, OrderInit, OrderNext, PTL DEF EngineSpec

----------------------------------------------------------------------------
(***************************************************************************)
(* Conditions.                                                             *)
(***************************************************************************)
LEMMA StrictestIs ==
  ASSUME NEW conds, conds # {}
  PROVE  /\ Strictest(conds) \in conds
         /\ \A d \in conds : CondPriority(Strictest(conds)) >= CondPriority(d)
  <1> DEFINE S == {3 - CondPriority(c) : c \in conds}
  <1>1. \A c \in conds : CondPriority(c) \in 0..3
    BY DEF CondPriority
  <1>2. S \subseteq Nat /\ S # {}
    BY <1>1
  <1>3. PICK n \in S : n \in Nat /\ \A m \in Nat : m < n => m \notin S
    <2> HIDE DEF S
    <2> QED
      BY <1>2, LeastNumber
  <1>4. PICK c \in conds : n = 3 - CondPriority(c)
    BY <1>3
  <1>5. ASSUME NEW d \in conds PROVE CondPriority(c) >= CondPriority(d)
    <2>1. 3 - CondPriority(d) \in S /\ 3 - CondPriority(d) \in Nat
      BY <1>2
    <2>2. ~(3 - CondPriority(d) < 3 - CondPriority(c))
      BY <1>3, <1>4, <2>1
    <2> QED
      BY <1>1, <2>2
  <1>6. \E x \in conds : \A d \in conds : CondPriority(x) >= CondPriority(d)
    BY <1>5
  <1> QED
    BY <1>6 DEF Strictest

LEMMA ConditionNoneCreated ==
  ASSUME created' = {}
  PROVE  ConditionInv'
BY DEF ConditionInv, CreatedIds

LEMMA ConditionSame ==
  ASSUME ConditionInv, UNCHANGED <<plan, created, tangled, observed>>,
         \/ pc' \in {"idle", "rollback", "rollbackUnlink"}
         \/ pc' = pc /\ UNCHANGED creates
         \/ pc \notin {"idle", "rollback", "rollbackUnlink", "wait"}
  PROVE  ConditionInv'
BY DEF ConditionInv, CreatedIds, Seen, BothTangled, HasCreate

LEMMA LinkOfCondition ==
  ASSUME Shape, NEW c \in plan.conditions
  PROVE  <<c[2], c[1]>> \in Range(plan.links)
BY DEF Shape, PlannedShape, PlanShape

\* What a request that is executed now depends on was seen to be as it should.
LEMMA FirstMayStart ==
  ASSUME Shape, OrderInv, ConditionInv, pc \in {"record", "recordErr"}, NEW c \in plan.conditions,
         c[2] = Head(creates).id, HasCreate(plan, c[1])
  PROVE  Seen(c) \/ BothTangled(c)
  <1> DEFINE l == <<c[2], c[1]>>
  <1>1. l \in Range(plan.links) /\ l[1] = Head(creates).id /\ HasCreate(plan, l[2])
    BY LinkOfCondition
  <1>2. pc \in Executing /\ creates # <<>>
    BY DEF Shape, ListShape, Executing
  <1>3. l[2] \in CreatedIds \/ BothTangled(l)
    <2> HIDE DEF l
    <2> QED
      BY <1>1, <1>2, FirstInOrder
  <1>4. BothTangled(l) => BothTangled(c)
    BY DEF BothTangled
  <1>5. c[1] \in CreatedIds => Seen(c)
    BY DEF ConditionInv
  <1> QED
    BY <1>3, <1>4, <1>5

LEMMA ConditionRecordSuccess ==
  ASSUME Shape, OrderInv, ConditionInv, RecordSuccess
  PROVE  ConditionInv'
  <1> DEFINE h == Head(creates)
  <1>1. /\ pc = "record" /\ created' = created \cup {h}
        /\ pc' = (IF Awaited(h.id) # {} THEN "wait" ELSE "creates")
        /\ creates' = (IF Awaited(h.id) # {} THEN creates ELSE Tail(creates))
        /\ UNCHANGED <<plan, tangled, observed>>
    BY DEF RecordSuccess
  <1>2. CreatedIds' = CreatedIds \cup {h.id}
    BY <1>1 DEF CreatedIds
  <1>3. ASSUME NEW c \in plan.conditions, c[1] \in CreatedIds'
        PROVE  Seen(c) \/ (pc' = "wait" /\ c[1] = Head(creates').id)
    <2>1. CASE c[1] \in CreatedIds
      BY <1>1, <2>1 DEF ConditionInv
    <2>2. CASE c[1] = h.id
      <3>1. c[3] \in Awaited(h.id)
        BY <2>2 DEF Awaited
      <3> QED
        BY <1>1, <2>2, <3>1
    <2> QED
      BY <1>2, <1>3, <2>1, <2>2
  <1>4. ASSUME NEW c \in plan.conditions, c[2] \in CreatedIds', HasCreate(plan, c[1])
        PROVE  Seen(c) \/ BothTangled(c)
    <2>1. CASE c[2] \in CreatedIds
      BY <1>4, <2>1 DEF ConditionInv
    <2>2. CASE c[2] = h.id
      BY <1>1, <1>4, <2>2, FirstMayStart
    <2> QED
      BY <1>2, <1>4, <2>1, <2>2
  <1> HIDE DEF h
  <1> QED
    BY <1>1, <1>3, <1>4 DEF ConditionInv, Seen, BothTangled, HasCreate

LEMMA ConditionWaitMet ==
  ASSUME ConditionInv, WaitMet
  PROVE  ConditionInv'
  <1> DEFINE id == Head(creates).id
             cond == Strictest(Awaited(id))
  <1>1. /\ pc = "wait" /\ pc' = "creates" /\ observed' = observed \cup {<<id, cond>>}
        /\ UNCHANGED <<plan, created, tangled>>
    BY DEF WaitMet
  <1>2. ASSUME NEW c \in plan.conditions, c[1] = id
        PROVE  <<id, cond>>[1] = c[1] /\ CondPriority(<<id, cond>>[2]) >= CondPriority(c[3])
    <2>1. c[3] \in Awaited(id)
      BY <1>2 DEF Awaited
    <2>2. CondPriority(cond) >= CondPriority(c[3])
      BY <2>1, StrictestIs
    <2> QED
      BY <1>2, <2>2
  <1> HIDE DEF id, cond
  <1>3. \A c \in plan.conditions : Seen(c) \/ c[1] = id => Seen(c)'
    BY <1>1, <1>2 DEF Seen
  <1>4. CreatedIds' = CreatedIds
    BY <1>1 DEF CreatedIds
  <1> QED
    BY <1>1, <1>3, <1>4 DEF ConditionInv, BothTangled, HasCreate, id

LEMMA ConditionNext ==
  ASSUME Shape, OrderInv, ConditionInv, [EngineNext]_vars
  PROVE  ConditionInv'
  <1>1. ASSUME NEW c \in Comps, Up(c) PROVE ConditionInv'
    BY <1>1, ConditionNoneCreated DEF Up, Begin
  <1>2. ASSUME NEW k \in DOMAIN deployments, Rollback(k) PROVE ConditionInv'
    BY <1>2, ConditionNoneCreated DEF Rollback, Begin
  <1>3. CASE PersistLink \/ OrderRequests
    <2>1. created' = created /\ pc = "links"
      BY <1>3 DEF PersistLink, OrderRequests, ghostVars
    <2> QED
      BY <2>1, ConditionNoneCreated DEF Shape, ListShape
  <1>4. CASE DeleteNext \/ DeleteFails \/ Unlink \/ DeletesDone
    BY <1>4, ConditionSame DEF DeleteNext, DeleteFails, Unlink, DeletesDone, ghostVars
  <1>5. CASE PersistLinkFails \/ DeletesCancelled \/ RollbackDone \/ Finish \/ Crash
    BY <1>5, ConditionSame DEF PersistLinkFails, DeletesCancelled, RollbackDone, Finish,
       Crash, Return, ghostVars
  <1>6. CASE CreateNext \/ CreateFails
    BY <1>6, ConditionSame DEF CreateNext, CreateFails, ghostVars
  <1>7. CASE CreatesCancelled \/ RecordError \/ WaitFails
    BY <1>7, ConditionSame DEF CreatesCancelled, RecordError, WaitFails, ghostVars
  <1>8. CASE RollbackNext \/ RollbackFails \/ RollbackUnlink
    BY <1>8, ConditionSame DEF RollbackNext, RollbackFails, RollbackUnlink, ghostVars
  <1>9. CASE Cancel \/ \E p \in Projects : Teardown(p)
    BY <1>9, ConditionSame DEF Cancel, Teardown, ctlVars, ghostVars
  <1>10. CASE (\E i \in Ids : BecomeHealthy(i) \/ Exit(i, "done") \/ Exit(i, "failed")) \/ UNCHANGED vars
    BY <1>10, ConditionSame DEF BecomeHealthy, Exit, vars, ctlVars, ghostVars
  <1> QED
    BY <1>1, <1>2, <1>3, <1>4, <1>5, <1>6, <1>7, <1>8, <1>9, <1>10, ConditionRecordSuccess,
       ConditionWaitMet DEF EngineNext, EngineStep

LEMMA ConditionInit == EngineInit => ConditionInv
BY DEF EngineInit, ConditionInv, CreatedIds

(***************************************************************************)
(* Nothing with a condition on a resource of the same apply is executed    *)
(* before that condition, or a stricter one, was seen to hold, unless a    *)
(* cycle of links makes it impossible (conditions.go:22-54,                *)
(* apply.go:83-111).                                                       *)
(***************************************************************************)
THEOREM Conditions == EngineSpec => []ConditionsGate
  <1>1. ASSUME Shape, OrderInv, ConditionInv PROVE ConditionsGate
    <2> SUFFICES ASSUME pc # "idle", NEW c \in plan.conditions, c[2] \in StartedIds,
                        HasCreate(plan, c[1])
                 PROVE  Seen(c) \/ BothTangled(c)
      BY DEF ConditionsGate, Seen, BothTangled
    <2>1. CASE c[2] \in CreatedIds
      BY <1>1, <2>1 DEF ConditionInv
    <2>2. CASE pc \in {"record", "recordErr"} /\ c[2] = Head(creates).id
      BY <1>1, <2>2, FirstMayStart
    <2> QED
      BY <2>1, <2>2 DEF StartedIds, CreatedIds
  <1> QED
    BY <1>1, ShapeInit, ShapeNext, OrderInit, OrderNext, ConditionInit, ConditionNext,
       PTL DEF EngineSpec

----------------------------------------------------------------------------
(***************************************************************************)
(* What is destroyed.                                                      *)
(***************************************************************************)

\* What the reference check and the plan give when an `up` begins.
LEMMA DestroyBegins ==
  ASSUME StoreShape, NEW c \in Comps, Up(c)
  PROVE  DestroyInv'
  <1> DEFINE p == ComputePlan(Bridge(c), State)
  <1>1. Plans(Bridge(c), State, p) /\ PlanShape(p)
    BY UpPlan
  <1> HIDE DEF p
  <1>2. /\ plan' = p /\ UNCHANGED <<byTarget, rollouts>>
        /\ (pc' \in {"links", "deletes", "unlink"} => CheckReferences(p, State, byTarget))
    BY DEF p, Up, Begin, dbVars
  <1>3. \A i \in Ids : i \in DOMAIN State <=> rollouts[i] # NoRollout
    BY DEF State
  <1>4. ASSUME CheckReferences(p, State, byTarget), NEW r \in Range(p.requests), IsDelete(r),
               ~HasCreate(p, r.id), r.id \in Ids
        PROVE  /\ \A i \in byTarget[r.id] : rollouts[i] = NoRollout \/ HasDelete(p, i)
               /\ \A l \in Range(p.links) : l[2] # r.id
    <2>1. ~IsCreate(r)
      BY <1>4 DEF IsDelete, IsCreate
    <2>2. \A i \in byTarget[r.id] \cap DOMAIN State : HasDelete(p, i)
      BY <1>4, <2>1 DEF CheckReferences, CheckDeleteReferences, GetReferencesTo
    <2>3. byTarget[r.id] \subseteq Ids
      BY <1>4 DEF StoreShape
    <2>4. \A d \in Range(Bridge(c).requests) : d.id # r.id
      BY <1>1, <1>4, BridgeKnown DEF Plans
    <2>5. \A l \in Range(p.links) : l[2] # r.id
      BY <1>1, <2>4, BridgeKnown DEF Plans
    <2> QED
      BY <1>3, <2>2, <2>3, <2>5
  <1>5. \A r \in Range(p.requests) : IsDelete(r) => r.id \in Ids
    <2>1. \A r \in Range(p.requests) : IsDelete(r) => r.id \in DOMAIN State
      BY <1>1 DEF Plans, IsDelete, IsCreate
    <2>2. DOMAIN State \subseteq Ids
      BY DEF State
    <2> QED
      BY <2>1, <2>2
  <1> QED
    BY <1>2, <1>4, <1>5 DEF DestroyInv, PlanDeletes

\* Nothing comes to depend on what is destroyed.
LEMMA DestroySame ==
  ASSUME DestroyInv, UNCHANGED <<op, plan, rollouts>>,
         pc' \in {"links", "deletes", "unlink"} => pc \in {"links", "deletes", "unlink"},
         \A r \in PlanDeletes :
           (\A l \in Range(plan.links) : l[2] # r.id) => byTarget'[r.id] \subseteq byTarget[r.id]
  PROVE  DestroyInv'
BY DEF DestroyInv, PlanDeletes, HasCreate, HasDelete

LEMMA DestroyOver ==
  ASSUME pc' \notin {"links", "deletes", "unlink"}
  PROVE  DestroyInv'
BY DEF DestroyInv

LEMMA DestroyNext ==
  ASSUME Shape, DestroyInv, [EngineNext]_vars
  PROVE  DestroyInv'
  <1>1. ASSUME NEW c \in Comps, Up(c) PROVE DestroyInv'
    BY <1>1, DestroyBegins DEF Shape
  <1>2. ASSUME NEW k \in DOMAIN deployments, Rollback(k) PROVE DestroyInv'
    <2>1. op'.kind = "rollback"
      BY <1>2 DEF Rollback, Begin
    <2> QED
      BY <2>1 DEF DestroyInv
  <1>3. CASE PersistLink
    <2> DEFINE h == Head(todoLinks)
    <2>1. /\ todoLinks # <<>> /\ AddLink(h[1], h[2]) /\ pc = "links"
          /\ UNCHANGED <<op, plan, rollouts>>
      BY <1>3 DEF PersistLink, AddLink
    <2>2. h \in Range(plan.links) /\ plan.links \in Seq(Ids \X Ids)
      BY <2>1, HeadOrTail DEF Shape, ListShape, PlannedShape, PlanShape
    <2>3. \A r \in PlanDeletes : r.id \in Ids
      BY PlanIds DEF Shape
    <2>4. \A t \in Ids : t # h[2] => byTarget'[t] = byTarget[t]
      BY <2>1 DEF AddLink, Shape, StoreShape
    <2> HIDE DEF h
    <2> QED
      BY <2>1, <2>2, <2>3, <2>4, DestroySame
  <1>4. CASE pc' = pc /\ UNCHANGED <<op, plan, dbVars>>
    BY <1>4, DestroySame DEF dbVars
  <1>5. CASE OrderRequests \/ DeleteNext \/ DeleteFails
    BY <1>5, DestroySame DEF OrderRequests, DeleteNext, DeleteFails, dbVars
  <1>6. CASE Unlink
    <2>1. /\ \A t \in Ids : byTarget'[t] \subseteq byTarget[t]
          /\ pc = "unlink" /\ UNCHANGED <<op, plan, rollouts>>
      <3>1. CASE RemoveLink(Head(deletes).id)
        BY <1>6, <3>1, DropsLinks DEF Unlink, RemoveLink, Shape
      <3>2. CASE UNCHANGED dbVars
        BY <1>6, <3>2 DEF Unlink, dbVars
      <3> QED
        BY <1>6, <3>1, <3>2 DEF Unlink, RemoveLinkOrWarn
    <2>2. \A r \in PlanDeletes : r.id \in Ids
      BY PlanIds DEF Shape
    <2> QED
      BY <2>1, <2>2, DestroySame
  <1>7. CASE PersistLinkFails \/ DeletesCancelled \/ DeletesDone \/ RollbackDone
             \/ Finish \/ Crash
    BY <1>7, DestroyOver DEF PersistLinkFails, DeletesCancelled, DeletesDone, RollbackDone,
       Finish, Crash, Return
  <1>8. CASE CreateNext \/ CreateFails \/ CreatesCancelled \/ WaitMet \/ WaitFails
    BY <1>8, DestroyOver DEF CreateNext, CreateFails, CreatesCancelled, WaitMet, WaitFails
  <1>9. CASE RecordSuccess \/ RecordError \/ RollbackNext \/ RollbackFails \/ RollbackUnlink
    BY <1>9, DestroyOver DEF RecordSuccess, RecordError, RollbackNext, RollbackFails, RollbackUnlink
  <1>10. CASE Cancel \/ \E p \in Projects : Teardown(p)
    BY <1>4, <1>10 DEF Cancel, Teardown, ctlVars
  <1>11. CASE (\E i \in Ids : BecomeHealthy(i) \/ Exit(i, "done") \/ Exit(i, "failed")) \/ UNCHANGED vars
    BY <1>4, <1>11 DEF BecomeHealthy, Exit, vars, ctlVars
  <1> QED
    BY <1>1, <1>2, <1>3, <1>5, <1>6, <1>7, <1>8, <1>9, <1>10, <1>11 DEF EngineNext, EngineStep

LEMMA DestroyInit == EngineInit => DestroyInv
BY DEF EngineInit, DestroyInv

(***************************************************************************)
(* What an `up` destroys for good is referenced by nothing recorded that   *)
(* stays, also after the links of the new deployment were stored: the check*)
(* was made before (deployment.go:117-144, apply.go:21-28).                *)
(***************************************************************************)
THEOREM Destroyed == EngineSpec => []DestroyedUnreferenced
  <1>1. ASSUME Shape, DestroyInv PROVE DestroyedUnreferenced
    <2> SUFFICES ASSUME pc = "unlink", op.kind = "up", ~HasCreate(plan, Head(deletes).id)
                 PROVE  \A i \in GetDepending(Head(deletes).id) :
                          rollouts[i] = NoRollout \/ HasDelete(plan, i)
      BY DEF DestroyedUnreferenced
    <2>1. deletes # <<>> /\ deletes \in Seq(PlanDeletes)
      BY <1>1 DEF Shape, ListShape
    <2>2. Head(deletes) \in PlanDeletes
      BY <2>1, HeadOrTail
    <2> QED
      BY <1>1, <2>2 DEF DestroyInv, GetDepending
  <1> QED
    BY <1>1, ShapeInit, ShapeNext, DestroyInit, DestroyNext, PTL DEF EngineSpec

----------------------------------------------------------------------------
(***************************************************************************)
(* What an apply that succeeds leaves behind.                              *)
(***************************************************************************)

\* A pod of a known request is a pod.
LEMMA PodIsPod ==
  ASSUME RuntimeShape, NEW i \in Ids, pods[i] # NoPod, NEW st \in PodStates
  PROVE  Pod(pods[i].body, st) # NoPod
  <1>1. PICK r \in KnownRequests, x \in PodStates : pods[i] = Pod(r.body, x)
    BY DEF RuntimeShape, PodsOf
  <1>2. pods[i].body = r.body
    BY <1>1 DEF Pod
  <1> QED
    BY <1>2, NothingIsNoRecord

LEMMA LiveService ==
  ASSUME NEW r, r.id \in Ids, r.key = "Service"
  PROVE  IsLive(r) <=> pods[r.id] # NoPod /\ pods[r.id].st # "partial" /\ pods[r.id].body = r.body
BY DEF IsLive, Running

\* Nothing goes and no pod loses its container.
KeepsLive ==
  /\ present \subseteq present'
  /\ \A i \in Ids :
       \/ pods'[i] = pods[i]
       \/ pods[i] # NoPod /\ \E st \in PodStates \ {"partial"} : pods'[i] = Pod(pods[i].body, st)

LEMMA LiveStays ==
  ASSUME RuntimeShape, KeepsLive, NEW r, r.id \in Ids, IsLive(r)
  PROVE  IsLive(r)'
  <1>1. CASE r.key = "Service"
    <2>1. pods[r.id] # NoPod /\ pods[r.id].st # "partial" /\ pods[r.id].body = r.body
      BY <1>1, LiveService
    <2>2. pods'[r.id] # NoPod /\ pods'[r.id].st # "partial" /\ pods'[r.id].body = r.body
      <3>1. CASE pods'[r.id] = pods[r.id]
        BY <2>1, <3>1
      <3>2. ASSUME NEW st \in PodStates \ {"partial"}, pods'[r.id] = Pod(pods[r.id].body, st)
            PROVE  pods'[r.id] # NoPod /\ pods'[r.id].st # "partial" /\ pods'[r.id].body = r.body
        <4>1. pods'[r.id] # NoPod
          BY <2>1, <3>2, PodIsPod
        <4>2. pods'[r.id].st = st /\ pods'[r.id].body = pods[r.id].body
          BY <3>2 DEF Pod
        <4> QED
          BY <2>1, <4>1, <4>2
      <3> QED
        BY <3>1, <3>2 DEF KeepsLive
    <2> QED
      BY <1>1, <2>2 DEF IsLive, Running
  <1>2. CASE r.key # "Service"
    BY <1>2 DEF IsLive, KeepsLive
  <1> QED
    BY <1>1, <1>2

LEMMA CreatedIdsKnown ==
  ASSUME Shape
  PROVE  /\ \A r \in created : r \in PlanCreates /\ r.id \in Ids
         /\ \A r \in DestroyedServices : r \in PlanDeletes /\ r.id \in Ids /\ ~HasCreate(plan, r.id)
BY PlanIds DEF Shape, ListShape, DestroyedServices

\* Nothing happens to the apply.
LEMMA ConvergeSame ==
  ASSUME Shape, ConvergeInv, KeepsLive, disturbed => disturbed',
         UNCHANGED <<pc, plan, created, creates, deletes, result>>
  PROVE  ConvergeInv'
  <1>1. ASSUME ~disturbed' PROVE ~disturbed
    BY <1>1
  <1>2. \A r : r.id \in Ids /\ IsLive(r) => IsLive(r)'
    BY LiveStays DEF Shape
  <1>3. \A i \in Ids : pods[i] = NoPod => pods'[i] = NoPod
    BY DEF KeepsLive
  <1>4. /\ \A r \in created : r.id \in Ids
        /\ \A r \in DestroyedServices : r.id \in Ids
        /\ DestroyedServices' = DestroyedServices /\ PlanCreates' = PlanCreates
        /\ CreatedIds' = CreatedIds
    BY CreatedIdsKnown DEF DestroyedServices, PlanDeletes, PlanCreates, CreatedIds, HasCreate
  <1>5. pc = "record" => Head(creates).id \in Ids
    BY HeadKnown DEF Shape, ListShape
  <1> QED
    BY <1>1, <1>2, <1>3, <1>4, <1>5 DEF ConvergeInv

\* Nothing is said of the apply while it stores links, is being undone or has failed.
LEMMA ConvergeSilent ==
  ASSUME pc' \notin {"deletes", "unlink", "creates", "record", "wait"}, result' # "ok"
  PROVE  ConvergeInv'
BY DEF ConvergeInv

LEMMA ConvergeOrders ==
  ASSUME Shape, OrderRequests, result # "ok"
  PROVE  ConvergeInv'
  <1>1. /\ pc' = "deletes" /\ UNCHANGED <<plan, pods, result>>
    BY DEF OrderRequests, rtVars
  <1>2. deletes' \in Seq(PlanDeletes) /\ IdsOf(deletes') = {r.id : r \in PlanDeletes}
    BY OrderingIs
  <1>3. ASSUME NEW r \in PlanDeletes PROVE r \in Range(deletes')
    <2>1. PICK i \in DOMAIN deletes' : deletes'[i].id = r.id
      BY <1>2 DEF IdsOf
    <2>2. deletes'[i] \in PlanDeletes
      BY <1>2, ElementOfSeq, SeqRange
    <2>3. \A x, y \in PlanDeletes : x.id = y.id => x = y
      BY DEF Shape, PlannedShape, PlanShape, PlanDeletes
    <2> QED
      BY <2>1, <2>2, <2>3 DEF Range
  <1>4. DestroyedServices' = DestroyedServices /\ DestroyedServices \subseteq PlanDeletes
    BY <1>1 DEF DestroyedServices, PlanDeletes, HasCreate
  <1> QED
    BY <1>1, <1>3, <1>4 DEF ConvergeInv

LEMMA ConvergeDeletes ==
  ASSUME Shape, ConvergeInv, DeleteNext, result # "ok"
  PROVE  ConvergeInv'
  <1> DEFINE h == Head(deletes)
  <1>1. /\ pc = "deletes" /\ pc' = "unlink" /\ deletes # <<>> /\ RuntimeDelete(h)
        /\ UNCHANGED <<plan, deletes, result, disturbed>>
    BY DEF DeleteNext, ghostVars
  <1>2. Range(deletes) = {h} \cup Range(Tail(deletes))
    BY <1>1, HeadOrTail DEF Shape, ListShape
  <1>3. \A i \in Ids : pods[i] = NoPod => pods'[i] = NoPod
    BY <1>1 DEF RuntimeDelete, DownIn
  <1>4. h.key = "Service" /\ h.id \in Ids => pods'[h.id] = NoPod
    BY <1>1 DEF RuntimeDelete, DownIn
  <1>5. \A r \in DestroyedServices : r.id \in Ids /\ r.key = "Service"
    BY CreatedIdsKnown DEF DestroyedServices
  <1>6. DestroyedServices' = DestroyedServices
    BY <1>1 DEF DestroyedServices, PlanDeletes, HasCreate
  <1> HIDE DEF h
  <1> QED
    BY <1>1, <1>2, <1>3, <1>4, <1>5, <1>6 DEF ConvergeInv

LEMMA ConvergeDeleted ==
  ASSUME Shape, ConvergeInv, Unlink \/ DeletesDone, result # "ok"
  PROVE  ConvergeInv'
  <1>1. UNCHANGED <<plan, created, pods, result, disturbed>>
    BY DEF Unlink, DeletesDone, rtVars, ghostVars
  <1>2. DestroyedServices' = DestroyedServices
    BY <1>1 DEF DestroyedServices, PlanDeletes, HasCreate
  <1>3. CASE Unlink
    <2>1. pc = "unlink" /\ pc' = "deletes" /\ deletes' = Tail(deletes)
      BY <1>3 DEF Unlink
    <2> QED
      BY <1>1, <1>2, <2>1 DEF ConvergeInv
  <1>4. CASE DeletesDone
    <2>1. pc = "deletes" /\ pc' = "creates" /\ deletes = <<>>
      BY <1>4 DEF DeletesDone
    <2>2. created' = {} /\ Range(deletes) = {}
      BY <1>1, <2>1 DEF Shape, ListShape, Range
    <2> QED
      BY <1>1, <1>2, <2>1, <2>2 DEF ConvergeInv
  <1> QED
    BY <1>3, <1>4

\* A created resource lives; what was created before lives on.
LEMMA ConvergeCreates ==
  ASSUME Shape, ConvergeInv, CreateNext, result # "ok"
  PROVE  ConvergeInv'
  <1>0. PICK h : h = Head(creates)
    OBVIOUS
  <1>1. /\ pc = "creates" /\ pc' = "record" /\ creates # <<>> /\ RuntimeApply(h)
        /\ UNCHANGED <<plan, creates, created, result, disturbed>>
    BY <1>0 DEF CreateNext, ghostVars
  <1>2. h \in PlanCreates /\ h \in KnownRequests /\ h.id \in Ids
    BY <1>0, <1>1, HeadKnown DEF Shape
  <1>3. IsLive(h)'
    <2>1. CASE h.key = "Service"
      <3>1. pods'[h.id] = Pod(h.body, "running")
        BY <1>1, <1>2, <2>1 DEF RuntimeApply, Shape, RuntimeShape
      <3>2. pods'[h.id] # NoPod
        BY <1>2, <3>1, NothingIsNoRecord DEF PodStates
      <3>3. pods'[h.id].st = "running" /\ pods'[h.id].body = h.body
        BY <3>1 DEF Pod
      <3> QED
        BY <1>2, <2>1, <3>2, <3>3 DEF IsLive, Running
    <2>2. CASE h.key # "Service"
      BY <1>1, <2>2 DEF RuntimeApply, Provisions, IsLive
    <2> QED
      BY <2>1, <2>2
  <1>4. ASSUME NEW r \in created, IsLive(r) PROVE IsLive(r)'
    <2>1. r \in PlanCreates /\ r.id \in Ids
      BY CreatedIdsKnown
    <2>2. CASE r.key = "Service"
      <3>1. CASE h.key = "Service" /\ r.id = h.id
        <4>1. \A x, y \in PlanCreates :
                 x.key = "Service" /\ y.key = "Service" /\ x.id = y.id => x = y
          BY DEF PlanCreates, Shape, PlannedShape, PlanShape, RequestsKnown
        <4>2. r = h
          BY <1>2, <2>1, <2>2, <3>1, <4>1
        <4> QED
          BY <1>3, <4>2
      <3>2. CASE h.key # "Service" \/ r.id # h.id
        <4>1. pods'[r.id] = pods[r.id]
          BY <1>1, <2>1, <3>2 DEF RuntimeApply, Shape, RuntimeShape
        <4>2. pods[r.id] # NoPod /\ pods[r.id].st # "partial" /\ pods[r.id].body = r.body
          BY <1>4, <2>1, <2>2, LiveService
        <4> QED
          BY <2>1, <2>2, <4>1, <4>2 DEF IsLive, Running
      <3> QED
        BY <3>1, <3>2
    <2>3. CASE r.key # "Service"
      BY <1>1, <1>4, <2>3 DEF IsLive, RuntimeApply
    <2> QED
      BY <2>2, <2>3
  <1>5. ASSUME NEW r \in DestroyedServices, pods[r.id] = NoPod PROVE pods'[r.id] = NoPod
    <2>1. r.id # h.id
      BY <1>2, CreatedIdsKnown, CreatedIdsOf
    <2> QED
      BY <1>1, <1>5, <2>1, CreatedIdsKnown DEF RuntimeApply, Shape, RuntimeShape
  <1>6. DestroyedServices' = DestroyedServices
    BY <1>1 DEF DestroyedServices, PlanDeletes, HasCreate
  <1> QED
    BY <1>0, <1>1, <1>3, <1>4, <1>5, <1>6 DEF ConvergeInv

LEMMA ConvergeRecords ==
  ASSUME ConvergeInv, RecordSuccess \/ WaitMet, result # "ok"
  PROVE  ConvergeInv'
  <1>1. /\ pc \in {"record", "wait"} /\ pc' \in {"creates", "wait"}
        /\ UNCHANGED <<plan, pods, present, result>> /\ (disturbed => disturbed')
        /\ (created' = created \/ (pc = "record" /\ created' = created \cup {Head(creates)}))
    BY DEF RecordSuccess, SaveOrWarn, WaitMet, rtVars
  <1>2. DestroyedServices' = DestroyedServices
    BY <1>1 DEF DestroyedServices, PlanDeletes, HasCreate
  <1>3. \A r : IsLive(r)' <=> IsLive(r)
    BY <1>1 DEF IsLive, Running
  <1> QED
    BY <1>1, <1>2, <1>3 DEF ConvergeInv

LEMMA ConvergeFinishes ==
  ASSUME OrderInv, ConvergeInv, Finish
  PROVE  ConvergeInv'
  <1>1. /\ pc = "creates" /\ creates = <<>> /\ pc' = "idle"
        /\ UNCHANGED <<plan, pods, present, created, disturbed>>
    BY DEF Finish, Return, rtVars
  <1>2. {r.id : r \in PlanCreates} = CreatedIds
    <2>1. IdsOf(creates) = {} /\ pc \in Executing
      BY <1>1 DEF IdsOf, Executing
    <2> QED
      BY <2>1 DEF OrderInv
  <1>3. DestroyedServices' = DestroyedServices /\ PlanCreates' = PlanCreates /\ CreatedIds' = CreatedIds
    BY <1>1 DEF DestroyedServices, PlanDeletes, PlanCreates, CreatedIds, HasCreate
  <1>4. \A r : IsLive(r)' <=> IsLive(r)
    BY <1>1 DEF IsLive, Running
  <1> QED
    BY <1>1, <1>2, <1>3, <1>4 DEF ConvergeInv

LEMMA ConvergeNext ==
  ASSUME Shape, OrderInv, RollbackInv, ConvergeInv, [EngineNext]_vars
  PROVE  ConvergeInv'
  <1>0. pc # "idle" => result # "ok"
    BY DEF RollbackInv
  <1>1. ASSUME NEW o, NEW p, NEW always, Begin(o, p, always) PROVE ConvergeInv'
    BY <1>1, ConvergeSilent DEF Begin
  <1>2. CASE (\E c \in Comps : Up(c)) \/ (\E k \in DOMAIN deployments : Rollback(k))
    BY <1>1, <1>2 DEF Up, Rollback
  <1>3. CASE PersistLink
    BY <1>0, <1>3, ConvergeSilent DEF PersistLink
  <1>4. CASE OrderRequests
    BY <1>0, <1>4, ConvergeOrders DEF OrderRequests
  <1>5. CASE DeleteNext
    BY <1>0, <1>5, ConvergeDeletes DEF DeleteNext
  <1>6. CASE DeleteFails \/ \E p \in Projects : Teardown(p)
    BY <1>6 DEF DeleteFails, Teardown, ConvergeInv
  <1>7. CASE Unlink \/ DeletesDone
    BY <1>0, <1>7, ConvergeDeleted DEF Unlink, DeletesDone
  <1>8. CASE PersistLinkFails \/ DeletesCancelled \/ RollbackDone \/ Crash
    BY <1>8, ConvergeSilent DEF PersistLinkFails, DeletesCancelled, RollbackDone, Crash, Return
  <1>9. CASE CreateNext
    BY <1>0, <1>9, ConvergeCreates DEF CreateNext
  <1>10. CASE CreateFails \/ CreatesCancelled \/ RecordError \/ WaitFails
    BY <1>0, <1>10, ConvergeSilent DEF CreateFails, CreatesCancelled, RecordError, WaitFails
  <1>11. CASE RecordSuccess \/ WaitMet
    BY <1>0, <1>11, ConvergeRecords DEF RecordSuccess, WaitMet
  <1>12. CASE RollbackNext \/ RollbackFails \/ RollbackUnlink
    BY <1>0, <1>12, ConvergeSilent DEF RollbackNext, RollbackFails, RollbackUnlink
  <1>13. CASE Finish
    BY <1>13, ConvergeFinishes
  <1>14. CASE Cancel \/ UNCHANGED vars
    <2>1. KeepsLive
      BY <1>14 DEF Cancel, vars, rtVars, KeepsLive
    <2> QED
      BY <1>14, <2>1, ConvergeSame DEF Cancel, vars, ctlVars, ghostVars
  <1>15. ASSUME NEW i \in Ids, BecomeHealthy(i) \/ Exit(i, "done") PROVE ConvergeInv'
    <2>1. PICK st \in {"healthy", "done"} :
             pods[i] # NoPod /\ pods' = [pods EXCEPT ![i] = [pods[i] EXCEPT !.st = st]]
      BY <1>15 DEF BecomeHealthy, Exit
    <2>2. st \in PodStates \ {"partial"}
      BY DEF PodStates
    <2>3. [pods[i] EXCEPT !.st = st] = Pod(pods[i].body, st)
      BY <2>1, <2>2, PodInState DEF Shape
    <2>4. present' = present
      BY <1>15 DEF BecomeHealthy, Exit
    <2>5. KeepsLive
      BY <2>1, <2>2, <2>3, <2>4 DEF KeepsLive, Shape, RuntimeShape
    <2>6. UNCHANGED <<pc, plan, created, creates, deletes, result>>
      BY <1>15 DEF BecomeHealthy, Exit, ctlVars, ghostVars
    <2>7. disturbed => disturbed'
      BY <1>15, Zenon DEF BecomeHealthy, Exit, ghostVars
    <2> QED
      BY <2>5, <2>6, <2>7, ConvergeSame
  <1>16. ASSUME NEW i \in Ids, Exit(i, "failed") PROVE ConvergeInv'
    BY <1>16 DEF Exit, ConvergeInv
  <1> QED
    BY <1>2, <1>3, <1>4, <1>5, <1>6, <1>7, <1>8, <1>9, <1>10, <1>11, <1>12, <1>13, <1>14,
       <1>15, <1>16 DEF EngineNext, EngineStep

LEMMA ConvergeInit == EngineInit => ConvergeInv
BY DEF EngineInit, ConvergeInv

(***************************************************************************)
(* A success means that the whole plan was carried out: every request was  *)
(* processed, what it creates lives with the planned body, and no destroyed*)
(* service runs, if nothing interfered (apply.go:18-52).                   *)
(***************************************************************************)
THEOREM Converges == EngineSpec => []ExecutedConverges
  <1>1. ConvergeInv => ExecutedConverges
    BY DEF ConvergeInv, ExecutedConverges, DestroyedServices, PlanCreates, PlanDeletes, CreatedIds
  <1> QED
    BY <1>1, ShapeInit, ShapeNext, OrderInit, OrderNext, RollbackInvInit, RollbackInvNext,
       ConvergeInit, ConvergeNext, PTL DEF EngineSpec

----------------------------------------------------------------------------
(***************************************************************************)
(* A plan without changes.                                                 *)
(***************************************************************************)
LEMMA NoChangeBegins ==
  ASSUME StoreShape, NEW c \in Comps, Up(c)
  PROVE  NoChangeInv'
  <1> DEFINE p == ComputePlan(Bridge(c), State)
  <1>1. Plans(Bridge(c), State, p)
    BY UpPlan
  <1> HIDE DEF p
  <1>2. /\ op' = [kind |-> "up", comp |-> c] /\ UNCHANGED rollouts
        /\ (HasChanges(p) => result' # "nochange")
    BY DEF p, Up, Begin, dbVars
  <1>3. State' = State
    BY <1>2 DEF State
  <1>4. Desired' = Range(Bridge(c).requests)
    BY <1>2 DEF Desired
  <1>5. \A r \in Range(Bridge(c).requests) : IsCreate(r)
    BY BridgeKnown
  <1>6. ~HasChanges(p) => \A r \in Range(Bridge(c).requests) :
          r.id \in DOMAIN State /\ State[r.id].body = r.body
    BY <1>1, <1>5 DEF Plans
  <1> QED
    BY <1>2, <1>3, <1>4, <1>6 DEF NoChangeInv

LEMMA NoChangeNext ==
  ASSUME Shape, RollbackInv, NoChangeInv, [EngineNext]_vars
  PROVE  NoChangeInv'
  <1>0. pc # "idle" => result # "nochange"
    BY DEF RollbackInv
  <1>1. CASE result' # "nochange"
    BY <1>1 DEF NoChangeInv
  <1>2. ASSUME NEW c \in Comps, Up(c) PROVE NoChangeInv'
    BY <1>2, NoChangeBegins DEF Shape
  <1>3. ASSUME NEW k \in DOMAIN deployments, Rollback(k) PROVE NoChangeInv'
    <2>1. op'.kind = "rollback"
      BY <1>3 DEF Rollback, Begin
    <2> QED
      BY <2>1 DEF NoChangeInv
  <1>4. CASE PersistLink \/ OrderRequests \/ DeleteNext \/ DeleteFails \/ Unlink \/ DeletesDone
    BY <1>0, <1>1, <1>4 DEF PersistLink, OrderRequests, DeleteNext, DeleteFails, Unlink, DeletesDone
  <1>5. CASE PersistLinkFails \/ DeletesCancelled \/ RollbackDone \/ Finish \/ Crash
    BY <1>1, <1>5 DEF PersistLinkFails, DeletesCancelled, RollbackDone, Finish, Crash, Return
  <1>6. CASE CreateNext \/ CreateFails \/ CreatesCancelled \/ RecordSuccess \/ RecordError
    BY <1>0, <1>1, <1>6 DEF CreateNext, CreateFails, CreatesCancelled, RecordSuccess, RecordError
  <1>7. CASE WaitMet \/ WaitFails \/ RollbackNext \/ RollbackFails \/ RollbackUnlink \/ Cancel
    BY <1>0, <1>1, <1>7 DEF WaitMet, WaitFails, RollbackNext, RollbackFails, RollbackUnlink, Cancel
  <1>8. CASE UNCHANGED <<op, result, rollouts>>
    BY <1>8 DEF NoChangeInv, Desired, State
  <1>9. CASE \E p \in Projects : Teardown(p)
    BY <1>8, <1>9 DEF Teardown, dbVars, ctlVars
  <1>10. CASE (\E i \in Ids : BecomeHealthy(i) \/ Exit(i, "done") \/ Exit(i, "failed")) \/ UNCHANGED vars
    BY <1>8, <1>10 DEF BecomeHealthy, Exit, vars, dbVars, ctlVars
  <1> QED
    BY <1>2, <1>3, <1>4, <1>5, <1>6, <1>7, <1>9, <1>10 DEF EngineNext, EngineStep

LEMMA NoChangeInit == EngineInit => NoChangeInv
BY DEF EngineInit, NoChangeInv

(***************************************************************************)
(* "No changes to apply", an empty drift report and no record of a failure *)
(* mean that every desired service is started: the records of the desired  *)
(* services are looked up as services (engine.go:43-62, 189-245).          *)
(***************************************************************************)
THEOREM NoDrift == EngineSpec => []NoDriftNoChangeIsUp
  <1>1. ASSUME Shape, NoChangeInv PROVE NoDriftNoChangeIsUp
    <2> SUFFICES ASSUME op.kind = "up", result = "nochange", DriftCheck = {},
                        \A r \in Desired : State[r.id].status = "SUCCEEDED",
                        NEW r \in Desired, r.key = "Service"
                 PROVE  Started(r.id)
      BY DEF NoDriftNoChangeIsUp
    <2>1. r \in KnownRequests
      BY <1>1 DEF Desired, Shape, PlannedShape, KnownRequests
    <2>2. r.id \in DOMAIN State /\ State[r.id].body = r.body
      BY <1>1 DEF NoChangeInv
    <2>3. r.id \in Ids /\ rollouts[r.id] # NoRollout /\ State[r.id] = rollouts[r.id]
      BY <2>2 DEF State
    <2>4. PICK s \in KnownRequests, st \in {"SUCCEEDED", "ERROR"} : State[r.id] = Rollout(s, st)
      BY <1>1, <2>3 DEF Shape, StoreShape, RolloutRecordsOf
    <2>5. State[r.id].key = s.key /\ State[r.id].body = s.body
      BY <2>4 DEF Rollout
    <2>6. State[r.id].key = "Service"
      BY <2>1, <2>2, <2>5, BodyTellsKey
    <2>7. ProviderStatus(r.id, State[r.id]) \in {"SUCCEEDED", "RUNNING"}
      BY <2>2 DEF DriftCheck
    <2>8. pods[r.id] # NoPod
      BY <2>6, <2>7 DEF ProviderStatus
    <2>9. pods[r.id].st \in PodStates
      <3>1. pods[r.id] \in PodsOf
        BY <1>1, <2>3, <2>8 DEF Shape, RuntimeShape
      <3>2. PICK x \in KnownRequests, y \in PodStates : pods[r.id] = Pod(x.body, y)
        BY <3>1 DEF PodsOf
      <3> QED
        BY <3>2 DEF Pod
    <2>10. pods[r.id].st \notin {"partial", "failed"}
      BY <2>6, <2>7, <2>8 DEF ProviderStatus
    <2> QED
      BY <2>8, <2>9, <2>10 DEF Started, PodStates
  <1> QED
    BY <1>1, ShapeInit, ShapeNext, RollbackInvInit, RollbackInvNext, NoChangeInit, NoChangeNext,
       PTL DEF EngineSpec

----------------------------------------------------------------------------
(***************************************************************************)
(* Drift.  A record under the id of a service that is not the service's    *)
(* would make its pod differ from its record for good: no volume may bear  *)
(* the name of a service of its project.                                   *)
(***************************************************************************)
NoClash ==
  \A c, d \in Comps : c.project = d.project => ServiceNames(c) \cap d.volumes = {}

LEMMA ServicesApart ==
  ASSUME NoClash, NEW r \in KnownRequests, r.key # "Service"
  PROVE  r.id \notin ServiceIds
  <1> SUFFICES ASSUME NEW s \in KnownRequests, s.key = "Service", r.id = s.id PROVE FALSE
    BY DEF ServiceIds
  <1>1. ASSUME NEW x \in KnownRequests
        PROVE  \E c \in Comps : \E m : IsManifest(c, m) /\ x.key = m.key /\ x.id = m.id
    BY <1>1, KnownAre DEF CreateRequest
  <1>2. ASSUME NEW c \in Comps
        PROVE  /\ c.project \in Nat \ {0} /\ ServiceNames(c) \subseteq 1..99 /\ c.volumes \subseteq 1..99
               /\ \A n \in ServiceNames(c) : c.services[n].image \in Nat
    BY CompsAreWellFormed DEF WellFormed
  <1>3. PICK d, n : d \in Comps /\ n \in ServiceNames(d) /\ s.id = 100 * d.project + n
    <2>1. PICK d \in Comps : \E m : IsManifest(d, m) /\ s.key = m.key /\ s.id = m.id
      BY <1>1
    <2>2. PICK m : IsManifest(d, m) /\ m.key = "Service" /\ m.id = s.id
      BY <2>1
    <2>3. PICK n \in ServiceNames(d) : m = ServiceManifest(d, n)
      BY <2>2 DEF IsManifest, ProjectManifest, NetworkManifest, ImageManifest, VolumeManifest, Manifest
    <2>4. m.id = 100 * d.project + n
      BY <2>3 DEF ServiceManifest, Manifest, NamedId
    <2> QED
      BY <2>2, <2>3, <2>4
  <1>4. PICK c, m : c \in Comps /\ IsManifest(c, m) /\ m.key # "Service" /\ m.id = r.id
    BY <1>1
  <1>5. d.project \in Nat \ {0} /\ n \in 1..99 /\ c.project \in Nat \ {0}
    BY <1>2, <1>3, <1>4
  <1>6. CASE m = ProjectManifest(c) \/ m = NetworkManifest(c)
    <2>1. m.id = 100 * c.project
      BY <1>6 DEF ProjectManifest, NetworkManifest, Manifest, ProjectId
    <2> QED
      BY <1>3, <1>4, <1>5, <2>1
  <1>7. ASSUME NEW k \in ServiceNames(c), m = ImageManifest(c.services[k].image) PROVE FALSE
    <2>1. m.id = c.services[k].image % 10 /\ c.services[k].image \in Nat
      BY <1>2, <1>4, <1>7 DEF ImageManifest, Manifest, ResolvedImageRef
    <2>2. m.id < 100
      BY <2>1
    <2> QED
      BY <1>3, <1>4, <1>5, <2>2
  <1>8. ASSUME NEW v \in c.volumes, m = VolumeManifest(c, v) PROVE FALSE
    <2>1. m.id = 100 * c.project + v /\ v \in 1..99
      BY <1>2, <1>4, <1>8 DEF VolumeManifest, Manifest, NamedId
    <2>2. 100 * c.project + v = 100 * d.project + n
      BY <1>3, <1>4, <2>1
    <2>3. c.project \in Nat /\ d.project \in Nat /\ v \in 1..99 /\ n \in 1..99
      BY <1>5, <2>1
    <2>4. c.project <= d.project /\ d.project <= c.project
      BY <2>2, <2>3
    <2>5. c.project = d.project /\ v = n
      BY <2>2, <2>3, <2>4
    <2> QED
      BY <1>3, <1>4, <2>5 DEF NoClash
  <1>9. ASSUME NEW k \in ServiceNames(c), m = ServiceManifest(c, k) PROVE FALSE
    BY <1>4, <1>9 DEF ServiceManifest, Manifest
  <1> QED
    BY <1>4, <1>6, <1>7, <1>8, <1>9 DEF IsManifest

LEMMA SmallerIds ==
  ASSUME NEW S, S \subseteq Ids, NEW T, NEW x
  PROVE  /\ Cardinality(S) \in Nat
         /\ T \subseteq S => Cardinality(T) <= Cardinality(S)
         /\ T \subseteq S \cup {x} => Cardinality(T) <= Cardinality(S) + 1
  <1>1. IsFiniteSet(S)
    BY IdsCoverComps, FS_Subset
  <1>2. Cardinality(S) \in Nat
    BY <1>1, FS_CardinalityType
  <1>3. ASSUME T \subseteq S PROVE Cardinality(T) <= Cardinality(S)
    BY <1>1, <1>3, FS_Subset
  <1>4. ASSUME T \subseteq S \cup {x} PROVE Cardinality(T) <= Cardinality(S) + 1
    <2>1. /\ IsFiniteSet(S \cup {x})
          /\ Cardinality(S \cup {x}) = (IF x \in S THEN Cardinality(S) ELSE Cardinality(S) + 1)
      BY <1>1, FS_AddElement
    <2>2. Cardinality(T) <= Cardinality(S \cup {x})
      BY <1>4, <2>1, FS_Subset
    <2>3. Cardinality(T) \in Nat
      BY <1>4, <2>1, FS_Subset, FS_CardinalityType
    <2> QED
      BY <1>2, <2>1, <2>2, <2>3
  <1> QED
    BY <1>2, <1>3, <1>4

LEMMA BudgetGrows ==
  ASSUME Shape, [EngineNext]_vars
  PROVE  /\ budget.faults \in Nat /\ budget.crashes \in Nat
         /\ budget'.faults \in Nat /\ budget'.crashes \in Nat
         /\ budget'.faults >= budget.faults /\ budget'.crashes >= budget.crashes
BY BudgetSteps DEF BudgetStep, Spend, Shape, RuntimeShape

LEMMA DriftedIds == ASSUME Shape PROVE Drifted \subseteq Ids /\ Unrecorded \subseteq Ids
BY HeadKnown DEF Drifted, InDoubt, Unrecorded, Shape, ListShape

LEMMA FadeKeepsBody ==
  ASSUME NEW x, NEW y, Fade(x, y), y # NoPod
  PROVE  y.body = x.body
  <1>1. CASE y = x
    BY <1>1
  <1>2. ASSUME NEW st, y = Pod(x.body, st) PROVE y.body = x.body
    BY <1>2 DEF Pod
  <1> QED
    BY <1>1, <1>2 DEF Fade

\* A fading pod does not part from its record.
LEMMA UnrecordedFades ==
  ASSUME PodStep, UNCHANGED rollouts
  PROVE  \A i \in Unrecorded' : i \in Unrecorded \/ MakesPod(i)
  <1> SUFFICES ASSUME NEW i \in Unrecorded', ~MakesPod(i) PROVE i \in Unrecorded
    OBVIOUS
  <1>1. /\ i \in Ids /\ pods'[i] # NoPod
        /\ (rollouts[i] = NoRollout \/ rollouts[i].body # pods'[i].body)
    BY DEF Unrecorded
  <1>2. pods[i] # NoPod /\ pods'[i].body = pods[i].body
    <2>1. Fade(pods[i], pods'[i])
      BY <1>1 DEF PodStep
    <2> QED
      BY <1>1, <2>1, FadeKeepsBody DEF Fade
  <1> QED
    BY <1>1, <1>2 DEF Unrecorded

\* Only services have pods.
LEMMA ServicePods ==
  ASSUME Shape, DriftInv, [EngineNext]_vars
  PROVE  \A i \in Ids : pods'[i] # NoPod => i \in ServiceIds
  <1> SUFFICES ASSUME NEW i \in Ids, pods'[i] # NoPod PROVE i \in ServiceIds
    OBVIOUS
  <1>1. Fade(pods[i], pods'[i]) \/ MakesPod(i)
    BY PodSteps DEF PodStep
  <1>2. CASE Fade(pods[i], pods'[i])
    BY <1>2 DEF Fade, DriftInv
  <1>3. CASE MakesPod(i)
    <2>1. Head(creates) \in KnownRequests
      BY <1>3, HeadKnown DEF MakesPod, Shape
    <2> QED
      BY <1>3, <2>1 DEF MakesPod, ServiceIds
  <1> QED
    BY <1>1, <1>2, <1>3

LEMMA DriftWithin ==
  ASSUME Shape, DriftInv, [EngineNext]_vars, Drifted' \subseteq Drifted
  PROVE  Cardinality(Drifted') <= budget'.faults + budget'.crashes
  <1>1. Cardinality(Drifted) \in Nat /\ Cardinality(Drifted') <= Cardinality(Drifted)
    BY DriftedIds, SmallerIds
  <1>2. Cardinality(Drifted) <= budget.faults + budget.crashes
    BY DEF DriftInv
  <1>3. Cardinality(Drifted') \in Nat
    BY DriftedIds, IdsCoverComps, FS_Subset, FS_CardinalityType
  <1> QED
    BY <1>1, <1>2, <1>3, BudgetGrows

LEMMA DriftByOne ==
  ASSUME Shape, DriftInv, [EngineNext]_vars, NEW x, Drifted' \subseteq Drifted \cup {x},
         Spend("faults") \/ Spend("crashes"), Drifted' \subseteq Ids
  PROVE  Cardinality(Drifted') <= budget'.faults + budget'.crashes
  <1>1. Cardinality(Drifted) \in Nat /\ Cardinality(Drifted') <= Cardinality(Drifted) + 1
    BY DriftedIds, SmallerIds
  <1>2. Cardinality(Drifted) <= budget.faults + budget.crashes
    BY DEF DriftInv
  <1>3. Cardinality(Drifted') \in Nat
    BY IdsCoverComps, FS_Subset, FS_CardinalityType
  <1>4. budget'.faults + budget'.crashes >= budget.faults + budget.crashes + 1
    BY DEF Spend, Shape, RuntimeShape
  <1> QED
    BY <1>1, <1>2, <1>3, <1>4, BudgetGrows

\* The runtime changes around the apply.
LEMMA DriftAround ==
  ASSUME Shape, DriftInv, [EngineNext]_vars, UNCHANGED <<pc, creates, rollouts>>
  PROVE  DriftInv'
  <1>1. PodStep /\ \A i \in Ids : Fade(pods[i], pods'[i])
    BY PodSteps DEF PodStep, MakesPod
  <1>2. Unrecorded' \subseteq Unrecorded
    BY UnrecordedFades, <1>1 DEF MakesPod
  <1>3. Drifted' \subseteq Drifted
    BY <1>2 DEF Drifted, InDoubt
  <1>4. ASSUME pc' = "record", Head(creates').key = "Service"
        PROVE  pods'[Head(creates').id] = NoPod \/ pods'[Head(creates').id].body = Head(creates').body
    <2>1. pods[Head(creates).id] = NoPod \/ pods[Head(creates).id].body = Head(creates).body
      BY <1>4 DEF DriftInv
    <2>2. Head(creates).id \in Ids
      BY <1>4, HeadKnown DEF Shape, ListShape
    <2> QED
      BY <1>1, <2>1, <2>2, FadeKeepsBody DEF Fade
  <1> QED
    BY <1>3, <1>4, ServicePods, DriftWithin DEF DriftInv

\* So it does while no runtime call waits to be recorded.
LEMMA DriftBetween ==
  ASSUME Shape, DriftInv, [EngineNext]_vars, UNCHANGED rollouts,
         pc \notin {"record", "recordErr"}, pc' \notin {"record", "recordErr"}
  PROVE  DriftInv'
  <1>1. PodStep
    BY PodSteps
  <1>2. Unrecorded' \subseteq Unrecorded
    BY UnrecordedFades, <1>1 DEF MakesPod
  <1>3. Drifted' \subseteq Drifted
    BY <1>2 DEF Drifted, InDoubt
  <1> QED
    BY <1>3, ServicePods, DriftWithin DEF DriftInv

LEMMA DriftCreates ==
  ASSUME Shape, DriftInv, [EngineNext]_vars, CreateNext \/ CreateFails
  PROVE  DriftInv'
  <1>0. PICK h : h = Head(creates)
    OBVIOUS
  <1>1. /\ pc = "creates" /\ UNCHANGED <<creates, rollouts>> /\ creates # <<>>
        /\ (CreateNext => pc' = "record") /\ (CreateFails => pc' = "recordErr")
    BY DEF CreateNext, CreateFails, dbVars
  <1>2. h.id \in Ids
    BY <1>0, <1>1, HeadKnown DEF Shape
  <1>3. Unrecorded' \subseteq Unrecorded \cup {h.id}
    BY <1>0, PodSteps, UnrecordedFades DEF MakesPod, dbVars, CreateNext, CreateFails
  <1>4. Drifted = Unrecorded
    BY <1>1 DEF Drifted, InDoubt
  <1>5. InDoubt' = {h.id}
    BY <1>0, <1>1 DEF InDoubt
  <1>6. CASE CreateNext
    <2>1. Drifted' = Unrecorded' \ InDoubt'
      BY <1>1, <1>6 DEF Drifted
    <2>2. Drifted' \subseteq Drifted
      BY <1>3, <1>4, <1>5, <2>1
    <2>3. Head(creates').key = "Service" => pods'[h.id].body = h.body
      BY <1>0, <1>1, <1>2, <1>6 DEF CreateNext, RuntimeApply, Pod, Shape, RuntimeShape
    <2> QED
      BY <1>0, <1>1, <2>2, <2>3, ServicePods, DriftWithin DEF DriftInv
  <1>7. CASE CreateFails
    <2>1. Drifted' = Unrecorded' \cup InDoubt' /\ pc' # "record"
      BY <1>1, <1>7 DEF Drifted
    <2>2. Drifted' \subseteq Drifted \cup {h.id}
      BY <1>3, <1>4, <1>5, <2>1
    <2>3. Drifted' \subseteq Ids
      BY <1>2, <2>2, DriftedIds
    <2>4. Cardinality(Drifted') <= budget'.faults + budget'.crashes
      BY <1>7, <2>2, <2>3, DriftByOne DEF CreateFails
    <2> QED
      BY <2>1, <2>4, ServicePods DEF DriftInv
  <1> QED
    BY <1>6, <1>7

\* The record of the first of the creates is saved, or only warned about.
LEMMA DriftRecords ==
  ASSUME NoClash, Shape, DriftInv, [EngineNext]_vars, RecordSuccess \/ RecordError
  PROVE  DriftInv'
  <1>0. PICK h : h = Head(creates)
    OBVIOUS
  <1>1. /\ pc \in {"record", "recordErr"} /\ pc' \notin {"record", "recordErr"} /\ UNCHANGED pods
        /\ (RecordSuccess => pc = "record") /\ (RecordError => pc = "recordErr")
    BY DEF RecordSuccess, RecordError, rtVars
  <1>2. PICK st \in {"SUCCEEDED", "ERROR"} : SaveOrWarn(h, st)
    BY <1>0 DEF RecordSuccess, RecordError
  <1>3. h \in KnownRequests /\ h.id \in Ids
    BY <1>0, <1>1, HeadKnown DEF Shape, ListShape
  <1>4. InDoubt = {h.id} /\ Drifted' = Unrecorded'
    BY <1>0, <1>1 DEF InDoubt, Drifted
  <1>5. CASE RecordSuccess /\ SaveRollout(h.id, Rollout(h, st))
    <2>1. /\ rollouts'[h.id] = Rollout(h, st)
          /\ \A i \in Ids : i # h.id => rollouts'[i] = rollouts[i]
      BY <1>3, <1>5 DEF SaveRollout, Shape, StoreShape
    <2>2. rollouts'[h.id] # NoRollout /\ rollouts'[h.id].body = h.body
      BY <1>3, <2>1, NothingIsNoRecord DEF Rollout
    <2>3. pods[h.id] = NoPod \/ pods[h.id].body = h.body
      <3>1. CASE h.key = "Service"
        BY <1>0, <1>1, <1>5, <3>1 DEF DriftInv
      <3>2. CASE h.key # "Service"
        BY <1>3, <3>2, ServicesApart DEF DriftInv
      <3> QED
        BY <3>1, <3>2
    <2>4. h.id \notin Unrecorded'
      BY <1>1, <2>2, <2>3 DEF Unrecorded
    <2>5. Unrecorded' \subseteq Unrecorded \cup {h.id}
      BY <1>1, <2>1 DEF Unrecorded
    <2>6. Drifted = Unrecorded \ InDoubt
      BY <1>1, <1>5 DEF Drifted
    <2>7. Drifted' \subseteq Drifted
      BY <1>4, <2>4, <2>5, <2>6
    <2> QED
      BY <1>1, <2>7, ServicePods, DriftWithin DEF DriftInv
  <1>6. CASE RecordSuccess /\ Spend("faults") /\ UNCHANGED dbVars
    <2>1. Unrecorded' = Unrecorded
      BY <1>1, <1>6 DEF Unrecorded, dbVars
    <2>2. Drifted' \subseteq Drifted \cup {h.id} /\ Drifted' \subseteq Ids
      BY <1>1, <1>4, <2>1, DriftedIds DEF Drifted
    <2>3. Cardinality(Drifted') <= budget'.faults + budget'.crashes
      BY <1>6, <2>2, DriftByOne
    <2> QED
      BY <1>1, <2>3, ServicePods DEF DriftInv
  <1>7. CASE RecordError
    <2>1. \A i \in Ids : i # h.id => rollouts'[i] = rollouts[i]
      BY <1>2 DEF SaveOrWarn, SaveRollout, dbVars, Shape, StoreShape
    <2>2. Unrecorded' \subseteq Unrecorded \cup {h.id}
      BY <1>1, <2>1 DEF Unrecorded
    <2>3. Drifted' \subseteq Drifted
      BY <1>1, <1>4, <1>7, <2>2 DEF Drifted
    <2> QED
      BY <1>1, <2>3, ServicePods, DriftWithin DEF DriftInv
  <1> QED
    BY <1>2, <1>5, <1>6, <1>7 DEF SaveOrWarn

LEMMA DriftCrash ==
  ASSUME Shape, DriftInv, [EngineNext]_vars, Crash
  PROVE  DriftInv'
  <1>1. pc' = "idle" /\ UNCHANGED <<pods, rollouts>> /\ Spend("crashes")
    BY DEF Crash, Return, rtVars, dbVars
  <1>2. Drifted' = Unrecorded /\ pc' # "record"
    BY <1>1 DEF Drifted, InDoubt, Unrecorded
  <1>3. Drifted' \subseteq Drifted \cup {Head(creates).id}
    BY <1>2 DEF Drifted, InDoubt
  <1>4. Cardinality(Drifted') <= budget'.faults + budget'.crashes
    BY <1>1, <1>2, <1>3, DriftedIds, DriftByOne
  <1> QED
    BY <1>2, <1>4, ServicePods DEF DriftInv

LEMMA DriftNext ==
  ASSUME NoClash, Shape, DriftInv, [EngineNext]_vars
  PROVE  DriftInv'
  <1> DEFINE Between == /\ UNCHANGED rollouts /\ pc \notin {"record", "recordErr"}
                        /\ pc' \notin {"record", "recordErr"}
             Around == UNCHANGED <<pc, creates, rollouts>>
  <1>1. ASSUME NEW o, NEW p, NEW always, Begin(o, p, always) PROVE Between
    BY <1>1 DEF Begin, dbVars
  <1>2. CASE (\E c \in Comps : Up(c)) \/ (\E k \in DOMAIN deployments : Rollback(k))
    <2>1. Between
      BY <1>1, <1>2 DEF Up, Rollback
    <2> QED
      BY <2>1, DriftBetween
  <1>3. CASE PersistLink \/ DeleteFails \/ RollbackFails
    <2>1. Around
      BY <1>3 DEF PersistLink, AddLink, DeleteFails, RollbackFails, dbVars
    <2> QED
      BY <2>1, DriftAround
  <1>4. CASE OrderRequests \/ DeleteNext \/ Unlink \/ PersistLinkFails
             \/ DeletesCancelled \/ DeletesDone
    <2>1. Between
      BY <1>4 DEF OrderRequests, DeleteNext, Unlink, RemoveLinkOrWarn, RemoveLink,
            PersistLinkFails, DeletesCancelled, DeletesDone,
            Return, dbVars
    <2> QED
      BY <2>1, DriftBetween
  <1>5. CASE CreatesCancelled \/ WaitMet \/ WaitFails \/ RollbackNext \/ RollbackUnlink
    <2>1. Between
      BY <1>5 DEF CreatesCancelled, WaitMet, WaitFails, RollbackNext, RollbackUnlink,
            RemoveLinkOrWarn, RemoveLink, dbVars
    <2> QED
      BY <2>1, DriftBetween
  <1>6. CASE RollbackDone \/ Finish
    <2>1. Between
      BY <1>6 DEF RollbackDone, Finish, Return, SaveDeployment, dbVars
    <2> QED
      BY <2>1, DriftBetween
  <1>7. CASE Cancel \/ \E p \in Projects : Teardown(p)
    <2>1. Around
      BY <1>7 DEF Cancel, Teardown, dbVars, ctlVars
    <2> QED
      BY <2>1, DriftAround
  <1>8. CASE (\E i \in Ids : BecomeHealthy(i) \/ Exit(i, "done") \/ Exit(i, "failed")) \/ UNCHANGED vars
    <2>1. Around
      BY <1>8 DEF BecomeHealthy, Exit, vars, dbVars, ctlVars
    <2> QED
      BY <2>1, DriftAround
  <1> QED
    BY <1>2, <1>3, <1>4, <1>5, <1>6, <1>7, <1>8, DriftCreates, DriftRecords, DriftCrash
       DEF EngineNext, EngineStep

LEMMA DriftInit == EngineInit => DriftInv
  <1> SUFFICES ASSUME EngineInit PROVE DriftInv
    OBVIOUS
  <1>1. pc = "idle" /\ \A i \in Ids : pods[i] = NoPod
    BY DEF EngineInit
  <1>2. Drifted = {}
    BY <1>1 DEF Drifted, Unrecorded
  <1>3. Cardinality(Drifted) = 0 /\ budget.faults = 0 /\ budget.crashes = 0
    BY <1>2, FS_EmptySet DEF EngineInit
  <1> QED
    BY <1>1, <1>3 DEF DriftInv

LEMMA DriftBound ==
  ASSUME Shape, DriftInv
  PROVE  DriftBounded
  <1>1. Unrecorded \subseteq Ids /\ Drifted \subseteq Ids
    BY DriftedIds
  <1>2. Cardinality(Unrecorded) \in Nat /\ Cardinality(Drifted) \in Nat
    BY <1>1, SmallerIds
  <1>3. Cardinality(Drifted) <= budget.faults + budget.crashes
    BY DEF DriftInv
  <1>4. budget.faults \in Nat /\ budget.crashes \in Nat
    BY DEF Shape, RuntimeShape
  <1>5. CASE pc \in {"record", "recordErr"}
    <2>1. Unrecorded \subseteq Drifted \cup {Head(creates).id}
      BY <1>5 DEF Drifted, InDoubt
    <2>2. Cardinality(Unrecorded) <= Cardinality(Drifted) + 1
      BY <1>1, <2>1, SmallerIds
    <2> QED
      BY <1>2, <1>3, <1>4, <1>5, <2>2 DEF DriftBounded
  <1>6. CASE pc \notin {"record", "recordErr"}
    <2>1. Unrecorded = Drifted
      BY <1>6 DEF Drifted, InDoubt
    <2> QED
      BY <1>2, <1>3, <1>4, <1>6, <2>1 DEF DriftBounded
  <1> QED
    BY <1>5, <1>6

(***************************************************************************)
(* Each failed call and each kill leaves at most one pod that differs from *)
(* its record, and a request under way at most one more, if no volume bears*)
(* the name of a service (request.go:76-108).                              *)
(***************************************************************************)
THEOREM Drift == ASSUME NoClash PROVE EngineSpec => []DriftBounded
BY DriftBound, ShapeInit, ShapeNext, DriftInit, DriftNext, PTL DEF EngineSpec
=============================================================================
