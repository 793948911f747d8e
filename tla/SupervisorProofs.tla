-------------------------- MODULE SupervisorProofs ---------------------------
(***************************************************************************)
(* What is proved of Supervisor for any services, policies and bounds, and *)
(* whatever pods other processes add: its types, that the watchers alone   *)
(* never leave two pods, that the shutdown leaks only what was under way   *)
(* at the signal or made by others, that watchers restart by the policy,   *)
(* and that the backoff is the exponential one.                            *)
(***************************************************************************)
EXTENDS Supervisor, FiniteSetTheorems, SequenceTheorems, TLAPS

PodStates == {"sandbox", "created", "running", "exit0", "exit1", "gone"}

SupTypes ==
  /\ pods \in [Services -> Seq(PodStates)]
  /\ watcher \in [Services -> {"loop", "wait", "backoff", "image", "run", "create", "start",
                               "done", "died"}]
  /\ target \in [Services -> Nat]
  /\ \A s \in Services : target[s] \in 1..Len(pods[s])
  /\ backoff \in [Services -> Nat] /\ streak \in [Services -> Nat]
  /\ lastExit \in [Services -> {"none", "exit0", "exit1"}]
  /\ signalled \in BOOLEAN /\ stopped \in BOOLEAN /\ clean \in BOOLEAN
  /\ main \in {"start", "select", "shutdown", "teardown", "await", "exited"}
  /\ shutTodo \in Seq(Services)
  /\ main = "teardown" => shutTodo # <<>>
  /\ main # "teardown" => shutPods = {}
  /\ abandoned \subseteq Services /\ inFlight \subseteq Services
  /\ known \in [Services -> Nat]
  /\ \A s \in Services : known[s] <= Len(pods[s])

OtherStates ==
  [at : {"idle"}]
    \cup [at : {"make"}, svc : Services, up : BOOLEAN]
    \cup [at : {"create", "start"}, svc : Services, up : BOOLEAN, pod : Nat]

OtherTypes ==
  /\ other \in [Others -> OtherStates]
  /\ foreign \in [Services -> SUBSET Nat]
  /\ \A s \in Services : foreign[s] \subseteq 1..Len(pods[s])
  /\ \A p \in Others : other[p].at \in {"create", "start"} =>
                        other[p].pod \in foreign[other[p].svc]

\* A watcher that is about to make a pod has removed the old ones, and so had one
\* whose call was abandoned: only other processes can have made pods since.
Own(s) ==
  /\ \A j, k \in Live(s) \ foreign[s] : j = k
  /\ OwnPending(s) => Live(s) \subseteq foreign[s]
  /\ s \in abandoned => signalled /\ watcher[s] = "done"

\* Where no creators met there is one pod, or one creator, or neither.
Apart(s) ==
  /\ \A j, k \in Live(s) : j = k
  /\ Live(s) # {} => ~OwnPending(s) /\ Pending(s) = {}
  /\ OwnPending(s) => Pending(s) = {}
  /\ \A p, q \in Pending(s) : p = q

Replacing == \A s \in Services : Own(s) /\ (s \notin raced => Apart(s))

\* After the signal only calls under way then, and other processes, can add a pod,
\* so that a service shutdownServices is through with stays down but for these.
ShuttingDown ==
  /\ \A s \in Services : s \in abandoned \/ (signalled /\ watcher[s] = "run") => s \in inFlight
  /\ main \in {"shutdown", "teardown", "await"} \/ clean => signalled
  /\ clean => main \in {"await", "exited"}
  /\ main \in {"shutdown", "teardown"} =>
       \A s \in Services : s \in Range(shutTodo) \/ \A k \in Live(s) : MayBeLeft(s, k)
  /\ main = "teardown" =>
       \A k \in Live(Head(shutTodo)) \ shutPods : MayBeLeft(Head(shutTodo), k)
  /\ LeakBounded

\* What a watcher saw before it set out to restart.
MayRestart(s) ==
  \/ Policy[s] \in {"always", "unless-stopped"} /\ lastExit[s] \in Exited
  \/ Policy[s] = "on-failure" /\ lastExit[s] = "exit1"

Restarting ==
  \A s \in Services :
    watcher[s] \in {"backoff", "image", "run"} \/ s \in abandoned => MayRestart(s)

SupInv == SupTypes /\ OtherTypes /\ Replacing /\ ShuttingDown /\ Restarting /\ BackoffExact

----------------------------------------------------------------------------
(***************************************************************************)
(* Powers of two.                                                          *)
(***************************************************************************)
\* Doubling the number of subsets: how powers of two grow.
LEMMA PowersOfTwo ==
  /\ 2^0 = 1
  /\ \A n \in Nat : 2^n \in Nat /\ 2^(n + 1) = 2 * 2^n
  <1>1. 2^0 = 1
    <2>1. SUBSET {} = {{}}
      OBVIOUS
    <2>2. Cardinality(SUBSET {}) = 1
      BY <2>1, FS_Singleton
    <2> QED
      BY <2>2, FS_EmptySet, FS_SUBSET
  <1>2. ASSUME NEW n \in Nat PROVE 2^n \in Nat /\ 2^(n + 1) = 2 * 2^n
    <2> DEFINE S == 1..n
               T == 1..(n + 1)
               A == SUBSET S
               B == {U \cup {n + 1} : U \in A}
               f == [U \in A |-> U \cup {n + 1}]
    <2>1. IsFiniteSet(S) /\ Cardinality(S) = n /\ IsFiniteSet(T) /\ Cardinality(T) = n + 1
      BY FS_Interval
    <2>2. IsFiniteSet(A) /\ Cardinality(A) = 2^n /\ Cardinality(SUBSET T) = 2^(n + 1)
      BY <2>1, FS_SUBSET
    <2>3. n + 1 \notin S /\ T = S \cup {n + 1}
      OBVIOUS
    <2>4. SUBSET T = A \cup B /\ A \cap B = {}
      <3>1. ASSUME NEW V \in SUBSET T PROVE V \in A \cup B
        <4>1. CASE n + 1 \in V
          <5>1. V = (V \ {n + 1}) \cup {n + 1} /\ V \ {n + 1} \in A
            BY <2>3, <4>1
          <5> QED
            BY <5>1
        <4>2. CASE n + 1 \notin V
          BY <2>3, <4>2
        <4> QED
          BY <4>1, <4>2
      <3>2. ASSUME NEW V \in A \cup B PROVE V \in SUBSET T
        BY <2>3
      <3>3. ASSUME NEW V \in A PROVE V \notin B
        BY <2>3
      <3> HIDE DEF A, B
      <3> QED
        BY <3>1, <3>2, <3>3
    <2>5. ExistsBijection(A, B)
      <3>1. f \in [A -> B] /\ \A V \in B : \E U \in A : f[U] = V
        OBVIOUS
      <3>2. ASSUME NEW U \in A, NEW V \in A, f[U] = f[V] PROVE U = V
        <4>1. n + 1 \notin U /\ n + 1 \notin V /\ U \cup {n + 1} = V \cup {n + 1}
          BY <2>3, <3>2
        <4> QED
          BY <4>1
      <3> HIDE DEF f, A, B
      <3> QED
        BY <3>1, <3>2 DEF ExistsBijection, Bijection, Injection, Surjection, IsInjective
    <2>6. IsFiniteSet(B) /\ Cardinality(B) = Cardinality(A)
      BY <2>2, <2>5, FS_Bijection
    <2>7. Cardinality(A) \in Nat
      BY <2>2, FS_CardinalityType
    <2>8. Cardinality(A \cup B) = Cardinality(A) + Cardinality(B)
      <3> HIDE DEF A, B
      <3>1. Cardinality(A \cup B) = Cardinality(A) + Cardinality(B) - Cardinality(A \cap B)
        BY <2>2, <2>6, FS_Union
      <3>2. Cardinality(A \cap B) = 0
        BY <2>4, FS_EmptySet
      <3> QED
        BY <2>6, <2>7, <3>1, <3>2
    <2>9. 2^n = Cardinality(A) /\ 2^(n + 1) = Cardinality(A) + Cardinality(A)
      BY <2>2, <2>4, <2>6, <2>8
    <2> HIDE DEF A
    <2> QED
      BY <2>7, <2>9
  <1> QED
    BY <1>1, <1>2

\* NextBackoff in terms of the streak.
LEMMA DoubledBackoff ==
  ASSUME NEW n \in Nat
  PROVE  Min2(2 * Min2(BackoffMin * 2^n, BackoffMax), BackoffMax)
           = Min2(BackoffMin * 2^(n + 1), BackoffMax)
  <1> DEFINE x == BackoffMin * 2^n
  <1>1. 2^n \in Nat /\ 2^(n + 1) = 2 * 2^n
    BY PowersOfTwo
  <1>2. x \in Nat /\ BackoffMin * 2^(n + 1) = 2 * x
    BY <1>1, BackoffRange
  <1> HIDE DEF x
  <1>3. Min2(2 * Min2(x, BackoffMax), BackoffMax) = Min2(2 * x, BackoffMax)
    BY <1>2, BackoffRange DEF Min2
  <1> QED
    BY <1>2, <1>3 DEF x

LEMMA BackoffIsNat ==
  ASSUME NEW n \in Nat
  PROVE  /\ Min2(BackoffMin * 2^n, BackoffMax) \in Nat
         /\ Min2(BackoffMin * 2^0, BackoffMax) = BackoffMin
  <1>1. 2^n \in Nat /\ 2^0 = 1
    BY PowersOfTwo
  <1>2. BackoffMin * 2^n \in Nat /\ BackoffMin * 2^0 = BackoffMin
    BY <1>1, BackoffRange
  <1> QED
    BY <1>2, BackoffRange DEF Min2

----------------------------------------------------------------------------
(***************************************************************************)
(* What a step does to the pods: it takes some away, or adds one.          *)
(***************************************************************************)
Shrinks ==
  /\ pods' \in [Services -> Seq(PodStates)]
  /\ \A t \in Services : Len(pods'[t]) = Len(pods[t])
  /\ \A t \in Services : Live(t)' \subseteq Live(t)

Grows(s) ==
  /\ pods' \in [Services -> Seq(PodStates)]
  /\ \A t \in Services : t # s => Len(pods'[t]) = Len(pods[t]) /\ Live(t)' = Live(t)
  /\ Len(pods'[s]) = Len(pods[s]) + 1
  /\ Live(s)' = Live(s) \cup {Len(pods[s]) + 1}

\* Pods are numbered.
LEMMA PodsAreCounted ==
  ASSUME SupTypes
  PROVE  \A s \in Services : Len(pods[s]) \in Nat /\ DOMAIN pods[s] = 1..Len(pods[s])
BY DEF SupTypes

LEMMA ShrinksKeepsCount ==
  ASSUME SupTypes, Shrinks
  PROVE  \A s \in Services : Len(pods'[s]) \in Nat /\ Len(pods'[s]) >= Len(pods[s])
BY PodsAreCounted DEF Shrinks

\* A sequence is a function on an interval.
LEMMA IsPodSeq ==
  ASSUME NEW n \in Nat, NEW q \in [1..n -> PodStates]
  PROVE  q \in Seq(PodStates) /\ Len(q) = n /\ DOMAIN q = 1..n
  OBVIOUS

\* What another process is at.
LEMMA OtherShape ==
  ASSUME OtherTypes, NEW p \in Others
  PROVE  /\ other[p].at \in {"idle", "make", "create", "start"}
         /\ other[p].at # "idle" => other[p].svc \in Services /\ other[p].up \in BOOLEAN
         /\ other[p].at \in {"create", "start"} => other[p].pod \in Nat
  <1>1. other[p] \in OtherStates
    BY DEF OtherTypes
  <1>2. CASE other[p] \in [at : {"idle"}]
    BY <1>2
  <1>3. CASE other[p] \in [at : {"make"}, svc : Services, up : BOOLEAN]
    BY <1>3
  <1>4. CASE other[p] \in [at : {"create", "start"}, svc : Services, up : BOOLEAN, pod : Nat]
    BY <1>4
  <1> QED
    BY <1>1, <1>2, <1>3, <1>4 DEF OtherStates

\* What may be left after the shutdown stays so.
LEMMA SameLeft ==
  ASSUME UNCHANGED <<pods, foreign, known, inFlight>>
  PROVE  \A s \in Services : Live(s)' = Live(s) /\ \A k : MayBeLeft(s, k)' <=> MayBeLeft(s, k)
BY DEF Live, MayBeLeft

LEMMA SamePods ==
  ASSUME SupTypes, UNCHANGED pods
  PROVE  Shrinks
BY DEF SupTypes, Shrinks, Live

\* One pod changes its state; a pod that is gone stays so.
LEMMA SetPod ==
  ASSUME SupTypes, NEW s \in Services, NEW k \in 1..Len(pods[s]), NEW st \in PodStates,
         pods[s][k] # "gone" \/ st = "gone",
         pods' = [pods EXCEPT ![s][k] = st]
  PROVE  Shrinks
  <1> DEFINE q == [pods[s] EXCEPT ![k] = st]
  <1>1. pods[s] \in Seq(PodStates) /\ Len(pods[s]) \in Nat /\ DOMAIN pods[s] = 1..Len(pods[s])
    BY DEF SupTypes
  <1>2. q \in [1..Len(pods[s]) -> PodStates]
    BY <1>1
  <1>3. q \in Seq(PodStates) /\ Len(q) = Len(pods[s]) /\ DOMAIN q = 1..Len(pods[s])
    BY <1>1, <1>2, IsPodSeq
  <1>4. /\ pods'[s] = q /\ \A t \in Services : t # s => pods'[t] = pods[t]
        /\ pods' \in [Services -> Seq(PodStates)]
    BY <1>3 DEF SupTypes
  <1>5. \A j \in 1..Len(pods[s]) : q[j] # "gone" => pods[s][j] # "gone"
    BY <1>1
  <1> HIDE DEF q
  <1>6. \A t \in Services : Len(pods'[t]) = Len(pods[t])
    BY <1>3, <1>4
  <1>7. ASSUME NEW t \in Services PROVE Live(t)' \subseteq Live(t)
    BY <1>1, <1>3, <1>4, <1>5 DEF Live
  <1> QED
    BY <1>4, <1>6, <1>7 DEF Shrinks

\* All pods of a service change their state; a pod that is gone stays so.
LEMMA SetPods ==
  ASSUME SupTypes, NEW s \in Services, NEW q \in [DOMAIN pods[s] -> PodStates],
         \A k \in DOMAIN pods[s] : pods[s][k] = "gone" => q[k] = "gone",
         pods' = [pods EXCEPT ![s] = q]
  PROVE  Shrinks
  <1>1. pods[s] \in Seq(PodStates) /\ Len(pods[s]) \in Nat /\ DOMAIN pods[s] = 1..Len(pods[s])
    BY DEF SupTypes
  <1>2. q \in Seq(PodStates) /\ Len(q) = Len(pods[s]) /\ DOMAIN q = 1..Len(pods[s])
    BY <1>1, IsPodSeq
  <1>3. /\ pods'[s] = q /\ \A t \in Services : t # s => pods'[t] = pods[t]
        /\ pods' \in [Services -> Seq(PodStates)]
    BY <1>2 DEF SupTypes
  <1>4. \A t \in Services : Len(pods'[t]) = Len(pods[t])
    BY <1>2, <1>3
  <1>5. ASSUME NEW t \in Services PROVE Live(t)' \subseteq Live(t)
    BY <1>1, <1>2, <1>3 DEF Live
  <1> QED
    BY <1>3, <1>4, <1>5 DEF Shrinks

\* A pod is added.
LEMMA AddPod ==
  ASSUME SupTypes, NEW s \in Services,
         pods' = [pods EXCEPT ![s] = Append(@, "sandbox")]
  PROVE  Grows(s)
  <1> DEFINE q == Append(pods[s], "sandbox")
             n == Len(pods[s])
  <1>1. pods[s] \in Seq(PodStates) /\ n \in Nat /\ DOMAIN pods[s] = 1..n
    BY DEF SupTypes
  <1>2. /\ q \in Seq(PodStates) /\ Len(q) = n + 1 /\ DOMAIN q = 1..n + 1
        /\ \A k \in 1..n : q[k] = pods[s][k]
        /\ q[n + 1] = "sandbox"
    BY <1>1 DEF PodStates
  <1>3. /\ pods'[s] = q /\ \A t \in Services : t # s => pods'[t] = pods[t]
        /\ pods' \in [Services -> Seq(PodStates)]
    BY <1>2 DEF SupTypes
  <1> HIDE DEF q, n
  <1>4. ASSUME NEW k \in 1..n + 1 PROVE k \in 1..n \/ k = n + 1
    BY <1>1
  <1>5. Live(s)' = Live(s) \cup {n + 1}
    BY <1>1, <1>2, <1>3, <1>4 DEF Live
  <1>6. \A t \in Services : t # s => Len(pods'[t]) = Len(pods[t]) /\ Live(t)' = Live(t)
    BY <1>3 DEF Live
  <1>7. Len(pods'[s]) = n + 1
    BY <1>2, <1>3
  <1> QED
    BY <1>3, <1>5, <1>6, <1>7 DEF Grows, n

----------------------------------------------------------------------------
(***************************************************************************)
(* The invariant is inductive.                                             *)
(***************************************************************************)
\* It holds when the supervisor starts.
LEMMA SupInvInit ==
  ASSUME SupInit
  PROVE  SupInv
  <1> USE DEF SupInit
  <1>1. <<"running">> \in Seq(PodStates) /\ Len(<<"running">>) = 1
    BY DEF PodStates
  <1>2. signalled \in BOOLEAN /\ stopped \in BOOLEAN /\ clean \in BOOLEAN
    BY Zenon
  <1>3. SupTypes
    BY <1>1, <1>2, BackoffRange DEF SupTypes
  <1>4. \A s \in Services : Live(s) \subseteq {1}
    BY <1>1 DEF Live
  <1>9. OtherTypes
    BY DEF OtherTypes, OtherStates
  <1>5. Replacing
    <2>1. \A s \in Services : ~OwnPending(s) /\ Pending(s) = {}
      BY DEF OwnPending, Pending
    <2> QED
      BY <1>4, <2>1 DEF Replacing, Own, Apart
  <1>6. ShuttingDown
    BY DEF ShuttingDown, LeakBounded
  <1>7. Restarting
    BY DEF Restarting
  <1>8. BackoffExact
    BY BackoffIsNat DEF BackoffExact
  <1> QED
    BY <1>3, <1>5, <1>6, <1>7, <1>8, <1>9 DEF SupInv

\* Steps of others that add no pod.
LEMMA OutsideStep ==
  ASSUME SupInv, Shrinks, UNCHANGED <<abandoned, watchVars, mainVars, foreign>>,
         OtherTypes', \A s \in Services : s \notin raced' => Apart(s)'
  PROVE  SupInv'
  <1> USE DEF SupInv, watchVars, mainVars
  <1>1. SupTypes'
    BY DEF SupTypes, Shrinks
  <1>2. Replacing'
    BY DEF Replacing, Own, OwnPending, Shrinks
  <1>3. ShuttingDown'
    <2>1. main = "teardown" => Head(shutTodo) \in Services
      BY DEF SupTypes
    <2> QED
      BY <2>1 DEF ShuttingDown, LeakBounded, MayBeLeft, Shrinks
  <1>4. Restarting'
    BY DEF Restarting, MayRestart
  <1>5. BackoffExact'
    BY DEF BackoffExact
  <1> QED
    BY <1>1, <1>2, <1>3, <1>4, <1>5

\* Fewer pods, and as many creators as before.
LEMMA StillApart ==
  ASSUME SupInv, Shrinks, UNCHANGED <<watcher, abandoned, other, raced>>
  PROVE  \A s \in Services : s \notin raced' => Apart(s)'
BY DEF SupInv, Replacing, Apart, OwnPending, Pending, Shrinks

LEMMA SameOthers ==
  ASSUME SupInv, UNCHANGED <<other, foreign>>, \A s \in Services : Len(pods'[s]) >= Len(pods[s]),
         \A s \in Services : Len(pods'[s]) \in Nat
  PROVE  OtherTypes'
  <1>1. ASSUME NEW s \in Services PROVE foreign'[s] \subseteq 1..Len(pods'[s])
    <2>1. Len(pods[s]) \in Nat /\ Len(pods'[s]) \in Nat /\ Len(pods'[s]) >= Len(pods[s])
      BY PodsAreCounted DEF SupInv
    <2>2. 1..Len(pods[s]) \subseteq 1..Len(pods'[s])
      BY <2>1
    <2> QED
      BY <2>2 DEF SupInv, OtherTypes
  <1> QED
    BY <1>1 DEF SupInv, OtherTypes

\* Containers that end, and pods that are removed.
LEMMA TakenAway ==
  ASSUME SupInv, Shrinks, UNCHANGED <<abandoned, watchVars, mainVars, otherVars>>
  PROVE  SupInv'
  <1>1. OtherTypes'
    BY SameOthers, ShrinksKeepsCount DEF otherVars, SupInv
  <1> QED
    BY <1>1, StillApart, OutsideStep DEF otherVars, watchVars

\* A watcher moves on, and pods are taken away or stay.
LEMMA WatcherMoves ==
  ASSUME SupInv, Shrinks, NEW s \in Services, s \notin abandoned,
         NEW p \in {"loop", "wait", "backoff", "image", "run", "start", "done", "died"},
         watcher' = [watcher EXCEPT ![s] = p],
         UNCHANGED <<abandoned, mainVars, other, foreign>>,
         p # "image" => raced' = raced,
         \A t \in Services : t # s => (t \in raced' <=> t \in raced),
         target' \in [Services -> Nat],
         \A t \in Services : target'[t] \in 1..Len(pods[t]),
         backoff' \in [Services -> Nat], streak' \in [Services -> Nat], BackoffExact',
         lastExit' \in [Services -> {"none", "exit0", "exit1"}],
         \A t \in Services : t # s => lastExit'[t] = lastExit[t],
         p = "image" => Live(s)' = {} /\ (s \in raced' \/ Pending(s) = {}),
         p = "run" => watcher[s] = "image" /\ ~signalled,
         p \in {"backoff", "image", "run"} => MayRestart(s)'
  PROVE  SupInv'
  <1> USE DEF SupInv, mainVars
  <1>1. watcher'[s] = p /\ \A t \in Services : t # s => watcher'[t] = watcher[t]
    BY DEF SupTypes
  <1>2. SupTypes'
    BY DEF SupTypes, Shrinks
  <1>6. OtherTypes'
    BY SameOthers, ShrinksKeepsCount
  <1>7. \A t \in Services : Pending(t)' = Pending(t)
    BY DEF Pending
  <1>8. /\ \A t \in Services : t # s => (OwnPending(t)' <=> OwnPending(t))
        /\ OwnPending(s)' <=> p \in {"image", "run"}
    BY <1>1 DEF OwnPending
  <1>3. Replacing'
    <2>1. ASSUME NEW t \in Services PROVE Own(t)'
      <3>1. CASE t = s
        BY <1>1, <1>8, <3>1 DEF Replacing, Own, OwnPending, Shrinks
      <3>2. CASE t # s
        BY <1>1, <1>8, <3>2 DEF Replacing, Own, Shrinks
      <3> QED
        BY <3>1, <3>2
    <2>2. ASSUME NEW t \in Services, t \notin raced' PROVE Apart(t)'
      <3>1. CASE t = s /\ p = "image"
        <4>1. Live(t)' = {} /\ Pending(t)' = {}
          BY <1>7, <2>2, <3>1
        <4> QED
          BY <4>1 DEF Apart
      <3>2. CASE ~(t = s /\ p = "image")
        <4>1. Apart(t) /\ (OwnPending(t)' => OwnPending(t))
          BY <1>8, <2>2, <3>2 DEF Replacing, OwnPending
        <4> QED
          BY <1>7, <4>1 DEF Apart, Shrinks
      <3> QED
        BY <3>1, <3>2
    <2> QED
      BY <2>1, <2>2 DEF Replacing
  <1>4. ShuttingDown'
    <2>1. main = "teardown" => Head(shutTodo) \in Services
      BY DEF SupTypes
    <2> QED
      BY <1>1, <2>1 DEF ShuttingDown, LeakBounded, MayBeLeft, Shrinks
  <1>5. Restarting'
    BY <1>1 DEF Restarting, MayRestart
  <1> QED
    BY <1>2, <1>3, <1>4, <1>5, <1>6

\* A watcher that is not over is not one whose call was abandoned.
LEMMA NotAbandoned ==
  ASSUME SupInv, NEW s \in Services, watcher[s] # "done"
  PROVE  s \notin abandoned
BY DEF SupInv, Replacing, Own

\* Die and the backoff that stays as it is.
LEMMA WatcherDies ==
  ASSUME SupInv, Shrinks, NEW s \in Services, watcher[s] # "done", Die(s),
         UNCHANGED <<abandoned, otherVars, target, backoff, streak, lastExit, mainVars>>
  PROVE  SupInv'
  <1> USE DEF SupInv, otherVars
  <1>1. PICK p \in {"done", "died"} : watcher' = [watcher EXCEPT ![s] = p]
    BY DEF Die, Goto
  <1>2. BackoffExact'
    BY DEF BackoffExact
  <1>3. /\ target' \in [Services -> Nat] /\ \A t \in Services : target'[t] \in 1..Len(pods[t])
        /\ backoff' \in [Services -> Nat] /\ streak' \in [Services -> Nat]
        /\ lastExit' \in [Services -> {"none", "exit0", "exit1"}]
    BY DEF SupTypes
  <1>4. s \notin abandoned
    BY NotAbandoned
  <1> QED
    BY <1>1, <1>2, <1>3, <1>4, WatcherMoves

LEMMA LookupStep ==
  ASSUME SupInv, NEW s \in Services, Lookup(s)
  PROVE  SupInv'
  <1> USE DEF Lookup, rtVars, otherVars
  <1>1. Shrinks
    BY SamePods DEF SupInv
  <1>2. s \notin abandoned
    BY NotAbandoned
  <1>3. ASSUME NEW k \in Live(s), target' = [target EXCEPT ![s] = k], Goto(s, "wait")
        PROVE  SupInv'
    <2>1. /\ target' \in [Services -> Nat]
          /\ \A t \in Services : target'[t] \in 1..Len(pods[t])
          /\ backoff' \in [Services -> Nat] /\ streak' \in [Services -> Nat]
          /\ lastExit' \in [Services -> {"none", "exit0", "exit1"}]
      <3>1. k \in 1..Len(pods[s]) /\ Len(pods[s]) \in Nat
        BY PodsAreCounted DEF SupInv, Live
      <3>2. /\ target \in [Services -> Nat]
            /\ \A t \in Services : target[t] \in 1..Len(pods[t])
        BY DEF SupInv, SupTypes
      <3>3. /\ target' \in [Services -> Nat]
            /\ \A t \in Services : target'[t] \in 1..Len(pods[t])
        BY <1>3, <3>1, <3>2
      <3> QED
        BY <1>3, <3>3 DEF SupInv, SupTypes
    <2>2. BackoffExact'
      BY DEF SupInv, BackoffExact
    <2> QED
      BY <1>1, <1>2, <1>3, <2>1, <2>2, WatcherMoves DEF Goto
  <1>4. CASE Die(s) /\ UNCHANGED target
    BY <1>1, <1>4, WatcherDies
  <1> QED
    BY <1>3, <1>4

LEMMA SeeExitStep ==
  ASSUME SupInv, NEW s \in Services, NEW ranLong \in BOOLEAN, SeeExit(s, ranLong)
  PROVE  SupInv'
  <1> USE DEF SeeExit, rtVars, otherVars
  <1>1. Shrinks
    BY SamePods DEF SupInv
  <1>2. s \notin abandoned
    BY NotAbandoned
  <1>3. /\ target' \in [Services -> Nat] /\ \A t \in Services : target'[t] \in 1..Len(pods[t])
        /\ lastExit' \in [Services -> {"none", "exit0", "exit1"}]
        /\ lastExit'[s] = Target(s) /\ Target(s) \in {"exit0", "exit1"}
        /\ \A t \in Services : t # s => lastExit'[t] = lastExit[t]
    BY DEF SupInv, SupTypes, Exited
  <1>4. CASE ShouldRestart(Policy[s], Target(s), stopped) /\ ~signalled
    <2>1. /\ backoff' = [backoff EXCEPT ![s] = BackoffAfter(s, ranLong)]
          /\ streak' = [streak EXCEPT ![s] = IF ranLong THEN 0 ELSE @]
          /\ watcher' = [watcher EXCEPT ![s] = "backoff"]
      BY <1>4 DEF Goto
    <2>2. MayRestart(s)'
      BY <1>3, <1>4, PolicyIsTotal DEF MayRestart, ShouldRestart, Exited
    <2>3. BackoffAfter(s, ranLong) \in Nat
      BY BackoffRange DEF SupInv, SupTypes, BackoffAfter
    <2>4. backoff' \in [Services -> Nat] /\ streak' \in [Services -> Nat]
      BY <2>1, <2>3 DEF SupInv, SupTypes
    <2>5. BackoffExact'
      <3>1. ASSUME NEW t \in Services
            PROVE  backoff'[t] = Min2(BackoffMin * 2^streak'[t], BackoffMax)
        <4>1. CASE t = s /\ ranLong
          <5>1. backoff'[t] = BackoffMin /\ streak'[t] = 0
            BY <2>1, <4>1 DEF SupInv, SupTypes, BackoffAfter
          <5> QED
            BY <5>1, BackoffIsNat
        <4>2. CASE ~(t = s /\ ranLong)
          <5>1. backoff'[t] = backoff[t] /\ streak'[t] = streak[t]
            BY <2>1, <4>2 DEF SupInv, SupTypes, BackoffAfter
          <5> QED
            BY <5>1 DEF SupInv, BackoffExact
        <4> QED
          BY <4>1, <4>2
      <3> QED
        BY <3>1 DEF BackoffExact
    <2> QED
      BY <1>1, <1>2, <1>3, <2>1, <2>2, <2>4, <2>5, WatcherMoves
  <1>5. CASE ~(ShouldRestart(Policy[s], Target(s), stopped) /\ ~signalled)
    <2>1. UNCHANGED <<backoff, streak>> /\ watcher' = [watcher EXCEPT ![s] = "done"]
      BY <1>5 DEF Goto
    <2>2. BackoffExact' /\ backoff' \in [Services -> Nat] /\ streak' \in [Services -> Nat]
      BY <2>1 DEF SupInv, BackoffExact, SupTypes
    <2> QED
      BY <1>1, <1>2, <1>3, <2>1, <2>2, WatcherMoves
  <1> QED
    BY <1>4, <1>5

LEMMA RemoveOldStep ==
  ASSUME SupInv, NEW s \in Services, RemoveOld(s)
  PROVE  SupInv'
  <1> USE DEF RemoveOld
  <1> DEFINE q == [k \in DOMAIN pods[s] |-> "gone"]
  <1>1. pods' = [pods EXCEPT ![s] = q] /\ q \in [DOMAIN pods[s] -> PodStates]
    BY DEF SupInv, SupTypes, PodStates
  <1>2. \A k \in DOMAIN pods[s] : pods[s][k] = "gone" => q[k] = "gone"
    OBVIOUS
  <1>3. Shrinks
    BY <1>1, <1>2, SetPods DEF SupInv
  <1>4. Live(s)' = {}
    <2>1. pods'[s] = q
      BY <1>1 DEF SupInv, SupTypes
    <2> QED
      BY <2>1 DEF Live
  <1>5. s \notin abandoned /\ MayRestart(s)
    BY NotAbandoned DEF SupInv, Restarting
  <1>6. /\ target' \in [Services -> Nat] /\ \A t \in Services : target'[t] \in 1..Len(pods[t])
        /\ backoff' \in [Services -> Nat] /\ streak' \in [Services -> Nat]
        /\ lastExit' \in [Services -> {"none", "exit0", "exit1"}]
        /\ BackoffExact' /\ MayRestart(s)'
    BY <1>5 DEF SupInv, SupTypes, BackoffExact, MayRestart
  <1>7. /\ s \in raced' \/ Pending(s) = {}
        /\ \A t \in Services : t # s => (t \in raced' <=> t \in raced)
    OBVIOUS
  <1> QED
    BY <1>3, <1>4, <1>5, <1>6, <1>7, WatcherMoves DEF Goto

LEMMA RunPodSandboxStep ==
  ASSUME SupInv, NEW s \in Services, RunPodSandbox(s)
  PROVE  SupInv'
  <1> USE DEF RunPodSandbox, rtVars, otherVars
  <1>1. Shrinks
    BY SamePods DEF SupInv
  <1>2. s \notin abandoned /\ MayRestart(s)
    BY NotAbandoned DEF SupInv, Restarting
  <1>3. /\ target' \in [Services -> Nat] /\ \A t \in Services : target'[t] \in 1..Len(pods[t])
        /\ backoff' \in [Services -> Nat] /\ streak' \in [Services -> Nat]
        /\ lastExit' \in [Services -> {"none", "exit0", "exit1"}]
        /\ BackoffExact' /\ MayRestart(s)'
    BY <1>2 DEF SupInv, SupTypes, BackoffExact, MayRestart
  <1> QED
    BY <1>1, <1>2, <1>3, WatcherMoves DEF Goto

\* What becomes of the pods when one is added to s: by its watcher or in its place,
LEMMA OwnPodAdded ==
  ASSUME SupInv, NEW s \in Services, Grows(s), OwnPending(s), ~OwnPending(s)',
         \A t \in Services : t # s => (OwnPending(t)' <=> OwnPending(t)),
         \A t \in Services : t \in abandoned' => t \in abandoned /\ watcher'[t] = watcher[t],
         s \in inFlight \/ ~signalled,
         \A t \in Services : t \in abandoned' \/ (signalled /\ watcher'[t] = "run")
                              => t \in abandoned \/ (signalled /\ watcher[t] = "run"),
         UNCHANGED <<otherVars, mainVars>>
  PROVE  OtherTypes' /\ Replacing' /\ ShuttingDown'
  <1> USE DEF SupInv, otherVars, mainVars
  <1>1. Len(pods[s]) \in Nat /\ \A t \in Services : Len(pods[t]) \in Nat
    BY PodsAreCounted
  <1>6. PICK n \in Nat : n = Len(pods[s])
    BY <1>1
  <1>2. OtherTypes'
    BY <1>1, SameOthers DEF Grows
  <1>3. \A t \in Services : Pending(t)' = Pending(t)
    BY DEF Pending
  <1>4. Replacing'
    <2>1. ASSUME NEW t \in Services PROVE Own(t)'
      BY <2>1 DEF Replacing, Own, Grows
    <2>2. ASSUME NEW t \in Services, t \notin raced' PROVE Apart(t)'
      <3>1. CASE t = s
        <4>1. Live(s) = {} /\ Pending(s) = {}
          BY <2>2, <3>1 DEF Replacing, Apart
        <4> QED
          BY <1>3, <3>1, <4>1 DEF Apart, Grows
      <3>2. CASE t # s
        <4>1. Live(t)' = Live(t) /\ Apart(t) /\ (OwnPending(t)' <=> OwnPending(t))
          BY <2>2, <3>2 DEF Grows, Replacing
        <4> QED
          BY <1>3, <4>1 DEF Apart
      <3> QED
        BY <3>1, <3>2
    <2> QED
      BY <2>1, <2>2 DEF Replacing
  <1>5. ShuttingDown'
    <2>1. main = "teardown" => Head(shutTodo) \in Services
      BY DEF SupTypes
    <2>2. signalled => MayBeLeft(s, n + 1)'
      <3>1. known[s] \in Nat /\ known[s] <= n
        BY <1>6 DEF SupTypes
      <3> QED
        BY <3>1 DEF MayBeLeft
    <2>3. \A t \in Services : \A k \in Live(t)' : k \in Live(t) \/ (t = s /\ k = n + 1)
      BY <1>6 DEF Grows
    <2>4. \A t \in Services : \A k : MayBeLeft(t, k)' <=> MayBeLeft(t, k)
      BY DEF MayBeLeft
    <2>5. signalled =>
          /\ \A t \in Services : (\A k \in Live(t) : MayBeLeft(t, k))
                                 => \A k \in Live(t)' : MayBeLeft(t, k)'
          /\ \A t \in Services : (\A k \in Live(t) \ shutPods : MayBeLeft(t, k))
                                 => \A k \in Live(t)' \ shutPods : MayBeLeft(t, k)'
      BY <2>2, <2>3, <2>4
    <2> QED
      BY <2>1, <2>5 DEF ShuttingDown, LeakBounded
  <1> QED
    BY <1>2, <1>4, <1>5

\* The pod of a restart: only others had one, and after the signal the service is
\* one of those under way.
LEMMA SandboxReadyStep ==
  ASSUME SupInv, NEW s \in Services, SandboxReady(s)
  PROVE  SupInv'
  <1> USE DEF SupInv, SandboxReady, mainVars
  <1>1. Grows(s)
    BY AddPod
  <1>2. s \notin abandoned /\ (signalled => s \in inFlight)
    BY NotAbandoned DEF ShuttingDown
  <1>3. /\ watcher'[s] = "create" /\ \A t \in Services : t # s => watcher'[t] = watcher[t]
        /\ target'[s] = Len(pods[s]) + 1 /\ \A t \in Services : t # s => target'[t] = target[t]
        /\ Len(pods[s]) \in Nat
    BY DEF SupTypes, Goto
  <1>4. SupTypes'
    <2>1. watcher' \in [Services -> {"loop", "wait", "backoff", "image", "run", "create",
                                     "start", "done", "died"}]
      BY DEF SupTypes, Goto
    <2>2. target' \in [Services -> Nat]
      BY <1>3 DEF SupTypes
    <2>3. \A t \in Services : target'[t] \in 1..Len(pods'[t]) /\ known[t] <= Len(pods'[t])
      BY <1>1, <1>3 DEF Grows, SupTypes
    <2> QED
      BY <1>1, <2>1, <2>2, <2>3 DEF SupTypes, Grows
  <1>5. /\ OwnPending(s) /\ ~OwnPending(s)'
        /\ \A t \in Services : t # s => (OwnPending(t)' <=> OwnPending(t))
    BY <1>2, <1>3 DEF OwnPending
  <1>6. OtherTypes' /\ Replacing' /\ ShuttingDown'
    BY <1>1, <1>2, <1>3, <1>5, OwnPodAdded
  <1>7. Restarting'
    BY <1>3 DEF Restarting, MayRestart
  <1>8. BackoffExact'
    BY DEF BackoffExact
  <1> QED
    BY <1>4, <1>6, <1>7, <1>8

LEMMA CreateContainerStep ==
  ASSUME SupInv, NEW s \in Services, CreateContainer(s)
  PROVE  SupInv'
  <1> USE DEF CreateContainer, otherVars
  <1>1. CASE Target(s) = "sandbox"
    <2>1. Shrinks
      BY <1>1, SetPod DEF Target, SupInv, SupTypes, PodStates
    <2>2. s \notin abandoned
      BY NotAbandoned
    <2>3. /\ target' \in [Services -> Nat]
          /\ \A t \in Services : target'[t] \in 1..Len(pods[t])
          /\ backoff' \in [Services -> Nat] /\ streak' \in [Services -> Nat]
          /\ lastExit' \in [Services -> {"none", "exit0", "exit1"}]
          /\ BackoffExact'
      BY DEF SupInv, SupTypes, BackoffExact
    <2> QED
      BY <1>1, <2>1, <2>2, <2>3, WatcherMoves DEF Goto
  <1>2. CASE Target(s) # "sandbox"
    BY <1>2, SamePods, WatcherDies DEF SupInv
  <1> QED
    BY <1>1, <1>2

LEMMA StartContainerStep ==
  ASSUME SupInv, NEW s \in Services, StartContainer(s)
  PROVE  SupInv'
  <1> USE DEF StartContainer, otherVars
  <1>1. CASE Target(s) = "created"
    <2>1. Shrinks
      BY <1>1, SetPod DEF Target, SupInv, SupTypes, PodStates
    <2>2. s \notin abandoned
      BY NotAbandoned
    <2>3. /\ backoff' = [backoff EXCEPT ![s] = NextBackoff(s)]
          /\ streak' = [streak EXCEPT ![s] = @ + 1]
      BY <1>1
    <2>4. NextBackoff(s) = Min2(BackoffMin * 2^(streak[s] + 1), BackoffMax)
      <3>1. streak[s] \in Nat /\ backoff[s] = Min2(BackoffMin * 2^streak[s], BackoffMax)
        BY DEF SupInv, SupTypes, BackoffExact
      <3> QED
        BY <3>1, DoubledBackoff DEF NextBackoff
    <2>5. streak[s] + 1 \in Nat /\ NextBackoff(s) \in Nat
      <3>1. streak[s] \in Nat /\ streak[s] + 1 \in Nat
        BY DEF SupInv, SupTypes
      <3> QED
        BY <2>4, <3>1, BackoffIsNat
    <2>6. backoff' \in [Services -> Nat] /\ streak' \in [Services -> Nat]
      BY <2>3, <2>5 DEF SupInv, SupTypes
    <2>7. BackoffExact'
      <3>1. ASSUME NEW t \in Services
            PROVE  backoff'[t] = Min2(BackoffMin * 2^streak'[t], BackoffMax)
        <4>1. CASE t = s
          <5>1. backoff'[t] = NextBackoff(s) /\ streak'[t] = streak[s] + 1
            BY <2>3, <4>1 DEF SupInv, SupTypes
          <5> QED
            BY <2>4, <5>1
        <4>2. CASE t # s
          <5>1. backoff'[t] = backoff[t] /\ streak'[t] = streak[t]
            BY <2>3, <4>2 DEF SupInv, SupTypes
          <5> QED
            BY <5>1 DEF SupInv, BackoffExact
        <4> QED
          BY <4>1, <4>2
      <3> QED
        BY <3>1 DEF BackoffExact
    <2>8. /\ target' \in [Services -> Nat]
          /\ \A t \in Services : target'[t] \in 1..Len(pods[t])
          /\ lastExit' \in [Services -> {"none", "exit0", "exit1"}]
      BY DEF SupInv, SupTypes
    <2> QED
      BY <1>1, <2>1, <2>2, <2>6, <2>7, <2>8, WatcherMoves DEF Goto
  <1>2. CASE Target(s) # "created"
    BY <1>2, SamePods, WatcherDies DEF SupInv
  <1> QED
    BY <1>1, <1>2

\* The context is done; an abandoned call was under way at the signal.
LEMMA WatcherCancelledStep ==
  ASSUME SupInv, NEW s \in Services, WatcherCancelled(s)
  PROVE  SupInv'
  <1> USE DEF SupInv, WatcherCancelled, mainVars, otherVars
  <1>1. Shrinks
    BY SamePods
  <1>2. /\ watcher'[s] = "done" /\ \A t \in Services : t # s => watcher'[t] = watcher[t]
        /\ watcher' \in [Services -> {"loop", "wait", "backoff", "image", "run", "create",
                                      "start", "done", "died"}]
    BY DEF SupTypes, Goto
  <1>3. \A t \in Services : t \in abandoned' <=> t \in abandoned \/ (t = s /\ watcher[s] = "run")
    OBVIOUS
  <1>4. SupTypes'
    BY <1>1, <1>2 DEF SupTypes, Shrinks
  <1>9. OtherTypes'
    BY <1>1, SameOthers, ShrinksKeepsCount
  <1>5. Replacing'
    <2>1. \A t \in Services : (OwnPending(t)' => OwnPending(t)) /\ Pending(t)' = Pending(t)
      BY <1>2, <1>3 DEF OwnPending, Pending
    <2> QED
      BY <1>1, <1>2, <1>3, <2>1 DEF Replacing, Own, Apart, Shrinks
  <1>6. ShuttingDown'
    <2>1. main = "teardown" => Head(shutTodo) \in Services
      BY DEF SupTypes
    <2> QED
      BY <1>1, <1>2, <1>3, <2>1 DEF ShuttingDown, LeakBounded, MayBeLeft, Shrinks
  <1>7. Restarting'
    BY <1>2, <1>3 DEF Restarting, MayRestart
  <1>8. BackoffExact'
    BY DEF BackoffExact
  <1> QED
    BY <1>4, <1>5, <1>6, <1>7, <1>8, <1>9

LEMMA CallFailsStep ==
  ASSUME SupInv, NEW s \in Services, CallFails(s)
  PROVE  SupInv'
  <1> USE DEF CallFails, Over
  <1>1. Shrinks
    <2>1. CASE UNCHANGED pods
      BY <2>1, SamePods DEF SupInv
    <2>2. CASE ~UNCHANGED pods
      <3> DEFINE q == [k \in DOMAIN pods[s] |-> IF pods[s][k] = "gone" THEN "gone" ELSE "sandbox"]
      <3>1. pods' = [pods EXCEPT ![s] = q] /\ q \in [DOMAIN pods[s] -> PodStates]
        BY <2>2 DEF SupInv, SupTypes, PodStates
      <3>2. \A k \in DOMAIN pods[s] : pods[s][k] = "gone" => q[k] = "gone"
        OBVIOUS
      <3> QED
        BY <3>1, <3>2, SetPods DEF SupInv
    <2> QED
      BY <2>1, <2>2
  <1> QED
    BY <1>1, WatcherDies

----------------------------------------------------------------------------
\* The abandoned call completes: only others had pods.
LEMMA LateSandboxStep ==
  ASSUME SupInv, NEW s \in Services, LateSandbox(s)
  PROVE  SupInv'
  <1> USE DEF SupInv, LateSandbox, mainVars, watchVars
  <1>1. Grows(s)
    BY AddPod
  <1>2. s \in inFlight /\ watcher[s] = "done" /\ Len(pods[s]) \in Nat
    BY DEF Replacing, Own, ShuttingDown, SupTypes
  <1>3. SupTypes'
    <2>1. \A t \in Services : target'[t] \in 1..Len(pods'[t]) /\ known[t] <= Len(pods'[t])
      BY <1>1, <1>2 DEF Grows, SupTypes
    <2> QED
      BY <1>1, <2>1 DEF SupTypes, Grows
  <1>4. /\ OwnPending(s) /\ ~OwnPending(s)'
        /\ \A t \in Services : t # s => (OwnPending(t)' <=> OwnPending(t))
    BY <1>2 DEF OwnPending
  <1>5. OtherTypes' /\ Replacing' /\ ShuttingDown'
    BY <1>1, <1>2, <1>4, OwnPodAdded
  <1>6. Restarting' /\ BackoffExact'
    BY DEF Restarting, MayRestart, BackoffExact
  <1> QED
    BY <1>3, <1>5, <1>6

\* The main goroutine changes neither pods nor watchers, except by removing.
LEMMA MainOnly ==
  ASSUME SupInv, UNCHANGED <<rtVars, watchVars>>, SupTypes', ShuttingDown',
         signalled => signalled'
  PROVE  SupInv'
  <1> USE DEF SupInv, rtVars, watchVars, otherVars
  <1>1. Replacing'
    BY DEF Replacing, Own, Apart, OwnPending, Pending, Live
  <1>2. Restarting' /\ BackoffExact'
    BY DEF Restarting, MayRestart, BackoffExact
  <1>3. OtherTypes'
    BY DEF OtherTypes
  <1> QED
    BY <1>1, <1>2, <1>3

\* The signal: what is in flight is remembered.
LEMMA SignalStep ==
  ASSUME SupInv, Signal
  PROVE  SupInv'
  <1> USE DEF Signal, rtVars, watchVars
  <1>1. SupTypes'
    BY DEF SupInv, SupTypes
  <1>2. ShuttingDown'
    BY DEF SupInv, SupTypes, Replacing, Own, ShuttingDown, LeakBounded
  <1> QED
    BY <1>1, <1>2, MainOnly

\* The shutdown has all services to take down, so it owes none yet.
LEMMA BeginShutdownStep ==
  ASSUME SupInv, main \in {"start", "select"}, BeginShutdown
  PROVE  SupInv'
  <1> USE DEF BeginShutdown, rtVars, watchVars
  <1>1. SupTypes'
    BY StopSeqIsComplete DEF SupInv, SupTypes
  <1>2. ShuttingDown'
    BY StopSeqIsComplete DEF SupInv, ShuttingDown, LeakBounded, MayBeLeft, Live
  <1> QED
    BY <1>1, <1>2, MainOnly

\* Steps of the main goroutine on its way through the select and at its end.
LEMMA QuietMainStep ==
  ASSUME SupInv, \/ main = "start" /\ SupervisorReturns
                 \/ main = "select" /\ SupervisorReturns
                 \/ main = "start" /\ main' = "select"
                    /\ UNCHANGED <<rtVars, watchVars, signalled, stopped, shutTodo, shutPods,
                                   clean, inFlight, known, budget>>
                 \/ AwaitSupervisor
                 \/ ShutdownFails
  PROVE  SupInv'
  <1>1. /\ UNCHANGED <<rtVars, watchVars, signalled, stopped, shutTodo, clean, inFlight, known>>
        /\ main' \in {"select", "await", "exited"} /\ (main' = "select" => main = "start")
        /\ (main' = "await" => signalled)
        /\ shutPods' = {}
    BY DEF SupervisorReturns, AwaitSupervisor, ShutdownFails, SupInv, SupTypes, ShuttingDown
  <1>2. SupTypes'
    BY <1>1 DEF SupInv, SupTypes, rtVars, watchVars
  <1>3. ShuttingDown'
    BY <1>1, SameLeft DEF SupInv, ShuttingDown, LeakBounded, rtVars, otherVars, watchVars
  <1> QED
    BY <1>1, <1>2, <1>3, MainOnly

\* ServiceDown: its pods are listed, and removed one by one.
LEMMA ListForDownStep ==
  ASSUME SupInv, ListForDown
  PROVE  SupInv'
  <1> USE DEF ListForDown, rtVars, watchVars
  <1>1. SupTypes'
    BY DEF SupInv, SupTypes
  <1>2. ShuttingDown'
    <2>1. /\ shutPods' = Live(Head(shutTodo)) /\ UNCHANGED shutTodo /\ main' = "teardown"
          /\ Head(shutTodo) \in Services
      BY DEF SupInv, SupTypes
    <2>2. \A s \in Services : Live(s)' = Live(s) /\ \A k : MayBeLeft(s, k)' <=> MayBeLeft(s, k)
      BY SameLeft DEF otherVars
    <2>3. Live(Head(shutTodo))' \ shutPods' = {}
      BY <2>1, <2>2
    <2> QED
      BY <2>1, <2>2, <2>3 DEF SupInv, ShuttingDown, LeakBounded
  <1> QED
    BY <1>1, <1>2, MainOnly

LEMMA StopForDownStep ==
  ASSUME SupInv, NEW k \in shutPods, NEW st \in Exited, StopForDown(k, st)
  PROVE  SupInv'
  <1> USE DEF StopForDown
  <1> DEFINE h == Head(shutTodo)
  <1>1. h \in Services
    BY DEF SupInv, SupTypes
  <1>2. CASE k \in 1..Len(pods[h])
    <2>1. Shrinks
      BY <1>1, <1>2, SetPod DEF SupInv, Exited, PodStates
    <2> QED
      BY <2>1, TakenAway
  <1>3. CASE k \notin 1..Len(pods[h])
    <2>1. k \notin DOMAIN pods[h]
      BY <1>1, <1>3 DEF SupInv, SupTypes
    <2>2. pods' = pods
      BY <1>1, <2>1 DEF SupInv, SupTypes
    <2> QED
      BY <2>2, SamePods, TakenAway DEF SupInv
  <1> QED
    BY <1>2, <1>3

LEMMA RemoveForDownStep ==
  ASSUME SupInv, NEW k \in shutPods, RemoveForDown(k)
  PROVE  SupInv'
  <1> USE DEF RemoveForDown
  <1> DEFINE h == Head(shutTodo)
  <1>1. h \in Services
    BY DEF SupInv, SupTypes
  <1>2. /\ Shrinks
        /\ k \notin Live(h)'
    <2>1. CASE k \in 1..Len(pods[h])
      <3>1. Shrinks
        BY <1>1, <2>1, SetPod DEF SupInv, PodStates
      <3>2. pods'[h][k] = "gone"
        BY <1>1, <2>1 DEF SupInv, SupTypes
      <3> QED
        BY <3>1, <3>2 DEF Live
    <2>2. CASE k \notin 1..Len(pods[h])
      <3>1. k \notin DOMAIN pods[h]
        BY <1>1, <2>2 DEF SupInv, SupTypes
      <3>2. pods' = pods
        BY <1>1, <3>1 DEF SupInv, SupTypes
      <3> QED
        BY <3>1, <3>2, SamePods DEF SupInv, Live
    <2> QED
      BY <2>1, <2>2
  <1> HIDE DEF RemoveForDown
  <1>3. /\ UNCHANGED <<abandoned, otherVars, watchVars, signalled, stopped, main, shutTodo,
                       clean, inFlight, known>>
        /\ main = "teardown" /\ shutPods' = shutPods \ {k}
    BY DEF RemoveForDown
  <1> USE <1>3 DEF SupInv, watchVars, otherVars
  <1>4. SupTypes' /\ OtherTypes'
    BY <1>2, SameOthers DEF SupTypes, Shrinks
  <1>5. Replacing'
    BY <1>2, StillApart DEF Replacing, Own, OwnPending, Shrinks
  <1>6. ShuttingDown'
    BY <1>1, <1>2 DEF ShuttingDown, LeakBounded, MayBeLeft, Shrinks
  <1>7. Restarting' /\ BackoffExact'
    BY DEF Restarting, MayRestart, BackoffExact
  <1> QED
    BY <1>4, <1>5, <1>6, <1>7

\* ... until none of them is left.
LEMMA ServiceIsDownStep ==
  ASSUME SupInv, ServiceIsDown
  PROVE  SupInv'
  <1> USE DEF ServiceIsDown, rtVars, watchVars
  <1>1. SupTypes'
    BY DEF SupInv, SupTypes
  <1>2. \A s \in Range(shutTodo) : s = Head(shutTodo) \/ s \in Range(Tail(shutTodo))
    <2>1. shutTodo \in Seq(Services) /\ shutTodo # <<>>
      BY DEF SupInv, SupTypes
    <2>2. ASSUME NEW i \in DOMAIN shutTodo
          PROVE  shutTodo[i] = Head(shutTodo) \/ shutTodo[i] \in Range(Tail(shutTodo))
      <3>1. CASE i = 1
        BY <2>1, <3>1
      <3>2. CASE i # 1
        <4>1. i - 1 \in DOMAIN Tail(shutTodo) /\ Tail(shutTodo)[i - 1] = shutTodo[i]
          BY <2>1, <3>2
        <4> QED
          BY <4>1 DEF Range
      <3> QED
        BY <3>1, <3>2
    <2> QED
      BY <2>2 DEF Range
  <1>3. ShuttingDown'
    BY <1>2, SameLeft DEF SupInv, ShuttingDown, LeakBounded, otherVars
  <1> QED
    BY <1>1, <1>3, MainOnly

\* All services are down: what is left was in flight.
LEMMA AllDownStep ==
  ASSUME SupInv, AllDown
  PROVE  SupInv'
  <1> USE DEF AllDown, rtVars, watchVars
  <1>1. SupTypes'
    BY DEF SupInv, SupTypes
  <1>2. Range(shutTodo) = {}
    BY DEF Range
  <1>3. ShuttingDown'
    BY <1>2, SameLeft DEF SupInv, ShuttingDown, LeakBounded, otherVars
  <1> QED
    BY <1>1, <1>3, MainOnly

\* The runtime and other processes end and remove containers.
LEMMA WorldStep ==
  ASSUME SupInv, NEW s \in Services, NEW k \in DOMAIN pods[s],
         \/ \E st \in Exited : Exit(s, k, st) \/ UserStop(s, k, st)
         \/ UserRemove(s, k)
  PROVE  SupInv'
  <1>1. k \in 1..Len(pods[s])
    BY PodsAreCounted DEF SupInv
  <1>2. PICK st \in Exited \cup {"gone"} :
          pods[s][k] # "gone" /\ pods' = [pods EXCEPT ![s][k] = st]
    BY DEF Exit, UserStop, UserRemove
  <1>3. Shrinks
    BY <1>1, <1>2, SetPod DEF SupInv, Exited, PodStates
  <1>4. UNCHANGED <<abandoned, otherVars, watchVars, mainVars>>
    BY DEF Exit, UserStop, UserRemove
  <1> QED
    BY <1>3, <1>4, TakenAway

\* Another process takes no pod's place before it has listed the pods, or it races.
LEMMA UserUpStep ==
  ASSUME SupInv, NEW p \in Others, NEW s \in Services, UserUp(p, s)
  PROVE  SupInv'
  <1> USE DEF SupInv, UserUp
  <1> DEFINE q == [k \in DOMAIN pods[s] |-> "gone"]
  <1>1. pods' = [pods EXCEPT ![s] = q] /\ q \in [DOMAIN pods[s] -> PodStates]
    BY DEF SupTypes, PodStates
  <1>2. Shrinks
    <2>1. \A k \in DOMAIN pods[s] : pods[s][k] = "gone" => q[k] = "gone"
      OBVIOUS
    <2> QED
      BY <1>1, <2>1, SetPods
  <1>3. Live(s)' = {}
    <2>1. pods'[s] = q
      BY <1>1 DEF SupTypes
    <2> QED
      BY <2>1 DEF Live
  <1>4. /\ other'[p].at = "make" /\ other'[p].svc = s /\ other' \in [Others -> OtherStates]
        /\ \A o \in Others : o # p => other'[o] = other[o]
    BY DEF OtherTypes, OtherStates
  <1>5. OtherTypes'
    <2>1. \A o \in Others : other'[o].at \in {"create", "start"} => o # p
      BY <1>4
    <2> QED
      BY <1>2, <1>4, <2>1 DEF OtherTypes, Shrinks
  <1>6. ASSUME NEW t \in Services, t \notin raced' PROVE Apart(t)'
    <2>1. Pending(t)' = IF t = s THEN Pending(t) \cup {p} ELSE Pending(t)
      BY <1>4 DEF Pending
    <2>2. OwnPending(t)' <=> OwnPending(t)
      BY DEF OwnPending, watchVars
    <2>3. CASE t = s
      <3>1. ~OwnPending(s) /\ Pending(s) = {}
        BY <1>6, <2>3
      <3> QED
        BY <1>3, <2>1, <2>2, <2>3, <3>1 DEF Apart
    <2>4. CASE t # s
      <3>1. Apart(t)
        BY <1>6, <2>4 DEF Replacing
      <3> QED
        BY <1>2, <2>1, <2>2, <2>4, <3>1 DEF Apart, Shrinks
    <2> QED
      BY <2>3, <2>4
  <1> HIDE DEF q
  <1> QED
    BY <1>2, <1>5, <1>6, OutsideStep

LEMMA UserCreateStep ==
  ASSUME SupInv, NEW p \in Others, NEW s \in Services, UserCreate(p, s)
  PROVE  SupInv'
  <1> USE DEF SupInv, UserCreate
  <1>1. Shrinks
    BY SamePods
  <1>2. /\ other'[p].at = "make" /\ other'[p].svc = s /\ other' \in [Others -> OtherStates]
        /\ \A o \in Others : o # p => other'[o] = other[o]
    BY DEF OtherTypes, OtherStates
  <1>3. OtherTypes'
    <2>1. \A o \in Others : other'[o].at \in {"create", "start"} => o # p
      BY <1>2
    <2> QED
      BY <1>1, <1>2, <2>1 DEF OtherTypes, Shrinks
  <1>4. ASSUME NEW t \in Services, t \notin raced' PROVE Apart(t)'
    <2>1. Pending(t)' = IF t = s THEN Pending(t) \cup {p} ELSE Pending(t)
      BY <1>2 DEF Pending
    <2>2. (OwnPending(t)' <=> OwnPending(t)) /\ Live(t)' = Live(t)
      BY DEF OwnPending, watchVars, Live
    <2>3. CASE t = s
      <3>1. Live(s) = {} /\ ~OwnPending(s) /\ Pending(s) = {}
        BY <1>4, <2>3
      <3> QED
        BY <2>1, <2>2, <2>3, <3>1 DEF Apart
    <2>4. CASE t # s
      <3>1. Apart(t)
        BY <1>4, <2>4 DEF Replacing
      <3> QED
        BY <2>1, <2>2, <2>4, <3>1 DEF Apart
    <2> QED
      BY <2>3, <2>4
  <1> QED
    BY <1>1, <1>3, <1>4, OutsideStep

\* Its pod is a foreign one, and where nothing raced there was none.
LEMMA OtherSandboxStep ==
  ASSUME SupInv, NEW p \in Others, OtherSandbox(p)
  PROVE  SupInv'
  <1> USE DEF SupInv, OtherSandbox, mainVars, watchVars
  <1>0. PICK s \in Services : s = other[p].svc
    BY OtherShape
  <1>1. \A t \in Services : Len(pods[t]) \in Nat
    BY PodsAreCounted
  <1>15. PICK n \in Nat : n = Len(pods[s])
    BY <1>1
  <1>16. other[p].up \in BOOLEAN
    BY OtherShape
  <1>2. Grows(s)
    BY <1>0, AddPod
  <1>3. /\ foreign'[s] = foreign[s] \cup {n + 1}
        /\ \A t \in Services : t # s => foreign'[t] = foreign[t]
        /\ foreign' \in [Services -> SUBSET Nat]
    BY <1>0, <1>15 DEF OtherTypes
  <1>4. other' = [other EXCEPT ![p] = [at |-> "create", svc |-> s, up |-> other[p].up,
                                      pod |-> n + 1]]
    BY <1>0, <1>15 DEF OtherTypes
  <1>5. /\ other'[p].at = "create" /\ other'[p].svc = s /\ other'[p].pod = n + 1
        /\ other' \in [Others -> OtherStates]
        /\ \A o \in Others : o # p => other'[o] = other[o]
    BY <1>4, <1>16 DEF OtherTypes, OtherStates
  <1> HIDE DEF OtherSandbox
  <1>17. UNCHANGED <<abandoned, raced, watchVars, mainVars, budget>>
    BY DEF OtherSandbox
  <1> USE <1>17
  <1>6. SupTypes'
    <2>1. ASSUME NEW t \in Services
          PROVE  target'[t] \in 1..Len(pods'[t]) /\ known[t] <= Len(pods'[t])
      <3>1. /\ target'[t] \in 1..Len(pods[t]) /\ known[t] <= Len(pods[t])
            /\ known[t] \in Nat /\ Len(pods[t]) \in Nat
        BY <1>1 DEF SupTypes
      <3>2. Len(pods'[t]) \in {Len(pods[t]), Len(pods[t]) + 1}
        BY <1>2 DEF Grows
      <3> QED
        BY <3>1, <3>2
    <2> QED
      BY <1>2, <2>1 DEF SupTypes, Grows
  <1>7. OtherTypes'
    <2>1. \A t \in Services : foreign'[t] \subseteq 1..Len(pods'[t])
      <3>1. ASSUME NEW t \in Services PROVE foreign'[t] \subseteq 1..Len(pods'[t])
        <4>1. foreign[t] \subseteq 1..Len(pods[t]) /\ Len(pods[t]) \in Nat
          BY <1>1 DEF OtherTypes
        <4>2. CASE t = s
          BY <1>2, <1>3, <1>15, <4>1, <4>2 DEF Grows
        <4>3. CASE t # s
          BY <1>2, <1>3, <4>1, <4>3 DEF Grows
        <4> QED
          BY <4>2, <4>3
      <3> QED
        BY <3>1
    <2>2. ASSUME NEW o \in Others, other'[o].at \in {"create", "start"}
          PROVE  other'[o].pod \in foreign'[other'[o].svc]
      <3>1. CASE o = p
        BY <1>3, <1>5, <3>1
      <3>2. CASE o # p
        <4>1. other[o].svc \in Services /\ other[o].pod \in foreign[other[o].svc]
          BY <1>5, <2>2, <3>2 DEF OtherTypes, OtherStates
        <4> QED
          BY <1>3, <1>5, <3>2, <4>1
      <3> QED
        BY <3>1, <3>2
    <2> QED
      BY <1>3, <1>5, <2>1, <2>2 DEF OtherTypes
  <1>8. \A t \in Services : Pending(t)' = Pending(t) \ {p}
    BY <1>5 DEF Pending
  <1>9. \A t \in Services : OwnPending(t)' <=> OwnPending(t)
    BY DEF OwnPending
  <1>10. p \in Pending(s)
    BY <1>0 DEF Pending, OtherSandbox
  <1>11. Live(s)' = Live(s) \cup {n + 1} /\ \A t \in Services : t # s => Live(t)' = Live(t)
    BY <1>2, <1>15 DEF Grows
  <1>12. Replacing'
    <2>1. ASSUME NEW t \in Services PROVE Own(t)'
      <3>1. Own(t)
        BY DEF Replacing
      <3>2. CASE t = s
        <4>1. Live(t)' \ foreign'[t] \subseteq Live(t) \ foreign[t]
          BY <1>3, <1>11, <3>2
        <4>2. Live(t) \subseteq foreign[t] => Live(t)' \subseteq foreign'[t]
          BY <1>3, <1>11, <3>2
        <4> QED
          BY <1>9, <3>1, <4>1, <4>2 DEF Own
      <3>3. CASE t # s
        BY <1>3, <1>9, <1>11, <3>1, <3>3 DEF Own
      <3> QED
        BY <3>2, <3>3
    <2>2. ASSUME NEW t \in Services, t \notin raced' PROVE Apart(t)'
      <3>1. Apart(t)
        BY <2>2 DEF Replacing
      <3>2. CASE t = s
        <4>1. Live(s) = {} /\ ~OwnPending(s) /\ Pending(s)' = {}
          BY <1>8, <1>10, <3>1, <3>2 DEF Apart
        <4>2. Live(s)' = {n + 1}
          BY <1>11, <4>1
        <4> QED
          BY <1>9, <3>2, <4>1, <4>2 DEF Apart
      <3>3. CASE t # s
        BY <1>8, <1>9, <1>11, <3>1, <3>3 DEF Apart
      <3> QED
        BY <3>2, <3>3
    <2> QED
      BY <2>1, <2>2 DEF Replacing
  <1>13. ShuttingDown'
    <2>1. main = "teardown" => Head(shutTodo) \in Services
      BY DEF SupTypes
    <2>2. MayBeLeft(s, n + 1)'
      <3>1. known[s] \in Nat /\ known[s] <= n
        BY <1>15 DEF SupTypes
      <3> QED
        BY <1>3, <3>1 DEF MayBeLeft
    <2>3. \A t \in Services : \A k \in Live(t)' : k \in Live(t) \/ (t = s /\ k = n + 1)
      BY <1>11
    <2>4. \A t \in Services : \A k : MayBeLeft(t, k) => MayBeLeft(t, k)'
      BY <1>3 DEF MayBeLeft
    <2>5. /\ \A t \in Services : (\A k \in Live(t) : MayBeLeft(t, k))
                                 => \A k \in Live(t)' : MayBeLeft(t, k)'
          /\ \A t \in Services : (\A k \in Live(t) \ shutPods : MayBeLeft(t, k))
                                 => \A k \in Live(t)' \ shutPods : MayBeLeft(t, k)'
      BY <2>2, <2>3, <2>4
    <2> QED
      BY <2>1, <2>5 DEF ShuttingDown, LeakBounded
  <1>14. Restarting' /\ BackoffExact'
    BY DEF Restarting, MayRestart, BackoffExact
  <1> QED
    BY <1>6, <1>7, <1>12, <1>13, <1>14

\* Its container, its start, its end: one pod changes its state, or none.
LEMMA OtherGoesOn ==
  ASSUME SupInv, NEW p \in Others, OtherContainer(p) \/ OtherStart(p) \/ OtherEnds(p)
  PROVE  SupInv'
  <1> USE DEF SupInv
  <1>1. other[p] \in OtherStates /\ other[p].at \in {"make", "create", "start"}
    BY OtherShape DEF OtherTypes, OtherContainer, OtherStart, OtherEnds
  <1>2. other[p].at \in {"create", "start"} =>
          /\ other[p].svc \in Services /\ other[p].up \in BOOLEAN /\ other[p].pod \in Nat
          /\ other[p].pod \in foreign[other[p].svc]
          /\ other[p].pod \in 1..Len(pods[other[p].svc])
    BY OtherShape DEF OtherTypes
  <1>3. Shrinks
    <2>1. CASE OtherContainer(p)
      BY <1>2, <2>1, SetPod DEF OtherContainer, PodStates
    <2>2. CASE OtherStart(p)
      BY <1>2, <2>2, SetPod DEF OtherStart, PodStates
    <2>3. CASE OtherEnds(p)
      BY <2>3, SamePods DEF OtherEnds
    <2> QED
      BY <2>1, <2>2, <2>3
  <1>4. /\ other' \in [Others -> OtherStates]
        /\ \A o \in Others : o # p => other'[o] = other[o]
        /\ \/ other'[p].at = "idle"
           \/ other'[p].at = "start" /\ other'[p].svc = other[p].svc
              /\ other'[p].pod = other[p].pod /\ other[p].at = "create"
    <2>1. CASE OtherContainer(p) /\ other[p].up
      <3>1. other' = [other EXCEPT ![p] = [other[p] EXCEPT !.at = "start"]]
            /\ other[p].at = "create"
        BY <2>1 DEF OtherContainer, OtherTypes
      <3>2. other[p] \in [at : {"create", "start"}, svc : Services, up : BOOLEAN, pod : Nat]
        BY <1>1, <3>1 DEF OtherStates
      <3>3. /\ [other[p] EXCEPT !.at = "start"] \in OtherStates
            /\ [other[p] EXCEPT !.at = "start"].at = "start"
            /\ [other[p] EXCEPT !.at = "start"].svc = other[p].svc
            /\ [other[p] EXCEPT !.at = "start"].pod = other[p].pod
        BY <3>2 DEF OtherStates
      <3> QED
        BY <3>1, <3>3 DEF OtherTypes
    <2>2. CASE ~(OtherContainer(p) /\ other[p].up)
      <3>1. other' = [other EXCEPT ![p] = [at |-> "idle"]]
        BY <2>2 DEF OtherContainer, OtherStart, OtherEnds, OtherTypes
      <3> QED
        BY <3>1 DEF OtherTypes, OtherStates
    <2> QED
      BY <2>1, <2>2
  <1>5. UNCHANGED <<abandoned, watchVars, mainVars, foreign, raced>>
    BY DEF OtherContainer, OtherStart, OtherEnds
  <1>6. OtherTypes'
    <2>1. ASSUME NEW o \in Others, other'[o].at \in {"create", "start"}
          PROVE  other'[o].pod \in foreign'[other'[o].svc]
      BY <1>2, <1>4, <1>5, <2>1 DEF OtherTypes
    <2> QED
      BY <1>3, <1>4, <1>5, <2>1 DEF OtherTypes, Shrinks
  <1>7. ASSUME NEW t \in Services, t \notin raced' PROVE Apart(t)'
    <2>1. Pending(t)' \subseteq Pending(t)
      BY <1>4 DEF Pending
    <2>2. Apart(t) /\ (OwnPending(t)' <=> OwnPending(t))
      BY <1>5, <1>7 DEF Replacing, OwnPending, watchVars
    <2> QED
      BY <1>3, <2>1, <2>2 DEF Apart, Shrinks
  <1> QED
    BY <1>3, <1>5, <1>6, <1>7, OutsideStep

\* Every step of another process keeps the invariant,
LEMMA SupInvOther ==
  ASSUME SupInv, NEW p \in Others, OtherStep(p)
  PROVE  SupInv'
BY UserUpStep, UserCreateStep, OtherSandboxStep, OtherGoesOn DEF OtherStep


\* ... every step of a watcher,
LEMMA SupInvWatcher ==
  ASSUME SupInv, NEW s \in Services, WatcherStep(s)
  PROVE  SupInv'
  <1>1. ASSUME SeeRemoved(s) PROVE SupInv'
    BY <1>1, SamePods, WatcherDies DEF SeeRemoved, SupInv, rtVars
  <1> QED
    BY <1>1, LookupStep, SeeExitStep, RemoveOldStep, RunPodSandboxStep, SandboxReadyStep,
       CreateContainerStep, StartContainerStep, WatcherCancelledStep DEF WatcherStep

\* ... and every step of the main goroutine,
LEMMA SupInvMain ==
  ASSUME SupInv, MainStep
  PROVE  SupInv'
  <1>1. CASE EnterSelect
    BY <1>1, BeginShutdownStep, QuietMainStep DEF EnterSelect
  <1>2. CASE LeaveSelect
    BY <1>2, BeginShutdownStep, QuietMainStep DEF LeaveSelect
  <1>3. CASE ListForDown \/ ServiceIsDown \/ AllDown \/ AwaitSupervisor
    BY <1>3, ListForDownStep, ServiceIsDownStep, AllDownStep, QuietMainStep
  <1>4. ASSUME NEW k \in shutPods,
               (\E st \in Exited : StopForDown(k, st)) \/ RemoveForDown(k)
        PROVE  SupInv'
    BY <1>4, StopForDownStep, RemoveForDownStep
  <1> QED
    BY <1>1, <1>2, <1>3, <1>4 DEF MainStep

\* ... so every step.
LEMMA SupInvStep ==
  ASSUME SupInv, [SupNext]_vars
  PROVE  SupInv'
  <1>1. CASE UNCHANGED vars
    BY <1>1, SamePods, TakenAway DEF SupInv, vars, rtVars
  <1>2. ASSUME NEW s \in Services, WatcherStep(s) PROVE SupInv'
    BY <1>2, SupInvWatcher
  <1>3. ASSUME NEW s \in Services, CallFails(s) PROVE SupInv'
    BY <1>3, CallFailsStep
  <1>4. CASE MainStep
    BY <1>4, SupInvMain
  <1>5. CASE Signal \/ ShutdownFails
    BY <1>5, SignalStep, QuietMainStep
  <1>6. ASSUME NEW s \in Services, NEW k \in DOMAIN pods[s],
               \/ \E st \in Exited : Exit(s, k, st) \/ UserStop(s, k, st)
               \/ UserRemove(s, k)
        PROVE  SupInv'
    BY <1>6, WorldStep
  <1>7. ASSUME NEW s \in Services, LateSandbox(s) PROVE SupInv'
    BY <1>7, LateSandboxStep
  <1>8. ASSUME NEW p \in Others, OtherStep(p) PROVE SupInv'
    BY <1>8, SupInvOther
  <1> QED
    BY <1>1, <1>2, <1>3, <1>4, <1>5, <1>6, <1>7, <1>8 DEF SupNext

\* The invariant is one of the supervisor.
LEMMA SupInvariance == SupSpec => []SupInv
  <1>1. SupInit => SupInv
    BY SupInvInit
  <1>2. SupInv /\ [SupNext]_vars => SupInv'
    BY SupInvStep
  <1> QED
    BY <1>1, <1>2, PTL DEF SupSpec

----------------------------------------------------------------------------
(***************************************************************************)
(* What follows from it.                                                   *)
(***************************************************************************)
(***************************************************************************)
(* Types, with a watcher's pod always one of its service's, whatever other *)
(* processes remove (supervisor.go:83-189, up.go:243-285).                 *)
(***************************************************************************)
THEOREM SupTypeCorrect == SupSpec => []SupTypeOK
  <1>1. ASSUME SupInv PROVE SupTypeOK
    <2>1. \A s \in Services : /\ target[s] \in DOMAIN pods[s]
                            /\ foreign[s] \subseteq DOMAIN pods[s]
      BY <1>1, PodsAreCounted DEF SupInv, SupTypes, OtherTypes
    <2>2. pods \in [Services -> Seq(PodStates)]
      BY <1>1 DEF SupInv, SupTypes
    <2> QED
      BY <1>1, <2>1, <2>2 DEF SupInv, SupTypes, OtherTypes, SupTypeOK, PodStates
  <1> QED
    BY <1>1, SupInvariance, PTL

(***************************************************************************)
(* A watcher's restarts never leave two pods of one service, whatever other *)
(* processes and abandoned calls do; and no service has two pods unless    *)
(* `create` ran beside a pod or a creator, or two ServiceUps overlapped    *)
(* with none after them that listed alone (lifecycle.go:32-63,             *)
(* create.go:72-107, supervisor.go:192-211).                               *)
(***************************************************************************)
THEOREM AtMostOnePod == SupSpec => []OnePod
  <1>1. ASSUME NEW X, \A j, k \in X : j = k
        PROVE  Cardinality(X) <= 1
    <2>1. CASE X = {}
      BY <2>1, FS_EmptySet
    <2>2. CASE X # {}
      <3>1. PICK k \in X : TRUE
        BY <2>2
      <3>2. X = {k}
        BY <1>1, <3>1
      <3>3. Cardinality(X) = 1
        BY <3>2, FS_Singleton
      <3> QED
        BY <3>3
    <2> QED
      BY <2>1, <2>2
  <1>2. ASSUME SupInv, NEW s \in Services
        PROVE  /\ Cardinality(Live(s) \ foreign[s]) <= 1
               /\ Cardinality(Live(s)) > 1 => s \in raced
    <2>1. Cardinality(Live(s) \ foreign[s]) <= 1
      BY <1>1, <1>2 DEF SupInv, Replacing, Own
    <2>2. ASSUME s \notin raced PROVE ~(Cardinality(Live(s)) > 1)
      <3>1. \A j, k \in Live(s) : j = k
        BY <1>2, <2>2 DEF SupInv, Replacing, Apart
      <3>2. Live(s) = {} \/ \E k : Live(s) = {k}
        BY <3>1
      <3>3. Cardinality(Live(s)) \in {0, 1}
        BY <3>2, FS_EmptySet, FS_Singleton
      <3> QED
        BY <3>3
    <2> QED
      BY <2>1, <2>2
  <1>3. SupInv => OnePod
    BY <1>2 DEF OnePod
  <1> QED
    BY <1>3, SupInvariance, PTL

(***************************************************************************)
(* A shutdown without an error removes every pod there was at the signal,  *)
(* and leaves at most those whose RunPodSandbox was under way then, or     *)
(* that other processes made (up.go:243-284, down.go:45-64).               *)
(***************************************************************************)
THEOREM ShutdownLeak == SupSpec => []LeakBounded
  <1>1. SupInv => LeakBounded
    BY DEF SupInv, ShuttingDown
  <1> QED
    BY <1>1, SupInvariance, PTL

(***************************************************************************)
(* The backoff is BackoffMin * 2^n, up to BackoffMax, after n restarts     *)
(* since the last long run, for any two bounds (supervisor.go:108-137).    *)
(***************************************************************************)
THEOREM ExponentialBackoff == SupSpec => []BackoffExact
  <1>1. SupInv => BackoffExact
    BY DEF SupInv
  <1> QED
    BY <1>1, SupInvariance, PTL

\* Only two steps add a pod that no other process made.
LEMMA WhoAddsPods ==
  ASSUME SupInv, SupNext, NEW s \in Services, Len(pods'[s]) > Len(pods[s]),
         Len(pods'[s]) \notin foreign'[s]
  PROVE  SandboxReady(s) \/ LateSandbox(s)
  <1> SUFFICES ASSUME ~SandboxReady(s), ~LateSandbox(s) PROVE FALSE
    OBVIOUS
  <1>1. Len(pods[s]) \in Nat
    BY PodsAreCounted DEF SupInv
  <1>2. ~Shrinks /\ pods' # pods
    BY <1>1 DEF Shrinks
  <1>3. ASSUME NEW t \in Services, t # s, SandboxReady(t) \/ LateSandbox(t) PROVE FALSE
    <2>1. Grows(t)
      BY <1>3, AddPod DEF SandboxReady, LateSandbox, SupInv
    <2> QED
      BY <1>1, <1>3, <2>1 DEF Grows
  <1>4. ASSUME NEW t \in Services, WatcherStep(t) PROVE FALSE
    <2>1. CASE \/ Lookup(t) \/ (\E ranLong \in BOOLEAN : SeeExit(t, ranLong)) \/ SeeRemoved(t)
               \/ RunPodSandbox(t) \/ WatcherCancelled(t)
      BY <1>2, <2>1 DEF Lookup, SeeExit, SeeRemoved, RunPodSandbox, WatcherCancelled, rtVars
    <2>2. CASE RemoveOld(t)
      <3> DEFINE q == [k \in DOMAIN pods[t] |-> "gone"]
      <3>1. pods' = [pods EXCEPT ![t] = q] /\ q \in [DOMAIN pods[t] -> PodStates]
        BY <2>2 DEF RemoveOld, SupInv, SupTypes, PodStates
      <3>2. \A k \in DOMAIN pods[t] : pods[t][k] = "gone" => q[k] = "gone"
        OBVIOUS
      <3> QED
        BY <1>2, <3>1, <3>2, SetPods DEF SupInv
    <2>3. CASE CreateContainer(t)
      BY <1>2, <2>3, SetPod DEF CreateContainer, Target, SupInv, SupTypes, PodStates
    <2>4. CASE StartContainer(t)
      BY <1>2, <2>4, SetPod DEF StartContainer, Target, SupInv, SupTypes, PodStates
    <2> QED
      BY <1>3, <1>4, <2>1, <2>2, <2>3, <2>4 DEF WatcherStep
  <1>5. ASSUME NEW t \in Services, CallFails(t) PROVE FALSE
    <2> DEFINE q == [k \in DOMAIN pods[t] |-> IF pods[t][k] = "gone" THEN "gone" ELSE "sandbox"]
    <2>1. pods' = [pods EXCEPT ![t] = q] /\ q \in [DOMAIN pods[t] -> PodStates]
      BY <1>2, <1>5 DEF CallFails, SupInv, SupTypes, PodStates
    <2>2. \A k \in DOMAIN pods[t] : pods[t][k] = "gone" => q[k] = "gone"
      OBVIOUS
    <2> QED
      BY <1>2, <2>1, <2>2, SetPods DEF SupInv
  <1>6. ASSUME NEW h \in Services, NEW k \in DOMAIN pods[h], NEW st \in PodStates,
               pods[h][k] # "gone" \/ st = "gone", pods' = [pods EXCEPT ![h][k] = st]
        PROVE  FALSE
    <2>1. k \in 1..Len(pods[h])
      <3>1. pods[h] \in Seq(PodStates)
        BY DEF SupInv, SupTypes
      <3> QED
        BY <3>1
    <2> QED
      BY <1>2, <1>6, <2>1, SetPod DEF SupInv
  <1>7. CASE MainStep
    <2>1. ASSUME NEW k \in shutPods, NEW st \in PodStates, main = "teardown",
                 pods[Head(shutTodo)][k] # "gone" \/ st = "gone",
                 pods' = [pods EXCEPT ![Head(shutTodo)][k] = st]
          PROVE  FALSE
      <3>1. Head(shutTodo) \in Services
        BY <2>1 DEF SupInv, SupTypes
      <3>2. CASE k \in DOMAIN pods[Head(shutTodo)]
        BY <1>6, <2>1, <3>1, <3>2
      <3>3. CASE k \notin DOMAIN pods[Head(shutTodo)]
        <4>1. pods \in [Services -> Seq(PodStates)]
          BY DEF SupInv, SupTypes
        <4>2. pods' = pods
          BY <2>1, <3>1, <3>3, <4>1
        <4> QED
          BY <1>2, <4>2
      <3> QED
        BY <3>2, <3>3
    <2>2. PICK k \in shutPods : main = "teardown" /\ ((\E st \in Exited : StopForDown(k, st))
                                                     \/ RemoveForDown(k))
      BY <1>2, <1>7 DEF MainStep, EnterSelect, LeaveSelect, BeginShutdown, SupervisorReturns,
         ListForDown, ServiceIsDown, AllDown, AwaitSupervisor, rtVars
    <2> QED
      BY <2>1, <2>2 DEF StopForDown, RemoveForDown, Exited, PodStates
  <1>8. CASE Signal \/ ShutdownFails
    BY <1>2, <1>8 DEF Signal, ShutdownFails, rtVars
  <1>9. ASSUME NEW t \in Services, NEW k \in DOMAIN pods[t],
               \/ \E st \in Exited : Exit(t, k, st) \/ UserStop(t, k, st)
               \/ UserRemove(t, k)
        PROVE  FALSE
    BY <1>6, <1>9 DEF Exit, UserStop, UserRemove, Exited, PodStates
  <1>10. ASSUME NEW p \in Others, OtherStep(p) PROVE FALSE
    <2>1. ASSUME NEW t \in Services, UserUp(p, t) PROVE FALSE
      <3> DEFINE q == [k \in DOMAIN pods[t] |-> "gone"]
      <3>1. pods' = [pods EXCEPT ![t] = q] /\ q \in [DOMAIN pods[t] -> PodStates]
        BY <2>1 DEF UserUp, SupInv, SupTypes, PodStates
      <3>2. \A k \in DOMAIN pods[t] : pods[t][k] = "gone" => q[k] = "gone"
        OBVIOUS
      <3> QED
        BY <1>2, <3>1, <3>2, SetPods DEF SupInv
    <2>2. ASSUME NEW t \in Services, UserCreate(p, t) \/ OtherEnds(p) PROVE FALSE
      BY <1>2, <2>2 DEF UserCreate, OtherEnds
    <2>3. CASE OtherSandbox(p)
      <3>1. other[p].svc \in Services
        BY <2>3, OtherShape DEF OtherSandbox, SupInv
      <3>2. Grows(other[p].svc)
        BY <2>3, <3>1, AddPod DEF OtherSandbox, SupInv
      <3>3. s = other[p].svc /\ Len(pods'[s]) = Len(pods[s]) + 1
        BY <1>1, <3>1, <3>2 DEF Grows
      <3>4. Len(pods[s]) + 1 \in foreign'[s]
        BY <2>3, <3>1, <3>3 DEF OtherSandbox, SupInv, OtherTypes
      <3> QED
        BY <3>3, <3>4
    <2>4. CASE OtherContainer(p) \/ OtherStart(p)
      <3>1. /\ other[p].svc \in Services
            /\ other[p].pod \in DOMAIN pods[other[p].svc]
        BY <2>4, OtherShape, PodsAreCounted DEF OtherContainer, OtherStart, OtherTypes, SupInv
      <3> QED
        BY <1>6, <2>4, <3>1 DEF OtherContainer, OtherStart, PodStates
    <2>5. CASE OtherEnds(p)
      BY <1>2, <2>5 DEF OtherEnds
    <2> QED
      BY <1>10, <2>1, <2>2, <2>3, <2>4, <2>5 DEF OtherStep
  <1> QED
    BY <1>3, <1>4, <1>5, <1>7, <1>8, <1>9, <1>10 DEF SupNext

(***************************************************************************)
(* A watcher adds a pod only after it saw the old container exit with a    *)
(* code the policy restarts, be it in time or after the watcher is over    *)
(* (restart.go:29-40, supervisor.go:141-168).                              *)
(***************************************************************************)
THEOREM RestartPolicy == SupSpec => RestartsByPolicy
  <1>1. ASSUME SupInv, [SupNext]_vars, NEW s \in Services, Len(pods'[s]) > Len(pods[s]),
               Len(pods'[s]) \notin foreign'[s]
        PROVE  MayRestart(s)
    <2>1. CASE UNCHANGED vars
      <3>1. Len(pods[s]) \in Nat /\ pods' = pods
        BY <1>1, <2>1, PodsAreCounted DEF SupInv, vars, rtVars
      <3> QED
        BY <1>1, <3>1
    <2>2. CASE SupNext
      <3>1. SandboxReady(s) \/ LateSandbox(s)
        BY <1>1, <2>2, WhoAddsPods
      <3> QED
        BY <1>1, <3>1 DEF SandboxReady, LateSandbox, SupInv, Restarting
    <2> QED
      BY <1>1, <2>1, <2>2
  <1>2. SupInv /\ [SupNext]_vars =>
          [\A s \in Services : Len(pods'[s]) > Len(pods[s]) /\ Len(pods'[s]) \notin foreign'[s] =>
             \/ Policy[s] \in {"always", "unless-stopped"} /\ lastExit[s] \in Exited
             \/ Policy[s] = "on-failure" /\ lastExit[s] = "exit1"]_vars
    BY <1>1 DEF MayRestart
  <1> QED
    BY <1>2, SupInvariance, PTL DEF SupSpec, RestartsByPolicy
=============================================================================
