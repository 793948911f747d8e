--------------------------- MODULE DepgraphProofs ---------------------------
(***************************************************************************)
(* Proofs about Depgraph, for every finite set of services and every       *)
(* dependency graph over it.                                               *)
(***************************************************************************)
EXTENDS Depgraph, FiniteSetTheorems, SequenceTheorems, TLAPS

(***************************************************************************)
(* The composition is an input: while it does not change, neither do the   *)
(* notions defined from it.                                                *)
(***************************************************************************)
LEMMA SameGraph ==
  ASSUME dependsOn' = dependsOn
  PROVE  /\ Cyclic' = Cyclic
         /\ HasDangling' = HasDangling
         /\ \A X : SelfSupporting(X)' = SelfSupporting(X)
         /\ \A n : DepsOf(n)' = DepsOf(n)
  BY DEF Cyclic, HasDangling, SelfSupporting, DepsOf

\* buildGraph counts a finite set of entries for every service.
LEMMA DepsFinite ==
  ASSUME dependsOn \in [Services -> SUBSET Names], NEW n \in Services, NEW S
  PROVE  /\ IsFiniteSet(dependsOn[n])
         /\ IsFiniteSet(dependsOn[n] \ S)
         /\ Cardinality(dependsOn[n] \ S) \in Nat
  <1>1. IsFiniteSet(dependsOn[n])
    BY NamesFinite, FS_Subset
  <1>2. IsFiniteSet(dependsOn[n] \ S)
    BY <1>1, FS_Subset
  <1> QED
    BY <1>1, <1>2, FS_CardinalityType

----------------------------------------------------------------------------
(***************************************************************************)
(* The call stack as a sequence.                                           *)
(***************************************************************************)
\* What the last element of a nonempty sequence is.
LEMMA NonemptySeq ==
  ASSUME NEW S, NEW s \in Seq(S), s # <<>>
  PROVE  /\ Len(s) \in Nat /\ Len(s) >= 1 /\ Len(s) \in 1..Len(s)
         /\ \A i \in 1..Len(s) : s[i] \in S
  OBVIOUS

\* What a call that returns leaves on the stack.
LEMMA PopSeq ==
  ASSUME NEW S, NEW s \in Seq(S), s # <<>>
  PROVE  /\ SubSeq(s, 1, Len(s) - 1) \in Seq(S)
         /\ Len(SubSeq(s, 1, Len(s) - 1)) = Len(s) - 1
         /\ \A i \in 1..(Len(s) - 1) : SubSeq(s, 1, Len(s) - 1)[i] = s[i]
  <1>1. Len(s) \in Nat /\ Len(s) >= 1
    OBVIOUS
  <1>2. \A i \in 1..(Len(s) - 1) : i \in 1..Len(s) /\ s[i] \in S
    BY <1>1
  <1> DEFINE m == Len(s) - 1
  <1>3. m \in Int /\ 1 \in Int /\ m >= 0
    BY <1>1
  <1> HIDE DEF m
  <1>4. /\ SubSeq(s, 1, m) \in Seq(S)
        /\ Len(SubSeq(s, 1, m)) = IF 1 <= m THEN m - 1 + 1 ELSE 0
        /\ \A i \in 1..(m - 1 + 1) : SubSeq(s, 1, m)[i] = s[1 + i - 1]
    BY <1>2, <1>3, SubSeqProperties DEF m
  <1>5. Len(SubSeq(s, 1, m)) = m /\ \A i \in 1..m : SubSeq(s, 1, m)[i] = s[i]
    BY <1>3, <1>4
  <1> QED
    BY <1>4, <1>5 DEF m

\* What replacing the top frame does to the stack.
LEMMA ReplaceTop ==
  ASSUME NEW S, NEW s \in Seq(S), s # <<>>, NEW e \in S
  PROVE  /\ [s EXCEPT ![Len(s)] = e] \in Seq(S)
         /\ Len([s EXCEPT ![Len(s)] = e]) = Len(s)
         /\ [s EXCEPT ![Len(s)] = e][Len(s)] = e
         /\ \A i \in 1..(Len(s) - 1) : [s EXCEPT ![Len(s)] = e][i] = s[i]
  <1>1. Len(s) \in Nat /\ Len(s) \in 1..Len(s)
    BY NonemptySeq
  <1>2. \A i \in 1..(Len(s) - 1) : i \in 1..Len(s) /\ i # Len(s)
    BY <1>1
  <1>3. /\ [s EXCEPT ![Len(s)] = e] \in Seq(S)
        /\ Len([s EXCEPT ![Len(s)] = e]) = Len(s)
        /\ \A j \in 1..Len(s) :
             [s EXCEPT ![Len(s)] = e][j] = IF j = Len(s) THEN e ELSE s[j]
    BY <1>1, ExceptSeq
  <1> QED
    BY <1>1, <1>2, <1>3, Zenon

FrameType == [node : Names, todo : SUBSET Names]

TakeTop(s, d) == [s EXCEPT ![Len(s)].todo = @ \ {d}]

\* What taking an entry off the top frame does to the stack.
LEMMA TakeEntry ==
  ASSUME NEW s \in Seq(FrameType), s # <<>>, NEW d
  PROVE  /\ TakeTop(s, d) \in Seq(FrameType)
         /\ Len(TakeTop(s, d)) = Len(s)
         /\ \A i \in 1..(Len(s) - 1) : TakeTop(s, d)[i] = s[i]
         /\ \A i \in 1..Len(s) : TakeTop(s, d)[i].node = s[i].node
         /\ TakeTop(s, d)[Len(s)].todo = s[Len(s)].todo \ {d}
  <1> DEFINE L == Len(s)
             f == [s[L] EXCEPT !.todo = s[L].todo \ {d}]
             t == TakeTop(s, d)
  <1>1. L \in Nat /\ L >= 1 /\ L \in 1..L /\ \A i \in 1..L : s[i] \in FrameType
    BY NonemptySeq
  <1>2. f \in FrameType /\ f.node = s[L].node /\ f.todo = s[L].todo \ {d}
    BY <1>1 DEF FrameType
  <1>3. t = [s EXCEPT ![Len(s)] = f]
    BY DEF TakeTop
  <1> HIDE DEF f
  <1>4. /\ t \in Seq(FrameType) /\ Len(t) = L /\ t[L] = f
        /\ \A i \in 1..(L - 1) : t[i] = s[i]
    <2>1. /\ [s EXCEPT ![Len(s)] = f] \in Seq(FrameType)
          /\ Len([s EXCEPT ![Len(s)] = f]) = Len(s)
          /\ [s EXCEPT ![Len(s)] = f][Len(s)] = f
          /\ \A i \in 1..(Len(s) - 1) : [s EXCEPT ![Len(s)] = f][i] = s[i]
      BY <1>2, ReplaceTop
    <2> QED
      BY <1>3, <2>1, Zenon
  <1>5. \A i \in 1..L : i \in 1..(L-1) \/ i = L
    BY <1>1
  <1> QED
    BY <1>2, <1>4, <1>5, Zenon

----------------------------------------------------------------------------
\* The initial states satisfy the inductive invariant.
LEMMA InitIInv == Init => IInv
  <1> SUFFICES ASSUME Init PROVE IInv
    OBVIOUS
  <1>1. \A n \in Services : Cardinality(dependsOn[n]) \in Nat
    BY NamesFinite, FS_Subset, FS_CardinalityType DEF Init
  <1>2. Emitted = {}
    BY DEF Init, Emitted
  <1>3. TypeOK
    <2>1. inDegree \in [Services -> Nat]
      BY <1>1 DEF Init, BuildGraph
    <2>2. DOMAIN inDegree = Services
      BY <2>1
    <2>3. /\ stack \in Seq([node : Names, todo : SUBSET Names])
          /\ levels \in Seq(SUBSET Services)
      BY DEF Init
    <2> QED
      BY <2>1, <2>2, <2>3 DEF Init, TypeOK
  <1>4. DfsInv
    BY ServicesAreNames DEF Init, DfsInv, StackPath, FrameProgress, GrayOnStack, BlackAcyclic,
       CycleErrSound, SelfSupporting
  <1>5. KahnInv
    BY <1>2 DEF Init, BuildGraph, KahnInv, InDegreeCounts, Partition,
       EmittedAcyclic, SelfSupporting
  <1>6. ValidatedSound /\ LevelsRespectDeps /\ StopDependentsFirst /\ StartOrderExact
    BY DEF Init, ValidatedSound, LevelsRespectDeps, StopDependentsFirst, StartOrderExact
  <1> QED
    BY <1>3, <1>4, <1>5, <1>6 DEF IInv

----------------------------------------------------------------------------
(***************************************************************************)
(* The steps of Validate leave StartOrder's state alone.                   *)
(***************************************************************************)
LEMMA KahnFrame ==
  ASSUME IInv, UNCHANGED <<dependsOn, inDegree, levels>>,
         pc \in {"validate", "dfs"}, pc' \in {"dfs", "invalid", "startorder"}
  PROVE  KahnInv' /\ LevelsRespectDeps' /\ StopDependentsFirst' /\ StartOrderExact'
  <1>1. Emitted' = Emitted
    BY DEF Emitted
  <1>2. KahnInv'
    BY <1>1, SameGraph DEF IInv, KahnInv, InDegreeCounts, Partition, EmittedAcyclic
  <1>3. LevelsRespectDeps'
    BY DEF IInv, LevelsRespectDeps
  <1> QED
    BY <1>2, <1>3 DEF StopDependentsFirst, StartOrderExact

\* ValidateReferences preserves the invariant.
LEMMA ValidateReferencesIInv == IInv /\ ValidateReferences => IInv'
  <1> SUFFICES ASSUME IInv, ValidateReferences PROVE IInv'
    OBVIOUS
  <1> USE DEF ValidateReferences
  <1>1. TypeOK'
    BY DEF IInv, TypeOK, HasDangling
  <1>2. DfsInv'
    BY SameGraph DEF IInv, DfsInv, StackPath, FrameProgress, GrayOnStack, BlackAcyclic, CycleErrSound
  <1>3. ValidatedSound'
    BY SameGraph DEF IInv, ValidatedSound
  <1> QED
    BY <1>1, <1>2, <1>3, KahnFrame DEF IInv

\* PickRoot preserves the invariant.
LEMMA PickRootIInv ==
  ASSUME IInv, NEW n \in Services, PickRoot(n)
  PROVE  IInv'
  <1> USE DEF PickRoot
  <1>1. n \in Names /\ DepsOf(n) \subseteq Names
    BY ServicesAreNames DEF IInv, TypeOK, DepsOf
  <1>2. /\ stack' = <<[node |-> n, todo |-> DepsOf(n)]>>
        /\ Len(stack') = 1 /\ stack'[1].node = n /\ stack'[1].todo = DepsOf(n)
    BY DEF Frame
  <1>3. TypeOK'
    <2>1. stack' \in Seq([node : Names, todo : SUBSET Names])
      BY <1>1, <1>2
    <2> QED
      BY <2>1, <1>1 DEF IInv, TypeOK
  <1>4. \A m \in Names : colors'[m] = IF m = n THEN "gray" ELSE colors[m]
    BY <1>1 DEF IInv, TypeOK
  <1>5. BlackAcyclic'
    BY <1>4, SameGraph, ServicesAreNames, <1>1
       DEF IInv, TypeOK, DfsInv, BlackAcyclic, SelfSupporting, DepsOf
  <1>6. StackPath' /\ FrameProgress'
    BY <1>2, SameGraph DEF StackPath, FrameProgress
  <1>7. GrayOnStack'
    BY <1>2, <1>4, <1>1 DEF IInv, DfsInv, GrayOnStack
  <1>8. DfsInv'
    BY <1>5, <1>6, <1>7, SameGraph DEF IInv, DfsInv, CycleErrSound
  <1>9. ValidatedSound'
    BY SameGraph DEF IInv, ValidatedSound
  <1> QED
    BY <1>3, <1>8, <1>9, KahnFrame DEF IInv

(***************************************************************************)
(* A gray entry closes a cycle: the nodes from that entry up to the top of *)
(* the stack each depend on the next one, and the top on the entry.        *)
(***************************************************************************)
LEMMA GrayClosesCycle ==
  ASSUME IInv, NEW d \in Names, VisitGray(d)
  PROVE  Cyclic
  <1> USE DEF VisitGray
  <1>1. CASE cycleErr
    BY <1>1 DEF IInv, DfsInv, CycleErrSound
  <1>2. CASE ~cycleErr
    <2>1. PICK k \in 1..Len(stack) : stack[k].node = d
      BY <1>2 DEF IInv, DfsInv, GrayOnStack
    <2> DEFINE X == {stack[j].node : j \in k..Len(stack)}
    <2>2. Len(stack) \in Nat /\ k \in k..Len(stack)
      BY DEF IInv, TypeOK
    <2>3. \A j \in k..Len(stack) : DepsOf(stack[j].node) \cap X # {}
      <3> SUFFICES ASSUME NEW j \in k..Len(stack)
                   PROVE  DepsOf(stack[j].node) \cap X # {}
        OBVIOUS
      <3>1. CASE j = Len(stack)
        BY <3>1, <2>1, <2>2 DEF IInv, DfsInv, FrameProgress, Top
      <3>2. CASE j # Len(stack)
        <4>1. j \in 1..(Len(stack) - 1) /\ j + 1 \in k..Len(stack)
          BY <3>2, <2>2
        <4>2. stack[j+1].node \in DepsOf(stack[j].node)
          BY <4>1 DEF IInv, DfsInv, StackPath
        <4> QED
          BY <4>1, <4>2
      <3> QED
        BY <3>1, <3>2
    <2>4. SelfSupporting(X)
      BY <2>2, <2>3 DEF SelfSupporting, DepsOf
    <2> QED
      BY <2>4 DEF Cyclic, SelfSupporting
  <1> QED
    BY <1>1, <1>2

\* VisitGray preserves the invariant.
LEMMA VisitGrayIInv ==
  ASSUME IInv, NEW d \in Names, VisitGray(d)
  PROVE  IInv'
  <1>1. Cyclic /\ Cyclic'
    BY GrayClosesCycle, SameGraph DEF VisitGray
  <1> USE DEF VisitGray
  <1>2. TypeOK'
    BY DEF IInv, TypeOK
  <1>3. DfsInv'
    <2>1. StackPath' /\ FrameProgress' /\ GrayOnStack'
      BY DEF StackPath, FrameProgress, GrayOnStack
    <2>2. BlackAcyclic'
      BY SameGraph DEF IInv, DfsInv, BlackAcyclic
    <2> QED
      BY <1>1, <2>1, <2>2 DEF DfsInv, CycleErrSound
  <1>4. ValidatedSound'
    BY <1>1, SameGraph DEF IInv, ValidatedSound
  <1> QED
    BY <1>2, <1>3, <1>4, KahnFrame DEF IInv

\* VisitWhite preserves the invariant.
LEMMA VisitWhiteIInv ==
  ASSUME IInv, NEW d \in Names, VisitWhite(d)
  PROVE  IInv'
  <1> DEFINE L == Len(stack)
  <1> USE DEF VisitWhite
  <1>1. /\ stack \in Seq([node : Names, todo : SUBSET Names])
        /\ L \in Nat /\ L >= 1 /\ L \in 1..L
        /\ DepsOf(d) \subseteq Names
        /\ \A i \in 1..L : stack[i] \in FrameType
    BY NonemptySeq DEF IInv, TypeOK, DepsOf, FrameType
  <1>2. /\ stack' \in Seq([node : Names, todo : SUBSET Names])
        /\ Len(stack') = L + 1
        /\ \A i \in 1..(L-1) : stack'[i] = stack[i]
        /\ stack'[L].node = stack[L].node
        /\ stack'[L].todo = stack[L].todo \ {d}
        /\ stack'[L+1].node = d
        /\ stack'[L+1].todo = DepsOf(d)
    <2> DEFINE t == TakeTop(stack, d)
    <2>1. /\ t \in Seq([node : Names, todo : SUBSET Names])
          /\ Len(t) = L
          /\ \A i \in 1..(L-1) : t[i] = stack[i]
          /\ t[L].node = stack[L].node
          /\ t[L].todo = stack[L].todo \ {d}
      <3>1. stack \in Seq(FrameType) /\ stack # <<>>
        BY <1>1 DEF FrameType
      <3> HIDE DEF VisitWhite
      <3>2. /\ TakeTop(stack, d) \in Seq(FrameType)
            /\ Len(TakeTop(stack, d)) = Len(stack)
            /\ \A i \in 1..(Len(stack) - 1) : TakeTop(stack, d)[i] = stack[i]
            /\ \A i \in 1..Len(stack) : TakeTop(stack, d)[i].node = stack[i].node
            /\ TakeTop(stack, d)[Len(stack)].todo = stack[Len(stack)].todo \ {d}
        BY <3>1, TakeEntry, Zenon
      <3> QED
        BY <1>1, <3>2, Zenon DEF FrameType
    <2> DEFINE f == [node |-> d, todo |-> DepsOf(d)]
    <2>2. stack' = Append(t, f)
      BY DEF Frame, TakeTop
    <2>3. f \in [node : Names, todo : SUBSET Names] /\ f.node = d /\ f.todo = DepsOf(d)
      BY <1>1
    <2> HIDE DEF t, f
    <2>4. /\ stack' \in Seq([node : Names, todo : SUBSET Names])
          /\ Len(stack') = L + 1
          /\ \A i \in 1..L : stack'[i] = t[i]
          /\ stack'[L+1] = f
      <3>1. Len(t) = L
        BY <2>1
      <3>2. /\ Append(t, f) \in Seq([node : Names, todo : SUBSET Names])
            /\ Len(Append(t, f)) = Len(t) + 1
            /\ \A i \in 1..Len(t) : Append(t, f)[i] = t[i]
            /\ Append(t, f)[Len(t) + 1] = f
        BY <2>1, <2>3, AppendProperties
      <3> QED
        BY <2>2, <3>1, <3>2
    <2>5. \A i \in 1..(L-1) : i \in 1..L
      BY <1>1
    <2> QED
      BY <2>1, <2>3, <2>4, <2>5, <1>1
  <1>3. /\ d \in stack[L].todo /\ d \in DepsOf(stack[L].node)
        /\ stack[L].todo \subseteq DepsOf(stack[L].node)
    BY <1>1 DEF Top, IInv, DfsInv, FrameProgress
  <1>4. \A m \in Names : colors'[m] = IF m = d THEN "gray" ELSE colors[m]
    BY DEF IInv, TypeOK
  <1>5. \A i \in 1..L : stack'[i].node = stack[i].node
    BY <1>1, <1>2
  <1>6. \A i \in 1..(L+1) : i \in 1..(L-1) \/ i = L \/ i = L + 1
    BY <1>1
  <1>7. TypeOK'
    BY <1>2 DEF IInv, TypeOK
  <1>8. StackPath'
    <2> SUFFICES ASSUME NEW i \in 1..L
                 PROVE  stack'[i+1].node \in DepsOf(stack'[i].node) \ stack'[i].todo
      BY <1>1, <1>2, SameGraph DEF StackPath
    <2>1. CASE i = L
      BY <2>1, <1>2, <1>3
    <2>2. CASE i # L
      <3>1. i \in 1..(L-1) /\ i + 1 \in 1..L
        BY <2>2, <1>1
      <3> QED
        BY <3>1, <1>2, <1>5 DEF IInv, DfsInv, StackPath
    <2> QED
      BY <2>1, <2>2
  <1>9. FrameProgress'
    <2> SUFFICES ASSUME NEW i \in 1..(L+1)
                 PROVE  /\ stack'[i].todo \subseteq DepsOf(stack'[i].node)
                        /\ \A e \in DepsOf(stack'[i].node) \ stack'[i].todo :
                             \/ colors'[e] = "black"
                             \/ i < L + 1 /\ e = stack'[i+1].node
      BY <1>2, SameGraph DEF FrameProgress
    <2>0. \A m : DepsOf(m) \subseteq Names
      BY DEF IInv, TypeOK, DepsOf
    <2>1. CASE i \in 1..(L-1)
      <3>1. i + 1 \in 1..L /\ i \in 1..L
        BY <2>1, <1>1
      <3>2. /\ stack[i].todo \subseteq DepsOf(stack[i].node)
            /\ \A e \in DepsOf(stack[i].node) \ stack[i].todo :
                 \/ colors[e] = "black"
                 \/ i < L /\ e = stack[i+1].node
        BY <3>1 DEF IInv, DfsInv, FrameProgress
      <3> QED
        BY <3>1, <3>2, <2>1, <1>1, <1>2, <1>4, <1>5, <2>0
    <2>2. CASE i = L
      <3>1. \A e \in DepsOf(stack[L].node) \ stack[L].todo : colors[e] = "black"
        BY <1>1 DEF IInv, DfsInv, FrameProgress
      <3> QED
        BY <3>1, <2>2, <1>1, <1>2, <1>3, <1>4, <2>0
    <2>3. CASE i = L + 1
      BY <2>3, <1>2
    <2> QED
      BY <2>1, <2>2, <2>3, <1>6
  <1>10. GrayOnStack'
    <2>1. \A i \in 1..L : stack[i].node \in Names /\ colors[stack[i].node] = "gray"
      BY <1>1 DEF IInv, DfsInv, GrayOnStack, FrameType
    <2>2. \A i \in 1..(L+1) : colors'[stack'[i].node] = "gray"
      BY <1>2, <1>4, <1>5, <1>6, <1>1, <2>1
    <2>3. \A i, j \in 1..(L+1) : stack'[i].node = stack'[j].node => i = j
      <3>1. \A i \in 1..L : stack[i].node # d
        BY <2>1
      <3>2. \A i \in 1..(L+1) : i \in 1..L \/ i = L + 1
        BY <1>1
      <3>3. \A i, j \in 1..L : stack[i].node = stack[j].node => i = j
        BY DEF IInv, DfsInv, GrayOnStack
      <3> QED
        BY <3>1, <3>2, <3>3, <1>2, <1>5
    <2>4. ASSUME ~cycleErr, NEW m \in Names, colors'[m] = "gray"
          PROVE  \E i \in 1..(L+1) : stack'[i].node = m
      <3>1. CASE m = d
        BY <3>1, <1>1, <1>2
      <3>2. CASE m # d
        <4>1. PICK i \in 1..L : stack[i].node = m
          BY <3>2, <2>4, <1>4 DEF IInv, DfsInv, GrayOnStack
        <4>2. i \in 1..(L+1)
          BY <1>1
        <4> QED
          BY <4>1, <4>2, <1>5
      <3> QED
        BY <3>1, <3>2
    <2> QED
      BY <2>2, <2>3, <2>4, <1>2 DEF GrayOnStack
  <1>11. BlackAcyclic'
    BY <1>4, SameGraph, ServicesAreNames
       DEF IInv, TypeOK, DfsInv, BlackAcyclic, SelfSupporting, DepsOf
  <1>12. DfsInv'
    BY <1>8, <1>9, <1>10, <1>11, SameGraph DEF IInv, DfsInv, CycleErrSound
  <1>13. ValidatedSound'
    BY SameGraph DEF IInv, ValidatedSound
  <1> QED
    BY <1>7, <1>12, <1>13, KahnFrame DEF IInv

\* VisitBlack preserves the invariant.
LEMMA VisitBlackIInv ==
  ASSUME IInv, NEW d \in Names, VisitBlack(d)
  PROVE  IInv'
  <1> DEFINE L == Len(stack)
  <1> USE DEF VisitBlack
  <1>1. /\ stack \in Seq([node : Names, todo : SUBSET Names])
        /\ L \in Nat /\ L >= 1 /\ L \in 1..L
    BY NonemptySeq DEF IInv, TypeOK
  <1>2. /\ stack' \in Seq([node : Names, todo : SUBSET Names])
        /\ Len(stack') = L
        /\ \A i \in 1..L : stack'[i].node = stack[i].node
        /\ \A i \in 1..(L-1) : stack'[i].todo = stack[i].todo
        /\ stack'[L].todo = stack[L].todo \ {d}
    <2>1. stack \in Seq(FrameType) /\ stack # <<>>
      BY <1>1 DEF FrameType
    <2>2. stack' = TakeTop(stack, d)
      BY DEF TakeTop
    <2> HIDE DEF VisitBlack
    <2>3. /\ TakeTop(stack, d) \in Seq(FrameType)
          /\ Len(TakeTop(stack, d)) = Len(stack)
          /\ \A i \in 1..(Len(stack) - 1) : TakeTop(stack, d)[i] = stack[i]
          /\ \A i \in 1..Len(stack) : TakeTop(stack, d)[i].node = stack[i].node
          /\ TakeTop(stack, d)[Len(stack)].todo = stack[Len(stack)].todo \ {d}
      BY <2>1, TakeEntry, Zenon
    <2> QED
      BY <2>2, <2>3 DEF FrameType
  <1>3. \A i \in 1..L : i \in 1..(L-1) \/ i = L
    BY <1>1
  <1>4. TypeOK'
    BY <1>2 DEF IInv, TypeOK
  <1>5. StackPath'
    <2>1. \A i \in 1..(L-1) : i \in 1..L /\ i + 1 \in 1..L
      BY <1>1
    <2> QED
      BY <2>1, <1>2, SameGraph DEF IInv, DfsInv, StackPath
  <1>6. FrameProgress'
    <2> SUFFICES ASSUME NEW i \in 1..L
                 PROVE  /\ stack'[i].todo \subseteq DepsOf(stack'[i].node)
                        /\ \A e \in DepsOf(stack'[i].node) \ stack'[i].todo :
                             \/ colors[e] = "black"
                             \/ i < L /\ e = stack'[i+1].node
      BY <1>2, SameGraph DEF FrameProgress
    <2>1. /\ stack[i].todo \subseteq DepsOf(stack[i].node)
          /\ \A e \in DepsOf(stack[i].node) \ stack[i].todo :
               \/ colors[e] = "black"
               \/ i < L /\ e = stack[i+1].node
      BY DEF IInv, DfsInv, FrameProgress
    <2>2. i < L => i + 1 \in 1..L
      BY <1>1
    <2>3. stack'[i].todo = stack[i].todo \/ stack'[i].todo = stack[i].todo \ {d}
      BY <1>2, <1>3
    <2> QED
      BY <2>1, <2>2, <2>3, <1>2
  <1>7. GrayOnStack'
    BY <1>2 DEF IInv, DfsInv, GrayOnStack
  <1>8. BlackAcyclic'
    BY SameGraph DEF IInv, DfsInv, BlackAcyclic
  <1>9. DfsInv'
    BY <1>5, <1>6, <1>7, <1>8, SameGraph DEF IInv, DfsInv, CycleErrSound
  <1>10. ValidatedSound'
    BY SameGraph DEF IInv, ValidatedSound
  <1> QED
    BY <1>4, <1>9, <1>10, KahnFrame DEF IInv

\* ReturnFromVisit preserves the invariant: the node that turns black has only
\* black dependencies, so no cycle goes through it.
LEMMA ReturnFromVisitIInv == IInv /\ ReturnFromVisit => IInv'
  <1> SUFFICES ASSUME IInv, ReturnFromVisit PROVE IInv'
    OBVIOUS
  <1> DEFINE L == Len(stack)
             n == stack[L].node
  <1> USE DEF ReturnFromVisit
  <1>1. /\ stack \in Seq([node : Names, todo : SUBSET Names])
        /\ L \in Nat /\ L >= 1 /\ L \in 1..L
        /\ n \in Names
        /\ \A i \in 1..L : stack[i] \in FrameType
    <2>1. stack \in Seq(FrameType) /\ stack # <<>>
      BY DEF IInv, TypeOK, FrameType
    <2>2. L \in Nat /\ L >= 1 /\ L \in 1..L /\ \A i \in 1..L : stack[i] \in FrameType
      BY <2>1, NonemptySeq
    <2> QED
      BY <2>1, <2>2 DEF FrameType
  <1>2. /\ stack' \in Seq([node : Names, todo : SUBSET Names])
        /\ Len(stack') = L - 1
        /\ \A i \in 1..(L-1) : stack'[i] = stack[i]
    BY <1>1, PopSeq
  <1>3. \A m \in Names : colors'[m] = IF m = n THEN "black" ELSE colors[m]
    BY <1>1 DEF IInv, TypeOK, Top
  <1>4. \A d \in DepsOf(n) : colors[d] = "black"
    BY <1>1 DEF IInv, DfsInv, FrameProgress, Top
  <1>5. \A m : DepsOf(m) \subseteq Names
    BY DEF IInv, TypeOK, DepsOf
  <1>6. \A i \in 1..(L-1) : i \in 1..L /\ i + 1 \in 1..L
    BY <1>1
  <1>7. TypeOK'
    <2>1. colors' \in [Names -> {"white", "gray", "black"}]
      BY DEF IInv, TypeOK
    <2> QED
      BY <1>2, <2>1 DEF IInv, TypeOK
  <1>8. StackPath'
    <2> SUFFICES ASSUME NEW i \in 1..(L-2)
                 PROVE  stack'[i+1].node \in DepsOf(stack'[i].node) \ stack'[i].todo
      BY <1>1, <1>2, SameGraph DEF StackPath
    <2>1. i \in 1..(L-1) /\ i + 1 \in 1..(L-1)
      BY <1>1
    <2> QED
      BY <2>1, <1>2 DEF IInv, DfsInv, StackPath
  <1>9. FrameProgress'
    <2> SUFFICES ASSUME NEW i \in 1..(L-1)
                 PROVE  /\ stack'[i].todo \subseteq DepsOf(stack'[i].node)
                        /\ \A e \in DepsOf(stack'[i].node) \ stack'[i].todo :
                             \/ colors'[e] = "black"
                             \/ i < L - 1 /\ e = stack'[i+1].node
      BY <1>2, SameGraph DEF FrameProgress
    <2>1. /\ stack[i].todo \subseteq DepsOf(stack[i].node)
          /\ \A e \in DepsOf(stack[i].node) \ stack[i].todo :
               \/ colors[e] = "black"
               \/ i < L /\ e = stack[i+1].node
      BY <1>6 DEF IInv, DfsInv, FrameProgress
    <2>2. ASSUME NEW e \in DepsOf(stack[i].node) \ stack[i].todo, e = stack[i+1].node
          PROVE  colors'[e] = "black" \/ (i < L - 1 /\ e = stack'[i+1].node)
      <3>1. CASE i = L - 1
        BY <3>1, <2>2, <1>1, <1>3
      <3>2. CASE i # L - 1
        <4>1. i < L - 1 /\ i + 1 \in 1..(L-1)
          BY <3>2, <1>1
        <4> QED
          BY <4>1, <2>2, <1>2
      <3> QED
        BY <3>1, <3>2
    <2> QED
      BY <2>1, <2>2, <1>2, <1>3, <1>5
  <1>10. GrayOnStack'
    <2>1. \A i \in 1..(L-1) : stack[i].node # n /\ colors[stack[i].node] = "gray"
      BY <1>1, <1>6 DEF IInv, DfsInv, GrayOnStack
    <2>2. \A i \in 1..(L-1) : colors'[stack'[i].node] = "gray"
      BY <2>1, <1>1, <1>2, <1>3, <1>6 DEF FrameType
    <2>3. \A i, j \in 1..(L-1) : stack'[i].node = stack'[j].node => i = j
      BY <1>2, <1>6 DEF IInv, DfsInv, GrayOnStack
    <2>4. ASSUME ~cycleErr, NEW m \in Names, colors'[m] = "gray"
          PROVE  \E i \in 1..(L-1) : stack'[i].node = m
      <3>1. m # n /\ colors[m] = "gray"
        BY <2>4, <1>3
      <3>2. PICK i \in 1..L : stack[i].node = m
        BY <3>1, <2>4 DEF IInv, DfsInv, GrayOnStack
      <3>3. i \in 1..(L-1)
        BY <3>1, <3>2, <1>1
      <3> QED
        BY <3>2, <3>3, <1>2
    <2> QED
      BY <2>2, <2>3, <2>4, <1>2 DEF GrayOnStack
  <1>11. BlackAcyclic'
    <2>1. \A m \in Names : colors'[m] = "black" => \A d \in DepsOf(m) : colors'[d] = "black"
      BY <1>3, <1>4, <1>5 DEF IInv, DfsInv, BlackAcyclic
    <2>2. ASSUME NEW X \in SUBSET Services, SelfSupporting(X), NEW m \in X
          PROVE  colors'[m] # "black"
      <3>1. \A x \in X : colors[x] # "black"
        BY <2>2 DEF IInv, DfsInv, BlackAcyclic
      <3>2. m # n
        BY <3>1, <2>2, <1>4 DEF SelfSupporting, DepsOf
      <3> QED
        BY <3>1, <3>2, <1>3, ServicesAreNames
    <2> QED
      BY <2>1, <2>2, SameGraph DEF BlackAcyclic
  <1>12. DfsInv'
    BY <1>8, <1>9, <1>10, <1>11, SameGraph DEF IInv, DfsInv, CycleErrSound
  <1>13. ValidatedSound'
    BY SameGraph DEF IInv, ValidatedSound
  <1> QED
    BY <1>7, <1>12, <1>13, KahnFrame DEF IInv

\* EndValidate preserves the invariant: with no error reported and no gray
\* node left every service is black, so there is no cycle.
LEMMA EndValidateIInv == IInv /\ EndValidate => IInv'
  <1> SUFFICES ASSUME IInv, EndValidate PROVE IInv'
    OBVIOUS
  <1> USE DEF EndValidate
  <1>1. ASSUME ~cycleErr PROVE ~Cyclic
    <2>1. \A n \in Services : colors[n] = "black"
      BY <1>1, ServicesAreNames DEF IInv, TypeOK, DfsInv, GrayOnStack
    <2> QED
      BY <2>1 DEF IInv, DfsInv, BlackAcyclic, Cyclic, SelfSupporting
  <1>2. TypeOK'
    BY DEF IInv, TypeOK
  <1>3. DfsInv'
    BY SameGraph DEF IInv, DfsInv, StackPath, FrameProgress, GrayOnStack, BlackAcyclic, CycleErrSound
  <1>4. ValidatedSound'
    BY <1>1, SameGraph DEF IInv, TypeOK, ValidatedSound, DfsInv, CycleErrSound
  <1> QED
    BY <1>2, <1>3, <1>4, KahnFrame DEF IInv

----------------------------------------------------------------------------
(***************************************************************************)
(* StartOrder's steps leave Validate's state alone.                        *)
(***************************************************************************)
LEMMA DfsFrame ==
  ASSUME IInv, UNCHANGED <<dependsOn, validated, dangling, colors, stack, cycleErr>>,
         pc \in {"startorder", "ordered"}, pc' \in {"startorder", "ordered", "cycle", "reversed"}
  PROVE  DfsInv' /\ ValidatedSound'
  <1>1. StackPath' /\ FrameProgress' /\ GrayOnStack' /\ BlackAcyclic' /\ CycleErrSound'
    BY SameGraph DEF IInv, DfsInv, StackPath, FrameProgress, GrayOnStack, BlackAcyclic, CycleErrSound
  <1>2. ValidatedSound'
    BY SameGraph DEF IInv, ValidatedSound
  <1> QED
    BY <1>1, <1>2 DEF IInv, DfsInv

(***************************************************************************)
(* A round preserves the invariant: a service in the level has no          *)
(* dependency outside the levels already emitted.                          *)
(***************************************************************************)
LEMMA StartRoundIInv == IInv /\ StartRound => IInv'
  <1> SUFFICES ASSUME IInv, StartRound PROVE IInv'
    OBVIOUS
  <1> DEFINE L == Len(levels)
  <1>1. /\ dependsOn \in [Services -> SUBSET Names]
        /\ DOMAIN inDegree \subseteq Services
        /\ levels \in Seq(SUBSET Services)
        /\ L \in Nat
        /\ DOMAIN levels = 1..L
    BY DEF IInv, TypeOK
  <1>2. Level \subseteq DOMAIN inDegree /\ Level \subseteq Services
    BY <1>1 DEF Level
  <1>3. \A n \in Level : dependsOn[n] \subseteq Emitted
    <2> SUFFICES ASSUME NEW n \in Level PROVE dependsOn[n] \subseteq Emitted
      OBVIOUS
    <2>1. Cardinality(dependsOn[n] \ Emitted) = 0
      BY DEF Level, IInv, KahnInv, InDegreeCounts
    <2>2. IsFiniteSet(dependsOn[n] \ Emitted)
      BY <1>1, <1>2, DepsFinite
    <2>3. dependsOn[n] \ Emitted = {}
      BY <2>1, <2>2, FS_EmptySet
    <2> QED
      BY <2>3
  <1>4. /\ levels' \in Seq(SUBSET Services)
        /\ DOMAIN levels' = 1..(L+1)
        /\ \A i \in 1..L : levels'[i] = levels[i]
        /\ levels'[L+1] = Level
    BY <1>1, <1>2, AppendProperties DEF StartRound
  <1>5. \A i \in 1..(L+1) : i \in 1..L \/ i = L + 1
    BY <1>1
  <1>6. \A i \in 1..L : i \in 1..(L+1)
    BY <1>1
  <1>7. L + 1 \in 1..(L+1)
    BY <1>1
  <1>8. Emitted' = Emitted \cup Level
    BY <1>1, <1>4, <1>5, <1>6, <1>7 DEF Emitted
  <1>9. DOMAIN inDegree' = DOMAIN inDegree \ Level
    BY DEF StartRound
  <1>10. Emitted \cap Level = {}
    BY <1>2 DEF IInv, KahnInv, Partition
  <1>11. \A n \in DOMAIN inDegree' :
            /\ inDegree'[n] = Cardinality(dependsOn[n] \ Emitted')
            /\ inDegree'[n] \in Nat
    <2> SUFFICES ASSUME NEW n \in DOMAIN inDegree \ Level
                 PROVE  /\ inDegree'[n] = Cardinality(dependsOn[n] \ Emitted')
                        /\ inDegree'[n] \in Nat
      BY <1>9
    <2> DEFINE S == dependsOn[n] \ Emitted
    <2>1. n \in Services /\ IsFiniteSet(S)
      BY <1>1, DepsFinite
    <2>2. inDegree'[n] = Cardinality(S) - Cardinality(dependsOn[n] \cap Level)
      BY DEF StartRound, IInv, KahnInv, InDegreeCounts
    <2>3. dependsOn[n] \cap Level = S \cap Level
      BY <1>10
    <2>4. dependsOn[n] \ Emitted' = S \ Level
      BY <1>8
    <2>5. Cardinality(S \ Level) = Cardinality(S) - Cardinality(S \cap Level)
      BY <2>1, FS_Difference
    <2>6. Cardinality(dependsOn[n] \ Emitted') \in Nat
      BY <1>1, <2>1, DepsFinite
    <2> QED
      BY <2>2, <2>3, <2>4, <2>5, <2>6
  <1>12. TypeOK'
    <2>1. inDegree' \in [DOMAIN inDegree' -> Nat]
      BY <1>11 DEF StartRound
    <2>2. DOMAIN inDegree' \in SUBSET Services
      BY <1>1, <1>9
    <2> QED
      BY <1>4, <2>1, <2>2 DEF StartRound, IInv, TypeOK
  <1>13. Partition'
    BY <1>2, <1>8, <1>9, <1>10 DEF IInv, KahnInv, Partition
  <1>14. EmittedAcyclic'
    <2> SUFFICES ASSUME NEW X \in SUBSET Services, SelfSupporting(X)
                 PROVE  X \subseteq DOMAIN inDegree'
      BY SameGraph DEF StartRound, EmittedAcyclic
    <2>1. X \subseteq DOMAIN inDegree /\ X \cap Emitted = {}
      BY DEF IInv, KahnInv, EmittedAcyclic, Partition
    <2>2. X \cap Level = {}
      BY <2>1, <1>3 DEF SelfSupporting
    <2> QED
      BY <2>1, <2>2, <1>9
  <1>15. KahnInv'
    BY <1>11, <1>13, <1>14 DEF KahnInv, InDegreeCounts, StartRound
  <1>16. LevelsRespectDeps'
    <2> SUFFICES ASSUME NEW i \in 1..(L+1), NEW n \in levels'[i], NEW d \in dependsOn[n]
                 PROVE  \E j \in 1..(L+1) : j < i /\ d \in levels'[j]
      BY <1>4 DEF LevelsRespectDeps, StartRound
    <2>1. CASE i \in 1..L
      <3>1. PICK j \in 1..L : j < i /\ d \in levels[j]
        BY <2>1, <1>1, <1>4 DEF StartRound, IInv, LevelsRespectDeps
      <3> QED
        BY <3>1, <1>4, <1>6
    <2>2. CASE i = L + 1
      <3>1. d \in Emitted
        BY <2>2, <1>3, <1>4
      <3>2. PICK j \in 1..L : d \in levels[j]
        BY <3>1, <1>1 DEF Emitted
      <3>3. j < i
        BY <2>2, <1>1
      <3> QED
        BY <3>2, <3>3, <1>4, <1>6
    <2> QED
      BY <2>1, <2>2, <1>5
  <1>17. StopDependentsFirst' /\ StartOrderExact'
    BY DEF StartRound, StopDependentsFirst, StartOrderExact
  <1>18. DfsInv' /\ ValidatedSound'
    BY DfsFrame DEF StartRound
  <1> QED
    BY <1>12, <1>15, <1>16, <1>17, <1>18 DEF IInv

(***************************************************************************)
(* The end of StartOrder preserves the invariant: if services are left and *)
(* none is ready, they depend on each other or on a name nobody has.       *)
(***************************************************************************)
LEMMA EndStartOrderIInv == IInv /\ EndStartOrder => IInv'
  <1> SUFFICES ASSUME IInv, EndStartOrder PROVE IInv'
    OBVIOUS
  <1> USE DEF EndStartOrder
  <1>1. /\ dependsOn \in [Services -> SUBSET Names]
        /\ DOMAIN inDegree \subseteq Services
        /\ levels \in Seq(SUBSET Services)
        /\ DOMAIN levels = 1..Len(levels)
    BY DEF IInv, TypeOK
  <1>2. TypeOK'
    BY DEF IInv, TypeOK
  <1>3. Emitted' = Emitted
    BY DEF Emitted
  <1>4. KahnInv'
    BY <1>3, SameGraph DEF IInv, KahnInv, InDegreeCounts, Partition, EmittedAcyclic
  <1>5. LevelsRespectDeps' /\ StopDependentsFirst'
    BY DEF IInv, LevelsRespectDeps, StopDependentsFirst
  <1>6. DfsInv' /\ ValidatedSound'
    BY DfsFrame
  <1>7. ASSUME DOMAIN inDegree # {} PROVE Cyclic \/ HasDangling
    <2> SUFFICES ASSUME ~HasDangling PROVE SelfSupporting(DOMAIN inDegree)
      BY <1>1 DEF Cyclic
    <2>1. ASSUME NEW n \in DOMAIN inDegree
          PROVE  dependsOn[n] \cap DOMAIN inDegree # {}
      <3>1. inDegree[n] # 0
        BY <2>1 DEF Level
      <3>2. Cardinality(dependsOn[n] \ Emitted) # 0
        BY <2>1, <3>1 DEF IInv, KahnInv, InDegreeCounts
      <3>3. dependsOn[n] \ Emitted # {}
        BY <3>2, FS_EmptySet
      <3>4. dependsOn[n] \subseteq Services
        BY <2>1, <1>1 DEF HasDangling
      <3> QED
        BY <3>3, <3>4 DEF IInv, KahnInv, Partition
    <2> QED
      BY <1>1, <1>7, <2>1 DEF SelfSupporting
  <1>8. ASSUME DOMAIN inDegree = {} PROVE ~Cyclic /\ ~HasDangling /\ Emitted = Services
    <2>1. Emitted = Services
      BY <1>8 DEF IInv, KahnInv, Partition
    <2>2. ~Cyclic
      BY <1>8 DEF IInv, KahnInv, EmittedAcyclic, Cyclic, SelfSupporting
    <2>3. \A n \in Emitted : dependsOn[n] \subseteq Emitted
      BY DEF IInv, LevelsRespectDeps, Emitted
    <2> QED
      BY <2>1, <2>2, <2>3 DEF HasDangling
  <1>9. StartOrderExact'
    <2>1. validated' = validated /\ (validated => ~Cyclic /\ ~HasDangling)
      BY DEF IInv, ValidatedSound
    <2>2. Cyclic' = Cyclic /\ HasDangling' = HasDangling
      BY SameGraph
    <2>3. CASE DOMAIN inDegree = {}
      BY <2>2, <2>3, <1>3, <1>8 DEF StartOrderExact
    <2>4. CASE DOMAIN inDegree # {}
      BY <2>1, <2>2, <2>4, <1>7 DEF StartOrderExact
    <2> QED
      BY <2>3, <2>4
  <1> QED
    BY <1>2, <1>4, <1>5, <1>6, <1>9 DEF IInv

\* StopOrder preserves the invariant: reversing the levels reverses their order.
LEMMA StopOrderIInv == IInv /\ StopOrder => IInv'
  <1> SUFFICES ASSUME IInv, StopOrder PROVE IInv'
    OBVIOUS
  <1> USE DEF StopOrder
  <1> DEFINE L == Len(levels)
  <1>1. levels \in Seq(SUBSET Services) /\ L \in Nat /\ DOMAIN levels = 1..L
    BY DEF IInv, TypeOK
  <1>2. \A i \in 1..L : L + 1 - i \in 1..L /\ L + 1 - (L + 1 - i) = i
    BY <1>1
  <1>3. levels' = [i \in 1..L |-> levels[L + 1 - i]]
    BY <1>1
  <1>4. levels' \in Seq(SUBSET Services) /\ DOMAIN levels' = 1..L
    BY <1>1, <1>2, <1>3
  <1>5. \A i \in 1..L : levels'[i] = levels[L + 1 - i] /\ levels[i] = levels'[L + 1 - i]
    BY <1>2, <1>3
  <1>6. Emitted' = Emitted
    <2>1. ASSUME NEW n \in Emitted PROVE n \in Emitted'
      <3>1. PICK i \in 1..L : n \in levels[i]
        BY <1>1 DEF Emitted
      <3>2. L + 1 - i \in DOMAIN levels' /\ n \in levels'[L + 1 - i]
        BY <3>1, <1>2, <1>4, <1>5
      <3> QED
        BY <3>2 DEF Emitted
    <2>2. ASSUME NEW n \in Emitted' PROVE n \in Emitted
      <3>1. PICK i \in 1..L : n \in levels'[i]
        BY <1>4 DEF Emitted
      <3>2. L + 1 - i \in DOMAIN levels /\ n \in levels[L + 1 - i]
        BY <3>1, <1>1, <1>2, <1>5
      <3> QED
        BY <3>2 DEF Emitted
    <2> QED
      BY <2>1, <2>2
  <1>7. TypeOK'
    BY <1>4 DEF IInv, TypeOK
  <1>8. KahnInv'
    BY <1>6, SameGraph DEF IInv, KahnInv, InDegreeCounts, Partition, EmittedAcyclic
  <1>9. StopDependentsFirst'
    <2> SUFFICES ASSUME NEW i \in 1..L, NEW n \in levels'[i], NEW d \in dependsOn[n]
                 PROVE  \E j \in 1..L : i < j /\ d \in levels'[j]
      BY <1>4 DEF StopDependentsFirst
    <2>1. n \in levels[L + 1 - i] /\ L + 1 - i \in 1..L
      BY <1>2, <1>5
    <2>2. PICK j \in 1..L : j < L + 1 - i /\ d \in levels[j]
      BY <2>1, <1>1 DEF IInv, LevelsRespectDeps
    <2>3. L + 1 - j \in 1..L /\ i < L + 1 - j /\ d \in levels'[L + 1 - j]
      BY <2>2, <1>1, <1>2, <1>5
    <2> QED
      BY <2>3
  <1>10. LevelsRespectDeps' /\ StartOrderExact'
    BY <1>6, SameGraph DEF IInv, LevelsRespectDeps, StartOrderExact
  <1>11. DfsInv' /\ ValidatedSound'
    BY DfsFrame
  <1> QED
    BY <1>7, <1>8, <1>9, <1>10, <1>11 DEF IInv

----------------------------------------------------------------------------
\* Every step preserves the inductive invariant.
LEMMA NextIInv == IInv /\ [Next]_vars => IInv'
  <1> SUFFICES ASSUME IInv, [Next]_vars PROVE IInv'
    OBVIOUS
  <1>1. CASE UNCHANGED vars
    <2>1. Emitted' = Emitted
      BY <1>1 DEF vars, Emitted
    <2>2. TypeOK'
      BY <1>1 DEF vars, IInv, TypeOK
    <2>3. DfsInv'
      BY <1>1, SameGraph DEF vars, IInv, DfsInv, StackPath, FrameProgress, GrayOnStack,
         BlackAcyclic, CycleErrSound
    <2>4. ValidatedSound' /\ StartOrderExact'
      BY <1>1, <2>1, SameGraph DEF vars, IInv, ValidatedSound, StartOrderExact
    <2>5. KahnInv'
      BY <1>1, <2>1, SameGraph DEF vars, IInv, KahnInv, InDegreeCounts, Partition, EmittedAcyclic
    <2>6. LevelsRespectDeps' /\ StopDependentsFirst'
      BY <1>1 DEF vars, IInv, LevelsRespectDeps, StopDependentsFirst
    <2> QED
      BY <2>2, <2>3, <2>4, <2>5, <2>6 DEF IInv
  <1>2. CASE Next
    BY <1>2, ValidateReferencesIInv, PickRootIInv, VisitGrayIInv, VisitWhiteIInv,
       VisitBlackIInv, ReturnFromVisitIInv, EndValidateIInv, StartRoundIInv,
       EndStartOrderIInv, StopOrderIInv DEF Next
  <1> QED
    BY <1>1, <1>2

(***************************************************************************)
(* The inductive invariant holds throughout every run of Validate,         *)
(* StartOrder and StopOrder, on every graph (pkg/depgraph).                *)
(***************************************************************************)
THEOREM Invariant == Spec => []IInv
  <1> QED
    BY InitIInv, NextIInv, PTL DEF Spec

(***************************************************************************)
(* Type correctness; in particular no in-degree goes negative.             *)
(***************************************************************************)
THEOREM TypeCorrect == Spec => []TypeOK
  <1>1. IInv => TypeOK
    BY DEF IInv
  <1> QED
    BY <1>1, Invariant, PTL

(***************************************************************************)
(* detectCycles reports a cycle if and only if the graph has one.          *)
(***************************************************************************)
THEOREM CycleDetection == Spec => []DetectCyclesExact
  <1>1. IInv => DetectCyclesExact
    BY DEF IInv, TypeOK, ValidatedSound, DetectCyclesExact
  <1> QED
    BY <1>1, Invariant, PTL

(***************************************************************************)
(* Services start after everything they depend on and stop before it.      *)
(***************************************************************************)
THEOREM Ordering == Spec => [](LevelsRespectDeps /\ StopDependentsFirst)
  <1>1. IInv => LevelsRespectDeps /\ StopDependentsFirst
    BY DEF IInv
  <1> QED
    BY <1>1, Invariant, PTL

(***************************************************************************)
(* StartOrder succeeds exactly on the graphs Validate accepts.             *)
(***************************************************************************)
THEOREM OrderExact == Spec => []StartOrderExact
  <1>1. IInv => StartOrderExact
    BY DEF IInv
  <1> QED
    BY <1>1, Invariant, PTL
=============================================================================
