------------------------------ MODULE Depgraph ------------------------------
(***************************************************************************)
(* The service dependency graph of a composition (pkg/depgraph).           *)
(*                                                                         *)
(* Validate (depgraph.go) rejects a composition whose depends_on names an  *)
(* unknown service or whose graph has a cycle; StartOrder (order.go) groups*)
(* the services into start levels with Kahn's algorithm, and StopOrder     *)
(* reverses them.  `up` runs Validate and then StartOrder; `down` and the  *)
(* foreground shutdown call StopOrder on a composition nobody validated.   *)
(*                                                                         *)
(* Go iterates over maps in a random order, so every "for ... range" over a*)
(* map is a nondeterministic choice here.  The call stack of dfsVisit is   *)
(* the variable stack; a frame holds the depends_on entries not yet seen.  *)
(***************************************************************************)
EXTENDS Integers, Sequences, FiniteSets

CONSTANTS Services,   \* the keys of comp.Services
          Names       \* every name a depends_on entry may mention

ASSUME ServicesAreNames == Services \subseteq Names
ASSUME NamesFinite == IsFiniteSet(Names)

VARIABLES
  dependsOn,     \* the input: comp.Services[n].DependsOn, as a set of names
  pc,            \* where the caller is
  validated,     \* Validate ran and returned no error
  dangling,      \* validateReferences reported an error
  colors,        \* detectCycles' colour map
  stack,         \* the frames of the running dfsVisit, outermost first
  cycleErr,      \* detectCycles reported an error
  inDegree,      \* StartOrder's map; its domain is the services not emitted
  levels         \* the levels StartOrder has emitted

vars == <<dependsOn, pc, validated, dangling, colors, stack, cycleErr,
          inDegree, levels>>

(***************************************************************************)
(* What a cycle is, independently of either algorithm: a nonempty set of   *)
(* services each of which depends on a member of the set.                  *)
(***************************************************************************)
SelfSupporting(X) ==
  /\ X # {}
  /\ X \subseteq Services
  /\ \A n \in X : dependsOn[n] \cap X # {}

Cyclic == \E X \in SUBSET Services : SelfSupporting(X)

HasDangling == \E n \in Services : ~(dependsOn[n] \subseteq Services)

\* depends_on of a node; a name that is no service has none (the "ok" test).
DepsOf(n) == IF n \in Services THEN dependsOn[n] ELSE {}

Frame(n) == [node |-> n, todo |-> DepsOf(n)]

Top == stack[Len(stack)]

Emitted == UNION {levels[i] : i \in DOMAIN levels}

----------------------------------------------------------------------------
\* Mutant: edges to unknown names are not counted.
BuildGraph_KnownOnly == [n \in Services |-> Cardinality(dependsOn[n] \cap Services)]

(***************************************************************************)
(* buildGraph: one in-degree per depends_on entry, whether or not the      *)
(* target is a service.                                                    *)
(***************************************************************************)
BuildGraph == [n \in Services |-> Cardinality(dependsOn[n])]

Init ==
  /\ dependsOn \in [Services -> SUBSET Names]
  /\ pc \in {"validate", "startorder"}
  /\ validated = FALSE
  /\ dangling = FALSE
  /\ colors = [n \in Names |-> "white"]
  /\ stack = <<>>
  /\ cycleErr = FALSE
  /\ inDegree = BuildGraph
  /\ levels = <<>>

(***************************************************************************)
(* Validate, first half.                                                   *)
(***************************************************************************)
ValidateReferences ==
  /\ pc = "validate"
  /\ dangling' = HasDangling
  /\ pc' = "dfs"
  /\ UNCHANGED <<dependsOn, validated, colors, stack, cycleErr, inDegree, levels>>

(***************************************************************************)
(* detectCycles: start a visit at any service that is still white.         *)
(***************************************************************************)
PickRoot(n) ==
  /\ pc = "dfs"
  /\ stack = <<>>
  /\ colors[n] = "white"
  /\ colors' = [colors EXCEPT ![n] = "gray"]
  /\ stack' = <<Frame(n)>>
  /\ UNCHANGED <<dependsOn, pc, validated, dangling, cycleErr, inDegree, levels>>

\* Mutant: a service that depends on itself is not reported.
VisitGray_SelfIgnored(d) ==
  /\ pc = "dfs"
  /\ stack # <<>>
  /\ d \in Top.todo
  /\ colors[d] = "gray"
  /\ cycleErr' = (cycleErr \/ d # Top.node)
  /\ stack' = IF d = Top.node THEN [stack EXCEPT ![Len(stack)].todo = @ \ {d}] ELSE <<>>
  /\ UNCHANGED <<dependsOn, pc, validated, dangling, colors, inDegree, levels>>

\* The top frame takes its next depends_on entry, and the entry is gray: every
\* frame returns the error at once and no colour is touched any more.
VisitGray(d) ==
  /\ pc = "dfs"
  /\ stack # <<>>
  /\ d \in Top.todo
  /\ colors[d] = "gray"
  /\ cycleErr' = TRUE
  /\ stack' = <<>>
  /\ UNCHANGED <<dependsOn, pc, validated, dangling, colors, inDegree, levels>>

\* ... the entry is white: recurse into it.
VisitWhite(d) ==
  /\ pc = "dfs"
  /\ stack # <<>>
  /\ d \in Top.todo
  /\ colors[d] = "white"
  /\ colors' = [colors EXCEPT ![d] = "gray"]
  /\ stack' = Append([stack EXCEPT ![Len(stack)].todo = @ \ {d}], Frame(d))
  /\ UNCHANGED <<dependsOn, pc, validated, dangling, cycleErr, inDegree, levels>>

\* ... the entry is black: nothing to do.
VisitBlack(d) ==
  /\ pc = "dfs"
  /\ stack # <<>>
  /\ d \in Top.todo
  /\ colors[d] = "black"
  /\ stack' = [stack EXCEPT ![Len(stack)].todo = @ \ {d}]
  /\ UNCHANGED <<dependsOn, pc, validated, dangling, colors, cycleErr, inDegree, levels>>

\* The loop over depends_on is over: the node turns black and the call returns.
ReturnFromVisit ==
  /\ pc = "dfs"
  /\ stack # <<>>
  /\ Top.todo = {}
  /\ colors' = [colors EXCEPT ![Top.node] = "black"]
  /\ stack' = SubSeq(stack, 1, Len(stack) - 1)
  /\ UNCHANGED <<dependsOn, pc, validated, dangling, cycleErr, inDegree, levels>>

\* Validate returns; `up` goes on to StartOrder only if there was no error.
EndValidate ==
  /\ pc = "dfs"
  /\ stack = <<>>
  /\ \A n \in Services : colors[n] # "white"
  /\ validated' = (~dangling /\ ~cycleErr)
  /\ pc' = IF dangling \/ cycleErr THEN "invalid" ELSE "startorder"
  /\ UNCHANGED <<dependsOn, dangling, colors, stack, cycleErr, inDegree, levels>>

\* Mutant: off by one.
Level_OneLeft == {n \in DOMAIN inDegree : inDegree[n] <= 1}

(***************************************************************************)
(* One round of StartOrder: the services whose in-degree is zero form the  *)
(* next level, leave the map, and their dependents lose one each.          *)
(***************************************************************************)
Level == {n \in DOMAIN inDegree : inDegree[n] = 0}

StartRound ==
  /\ pc = "startorder"
  /\ Level # {}
  /\ levels' = Append(levels, Level)
  /\ inDegree' = [n \in DOMAIN inDegree \ Level |->
                    inDegree[n] - Cardinality(dependsOn[n] \cap Level)]
  /\ UNCHANGED <<dependsOn, pc, validated, dangling, colors, stack, cycleErr>>

\* No service is ready: success if none is left, a cycle error otherwise.
EndStartOrder ==
  /\ pc = "startorder"
  /\ Level = {}
  /\ pc' = IF DOMAIN inDegree = {} THEN "ordered" ELSE "cycle"
  /\ UNCHANGED <<dependsOn, validated, dangling, colors, stack, cycleErr,
                 inDegree, levels>>

\* StopOrder reverses the finished levels in place.
StopOrder ==
  /\ pc = "ordered"
  /\ pc' = "reversed"
  /\ levels' = [i \in DOMAIN levels |-> levels[Len(levels) + 1 - i]]
  /\ UNCHANGED <<dependsOn, validated, dangling, colors, stack, cycleErr, inDegree>>

Next ==
  \/ ValidateReferences
  \/ \E n \in Services : PickRoot(n)
  \/ \E d \in Names : VisitGray(d) \/ VisitWhite(d) \/ VisitBlack(d)
  \/ ReturnFromVisit
  \/ EndValidate
  \/ StartRound
  \/ EndStartOrder
  \/ StopOrder

Spec == Init /\ [][Next]_vars

----------------------------------------------------------------------------
TypeOK ==
  /\ dependsOn \in [Services -> SUBSET Names]
  /\ pc \in {"validate", "dfs", "invalid", "startorder", "ordered", "cycle", "reversed"}
  /\ validated \in BOOLEAN
  /\ dangling \in BOOLEAN
  /\ colors \in [Names -> {"white", "gray", "black"}]
  /\ stack \in Seq([node : Names, todo : SUBSET Names])
  /\ cycleErr \in BOOLEAN
  /\ DOMAIN inDegree \in SUBSET Services
  /\ inDegree \in [DOMAIN inDegree -> Nat]
  /\ levels \in Seq(SUBSET Services)

(***************************************************************************)
(* detectCycles is exact, in whatever order Go walks its maps: when        *)
(* Validate is over it has reported a cycle if and only if there is one,   *)
(* although a reported error leaves gray nodes behind that later visits run*)
(* into (depgraph.go:39-74).                                               *)
(***************************************************************************)
DetectCyclesExact ==
  pc \in {"validate", "dfs"} \/ (pc = "startorder" /\ ~validated) \/
  (~validated /\ pc \in {"ordered", "cycle", "reversed"}) \/ (cycleErr <=> Cyclic)

(***************************************************************************)
(* Every level StartOrder emits depends only on levels emitted before it:  *)
(* no service is started before something it depends on (order.go:27-29).  *)
(***************************************************************************)
LevelsRespectDeps ==
  pc # "reversed" =>
    \A i \in DOMAIN levels : \A n \in levels[i] : \A d \in dependsOn[n] :
      \E j \in DOMAIN levels : j < i /\ d \in levels[j]

(***************************************************************************)
(* The mirror image after StopOrder: everything that depends on a service  *)
(* is stopped in an earlier level than the service (order.go:64-65).       *)
(***************************************************************************)
StopDependentsFirst ==
  pc = "reversed" =>
    \A i \in DOMAIN levels : \A n \in levels[i] : \A d \in dependsOn[n] :
      \E j \in DOMAIN levels : i < j /\ d \in levels[j]

(***************************************************************************)
(* The two graph algorithms agree: StartOrder reports a cycle exactly when *)
(* the graph has one or a depends_on dangles, hence never for a composition*)
(* Validate accepted, and on success it has placed every service.          *)
(***************************************************************************)
StartOrderExact ==
  /\ pc = "cycle" => (Cyclic \/ HasDangling) /\ ~validated
  /\ pc \in {"ordered", "reversed"} => ~Cyclic /\ ~HasDangling /\ Emitted = Services

----------------------------------------------------------------------------
(***************************************************************************)
(* The inductive invariant behind the safety properties.                   *)
(***************************************************************************)
\* Consecutive frames are connected by a depends_on entry already taken.
StackPath ==
  \A i \in 1..(Len(stack) - 1) :
    stack[i+1].node \in DepsOf(stack[i].node) \ stack[i].todo

\* Entries a frame has dealt with are black, or are the child being visited.
FrameProgress ==
  \A i \in 1..Len(stack) :
    /\ stack[i].todo \subseteq DepsOf(stack[i].node)
    /\ \A d \in DepsOf(stack[i].node) \ stack[i].todo :
         colors[d] = "black" \/ (i < Len(stack) /\ d = stack[i+1].node)

\* Until an error is reported the gray nodes are the nodes on the stack.
GrayOnStack ==
  /\ \A i \in 1..Len(stack) : colors[stack[i].node] = "gray"
  /\ \A i, j \in 1..Len(stack) : stack[i].node = stack[j].node => i = j
  /\ ~cycleErr => \A n \in Names : colors[n] = "gray" =>
                    \E i \in 1..Len(stack) : stack[i].node = n

\* No black node is part of a cycle, and its dependencies are black.
BlackAcyclic ==
  /\ \A n \in Names : colors[n] = "black" => \A d \in DepsOf(n) : colors[d] = "black"
  /\ \A X \in SUBSET Services : SelfSupporting(X) => \A n \in X : colors[n] # "black"

CycleErrSound == cycleErr => Cyclic

ValidatedSound ==
  /\ validated => ~Cyclic /\ ~HasDangling
  /\ pc = "dfs" => dangling = HasDangling
  /\ pc = "invalid" => (cycleErr <=> Cyclic)
  /\ validated => ~cycleErr

\* The in-degree counts the dependencies that have not been emitted.
InDegreeCounts ==
  \A n \in DOMAIN inDegree : inDegree[n] = Cardinality(dependsOn[n] \ Emitted)

Partition ==
  /\ Emitted \cap DOMAIN inDegree = {}
  /\ Emitted \cup DOMAIN inDegree = Services

\* No emitted service is part of a cycle.
EmittedAcyclic ==
  \A X \in SUBSET Services : SelfSupporting(X) => X \subseteq DOMAIN inDegree

KahnInv == InDegreeCounts /\ Partition /\ EmittedAcyclic

DfsInv ==
  /\ (pc # "dfs" => stack = <<>>)
  /\ StackPath /\ FrameProgress /\ GrayOnStack /\ BlackAcyclic /\ CycleErrSound

IInv ==
  /\ TypeOK
  /\ DfsInv
  /\ ValidatedSound
  /\ KahnInv
  /\ LevelsRespectDeps
  /\ StopDependentsFirst
  /\ StartOrderExact
=============================================================================
