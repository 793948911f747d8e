-------------------------------- MODULE Plan --------------------------------
(***************************************************************************)
(* Planning and ordering (pkg/orchestrate/plan.go, apply.go and            *)
(* deploy/deployment.go): the diff of a desired deployment against the     *)
(* recorded rollouts, the reference check, and the order in which a batch  *)
(* of requests is executed.                                                *)
(*                                                                         *)
(* Everything here is a function of its arguments.  rolls is what          *)
(* Engine.State returns, a function from the recorded ids to their         *)
(* rollouts; links is a set of pairs <<source, target>>.                   *)
(***************************************************************************)
EXTENDS Convert, SequencesExt

DeleteRequest(id, key) == [type |-> "delete", id |-> id, key |-> key]

IsCreate(r) == r.type = "create"

IsDelete(r) == r.type = "delete"

IdsOf(reqs) == {reqs[i].id : i \in DOMAIN reqs}

\* The requests at the given places of a batch, in their order.  (SelectSeq would
\* do, but nothing can be proved of it: the provers know no definition for it.)
At(reqs, places) ==
  LET upTo[k \in 0..Len(reqs)] ==
        IF k = 0 THEN <<>>
        ELSE IF k \in places THEN Append(upTo[k - 1], reqs[k]) ELSE upTo[k - 1]
  IN  upTo[Len(reqs)]

\* splitRequests.
CreatesOf(reqs) == At(reqs, {i \in DOMAIN reqs : IsCreate(reqs[i])})

DeletesOf(reqs) == At(reqs, {i \in DOMAIN reqs : IsDelete(reqs[i])})

----------------------------------------------------------------------------
Action(type, r) == [type |-> type, id |-> r.id, key |-> r.key]

(***************************************************************************)
(* ComputePlan's walk over the desired create requests.  current shrinks as*)
(* ids are matched, so the second of two requests with one id is new.      *)
(***************************************************************************)
PlanRequest(rolls, acc, r) ==
  IF r.id \notin acc.current
  THEN [acc EXCEPT !.actions = Append(@, Action("create", r)),
                   !.requests = Append(@, r)]
  ELSE IF rolls[r.id].body # r.body
  THEN [current  |-> acc.current \ {r.id},
        actions  |-> Append(acc.actions, Action("update", r)),
        requests |-> acc.requests \o <<DeleteRequest(r.id, r.key), r>>]
  ELSE [acc EXCEPT !.actions = Append(@, Action("noop", r)),
                   !.current = @ \ {r.id}]

\* What is recorded and not desired is destroyed, under its recorded kind.
ComputePlan(desired, rolls) ==
  LET creates == CreatesOf(desired.requests)
      walk    == FoldLeft(LAMBDA acc, r : PlanRequest(rolls, acc, r),
                          [current |-> DOMAIN rolls, actions |-> <<>>, requests |-> <<>>],
                          creates)
      ids     == Sorted(walk.current)
      orphans == [i \in DOMAIN ids |-> DeleteRequest(ids[i], rolls[ids[i]].key)]
  IN  [requests   |-> walk.requests \o orphans,
       actions    |-> walk.actions \o [i \in DOMAIN ids |-> Action("destroy", orphans[i])],
       links      |-> desired.links,
       conditions |-> desired.conditions]

\* creates+updates+destroys > 0.
HasChanges(plan) == \E i \in DOMAIN plan.actions : plan.actions[i].type # "noop"

----------------------------------------------------------------------------
(***************************************************************************)
(* CheckReferences.  A create needs each of its dependencies recorded or   *)
(* created in the same deployment; a delete needs every recorded resource  *)
(* that the provider says depends on it deleted in the same deployment.    *)
(***************************************************************************)
HasCreate(plan, id) == \E r \in Range(plan.requests) : IsCreate(r) /\ r.id = id

HasDelete(plan, id) == \E r \in Range(plan.requests) : IsDelete(r) /\ r.id = id

CheckCreateReferences(plan, rolls, r) ==
  \A l \in Range(plan.links) :
    l[1] = r.id => l[2] \in DOMAIN rolls \/ HasCreate(plan, l[2])

\* GetReferencesTo: what the reverse bucket lists, if it is recorded.
GetReferencesTo(id, rolls, dependents) == dependents[id] \cap DOMAIN rolls

\* Mutant: any delete in the deployment satisfies the check.
CheckDeleteReferences_AnyDelete(plan, rolls, dependents, r) ==
  \A i \in GetReferencesTo(r.id, rolls, dependents) : HasDelete(plan, r.id)

CheckDeleteReferences(plan, rolls, dependents, r) ==
  \A i \in GetReferencesTo(r.id, rolls, dependents) : HasDelete(plan, i)

CheckReferences(plan, rolls, dependents) ==
  \A r \in Range(plan.requests) :
    IF IsCreate(r) THEN CheckCreateReferences(plan, rolls, r)
                   ELSE CheckDeleteReferences(plan, rolls, dependents, r)

----------------------------------------------------------------------------
(***************************************************************************)
(* topoSortRequests.  Of several requests with one id the batch keeps the  *)
(* last.  Kahn's queue is re-sorted after every insertion, so it always    *)
(* yields the smallest id whose dependencies within the batch are done.    *)
(***************************************************************************)
BuildRequestSet(reqs) ==
  [id \in IdsOf(reqs) |->
     reqs[CHOOSE i \in DOMAIN reqs :
            reqs[i].id = id /\ \A j \in DOMAIN reqs : reqs[j].id = id => j <= i]]

\* Mutant: source and target of a link are swapped.
Ready_Swapped(links, left) == {i \in left : \A l \in links : l[2] = i => l[1] \notin left}

\* The ids not yet emitted whose in-degree within the batch is zero.
Ready(links, left) == {i \in left : \A l \in links : l[1] = i => l[2] \notin left}

\* Members of a cycle, and what depends on one, follow in request order.
AppendCycleOrphans(left, reqs) == At(reqs, {i \in DOMAIN reqs : reqs[i].id \in left})

KahnSort(reqs, links) ==
  LET reqSet == BuildRequestSet(reqs)
      emit[left \in SUBSET IdsOf(reqs)] ==
        LET ready == Ready(links, left)
        IN  IF ready = {} THEN AppendCycleOrphans(left, reqs)
            ELSE <<reqSet[Min(ready)]>> \o emit[left \ {Min(ready)}]
  IN  emit[IdsOf(reqs)]

TopoSortRequests(reqs, links, reverse) ==
  IF reverse THEN Reverse(KahnSort(reqs, links)) ELSE KahnSort(reqs, links)
=============================================================================
