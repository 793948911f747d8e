------------------------------- MODULE Engine --------------------------------
(***************************************************************************)
(* The plan/apply engine (pkg/orchestrate): Plan, ApplySync, waitCondition *)
(* and Rollback over the state store, the container runtime, and what can  *)
(* happen around a running apply: failing runtime calls, a cancelled       *)
(* request, a killed process, containers that become healthy or exit, and a*)
(* Teardown (`down`), which takes no lock and leaves the store alone.      *)
(*                                                                         *)
(* BoltDB's file lock admits one engine at a time.  Planning and the       *)
(* reference check read only the store and are one step; from then on every*)
(* transaction and every runtime call is a step of its own.                *)
(***************************************************************************)
EXTENDS StateDB, Plan

CONSTANTS Comps,          \* the compositions a user may bring up
          NoPod,          \* the runtime has no pod for the service
          MaxApplies,     \* bound on ups and rollbacks
          MaxFaults,      \* bound on failing calls, cancellations, exits
          MaxCrashes,     \* bound on killed engines
          MaxTeardowns    \* bound on Teardown calls

VARIABLES
  pc,          \* where ApplySync is
  op,          \* the request being served, or the last one
  plan,        \* its plan
  todoLinks,   \* links PersistLinks has still to add
  deletes,     \* what executeDeletes has still to process
  creates,     \* what executeCreates has still to process
  applied,     \* executeCreates' list, for the rollback
  cancelled,   \* the context of the request is done
  result,      \* what the last request returned
  pods,        \* the runtime: the pod of each service
  present,     \* the runtime: <<kind, id>> of images, networks and volumes
  budget,      \* how often each bounded event has happened
  observed,    \* ghost: <<id, condition>> waits that succeeded in this apply
  created,     \* ghost: requests processed successfully in this apply
  snaps,       \* ghost: what was running when each deployment was saved
  tangled,     \* ghost: the ids of each batch that no order of this apply satisfies
  disturbed    \* ghost: something outside the apply's own control happened

rtVars == <<pods, present>>
ctlVars == <<pc, op, plan, todoLinks, deletes, creates, applied, cancelled, result>>
ghostVars == <<observed, created, snaps, tangled, disturbed>>
vars == <<dbVars, rtVars, ctlVars, budget, ghostVars>>

NotTangled == [deletes |-> {}, creates |-> {}]
NoOp == [kind |-> "none"]
NoPlan == [requests |-> <<>>, actions |-> <<>>, links |-> <<>>, conditions |-> {}]

EngineInit ==
  /\ DBInit
  /\ pc = "idle"
  /\ op = NoOp
  /\ plan = NoPlan
  /\ todoLinks = <<>> /\ deletes = <<>> /\ creates = <<>> /\ applied = <<>>
  /\ cancelled = FALSE
  /\ result = "none"
  /\ pods = [i \in Ids |-> NoPod]
  /\ present = {}
  /\ budget = [applies |-> 0, faults |-> 0, crashes |-> 0, teardowns |-> 0]
  /\ observed = {} /\ created = {} /\ snaps = <<>> /\ disturbed = FALSE
  /\ tangled = NotTangled

Spend(what) == budget' = [budget EXCEPT ![what] = @ + 1]

CanFault == budget.faults < MaxFaults

Return(res) ==
  /\ pc' = "idle"
  /\ result' = res
  /\ todoLinks' = <<>> /\ deletes' = <<>> /\ creates' = <<>> /\ applied' = <<>>
  /\ cancelled' = FALSE
  /\ UNCHANGED <<op, plan>>

----------------------------------------------------------------------------
\* Engine.State: the recorded rollouts.
State == [i \in {j \in Ids : rollouts[j] # NoRollout} |-> rollouts[i]]

(***************************************************************************)
(* A request arrives: plan it, check the references.  `up` and the Apply   *)
(* RPC stop at a plan without changes, Rollback applies it all the same.   *)
(***************************************************************************)
Begin(o, p, always) ==
  /\ pc = "idle"
  /\ budget.applies < MaxApplies
  /\ Spend("applies")
  /\ op' = o
  /\ plan' = p
  /\ LET refused == ~CheckReferences(p, State, byTarget)
         go      == (HasChanges(p) \/ always) /\ ~refused
     IN  /\ pc' = IF go THEN "links" ELSE "idle"
         /\ todoLinks' = IF go THEN p.links ELSE <<>>
         /\ result' = CASE ~HasChanges(p) /\ ~always -> "nochange"
                        [] go -> "none"
                        [] OTHER -> "rejected"
  /\ observed' = {} /\ created' = {} /\ tangled' = NotTangled /\ disturbed' = FALSE
  /\ UNCHANGED <<dbVars, rtVars, deletes, creates, applied, cancelled, snaps>>

Up(c) ==
  Begin([kind |-> "up", comp |-> c], ComputePlan(Bridge(c), State), FALSE)

\* The stored deployment's create requests become the desired state.
Rollback(k) ==
  LET d == [requests   |-> CreatesOf(deployments[k].requests),
            links      |-> deployments[k].links,
            conditions |-> {}]
  IN  Begin([kind |-> "rollback", to |-> k], ComputePlan(d, State), TRUE)

\* PersistLinks: one transaction per link; one that fails ends the apply.
PersistLink ==
  /\ pc = "links"
  /\ todoLinks # <<>>
  /\ AddLink(Head(todoLinks)[1], Head(todoLinks)[2])
  /\ todoLinks' = Tail(todoLinks)
  /\ UNCHANGED <<rtVars, pc, op, plan, deletes, creates, applied, cancelled, result,
                 budget, ghostVars>>

PersistLinkFails ==
  /\ pc = "links"
  /\ todoLinks # <<>>
  /\ CanFault /\ Spend("faults")
  /\ Return("error")
  /\ UNCHANGED <<dbVars, rtVars, ghostVars>>

\* Ghost: the members of a cycle of links, and what depends on one.
Tangled(reqs) ==
  UNION {S \in SUBSET IdsOf(reqs) : \A i \in S : \E j \in S : <<i, j>> \in Links}

\* splitRequests, loadLinks and both topological sorts, from one snapshot.  That
\* the open store cannot be read, after which the code sorts without links, is
\* left out.
OrderRequests ==
  /\ pc = "links"
  /\ todoLinks = <<>>
  /\ pc' = "deletes"
  /\ \E links \in {Links}, dels \in {DeletesOf(plan.requests)},
        adds \in {CreatesOf(plan.requests)} :
       /\ deletes' = TopoSortRequests(dels, links, TRUE)
       /\ creates' = TopoSortRequests(adds, links, FALSE)
       /\ tangled' = [deletes |-> Tangled(dels), creates |-> Tangled(adds)]
  /\ UNCHANGED <<dbVars, rtVars, op, plan, todoLinks, applied, cancelled, result,
                 budget, observed, created, snaps, disturbed>>

----------------------------------------------------------------------------
(***************************************************************************)
(* The container runtime.  One pod per service: ServiceUp removes the old  *)
(* one or fails.  Removing a Project takes down every pod of the project;  *)
(* removing a Volume and creating a Project do nothing.                    *)
(***************************************************************************)
Pod(body, st) == [body |-> body, st |-> st]

DownIn(S) == [i \in Ids |-> IF i \in S THEN NoPod ELSE pods[i]]

ProjectPods(p) == {i \in Ids : ProjectOf(i) = p /\ pods[i] # NoPod}

\* What runs, and as what.
Running == {<<i, pods[i].body>> : i \in {j \in Ids : pods[j] # NoPod /\ pods[j].st # "partial"}}

\* Mutant: the Service definition does not delegate to the container.
RuntimeDelete_NotDelegated(r) ==
  /\ pods' = IF r.key = "Project" THEN DownIn(ProjectPods(ProjectOf(r.id))) ELSE pods
  /\ present' = IF r.key \in {"Image", "Network"} THEN present \ {<<r.key, r.id>>}
                ELSE present

RuntimeDelete(r) ==
  /\ pods' = CASE r.key = "Service" -> DownIn({r.id})
               [] r.key = "Project" -> DownIn(ProjectPods(ProjectOf(r.id)))
               [] OTHER -> pods
  /\ present' = IF r.key \in {"Image", "Network"} THEN present \ {<<r.key, r.id>>}
                ELSE present

\* A pod whose teardown fails may be left without its container.
Damaged(i) ==
  IF pods[i] = NoPod THEN {NoPod} ELSE {pods[i], [pods[i] EXCEPT !.st = "partial"]}

RuntimeDeleteFails(r) ==
  /\ r.key # "Volume"
  /\ UNCHANGED present
  /\ CASE r.key = "Service" -> \E x \in Damaged(r.id) : pods' = [pods EXCEPT ![r.id] = x]
       [] r.key = "Project" -> \E S \in SUBSET ProjectPods(ProjectOf(r.id)) : pods' = DownIn(S)
       [] OTHER -> UNCHANGED pods

\* EnsureImage and the volume resolver run as part of ServiceUp.
Provisions(r) ==
  CASE r.key = "Project" -> {}
    [] r.key = "Service" ->
         {<<"Image", ResolvedImageRef(r.body.version.image)>>} \cup
         {<<"Volume", NamedId(r.body.project, v)>> :
            v \in r.body.version.vols \cap r.body.compVolumes}
    [] OTHER -> {<<r.key, r.id>>}

RuntimeApply(r) ==
  /\ pods' = IF r.key = "Service" THEN [pods EXCEPT ![r.id] = Pod(r.body, "running")]
             ELSE pods
  /\ present' = present \cup Provisions(r)

\* ServiceUp may fail before, during or after the removal of the old pod, or
\* between RunPodSandbox and StartContainer.
RuntimeApplyFails(r) ==
  /\ r.key # "Project"
  /\ \E X \in {{}, IF r.key = "Service" THEN Provisions(r) ELSE {}} : present' = present \cup X
  /\ IF r.key = "Service"
     THEN \E x \in Damaged(r.id) \cup {NoPod, Pod(r.body, "partial")} :
            pods' = [pods EXCEPT ![r.id] = x]
     ELSE UNCHANGED pods

----------------------------------------------------------------------------
(***************************************************************************)
(* executeDeletes.                                                         *)
(***************************************************************************)
DeleteNext ==
  /\ pc = "deletes"
  /\ deletes # <<>>
  /\ ~cancelled
  /\ RuntimeDelete(Head(deletes))
  /\ pc' = "unlink"
  /\ UNCHANGED <<dbVars, op, plan, todoLinks, deletes, creates, applied, cancelled,
                 result, budget, ghostVars>>

\* A failed delete is logged, keeps its links, and the loop goes on.
DeleteFails ==
  /\ pc = "deletes"
  /\ deletes # <<>>
  /\ ~cancelled
  /\ CanFault /\ Spend("faults")
  /\ RuntimeDeleteFails(Head(deletes))
  /\ deletes' = Tail(deletes)
  /\ disturbed' = TRUE
  /\ UNCHANGED <<dbVars, pc, op, plan, todoLinks, creates, applied, cancelled, result,
                 observed, created, snaps, tangled>>

\* A link that cannot be removed is only warned about.
RemoveLinkOrWarn(id) ==
  \/ /\ RemoveLink(id)
     /\ UNCHANGED budget
  \/ /\ CanFault /\ Spend("faults")
     /\ UNCHANGED dbVars

\* DeleteRequest.Process, second half: the rollout record stays.
Unlink ==
  /\ pc = "unlink"
  /\ RemoveLinkOrWarn(Head(deletes).id)
  /\ deletes' = Tail(deletes)
  /\ pc' = "deletes"
  /\ UNCHANGED <<rtVars, op, plan, todoLinks, creates, applied, cancelled, result,
                 ghostVars>>

\* A done context ends executeDeletes, and ApplySync with it, at once.
DeletesCancelled ==
  /\ pc = "deletes"
  /\ deletes # <<>>
  /\ cancelled
  /\ Return("cancelled")
  /\ UNCHANGED <<dbVars, rtVars, budget, ghostVars>>

DeletesDone ==
  /\ pc = "deletes"
  /\ deletes = <<>>
  /\ pc' = "creates"
  /\ UNCHANGED <<dbVars, rtVars, op, plan, todoLinks, deletes, creates, applied,
                 cancelled, result, budget, ghostVars>>

----------------------------------------------------------------------------
(***************************************************************************)
(* executeCreates and CreateRequest.Process.                               *)
(***************************************************************************)
CreateNext ==
  /\ pc = "creates"
  /\ creates # <<>>
  /\ ~cancelled
  /\ RuntimeApply(Head(creates))
  /\ pc' = "record"
  /\ UNCHANGED <<dbVars, op, plan, todoLinks, deletes, creates, applied, cancelled,
                 result, budget, ghostVars>>

CreateFails ==
  /\ pc = "creates"
  /\ creates # <<>>
  /\ ~cancelled
  /\ CanFault /\ Spend("faults")
  /\ RuntimeApplyFails(Head(creates))
  /\ pc' = "recordErr"
  /\ UNCHANGED <<dbVars, op, plan, todoLinks, deletes, creates, applied, cancelled,
                 result, ghostVars>>

CreatesCancelled ==
  /\ pc = "creates"
  /\ creates # <<>>
  /\ cancelled
  /\ pc' = "rollback"
  /\ creates' = <<>>
  /\ UNCHANGED <<dbVars, rtVars, op, plan, todoLinks, deletes, applied, cancelled,
                 result, budget, ghostVars>>

Rollout(r, status) == [key |-> r.key, body |-> r.body, status |-> status]

\* Mutant: an existing record is not replaced.
SaveOrWarn_FirstOnly(r, status) ==
  /\ IF rollouts[r.id] = NoRollout THEN SaveRollout(r.id, Rollout(r, status))
     ELSE UNCHANGED dbVars
  /\ UNCHANGED <<budget, disturbed>>

\* A record that cannot be saved is only warned about.
SaveOrWarn(r, status) ==
  \/ /\ SaveRollout(r.id, Rollout(r, status))
     /\ UNCHANGED <<budget, disturbed>>
  \/ /\ CanFault /\ Spend("faults")
     /\ disturbed' = TRUE
     /\ UNCHANGED dbVars

\* Mutant: the condition map is read with its two keys swapped.
Awaited_KeySwapped(id) == {c[3] : c \in {x \in plan.conditions : x[2] = id}}

\* The conditions other resources have on this one.
Awaited(id) == {c[3] : c \in {x \in plan.conditions : x[1] = id}}

\* Mutant: a request joins the rollback list only once nothing is awaited of it.
RecordSuccess_AppliedAfterWait ==
  /\ pc = "record"
  /\ LET r == Head(creates) IN
       /\ SaveOrWarn(r, "SUCCEEDED")
       /\ applied' = IF Awaited(r.id) # {} THEN applied ELSE Append(applied, r)
       /\ created' = created \cup {r}
       /\ pc' = IF Awaited(r.id) # {} THEN "wait" ELSE "creates"
       /\ creates' = IF Awaited(r.id) # {} THEN creates ELSE Tail(creates)
  /\ UNCHANGED <<rtVars, op, plan, todoLinks, deletes, cancelled, result, observed, snaps,
                 tangled>>

RecordSuccess ==
  /\ pc = "record"
  /\ LET r == Head(creates) IN
       /\ SaveOrWarn(r, "SUCCEEDED")
       /\ applied' = Append(applied, r)
       /\ created' = created \cup {r}
       /\ pc' = IF Awaited(r.id) # {} THEN "wait" ELSE "creates"
       /\ creates' = IF Awaited(r.id) # {} THEN creates ELSE Tail(creates)
  /\ UNCHANGED <<rtVars, op, plan, todoLinks, deletes, cancelled, result, observed, snaps,
                 tangled>>

\* The request that failed is recorded with its new body and not rolled back.
RecordError ==
  /\ pc = "recordErr"
  /\ SaveOrWarn(Head(creates), "ERROR")
  /\ pc' = "rollback"
  /\ creates' = <<>>
  /\ UNCHANGED <<rtVars, op, plan, todoLinks, deletes, applied, cancelled, result,
                 observed, created, snaps, tangled>>

----------------------------------------------------------------------------
(***************************************************************************)
(* waitCondition: only the strictest condition is awaited.                 *)
(***************************************************************************)
CondPriority(c) ==
  CASE c = "healthy" -> 3 [] c = "completed" -> 2 [] c = "started" -> 1 [] OTHER -> 0

Strictest(conds) == CHOOSE c \in conds : \A d \in conds : CondPriority(c) >= CondPriority(d)

\* GetProviderStatus maps a running container to RUNNING, one that exited
\* with zero to SUCCEEDED, and either will do for waitStarted.
Started(i) == pods[i] # NoPod /\ pods[i].st \in {"running", "healthy", "done"}

\* loadContainerSpec reads the healthcheck from the rollout record.
HasProbe(i) == rollouts[i] # NoRollout /\ rollouts[i].key = "Service"
                 /\ rollouts[i].body.version.probe

Met(i, cond) ==
  CASE cond = "healthy" /\ HasProbe(i) -> pods[i] # NoPod /\ pods[i].st = "healthy"
    [] cond = "completed" -> pods[i] # NoPod /\ pods[i].st = "done"
    [] OTHER -> Started(i)

WaitMet ==
  /\ pc = "wait"
  /\ LET id == Head(creates).id
         cond == Strictest(Awaited(id))
     IN  /\ Met(id, cond)
         /\ observed' = observed \cup {<<id, cond>>}
  /\ creates' = Tail(creates)
  /\ pc' = "creates"
  /\ UNCHANGED <<dbVars, rtVars, op, plan, todoLinks, deletes, applied, cancelled,
                 result, budget, created, snaps, tangled, disturbed>>

\* Mutant: no timeout.
WaitFails_NoTimeout ==
  /\ pc = "wait"
  /\ pods[Head(creates).id] = NoPod \/ pods[Head(creates).id].st = "failed"
  /\ pc' = "rollback"
  /\ creates' = <<>>
  /\ UNCHANGED <<dbVars, rtVars, op, plan, todoLinks, deletes, applied, cancelled,
                 result, budget, ghostVars>>

\* The timeout passes, the context is done, the container has failed, or its
\* pod is gone: at any time, as far as the engine can tell.
WaitFails ==
  /\ pc = "wait"
  /\ pc' = "rollback"
  /\ creates' = <<>>
  /\ UNCHANGED <<dbVars, rtVars, op, plan, todoLinks, deletes, applied, cancelled,
                 result, budget, ghostVars>>

----------------------------------------------------------------------------
(***************************************************************************)
(* rollback deletes what this apply created, last first; it does not look  *)
(* at the context.                                                         *)
(***************************************************************************)
RollbackNext ==
  /\ pc = "rollback"
  /\ applied # <<>>
  /\ RuntimeDelete(Last(applied))
  /\ pc' = "rollbackUnlink"
  /\ UNCHANGED <<dbVars, op, plan, todoLinks, deletes, creates, applied, cancelled,
                 result, budget, ghostVars>>

RollbackFails ==
  /\ pc = "rollback"
  /\ applied # <<>>
  /\ CanFault /\ Spend("faults")
  /\ RuntimeDeleteFails(Last(applied))
  /\ applied' = Front(applied)
  /\ disturbed' = TRUE
  /\ UNCHANGED <<dbVars, pc, op, plan, todoLinks, deletes, creates, cancelled, result,
                 observed, created, snaps, tangled>>

RollbackUnlink ==
  /\ pc = "rollbackUnlink"
  /\ RemoveLinkOrWarn(Last(applied).id)
  /\ applied' = Front(applied)
  /\ pc' = "rollback"
  /\ UNCHANGED <<rtVars, op, plan, todoLinks, deletes, creates, cancelled, result,
                 ghostVars>>

RollbackDone ==
  /\ pc = "rollback"
  /\ applied = <<>>
  /\ Return("failed")
  /\ UNCHANGED <<dbVars, rtVars, budget, ghostVars>>

\* The deployment that is saved holds the plan's requests, not the desired
\* ones; one that cannot be saved is only warned about.
Finish ==
  /\ pc = "creates"
  /\ creates = <<>>
  /\ \/ /\ SaveDeployment([requests |-> plan.requests, links |-> plan.links])
        /\ snaps' = Append(snaps, Running)
        /\ UNCHANGED budget
     \/ /\ CanFault /\ Spend("faults")
        /\ UNCHANGED <<dbVars, snaps>>
  /\ Return("ok")
  /\ UNCHANGED <<rtVars, observed, created, tangled, disturbed>>

----------------------------------------------------------------------------
(***************************************************************************)
(* Around the engine.                                                      *)
(***************************************************************************)
Cancel ==
  /\ pc # "idle"
  /\ ~cancelled
  /\ CanFault /\ Spend("faults")
  /\ cancelled' = TRUE
  /\ UNCHANGED <<dbVars, rtVars, pc, op, plan, todoLinks, deletes, creates, applied,
                 result, ghostVars>>

Crash ==
  /\ pc # "idle"
  /\ budget.crashes < MaxCrashes
  /\ Spend("crashes")
  /\ Return("crashed")
  /\ UNCHANGED <<dbVars, rtVars, ghostVars>>

\* Teardown, or `down`: ProjectDown and the removal of the network; a failing
\* one, or one that an apply overtakes, leaves some of the pods.  It is one step,
\* and a pod it leaves is whole; Commands has it call by call.
Teardown(p) ==
  /\ budget.teardowns < MaxTeardowns
  /\ Spend("teardowns")
  /\ \E S \in SUBSET ProjectPods(p) : pods' = DownIn(S)
  /\ present' = present \ {<<"Network", ProjectId(p)>>}
  /\ disturbed' = TRUE
  /\ UNCHANGED <<dbVars, ctlVars, observed, created, snaps, tangled>>

BecomeHealthy(i) ==
  /\ pods[i] # NoPod
  /\ pods[i].st = "running"
  /\ pods[i].body.version.probe
  /\ pods' = [pods EXCEPT ![i].st = "healthy"]
  /\ UNCHANGED <<dbVars, present, ctlVars, budget, ghostVars>>

\* The container exits, with code zero ("done") or not ("failed").
Exit(i, st) ==
  /\ pods[i] # NoPod
  /\ pods[i].st \in {"running", "healthy"}
  /\ CanFault /\ Spend("faults")
  /\ pods' = [pods EXCEPT ![i].st = st]
  /\ disturbed' = (disturbed \/ st = "failed")
  /\ UNCHANGED <<dbVars, present, ctlVars, observed, created, snaps, tangled>>

EngineStep ==
  \/ PersistLink \/ PersistLinkFails \/ OrderRequests
  \/ DeleteNext \/ DeleteFails \/ Unlink \/ DeletesCancelled \/ DeletesDone
  \/ CreateNext \/ CreateFails \/ CreatesCancelled \/ RecordSuccess \/ RecordError
  \/ WaitMet \/ WaitFails
  \/ RollbackNext \/ RollbackFails \/ RollbackUnlink \/ RollbackDone
  \/ Finish

Projects == {c.project : c \in Comps}

EngineNext ==
  \/ \E c \in Comps : Up(c)
  \/ \E k \in DOMAIN deployments : Rollback(k)
  \/ EngineStep
  \/ Cancel \/ Crash
  \/ \E p \in Projects : Teardown(p)
  \/ \E i \in Ids : BecomeHealthy(i) \/ Exit(i, "done") \/ Exit(i, "failed")

EngineSpec == EngineInit /\ [][EngineNext]_vars

\* Every store and runtime call returns, and a wait is bounded by a timeout.
EngineFairSpec == EngineSpec /\ WF_vars(EngineStep)

----------------------------------------------------------------------------
(***************************************************************************)
(* What the engine is given.                                               *)
(***************************************************************************)
ASSUME CompsAreWellFormed == \A c \in Comps : WellFormed(c)

ASSUME IdsCoverComps ==
  /\ IsFiniteSet(Ids) /\ Ids \subseteq Nat
  /\ \A c \in Comps : \A m \in Range(Manifests(c)) : m.id \in Ids

KnownRequests == UNION {Range(Bridge(c).requests) : c \in Comps}

PodStates == {"partial", "running", "healthy", "done", "failed"}

ASSUME NothingIsNoRecord ==
  \A r \in KnownRequests :
    /\ \A st \in PodStates : NoPod # Pod(r.body, st)
    /\ \A st \in {"SUCCEEDED", "ERROR"} : NoRollout # Rollout(r, st)

EngineTypeOK ==
  /\ DBTypeOK
  /\ pc \in {"idle", "links", "deletes", "unlink", "creates", "record", "recordErr",
             "wait", "rollback", "rollbackUnlink"}
  /\ result \in {"none", "nochange", "rejected", "ok", "failed", "error", "cancelled",
                "crashed"}
  /\ \A r \in Range(deletes) : IsDelete(r) /\ r.id \in Ids
  /\ \A r \in Range(creates) \cup Range(applied) : IsCreate(r) /\ r.id \in Ids
  /\ \A i \in Ids : pods[i] # NoPod =>
       /\ pods[i].st \in PodStates
       /\ NamedId(pods[i].body.project, pods[i].body.service) = i
  /\ cancelled \in BOOLEAN /\ disturbed \in BOOLEAN
  /\ pc = "idle" => deletes = <<>> /\ creates = <<>> /\ applied = <<>>

----------------------------------------------------------------------------
\* Requests whose runtime call has been made in this apply.
StartedIds ==
  {r.id : r \in created} \cup
  (IF pc \in {"record", "recordErr"} THEN {Head(creates).id} ELSE {})

(***************************************************************************)
(* "Creates run in forward topological order (dependencies first)": when a *)
(* request is executed, each of its dependencies that the same apply       *)
(* creates is complete, unless both depend on a cycle that the links of    *)
(* earlier deployments close (apply.go:83-111, 150-165, 230-244).          *)
(***************************************************************************)
DependenciesFirst ==
  pc # "idle" =>
    \A l \in Range(plan.links) :
      l[1] \in StartedIds /\ HasCreate(plan, l[2]) =>
        l[2] \in {r.id : r \in created} \/ {l[1], l[2]} \subseteq tangled.creates

(***************************************************************************)
(* Creates wait for their conditions: a request with a condition on a      *)
(* dependency that the same apply creates is not executed before the       *)
(* dependency was seen to meet a condition at least as strict, unless both *)
(* depend on a cycle (conditions.go:22-54).                                *)
(***************************************************************************)
ConditionsGate ==
  pc # "idle" =>
    \A c \in plan.conditions :
      c[2] \in StartedIds /\ HasCreate(plan, c[1]) =>
        \/ \E o \in observed : o[1] = c[1] /\ CondPriority(o[2]) >= CondPriority(c[3])
        \/ {c[1], c[2]} \subseteq tangled.creates

(***************************************************************************)
(* Deletes run dependents first: nothing still waiting to be deleted       *)
(* depends on what is deleted now, unless both depend on a cycle           *)
(* (apply.go:68-78, 150-165).                                              *)
(***************************************************************************)
DependentsDeletedFirst ==
  \A i, j \in DOMAIN deletes :
    i < j /\ <<deletes[j].id, deletes[i].id>> \in Links =>
      {deletes[i].id, deletes[j].id} \subseteq tangled.deletes

(***************************************************************************)
(* The order of one apply, over all its plan: creates follow what they     *)
(* depend on, deletes precede it.                                          *)
(***************************************************************************)
OrderRespected == DependenciesFirst /\ DependentsDeletedFirst

(***************************************************************************)
(* What an `up` destroys for good is not referenced by any recorded        *)
(* resource that stays: the check at the start of ApplySync still holds    *)
(* after the links of the deployment were persisted, although they came    *)
(* after the check (deployment.go:117-144, apply.go:21-28).  A rollback to *)
(* a deployment that held only part of the resources does not have this.   *)
(***************************************************************************)
DestroyedUnreferenced ==
  pc = "unlink" /\ op.kind = "up" /\ ~HasCreate(plan, Head(deletes).id) =>
    \A i \in GetDepending(Head(deletes).id) :
      rollouts[i] = NoRollout \/ HasDelete(plan, i)

IsLive(r) ==
  CASE r.key = "Service" -> <<r.id, r.body>> \in Running
    [] r.key = "Project" -> TRUE
    [] OTHER -> <<r.key, r.id>> \in present

(***************************************************************************)
(* An apply that returns success has carried out all of its plan: every id *)
(* the plan creates was processed and lives with the planned body, and no  *)
(* destroyed service runs, unless something else interfered meanwhile      *)
(* (apply.go:18-52).                                                       *)
(***************************************************************************)
ExecutedConverges ==
  result = "ok" /\ ~disturbed =>
    /\ {r.id : r \in created} = {r.id : r \in {x \in Range(plan.requests) : IsCreate(x)}}
    /\ \A r \in created : IsLive(r)
    /\ \A r \in Range(plan.requests) :
         IsDelete(r) /\ r.key = "Service" /\ ~HasCreate(plan, r.id) => pods[r.id] = NoPod

\* Nothing is left of what the request created.
Gone(r) == r.key \in {"Service", "Image", "Network"} => ~IsLive(r)

(***************************************************************************)
(* After a failed or cancelled apply nothing it created is left over       *)
(* (apply.go:114-125).                                                     *)
(***************************************************************************)
RollbackClean ==
  result = "failed" /\ ~disturbed => \A r \in created : Gone(r)

(***************************************************************************)
(* Why: as long as creates run, the rollback list holds everything this    *)
(* apply created; while the list is worked off, what has left it is gone.  *)
(***************************************************************************)
RollbackInv ==
  /\ pc # "idle" => result = "none"
  /\ pc = "idle" => applied = <<>>
  /\ applied \in Seq(created)
  /\ pc = "rollbackUnlink" => applied # <<>>
  /\ ~disturbed =>
       /\ pc \notin {"idle", "rollback", "rollbackUnlink"} => created \subseteq Range(applied)
       /\ pc = "rollback" => \A r \in created : r \in Range(applied) \/ Gone(r)
       /\ pc = "rollbackUnlink" => \A r \in created : r \in Range(Front(applied)) \/ Gone(r)
       /\ pc = "idle" /\ result = "failed" => \A r \in created : Gone(r)

(***************************************************************************)
(* A running pod differs from its record only where a call failed or the   *)
(* engine was killed, at most one pod per such event: between a runtime    *)
(* call and the transaction that records it only that one pod is in doubt  *)
(* (request.go:76-108).                                                    *)
(***************************************************************************)
Unrecorded ==
  {i \in Ids : pods[i] # NoPod /\
     (rollouts[i] = NoRollout \/ rollouts[i].body # pods[i].body)}

DriftBounded ==
  Cardinality(Unrecorded) <=
    budget.faults + budget.crashes + (IF pc \in {"record", "recordErr"} THEN 1 ELSE 0)

(***************************************************************************)
(* DriftCheck: the recorded successes whose provider status is neither     *)
(* SUCCEEDED nor RUNNING.  A Service is looked up by ServiceDefinition,    *)
(* which asks the container without an expected version, so that the       *)
(* version label of the pod is never compared.                             *)
(***************************************************************************)
ProviderStatus(i, r) ==
  CASE r.key = "Service" ->
         (IF pods[i] = NoPod THEN "PENDING"
          ELSE CASE pods[i].st = "partial" -> "PENDING"
                 [] pods[i].st = "failed" -> "ERROR"
                 [] pods[i].st = "done" -> "SUCCEEDED"
                 [] OTHER -> "RUNNING")
    [] r.key = "Image" -> IF <<"Image", i>> \in present THEN "SUCCEEDED" ELSE "PENDING"
    [] OTHER -> "SUCCEEDED"

\* Mutant: a pending resource is not reported.
DriftCheck_PendingIgnored ==
  {i \in DOMAIN State :
     State[i].status = "SUCCEEDED" /\
     ProviderStatus(i, State[i]) \notin {"SUCCEEDED", "RUNNING", "PENDING"}}

DriftCheck ==
  {i \in DOMAIN State :
     State[i].status = "SUCCEEDED" /\ ProviderStatus(i, State[i]) \notin {"SUCCEEDED", "RUNNING"}}

\* The requests the composition of the last `up` asks for.
Desired == Range(Bridge(op.comp).requests)

(***************************************************************************)
(* "No changes to apply" together with an empty drift report means that the*)
(* project is up: if no desired resource is recorded as failed, every      *)
(* desired service is started (engine.go:189-245).                         *)
(***************************************************************************)
NoDriftNoChangeIsUp ==
  /\ op.kind = "up" /\ result = "nochange"
  /\ DriftCheck = {}
  /\ \A r \in Desired : State[r.id].status = "SUCCEEDED"
  => \A r \in Desired : r.key = "Service" => Started(r.id)

\* Every apply returns.
ApplyReturns == pc # "idle" ~> pc = "idle"

----------------------------------------------------------------------------
(***************************************************************************)
(* What the documentation says of plan/apply.                              *)
(***************************************************************************)

(***************************************************************************)
(* Plan/apply "diffs desired state against actual state and converges      *)
(* them": after an undisturbed `up` that reports success, or that there is *)
(* nothing to do, every service of the composition runs as desired.        *)
(***************************************************************************)
UpConverges ==
  op.kind = "up" /\ result \in {"ok", "nochange"} /\ ~disturbed =>
    \A r \in Desired : r.key = "Service" => IsLive(r)

(***************************************************************************)
(* "Idempotent applies - running `up` twice with the same config is a      *)
(* no-op": planning again right after a successful `up` finds no change.   *)
(***************************************************************************)
IdempotentUp ==
  op.kind = "up" /\ result = "ok" /\ ~disturbed =>
    ~HasChanges(ComputePlan(Bridge(op.comp), State))

(***************************************************************************)
(* "Orphan removal catches removed services automatically": an `up` that   *)
(* drops a service is not refused.                                         *)
(***************************************************************************)
OrphansRemovable ==
  result = "rejected" =>
    \A a \in Range(plan.actions) : a.type # "destroy" \/ a.key # "Service"

(***************************************************************************)
(* "rollback reverts to a previous snapshot": an undisturbed rollback      *)
(* brings back what ran when the deployment was saved.                     *)
(***************************************************************************)
RollbackRestores ==
  op.kind = "rollback" /\ result = "ok" /\ ~disturbed => Running = snaps[op.to]
=============================================================================
