------------------------------- MODULE StateDB -------------------------------
(***************************************************************************)
(* The BoltDB state store (pkg/orchestrate/state) as the orchestration     *)
(* engine uses it: four buckets, each update one serializable transaction. *)
(*                                                                         *)
(* A link is stored twice, under its source in links-by-source-id and under*)
(* its target in links-by-target-id.  All buckets are keyed by the resource*)
(* id alone; the definition key (the kind) is part of the value only.  A   *)
(* missing key is a rollout NoRollout and an empty set of references.      *)
(***************************************************************************)
EXTENDS Integers, Sequences, FiniteSets

CONSTANTS Ids,             \* resource ids
          RolloutRecords,  \* what may be stored in rollouts-by-id
          Deployments,     \* what may be stored in deployments-by-id
          NoRollout,       \* no record under this id
          MaxDeployments   \* bound on the deployments ever saved

VARIABLES rollouts,        \* rollouts-by-id
          deployments,     \* deployments-by-id, in the order they were saved
          bySource,        \* links-by-source-id
          byTarget         \* links-by-target-id

dbVars == <<rollouts, deployments, bySource, byTarget>>

DBInit ==
  /\ rollouts = [i \in Ids |-> NoRollout]
  /\ deployments = <<>>
  /\ bySource = [i \in Ids |-> {}]
  /\ byTarget = [i \in Ids |-> {}]

\* Save(RolloutsById, r): a later save replaces the record under the id.
SaveRollout(i, r) ==
  /\ rollouts' = [rollouts EXCEPT ![i] = r]
  /\ UNCHANGED <<deployments, bySource, byTarget>>

\* Save(DeploymentsById, d): a deployment has a fresh UUID.
SaveDeployment(d) ==
  /\ Len(deployments) < MaxDeployments
  /\ deployments' = Append(deployments, d)
  /\ UNCHANGED <<rollouts, bySource, byTarget>>

\* Mutant: the second addTo of the transaction is missing.
AddLink_OneSided(s, t) ==
  /\ bySource' = [bySource EXCEPT ![s] = @ \cup {t}]
  /\ UNCHANGED <<rollouts, deployments, byTarget>>

\* addTo twice in one transaction; Unique drops a repeated reference.
AddLink(s, t) ==
  /\ bySource' = [bySource EXCEPT ![s] = @ \cup {t}]
  /\ byTarget' = [byTarget EXCEPT ![t] = @ \cup {s}]
  /\ UNCHANGED <<rollouts, deployments>>

\* Mutant: links from other resources to this one are dropped as well.
RemoveLink_Incoming(r) ==
  /\ bySource' = [i \in Ids |-> IF i = r THEN {} ELSE bySource[i] \ {r}]
  /\ byTarget' = [i \in Ids |-> IF i = r THEN {} ELSE byTarget[i] \ {r}]
  /\ UNCHANGED <<rollouts, deployments>>

\* Drop the resource's outgoing links and its entry under each of their targets.
RemoveLink(r) ==
  /\ bySource' = [bySource EXCEPT ![r] = {}]
  /\ byTarget' = [t \in Ids |-> IF t \in bySource[r] THEN byTarget[t] \ {r} ELSE byTarget[t]]
  /\ UNCHANGED <<rollouts, deployments>>

GetDependencies(s) == bySource[s]

GetDepending(t) == byTarget[t]

DBNext ==
  \/ \E i \in Ids : \E r \in RolloutRecords : SaveRollout(i, r)
  \/ \E d \in Deployments : SaveDeployment(d)
  \/ \E s, t \in Ids : AddLink(s, t)
  \/ \E r \in Ids : RemoveLink(r)

DBSpec == DBInit /\ [][DBNext]_dbVars

----------------------------------------------------------------------------
DBTypeOK ==
  /\ rollouts \in [Ids -> RolloutRecords \cup {NoRollout}]
  /\ deployments \in Seq(Deployments)
  /\ bySource \in [Ids -> SUBSET Ids]
  /\ byTarget \in [Ids -> SUBSET Ids]

(***************************************************************************)
(* The two buckets hold the same links, whatever the order of AddLink and  *)
(* RemoveLink: `graph` (GetDependencies), the delete check (GetDepending)  *)
(* and the ordering of an apply read different buckets of the same graph   *)
(* (dependencies.go:39-56, 110-169).                                       *)
(***************************************************************************)
LinksMirror ==
  \A s, t \in Ids : t \in bySource[s] <=> s \in byTarget[t]

----------------------------------------------------------------------------
(***************************************************************************)
(* The buckets implement one set of links.                                 *)
(***************************************************************************)
Links == {l \in Ids \X Ids : l[2] \in bySource[l[1]]}

Abs == INSTANCE LinkStore WITH links <- Links

(***************************************************************************)
(* Every transaction of the store is a step of LinkStore or leaves the     *)
(* links alone.                                                            *)
(***************************************************************************)
ImplementsLinkStore == Abs!Spec

(***************************************************************************)
(* Both reads agree with the abstract set: in particular what depends on a *)
(* resource is found although only the reverse bucket is consulted.        *)
(***************************************************************************)
ReadsAgree ==
  \A i \in Ids : /\ GetDependencies(i) = Abs!Dependencies(i)
                 /\ GetDepending(i) = Abs!Depending(i)
=============================================================================
