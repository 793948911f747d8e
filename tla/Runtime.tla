------------------------------- MODULE Runtime -------------------------------
(***************************************************************************)
(* The container runtime as the CRI client (pkg/cri/lifecycle.go and       *)
(* containers.go) uses it, and the document on disk.                       *)
(*                                                                         *)
(* pods[n] lists every pod service n ever had: st is the state of the pod  *)
(* and its one container, def the service it was built from.  "sandbox" is *)
(* a pod without a container; a removed pod is "gone".  Stopping or        *)
(* removing what is gone is no error in CRI; starting it or asking for its *)
(* status is.  The races inside one ServiceUp are the subject of module    *)
(* Supervisor: here ServiceUp and ServiceDown are single steps, with every *)
(* point at which they can fail.                                           *)
(***************************************************************************)
EXTENDS Composition

CONSTANTS Docs,        \* the documents the user writes
          MaxEdits,    \* bound on edits of the document
          MaxFaults,   \* bound on failing calls
          MaxExits     \* bound on exits nobody waits for

Names == Range(NameSeq)

ASSUME DocsAreNamed == \A d \in Docs : DOMAIN d \subseteq Names

VARIABLES pods, doc, mtime, faults, exits

rtVars == <<pods, doc, mtime, faults, exits>>

Exited == {"exit0", "exit1"}

Live(n) == {k \in DOMAIN pods[n] : pods[n][k].st # "gone"}

\* Pods that have a container.
Containers(n) == {k \in Live(n) : pods[n][k].st # "sandbox"}

\* A removed pod: nothing of it is left but its place in the list.
Gone == [st |-> "gone", def |-> <<>>]

RuntimeInit ==
  /\ pods = [n \in Names |-> <<>>]
  /\ doc \in Docs
  /\ mtime = 0
  /\ faults = 0
  /\ exits = 0

Fault == faults < MaxFaults /\ faults' = faults + 1

SetState(n, k, st) == [pods EXCEPT ![n][k].st = st]

\* teardownPod on each of the given pods of n.
TearDown(n, ks) ==
  [k \in DOMAIN pods[n] |->
     IF k \in ks THEN Gone ELSE pods[n][k]]

\* teardownPod fails on one pod after some were taken down: its container may
\* be stopped or removed by then.
TearDownFails(n) ==
  IF Live(n) = {} THEN {pods[n]}
  ELSE UNION {UNION {{[TearDown(n, ks) EXCEPT ![k].st = st] :
                        st \in {pods[n][k].st, "sandbox"} \cup
                               (IF pods[n][k].st = "running" THEN Exited ELSE {})} :
                      ks \in SUBSET (Live(n) \ {k})} : k \in Live(n)}

\* ServiceDown.
ServiceDown(n) == pods' = [pods EXCEPT ![n] = TearDown(n, Live(n))]

ServiceDownFails(n) == \E p \in TearDownFails(n) : pods' = [pods EXCEPT ![n] = p]

Built(n, svc, st) == Append(TearDown(n, Live(n)), [st |-> st, def |-> svc])

\* Mutant: the pods of an earlier up are left alone.
ServiceUp_Keeps(n, svc) ==
  pods' = [pods EXCEPT ![n] = Append(@, [st |-> "running", def |-> svc])]

\* ServiceUp: the old pods go, a new one is built and started.
ServiceUp(n, svc) == pods' = [pods EXCEPT ![n] = Built(n, svc, "running")]

\* It fails while removing, before there is a pod (image), before there is a
\* container (mounts, CreateContainer) or before that one runs.
ServiceUpFails(n, svc) ==
  \E p \in TearDownFails(n) \cup {TearDown(n, Live(n)), Built(n, svc, "sandbox"),
                                  Built(n, svc, "created")} :
    pods' = [pods EXCEPT ![n] = p]

----------------------------------------------------------------------------
\* A container ends by itself.
Exit(n, k, st, awaited) ==
  /\ k \in Live(n)
  /\ pods[n][k].st = "running"
  /\ awaited \/ exits < MaxExits
  /\ exits' = IF awaited THEN exits ELSE exits + 1
  /\ pods' = SetState(n, k, st)
  /\ UNCHANGED <<doc, mtime, faults>>

\* The user writes the document.
Edit(d) ==
  /\ mtime < MaxEdits
  /\ doc' = d
  /\ mtime' = mtime + 1
  /\ UNCHANGED <<pods, faults, exits>>
=============================================================================
