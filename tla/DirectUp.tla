------------------------------ MODULE DirectUp -------------------------------
(***************************************************************************)
(* The direct path of `up` (DoUp and criUp in pkg/cli/up.go): transform    *)
(* the document, then bring the services up one by one in start order,     *)
(* waiting after each for the strictest condition any dependent has on it. *)
(* Health is observed by pkg/health: a check per service, fed by a probe   *)
(* goroutine, with a channel that is closed at the first success.          *)
(***************************************************************************)
EXTENDS Runtime

CONSTANTS Active,            \* the active profiles
          MaxUps,            \* bound on runs of up
          FailureThreshold   \* of every probe

VARIABLES
  up,       \* the up process: pc, its composition, what is left, the pod waited for
  checks,   \* Monitor.checks of that process
  ups,      \* how often up was run
  seen,     \* ghost: <<service, condition>> this up has seen to hold
  before    \* ghost: the pods when it began

upVars == <<up, checks, ups, seen, before>>

NoCheck == [state |-> "none", failures |-> 0, ready |-> FALSE]

Idle == [pc |-> "idle", comp |-> <<>>, todo |-> <<>>, k |-> 0]

UpInit ==
  /\ up = Idle
  /\ checks = [n \in Names |-> NoCheck]
  /\ ups = 0
  /\ seen = {}
  /\ before = pods

UpActive == up.pc \in {"eval", "service", "wait"}

Current == Head(up.todo)

UpGoes(pc) == up' = [up EXCEPT !.pc = pc]

\* On to the next service, or done.
Advance == up' = [up EXCEPT !.todo = Tail(@), !.k = 0,
                            !.pc = IF Len(up.todo) = 1 THEN "ok" ELSE "service"]

\* filter by profile, then synthesize the init containers.
TransformComposition(comp) == SynthesizeInitContainers(FilterByProfiles(comp, Active))

ASSUME InitsAreNamed == \A d \in Docs : DOMAIN TransformComposition(d) \subseteq Names

----------------------------------------------------------------------------
\* A new process: nothing of an earlier one is left but the pods.
UpBegins ==
  /\ up.pc \in {"idle", "ok", "failed"}
  /\ ups < MaxUps
  /\ ups' = ups + 1
  /\ up' = [Idle EXCEPT !.pc = "eval"]
  /\ checks' = [n \in Names |-> NoCheck]
  /\ seen' = {}
  /\ before' = pods
  /\ UNCHANGED rtVars

\* Eval, transform, validate, order.  An error ends up before it touched a pod.
UpEval ==
  /\ up.pc = "eval"
  /\ \E comp \in {TransformComposition(doc)} :
         IF ~HasStartOrder(comp)
         THEN UpGoes("failed")
         ELSE up' = [up EXCEPT !.comp = comp, !.todo = StartOrder(comp),
                               !.pc = IF DOMAIN comp = {} THEN "ok" ELSE "service"]
  /\ UNCHANGED <<rtVars, checks, ups, seen, before>>

\* Evaluation, envFrom, the image check or the volume store fails.
UpEvalFails ==
  /\ up.pc = "eval"
  /\ Fault
  /\ UpGoes("failed")
  /\ UNCHANGED <<pods, doc, mtime, exits, checks, ups, seen, before>>

\* Mutant: the wait comes after the next service.
UpService_NoWait ==
  /\ up.pc = "service"
  /\ ServiceUp(Current, up.comp[Current])
  /\ seen' = seen \cup {<<Current, "started">>}
  /\ Advance
  /\ UNCHANGED <<doc, mtime, faults, exits, checks, ups, before>>

\* ServiceUp, then waitCondition if some dependent asks for more than a start.
UpService ==
  /\ up.pc = "service"
  /\ ServiceUp(Current, up.comp[Current])
  /\ seen' = seen \cup {<<Current, "started">>}
  /\ IF HighestConditionOf(Current, up.comp) \in {"healthy", "completed"}
     THEN UpGoes("wait")
     ELSE Advance
  /\ UNCHANGED <<doc, mtime, faults, exits, checks, ups, before>>

UpServiceFails ==
  /\ up.pc = "service"
  /\ Fault
  /\ ServiceUpFails(Current, up.comp[Current])
  /\ UpGoes("failed")
  /\ UNCHANGED <<doc, mtime, exits, checks, ups, seen, before>>

\* waitHealthy without a probe, and a lookup that finds no container.
WaitRefused ==
  /\ up.pc = "wait"
  /\ up.k = 0
  /\ \/ HighestConditionOf(Current, up.comp) = "healthy" /\ ~up.comp[Current].probe
     \/ Live(Current) = {}
     \/ \E k \in Live(Current) : pods[Current][k].st = "sandbox"
  /\ UpGoes("failed")
  /\ UNCHANGED <<rtVars, checks, ups, seen, before>>

\* The first pod the runtime lists; for a health wait its check is registered
\* and the probe goroutine started.
WaitBegins(k) ==
  /\ up.pc = "wait"
  /\ up.k = 0
  /\ k \in Containers(Current)
  /\ LET healthy == HighestConditionOf(Current, up.comp) = "healthy"
     IN  /\ healthy => up.comp[Current].probe
         /\ checks' = IF healthy
                      THEN [checks EXCEPT ![Current] = [NoCheck EXCEPT !.state = "starting"]]
                      ELSE checks
  /\ up' = [up EXCEPT !.k = k]
  /\ UNCHANGED <<rtVars, ups, seen, before>>

Waited == pods[Current][up.k].st

\* Mutant: only a success ends the wait.
WaitExited_SuccessOnly ==
  /\ up.pc = "wait" /\ up.k # 0
  /\ HighestConditionOf(Current, up.comp) = "completed"
  /\ Waited = "exit0" /\ Advance /\ seen' = seen \cup {<<Current, "completed">>}
  /\ UNCHANGED <<rtVars, checks, ups, before>>

WaitExited ==
  /\ up.pc = "wait" /\ up.k # 0
  /\ HighestConditionOf(Current, up.comp) = "completed"
  /\ \/ Waited = "exit0" /\ Advance /\ seen' = seen \cup {<<Current, "completed">>}
     \/ Waited \in {"exit1", "gone", "sandbox"} /\ UpGoes("failed") /\ UNCHANGED seen
  /\ UNCHANGED <<rtVars, checks, ups, before>>

\* The channel of the check is closed.  Nothing else ends the wait.
WaitHealthy ==
  /\ up.pc = "wait" /\ up.k # 0
  /\ HighestConditionOf(Current, up.comp) = "healthy"
  /\ checks[Current].ready
  /\ Advance
  /\ seen' = seen \cup {<<Current, "healthy">>}
  /\ UNCHANGED <<rtVars, checks, ups, before>>

\* A probe of the service up waits for: it can only pass while the container it
\* was registered with runs.  The verdicts of the other checks are never read.
Probe(ok) ==
  /\ up.pc = "wait" /\ up.k # 0
  /\ checks[Current].state # "none"
  /\ ok => Waited = "running"
  /\ LET c == checks[Current]
     IN  checks' = [checks EXCEPT ![Current] =
           IF ok THEN [state |-> "healthy", failures |-> 0, ready |-> TRUE]
           ELSE [c EXCEPT !.failures = IF @ < FailureThreshold THEN @ + 1 ELSE @,
                          !.state = IF c.failures + 1 >= FailureThreshold
                                    THEN "unhealthy" ELSE @]]
  /\ UNCHANGED <<rtVars, up, ups, seen, before>>

\* A listing or a status call fails.
WaitFails ==
  /\ up.pc = "wait"
  /\ Fault
  /\ UpGoes("failed")
  /\ UNCHANGED <<pods, doc, mtime, exits, checks, ups, seen, before>>

UpStep ==
  \/ UpEval \/ UpService
  \/ WaitRefused \/ WaitExited \/ WaitHealthy
  \/ up.pc = "wait" /\ \E k \in Containers(Current) : WaitBegins(k)

UpNext ==
  \/ UpBegins \/ UpStep
  \/ UpEvalFails \/ UpServiceFails \/ WaitFails
  \/ \E ok \in BOOLEAN : Probe(ok)
=============================================================================
