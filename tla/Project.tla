------------------------------- MODULE Project -------------------------------
(***************************************************************************)
(* A project on the direct path: `up -d --watch` in one process, the other *)
(* commands in a second one, containers that exit, and a user who edits    *)
(* the document - all on the same pods, without a lock between them.       *)
(***************************************************************************)
EXTENDS DirectUp, Commands, Watch

VARIABLES
  disturbed,   \* ghost: services the commands have changed since up began
  raced        \* ghost: up, watch or a container moved since the command began

ghosts == <<disturbed, raced>>

vars == <<rtVars, upVars, cmdVars, watchVars, ghosts>>

Init ==
  /\ RuntimeInit /\ UpInit /\ CmdInit /\ WatchInit
  /\ disturbed = {} /\ raced = FALSE

\* Services whose pods a step adds, removes or stops.
Changed == {n \in Names : pods'[n] # pods[n]}

\* A second up needs a second process; the watcher of the first must be over.
UpProcess ==
  /\ ~WatchActive
  /\ UpNext
  /\ disturbed' = IF UpActive THEN disturbed ELSE {}
  /\ raced' = (raced \/ (cmd.kind = "down" /\ Changed # {}))
  /\ UNCHANGED <<cmdVars, watchVars>>

\* runUpCRI enters the watcher when up has succeeded.
EnterWatch ==
  /\ up.pc = "ok"
  /\ WatchBegins(up.comp)
  /\ up' = Idle
  /\ checks' = [n \in Names |-> NoCheck] /\ seen' = {} /\ before' = [n \in Names |-> <<>>]
  /\ UNCHANGED <<ups, cmdVars, ghosts>>

WatchProcess ==
  /\ WatchNext
  /\ raced' = (raced \/ (cmd.kind = "down" /\ Changed # {}))
  /\ UNCHANGED <<upVars, cmdVars, disturbed>>

CmdProcess ==
  /\ CmdNext
  /\ disturbed' = disturbed \cup Changed
  /\ raced' = (CmdActive /\ raced)
  /\ UNCHANGED <<upVars, watchVars>>

\* up waits for this container to complete.
Awaited(n, k) ==
  /\ up.pc = "wait" /\ n = Current /\ k = up.k
  /\ HighestConditionOf(n, up.comp) = "completed"

ContainerExits ==
  /\ \E n \in Names : \E k \in Live(n), st \in Exited : Exit(n, k, st, Awaited(n, k))
  /\ UNCHANGED <<upVars, cmdVars, watchVars, ghosts>>

UserEdits ==
  /\ \E d \in Docs \ {doc} : Edit(d)
  /\ UNCHANGED <<upVars, cmdVars, watchVars, ghosts>>

Next == UpProcess \/ EnterWatch \/ WatchProcess \/ CmdProcess \/ ContainerExits \/ UserEdits

Spec == Init /\ [][Next]_vars

Rest == UNCHANGED <<cmdVars, watchVars, ghosts>>

UpProgress ==
  /\ ~WatchActive
  /\ UpStep
  /\ disturbed' = disturbed
  /\ raced' = (raced \/ (cmd.kind = "down" /\ Changed # {}))
  /\ UNCHANGED <<cmdVars, watchVars>>

\* The up process is a running program: an enabled step of it is taken.  Users,
\* containers and failures owe nobody anything.
FairSpec == Spec /\ WF_vars(UpProgress)

ProbePasses == ~WatchActive /\ Probe(TRUE) /\ Rest

AwaitedExits ==
  /\ up.pc = "wait" /\ up.k # 0 /\ Awaited(Current, up.k)
  /\ \E st \in Exited : Exit(Current, up.k, st, TRUE)
  /\ UNCHANGED <<upVars, cmdVars, watchVars, ghosts>>

----------------------------------------------------------------------------
ProjectTypeOK ==
  /\ pods \in [Names -> Seq([st : {"sandbox", "created", "running", "exit0", "exit1", "gone"},
                             def : {<<>>} \cup (UNION {Range(d) : d \in Docs})
                                   \cup (UNION {Range(TransformComposition(d)) : d \in Docs})])]
  /\ up.pc \in {"idle", "eval", "service", "wait", "ok", "failed"}
  /\ cmd.pc \in {"off", "run", "start", "down", "ok", "failed"}
  /\ w.pc \in {"off", "idle", "eval", "remove", "down", "up"}

\* One pod, built from the given service, whatever its container does by now.
BuiltFrom(n, svc) == \E k \in Live(n) : Live(n) = {k} /\ pods[n][k].def = svc

Started == IF up.todo = <<>> THEN DOMAIN up.comp ELSE DOMAIN up.comp \ Range(up.todo)

\* What a condition asks for: one the code does not know is a start (condPriority).
Asked(cond) == IF cond \in {"healthy", "completed"} THEN cond ELSE "started"

\* When up turns to a service, each dependency was brought up by this very up
\* and the condition the service has on it was seen to hold - except that of a
\* completed dependency where some other service wants it healthy, because only
\* the strictest condition is waited for (highestConditionOf).
ConditionsSeen ==
  UpActive =>
    \A s \in Started \cup (IF up.pc = "service" THEN {Current} ELSE {}) :
      \A d \in DepsOf(up.comp, s) :
        LET cond == Asked(up.comp[s].deps[d])
        IN  \/ <<d, cond>> \in seen
            \/ /\ cond = "completed" /\ <<d, "healthy">> \in seen
               /\ \E t \in DOMAIN up.comp :
                    d \in DepsOf(up.comp, t) /\ up.comp[t].deps[d] = "healthy"

\* The pods of n are the ones there were, but for containers that exited.
AsBefore(n) ==
  /\ DOMAIN pods[n] = DOMAIN before[n]
  /\ \A k \in DOMAIN pods[n] : /\ pods[n][k].def = before[n][k].def
                               /\ \/ pods[n][k].st = before[n][k].st
                                  \/ before[n][k].st = "running" /\ pods[n][k].st \in Exited

\* While up is at work and after it has ended, by success or by any error, the
\* services it is through with have exactly one pod, the new one; the services
\* after the one it stopped at, and services it does not know, have the pods they
\* had before.  (Only services no command has meddled with since.)
UpIsAPrefix ==
  up.pc \in {"eval", "service", "wait", "ok", "failed"} =>
    \A n \in Names \ disturbed :
      /\ n \in Started => BuiltFrom(n, up.comp[n])
      /\ n \notin Started /\ (up.todo = <<>> \/ n # Current) => AsBefore(n)

\* A down that reported success has left no pod of a service it knew.
DownIsComplete ==
  cmd.kind = "down" /\ cmd.pc = "ok" /\ ~raced => \A n \in known : Live(n) = {}

\* Between two rounds every service the watcher has had to do with is in the
\* runtime what it is in the composition in force - one pod of that definition,
\* or none - unless an error or an edit caught it in the middle of a restart.
WatchMirrors ==
  w.pc = "idle" =>
    \A n \in managed \ (torn \cup disturbed) :
      IF n \in DOMAIN w.current THEN BuiltFrom(n, w.current[n]) ELSE Live(n) = {}

\* Between two rounds, if no file has changed since and the last round did not
\* fail, the composition in force is the document: no edit is lost, even one made
\* while a round was under way.  It speaks of the time after a first round: an
\* edit after up has evaluated the document and before Run takes the first
\* modification times (watch.go:55) is seen with the next edit only.
WatchIsCurrent ==
  w.pc = "idle" /\ w.fresh /\ w.seen = mtime => w.current = doc

\* Waiting for something that will not happen: a container that is not running
\* cannot pass a probe.
WaitsInVain ==
  /\ up.pc = "wait" /\ up.k # 0
  /\ HighestConditionOf(Current, up.comp) = "healthy" /\ Waited # "running"

\* An up comes to an end unless it waits for the health of a container that is
\* no longer running - given that a running container passes its probe and one
\* that is to complete exits in the end.
UpReturns ==
  WF_vars(ProbePasses) /\ WF_vars(AwaitedExits)
    => (UpActive ~> (~UpActive \/ WaitsInVain))
=============================================================================
