----------------------------- MODULE Supervisor ------------------------------
(***************************************************************************)
(* Foreground mode: the restart supervisor (pkg/cri/supervisor.go and      *)
(* restart.go) and the signal-driven shutdown of criForeground             *)
(* (pkg/cli/up.go), over the container runtime.                            *)
(*                                                                         *)
(* One watcher goroutine per service waits for the container to exit, backs*)
(* off and calls ServiceUp; the main goroutine waits for a signal, cancels *)
(* the watchers' context and takes the services down in stop order.  Other *)
(* nix-compose processes may stop or remove a container at any time, and   *)
(* make pods of their own: `create`, which looks at nothing that is there, *)
(* and a second `up`, or the watcher of one, with the same ServiceUp.  No  *)
(* lock keeps any two of them apart.                                       *)
(*                                                                         *)
(* pods[s] lists every pod service s ever had, with its state; a removed   *)
(* pod is "gone".  A CRI call abandoned by its client may still take effect*)
(* in the runtime: that matters for RunPodSandbox, which creates something *)
(* the client then knows nothing about.                                    *)
(***************************************************************************)
EXTENDS Integers, Sequences, FiniteSets, SequencesExt

CONSTANTS Services,
          Others,         \* other processes that make pods
          Policy,         \* the restart policy of each service
          StopSeq,        \* the services in stop order, level by level
          BackoffMin, BackoffMax,
          MaxExits,       \* bound on containers that exit by themselves
          MaxFaults,      \* bound on failing CRI calls
          MaxCommands     \* bound on commands from other processes

ASSUME PolicyIsTotal ==
  Policy \in [Services -> {"no", "always", "on-failure", "unless-stopped"}]
ASSUME StopSeqIsComplete == StopSeq \in Seq(Services) /\ Range(StopSeq) = Services
ASSUME BackoffRange ==
  BackoffMin \in Nat /\ BackoffMax \in Nat /\ 0 < BackoffMin /\ BackoffMin <= BackoffMax

VARIABLES
  pods,        \* the runtime: every pod of each service, oldest first
  watcher,     \* where the watcher of each service is
  target,      \* the pod whose container it waits for or is building
  backoff,     \* its backoff
  signalled,   \* sigCtx is cancelled
  stopped,     \* Supervisor.stopped
  main,        \* where criForeground is
  shutTodo,    \* services shutdownServices has still to take down
  shutPods,    \* the pods ServiceDown listed and has still to remove
  clean,       \* shutdownServices returned no error
  abandoned,   \* services with a RunPodSandbox nobody waits for any more
  other,       \* what each of the Others is doing
  budget,      \* how often each bounded event has happened
  streak,      \* ghost: restarts since the last long run
  lastExit,    \* ghost: the exit state the watcher saw last
  inFlight,    \* ghost: services with a RunPodSandbox under way at the signal
  known,       \* ghost: how many pods each service had had at the signal
  foreign,     \* ghost: the pods of each service that other processes made
  raced        \* ghost: services with two creators at once, see RemoveOld

otherVars == <<other, foreign, raced>>
rtVars == <<pods, abandoned, otherVars>>
watchVars == <<watcher, target, backoff, streak, lastExit>>
mainVars == <<signalled, stopped, main, shutTodo, shutPods, clean, inFlight,
             known>>
vars == <<rtVars, watchVars, mainVars, budget>>

Exited == {"exit0", "exit1"}

Live(s) == {k \in DOMAIN pods[s] : pods[s][k] # "gone"}

\* The state of the pod the watcher holds on to.
Target(s) == pods[s][target[s]]

Over(s) == watcher[s] \in {"done", "died"}

\* The pods of s still to come: from its watcher's ServiceUp, of another process.
OwnPending(s) == watcher[s] \in {"image", "run"} \/ s \in abandoned
Pending(s) == {p \in Others : other[p].at = "make" /\ other[p].svc = s}

Spend(what) == budget' = [budget EXCEPT ![what] = @ + 1]

CanFault == budget.faults < MaxFaults

Min2(a, b) == IF a <= b THEN a ELSE b

\* `up` has brought every service up; a container may have exited since.
SupInit ==
  /\ pods = [s \in Services |-> <<"running">>]
  /\ watcher = [s \in Services |-> "loop"]
  /\ target = [s \in Services |-> 1]
  /\ backoff = [s \in Services |-> BackoffMin]
  /\ signalled = FALSE /\ stopped = FALSE
  /\ main = "start"
  /\ shutTodo = <<>> /\ shutPods = {} /\ clean = FALSE
  /\ abandoned = {}
  /\ budget = [exits |-> 0, faults |-> 0, commands |-> 0]
  /\ streak = [s \in Services |-> 0]
  /\ lastExit = [s \in Services |-> "none"]
  /\ inFlight = {} /\ known = [s \in Services |-> 0]
  /\ other = [p \in Others |-> [at |-> "idle"]]
  /\ foreign = [s \in Services |-> {}] /\ raced = {}

----------------------------------------------------------------------------
(***************************************************************************)
(* A watcher.                                                              *)
(***************************************************************************)
Goto(s, pc) == watcher' = [watcher EXCEPT ![s] = pc]

\* A failing call ends watchService: silently if the context is done.
Die(s) == Goto(s, IF signalled THEN "done" ELSE "died")

\* lookupContainer: the first pod the runtime lists - any one - and its container.
Lookup(s) ==
  /\ watcher[s] = "loop"
  /\ ~signalled
  /\ \/ \E k \in Live(s) :
          /\ pods[s][k] # "sandbox"
          /\ target' = [target EXCEPT ![s] = k]
          /\ Goto(s, "wait")
     \/ /\ Live(s) = {} \/ \E k \in Live(s) : pods[s][k] = "sandbox"
        /\ Die(s)
        /\ UNCHANGED target
  /\ UNCHANGED <<rtVars, backoff, streak, lastExit, mainVars, budget>>

\* Mutant: on-failure takes exit code zero for a failure.
ShouldRestart_AnyExit(policy, exit, stoppedByUser) ==
  CASE policy = "always"         -> TRUE
    [] policy = "on-failure"     -> TRUE
    [] policy = "unless-stopped" -> ~stoppedByUser
    [] OTHER                     -> FALSE

\* Mutant: unless-stopped restarts after failures only.
ShouldRestart_FailuresOnly(policy, exit, stoppedByUser) ==
  CASE policy = "always"         -> TRUE
    [] policy = "on-failure"     -> exit # "exit0"
    [] policy = "unless-stopped" -> ~stoppedByUser /\ exit # "exit0"
    [] OTHER                     -> FALSE

ShouldRestart(policy, exit, stoppedByUser) ==
  CASE policy = "always"         -> TRUE
    [] policy = "on-failure"     -> exit # "exit0"
    [] policy = "unless-stopped" -> ~stoppedByUser
    [] OTHER                     -> FALSE

BackoffAfter(s, ranLong) == IF ranLong THEN BackoffMin ELSE backoff[s]

\* WaitExited polls the container and sees it exited.
SeeExit(s, ranLong) ==
  /\ watcher[s] = "wait"
  /\ Target(s) \in Exited
  /\ lastExit' = [lastExit EXCEPT ![s] = Target(s)]
  /\ IF ShouldRestart(Policy[s], Target(s), stopped) /\ ~signalled
     THEN /\ backoff' = [backoff EXCEPT ![s] = BackoffAfter(s, ranLong)]
          /\ streak' = [streak EXCEPT ![s] = IF ranLong THEN 0 ELSE @]
          /\ Goto(s, "backoff")
     ELSE /\ Goto(s, "done")
          /\ UNCHANGED <<backoff, streak>>
  /\ UNCHANGED <<rtVars, target, mainVars, budget>>

\* The container was removed: polling its status fails.
SeeRemoved(s) ==
  /\ watcher[s] = "wait"
  /\ Target(s) \in {"gone", "sandbox"}
  /\ Die(s)
  /\ UNCHANGED <<rtVars, target, backoff, streak, lastExit, mainVars, budget>>

\* Mutant: the old pod is left alone.
RemoveOld_Kept(s) ==
  /\ watcher[s] = "backoff"
  /\ ~signalled
  /\ Goto(s, "image")
  /\ UNCHANGED <<rtVars, target, backoff, streak, lastExit, mainVars, budget>>

\* The backoff has passed: ServiceUp lists the old pods and removes them all.  A
\* pod another process is about to add is not among them.
RemoveOld(s) ==
  /\ watcher[s] = "backoff"
  /\ ~signalled
  /\ pods' = [pods EXCEPT ![s] = [k \in DOMAIN @ |-> "gone"]]
  /\ Goto(s, "image")
  /\ raced' = IF Pending(s) # {} THEN raced \cup {s} ELSE raced \ {s}
  /\ UNCHANGED <<abandoned, other, foreign, target, backoff, streak, lastExit, mainVars,
                 budget>>

\* Mutant: the call is sent although the context is done.
RunPodSandbox_IgnoresContext(s) ==
  /\ watcher[s] = "image"
  /\ Goto(s, "run")
  /\ UNCHANGED <<rtVars, target, backoff, streak, lastExit, mainVars, budget>>

\* RunPodSandbox is sent; with a done context it would not be.
RunPodSandbox(s) ==
  /\ watcher[s] = "image"
  /\ ~signalled
  /\ Goto(s, "run")
  /\ UNCHANGED <<rtVars, target, backoff, streak, lastExit, mainVars, budget>>

\* ... and returns a pod.
SandboxReady(s) ==
  /\ watcher[s] = "run"
  /\ pods' = [pods EXCEPT ![s] = Append(@, "sandbox")]
  /\ target' = [target EXCEPT ![s] = Len(pods[s]) + 1]
  /\ Goto(s, "create")
  /\ UNCHANGED <<abandoned, otherVars, backoff, streak, lastExit, mainVars, budget>>

\* The pod may have been removed under the watcher's hands.
CreateContainer(s) ==
  /\ watcher[s] = "create"
  /\ ~signalled
  /\ IF Target(s) = "sandbox"
     THEN /\ pods' = [pods EXCEPT ![s][target[s]] = "created"]
          /\ Goto(s, "start")
     ELSE UNCHANGED pods /\ Die(s)
  /\ UNCHANGED <<abandoned, otherVars, target, backoff, streak, lastExit, mainVars, budget>>

\* Mutant: the backoff is not capped.
NextBackoff_Uncapped(s) == 2 * backoff[s]

NextBackoff(s) == Min2(2 * backoff[s], BackoffMax)

StartContainer(s) ==
  /\ watcher[s] = "start"
  /\ ~signalled
  /\ IF Target(s) = "created"
     THEN /\ pods' = [pods EXCEPT ![s][target[s]] = "running"]
          /\ backoff' = [backoff EXCEPT ![s] = NextBackoff(s)]
          /\ streak' = [streak EXCEPT ![s] = @ + 1]
          /\ Goto(s, "loop")
     ELSE UNCHANGED <<pods, backoff, streak>> /\ Die(s)
  /\ UNCHANGED <<abandoned, otherVars, target, lastExit, mainVars, budget>>

\* The context is done: every blocking call of a watcher returns, and the
\* watcher with it.  A RunPodSandbox under way is abandoned, not undone.
WatcherCancelled(s) ==
  /\ signalled
  /\ ~Over(s)
  /\ Goto(s, "done")
  /\ abandoned' = IF watcher[s] = "run" THEN abandoned \cup {s} ELSE abandoned
  /\ UNCHANGED <<pods, otherVars, target, backoff, streak, lastExit, mainVars, budget>>

\* A CRI call fails.  Removing the old pod may fail half way.
CallFails(s) ==
  /\ ~Over(s)
  /\ CanFault /\ Spend("faults")
  /\ \/ UNCHANGED pods
     \/ /\ watcher[s] = "backoff"
        /\ pods' = [pods EXCEPT ![s] =
                      [k \in DOMAIN @ |-> IF @[k] = "gone" THEN "gone" ELSE "sandbox"]]
  /\ Die(s)
  /\ UNCHANGED <<abandoned, otherVars, target, backoff, streak, lastExit, mainVars>>

WatcherStep(s) ==
  /\ main # "exited"
  /\ \/ Lookup(s)
     \/ \E ranLong \in BOOLEAN : SeeExit(s, ranLong)
     \/ SeeRemoved(s)
     \/ RemoveOld(s) \/ RunPodSandbox(s) \/ SandboxReady(s)
     \/ CreateContainer(s) \/ StartContainer(s)
     \/ WatcherCancelled(s)

----------------------------------------------------------------------------
(***************************************************************************)
(* criForeground and shutdownServices.                                     *)
(***************************************************************************)
Signal ==
  /\ main \in {"start", "select"}
  /\ ~signalled
  /\ signalled' = TRUE
  /\ inFlight' = {s \in Services : watcher[s] = "run"}
  /\ known' = [s \in Services |-> Len(pods[s])]
  /\ UNCHANGED <<rtVars, watchVars, stopped, main, shutTodo, shutPods, clean, budget>>

BeginShutdown ==
  /\ signalled
  /\ stopped' = TRUE
  /\ main' = "shutdown"
  /\ shutTodo' = StopSeq
  /\ UNCHANGED <<rtVars, watchVars, signalled, shutPods, clean, inFlight, known, budget>>

\* Run returned: all watchers are over, and nothing is taken down.
SupervisorReturns ==
  /\ \A s \in Services : Over(s)
  /\ main' = "exited"
  /\ UNCHANGED <<rtVars, watchVars, signalled, stopped, shutTodo, shutPods, clean,
                 inFlight, known, budget>>

\* Reaching the select: if both channels are ready, Go takes either.
EnterSelect ==
  /\ main = "start"
  /\ \/ BeginShutdown
     \/ SupervisorReturns
     \/ /\ ~signalled
        /\ \E s \in Services : ~Over(s)
        /\ main' = "select"
        /\ UNCHANGED <<rtVars, watchVars, signalled, stopped, shutTodo, shutPods, clean,
                       inFlight, known, budget>>

\* Parked in the select, the first of the two events decides.
LeaveSelect ==
  /\ main = "select"
  /\ \/ BeginShutdown
     \/ ~signalled /\ SupervisorReturns

\* ServiceDown lists the pods of the next service ...
ListForDown ==
  /\ main = "shutdown"
  /\ shutTodo # <<>>
  /\ shutPods' = Live(Head(shutTodo))
  /\ main' = "teardown"
  /\ UNCHANGED <<rtVars, watchVars, signalled, stopped, shutTodo, clean, inFlight, known,
                 budget>>

\* ... and for each stops the container,
StopForDown(k, st) ==
  /\ main = "teardown"
  /\ k \in shutPods
  /\ pods[Head(shutTodo)][k] = "running"
  /\ pods' = [pods EXCEPT ![Head(shutTodo)][k] = st]
  /\ UNCHANGED <<abandoned, otherVars, watchVars, mainVars, budget>>

\* ... then removes the container and the pod; a pod that is gone is no error.
RemoveForDown(k) ==
  /\ main = "teardown"
  /\ k \in shutPods
  /\ pods[Head(shutTodo)][k] # "running"
  /\ pods' = [pods EXCEPT ![Head(shutTodo)][k] = "gone"]
  /\ shutPods' = shutPods \ {k}
  /\ UNCHANGED <<abandoned, otherVars, watchVars, signalled, stopped, main, shutTodo, clean,
                 inFlight, known, budget>>

ServiceIsDown ==
  /\ main = "teardown"
  /\ shutPods = {}
  /\ shutTodo' = Tail(shutTodo)
  /\ main' = "shutdown"
  /\ UNCHANGED <<rtVars, watchVars, signalled, stopped, shutPods, clean, inFlight, known,
                 budget>>

AllDown ==
  /\ main = "shutdown"
  /\ shutTodo = <<>>
  /\ clean' = TRUE
  /\ main' = "await"
  /\ UNCHANGED <<rtVars, watchVars, signalled, stopped, shutTodo, shutPods, inFlight, known,
                 budget>>

\* A call fails or the 30 s are over: a warning, and the rest stays up.
ShutdownFails ==
  /\ main \in {"shutdown", "teardown"}
  /\ CanFault /\ Spend("faults")
  /\ shutPods' = {}
  /\ main' = "await"
  /\ UNCHANGED <<rtVars, watchVars, signalled, stopped, shutTodo, clean, inFlight, known>>

\* Mutant: no timer.
AwaitSupervisor_NoTimer ==
  /\ main = "await"
  /\ \A s \in Services : Over(s)
  /\ main' = "exited"
  /\ UNCHANGED <<rtVars, watchVars, signalled, stopped, shutTodo, shutPods, clean,
                 inFlight, known, budget>>

\* The watchers are over, or 5 s have passed.
AwaitSupervisor ==
  /\ main = "await"
  /\ main' = "exited"
  /\ UNCHANGED <<rtVars, watchVars, signalled, stopped, shutTodo, shutPods, clean,
                 inFlight, known, budget>>

MainStep ==
  \/ EnterSelect \/ LeaveSelect
  \/ ListForDown \/ ServiceIsDown \/ AllDown \/ AwaitSupervisor
  \/ main = "teardown" /\ \E k \in shutPods :
       \/ \E st \in Exited : StopForDown(k, st)
       \/ RemoveForDown(k)

----------------------------------------------------------------------------
(***************************************************************************)
(* The runtime and other processes.                                        *)
(***************************************************************************)
Exit(s, k, st) ==
  /\ pods[s][k] = "running"
  /\ budget.exits < MaxExits
  /\ Spend("exits")
  /\ pods' = [pods EXCEPT ![s][k] = st]
  /\ UNCHANGED <<abandoned, otherVars, watchVars, mainVars>>

\* The abandoned call completes in the runtime.
LateSandbox(s) ==
  /\ s \in abandoned
  /\ pods' = [pods EXCEPT ![s] = Append(@, "sandbox")]
  /\ abandoned' = abandoned \ {s}
  /\ UNCHANGED <<otherVars, watchVars, mainVars, budget>>

\* `stop` and `kill`, from another process.
UserStop(s, k, st) ==
  /\ pods[s][k] = "running"
  /\ budget.commands < MaxCommands
  /\ Spend("commands")
  /\ pods' = [pods EXCEPT ![s][k] = st]
  /\ UNCHANGED <<abandoned, otherVars, watchVars, mainVars>>

\* `rm -s` or `down`, from another process.
UserRemove(s, k) ==
  /\ pods[s][k] # "gone"
  /\ budget.commands < MaxCommands
  /\ Spend("commands")
  /\ pods' = [pods EXCEPT ![s][k] = "gone"]
  /\ UNCHANGED <<abandoned, otherVars, watchVars, mainVars>>

\* A second `up` (or its watcher): ServiceUp again, from another process.
UserUp(p, s) ==
  /\ other[p].at = "idle"
  /\ budget.commands < MaxCommands
  /\ Spend("commands")
  /\ pods' = [pods EXCEPT ![s] = [k \in DOMAIN @ |-> "gone"]]
  /\ other' = [other EXCEPT ![p] = [at |-> "make", svc |-> s, up |-> TRUE]]
  /\ raced' = IF OwnPending(s) \/ Pending(s) # {} THEN raced \cup {s} ELSE raced \ {s}
  /\ UNCHANGED <<abandoned, foreign, watchVars, mainVars>>

\* `create`: it removes nothing, and asks for nothing that is there.
UserCreate(p, s) ==
  /\ other[p].at = "idle"
  /\ budget.commands < MaxCommands
  /\ Spend("commands")
  /\ other' = [other EXCEPT ![p] = [at |-> "make", svc |-> s, up |-> FALSE]]
  /\ raced' = IF Live(s) # {} \/ OwnPending(s) \/ Pending(s) # {} THEN raced \cup {s}
              ELSE raced
  /\ UNCHANGED <<pods, abandoned, foreign, watchVars, mainVars>>

\* Its pod,
OtherSandbox(p) ==
  /\ other[p].at = "make"
  /\ LET s == other[p].svc IN
       /\ pods' = [pods EXCEPT ![s] = Append(@, "sandbox")]
       /\ foreign' = [foreign EXCEPT ![s] = @ \cup {Len(pods[s]) + 1}]
       /\ other' = [other EXCEPT ![p] = [at |-> "create", svc |-> s, up |-> @.up,
                                        pod |-> Len(pods[s]) + 1]]
  /\ UNCHANGED <<abandoned, raced, watchVars, mainVars, budget>>

\* ... its container,
OtherContainer(p) ==
  /\ other[p].at = "create"
  /\ pods[other[p].svc][other[p].pod] = "sandbox"
  /\ pods' = [pods EXCEPT ![other[p].svc][other[p].pod] = "created"]
  /\ other' = [other EXCEPT ![p] = IF @.up THEN [@ EXCEPT !.at = "start"]
                                  ELSE [at |-> "idle"]]
  /\ UNCHANGED <<abandoned, foreign, raced, watchVars, mainVars, budget>>

\* ... which `up` starts.
OtherStart(p) ==
  /\ other[p].at = "start"
  /\ pods[other[p].svc][other[p].pod] = "created"
  /\ pods' = [pods EXCEPT ![other[p].svc][other[p].pod] = "running"]
  /\ other' = [other EXCEPT ![p] = [at |-> "idle"]]
  /\ UNCHANGED <<abandoned, foreign, raced, watchVars, mainVars, budget>>

\* A call of it fails, or it is killed.
OtherEnds(p) ==
  /\ other[p].at # "idle"
  /\ other' = [other EXCEPT ![p] = [at |-> "idle"]]
  /\ UNCHANGED <<pods, abandoned, foreign, raced, watchVars, mainVars, budget>>

OtherStep(p) ==
  \/ \E s \in Services : UserUp(p, s) \/ UserCreate(p, s)
  \/ OtherSandbox(p) \/ OtherContainer(p) \/ OtherStart(p) \/ OtherEnds(p)

SupNext ==
  \/ \E s \in Services : WatcherStep(s)
  \/ main # "exited" /\ \E s \in Services : CallFails(s)
  \/ MainStep
  \/ Signal \/ ShutdownFails
  \/ \E s \in Services : \E k \in DOMAIN pods[s] :
       \/ \E st \in Exited : Exit(s, k, st) \/ UserStop(s, k, st)
       \/ UserRemove(s, k)
  \/ \E s \in Services : LateSandbox(s)
  \/ \E p \in Others : OtherStep(p)

SupSpec == SupInit /\ [][SupNext]_vars

\* Every call of the watcher of s returns.
WatcherFair(s) == WF_vars(WatcherStep(s))

\* The shutdown has its own deadlines, whatever the watchers do.
SupFairSpec == SupSpec /\ WF_vars(MainStep)

----------------------------------------------------------------------------
SupTypeOK ==
  /\ pods \in [Services -> Seq({"sandbox", "created", "running", "exit0", "exit1", "gone"})]
  /\ watcher \in [Services -> {"loop", "wait", "backoff", "image", "run", "create", "start",
                               "done", "died"}]
  /\ \A s \in Services : target[s] \in DOMAIN pods[s]
  /\ main \in {"start", "select", "shutdown", "teardown", "await", "exited"}
  /\ shutTodo = <<>> => shutPods = {}
  /\ abandoned \subseteq Services
  /\ \A s \in Services : foreign[s] \subseteq DOMAIN pods[s]
  /\ \A p \in Others : other[p].at \in {"create", "start"} =>
                       other[p].pod \in foreign[other[p].svc]

(***************************************************************************)
(* The next lookup takes any one of the pods (supervisor.go:192-211).  A   *)
(* watcher's own restarts never leave two, whatever else makes pods; and a *)
(* service has two pods at all only if creators met that nothing keeps     *)
(* apart: `create` beside a pod or another creator (create.go:72-107), or  *)
(* two ServiceUps of which the second listed before the first had its pod  *)
(* (lifecycle.go:32-63).  A listing that meets no creator ends that.       *)
(***************************************************************************)
OnePod ==
  \A s \in Services :
    /\ Cardinality(Live(s) \ foreign[s]) <= 1
    /\ Cardinality(Live(s)) > 1 => s \in raced

(***************************************************************************)
(* Exponential backoff, exactly: after n restarts since the last long run  *)
(* the backoff is 2^n times the minimum, up to the maximum                 *)
(* (supervisor.go:108-137).                                                *)
(***************************************************************************)
BackoffExact ==
  \A s \in Services : backoff[s] = Min2(BackoffMin * 2^streak[s], BackoffMax)

(***************************************************************************)
(* A pod a watcher adds replaces a container that it saw exit with a code  *)
(* its policy restarts (restart.go:29-40, supervisor.go:141-168).          *)
(***************************************************************************)
RestartsByPolicy ==
  [][\A s \in Services : Len(pods'[s]) > Len(pods[s]) /\ Len(pods'[s]) \notin foreign'[s] =>
       \/ Policy[s] \in {"always", "unless-stopped"} /\ lastExit[s] \in Exited
       \/ Policy[s] = "on-failure" /\ lastExit[s] = "exit1"]_vars

(***************************************************************************)
(* Shutdown against restarts and other processes: if shutdownServices      *)
(* returned no error, every pod there was at the signal is gone.  A later  *)
(* one may be left if it comes from a RunPodSandbox that was under way at  *)
(* the signal, or from another process (up.go:243-284, down.go:45-64).     *)
(***************************************************************************)
MayBeLeft(s, k) == k > known[s] /\ (s \in inFlight \/ k \in foreign[s])

LeakBounded == clean => \A s \in Services : \A k \in Live(s) : MayBeLeft(s, k)

(***************************************************************************)
(* After a signal the process ends, even if a watcher hangs in a call      *)
(* (up.go:266-285).                                                        *)
(***************************************************************************)
SignalEnds == signalled ~> main = "exited"

(***************************************************************************)
(* A container that exits under restart: always, or unless-stopped, runs   *)
(* again, if the calls of its watcher return, unless the watcher has died, *)
(* its lookup has taken the pod of another process, or the process is      *)
(* ending (supervisor.go:108-189).                                         *)
(***************************************************************************)
ExitedIsRestarted ==
  \A s \in Services : WatcherFair(s) =>
    Policy[s] \in {"always", "unless-stopped"} /\ (\E k \in Live(s) : pods[s][k] \in Exited) ~>
      \/ \E k \in Live(s) : pods[s][k] = "running"
      \/ watcher[s] = "died" \/ target[s] \in foreign[s] \/ signalled \/ main = "exited"

----------------------------------------------------------------------------
(***************************************************************************)
(* What the documentation says of foreground mode.                         *)
(***************************************************************************)

(***************************************************************************)
(* "always, on-failure and unless-stopped are enforced by a built-in       *)
(* supervisor with exponential backoff while nix-compose runs in the       *)
(* foreground": an exited container under restart: always runs again.      *)
(***************************************************************************)
PolicyEnforced ==
  \A s \in Services : WatcherFair(s) =>
    Policy[s] = "always" /\ (\E k \in Live(s) : pods[s][k] \in Exited) ~>
      (\E k \in Live(s) : pods[s][k] = "running") \/ signalled \/ main = "exited"
=============================================================================
