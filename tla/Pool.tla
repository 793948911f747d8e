-------------------------------- MODULE Pool ---------------------------------
(***************************************************************************)
(* The worker pool of the engine (pkg/orchestrate/deploy/pool.go and       *)
(* worker.go): Add puts the requests of a deployment into the feedback     *)
(* channel, Schedule moves them to the queue, workers process them and send*)
(* the failed ones back, and Stop closes all three channels.               *)
(*                                                                         *)
(* A channel is the sequence of its buffered values; a receive from a      *)
(* closed and empty channel yields nil, a send to a closed one panics, and *)
(* a select takes any case that is ready.                                  *)
(***************************************************************************)
EXTENDS Integers, Sequences, FiniteSets, SequencesExt

CONSTANTS Workers,      \* DefaultNrWorkers of them
          Requests,     \* the requests of the deployments that are added
          SubjectOf,    \* the subject id of each request
          Cap,          \* the capacity of both channels
          MaxFailures   \* bound on failing calls of Process

ASSUME WorkersFinite == IsFiniteSet(Workers) /\ Workers # {}
ASSUME RequestsFinite == IsFiniteSet(Requests)
ASSUME CapPositive == Cap \in Nat \ {0}

VARIABLES
  toAdd,       \* requests no Add call has sent yet
  feedback,    \* the feedback channel
  queue,       \* the queue channel
  closed,      \* the channels that are closed
  sched,       \* Schedule: its position and the request it holds
  work,        \* each worker: its position and the request it holds
  tracker,     \* Track
  cancelled,   \* the cancelled map
  stop,        \* how far Stop has come
  panicked,    \* a goroutine sent to a closed channel: the process is dead
  failures,    \* failed calls of Process so far
  done,        \* ghost: requests processed successfully
  dropped,     \* ghost: requests skipped as cancelled
  busyAtStop   \* ghost: Stop was called with requests under way

poolVars == <<toAdd, feedback, queue, closed, sched, work, tracker, cancelled, stop,
              panicked, failures, done, dropped, busyAtStop>>

Idle(pc) == [pc |-> pc, req |-> {}]

Holding(pc, r) == [pc |-> pc, req |-> {r}]

\* What is somewhere between Add and its end.
InPool == Range(feedback) \cup Range(queue) \cup sched.req \cup UNION {work[w].req : w \in Workers}

NewPool ==
  /\ toAdd = Requests
  /\ feedback = <<>> /\ queue = <<>>
  /\ closed = {}
  /\ sched = Idle("select")
  /\ work = [w \in Workers |-> Idle("select")]
  /\ tracker = "run"
  /\ cancelled = {}
  /\ stop = "no"
  /\ panicked = FALSE
  /\ failures = 0
  /\ done = {} /\ dropped = {} /\ busyAtStop = FALSE

\* Add sends a request, and blocks while the channel is full.
Add(r) ==
  /\ r \in toAdd
  /\ stop = "no"
  /\ Len(feedback) < Cap
  /\ feedback' = Append(feedback, r)
  /\ toAdd' = toAdd \ {r}
  /\ UNCHANGED <<queue, closed, sched, work, tracker, cancelled, stop, panicked, failures,
                 done, dropped, busyAtStop>>

\* Cancel marks the subjects of a deployment; nothing ever unmarks them.
Cancel(R) ==
  /\ stop = "no"
  /\ cancelled' = cancelled \cup {SubjectOf[r] : r \in R}
  /\ UNCHANGED <<toAdd, feedback, queue, closed, sched, work, tracker, stop, panicked,
                 failures, done, dropped, busyAtStop>>

----------------------------------------------------------------------------
(***************************************************************************)
(* Schedule.                                                               *)
(***************************************************************************)
\* The outer select receives a request, which is skipped or held.
ScheduleReceive ==
  /\ sched.pc = "select"
  /\ feedback # <<>>
  /\ feedback' = Tail(feedback)
  /\ LET r == Head(feedback)
     IN  IF SubjectOf[r] \in cancelled
         THEN dropped' = dropped \cup {r} /\ UNCHANGED sched
         ELSE sched' = Holding("send", r) /\ UNCHANGED dropped
  /\ UNCHANGED <<toAdd, queue, closed, work, tracker, cancelled, stop, panicked, failures,
                 done, busyAtStop>>

\* The inner select, after the rate limit's sleep, sends to the queue ...
ScheduleSend ==
  /\ sched.pc = "send"
  /\ "queue" \notin closed
  /\ Len(queue) < Cap
  /\ queue' = queue \o SetToSeq(sched.req)
  /\ sched' = Idle("select")
  /\ UNCHANGED <<toAdd, feedback, closed, work, tracker, cancelled, stop, panicked,
                 failures, done, dropped, busyAtStop>>

\* Mutant: nil from the closed feedback channel is passed on.
SchedulePanics_NilForwarded ==
  /\ sched.pc = "send" \/ ("feedback" \in closed /\ feedback = <<>>)
  /\ "queue" \in closed
  /\ panicked' = TRUE
  /\ UNCHANGED <<toAdd, feedback, queue, closed, sched, work, tracker, cancelled, stop,
                 failures, done, dropped, busyAtStop>>

\* ... or panics if the queue is closed; a select may choose this case.
SchedulePanics ==
  /\ sched.pc = "send"
  /\ "queue" \in closed
  /\ panicked' = TRUE
  /\ UNCHANGED <<toAdd, feedback, queue, closed, sched, work, tracker, cancelled, stop,
                 failures, done, dropped, busyAtStop>>

\* Either select sees the close channel, or the outer one nil from feedback.
ScheduleEnds ==
  /\ sched.pc # "done"
  /\ \/ "close" \in closed
     \/ sched.pc = "select" /\ "feedback" \in closed /\ feedback = <<>>
  /\ sched' = [sched EXCEPT !.pc = "done"]
  /\ UNCHANGED <<toAdd, feedback, queue, closed, work, tracker, cancelled, stop, panicked,
                 failures, done, dropped, busyAtStop>>

\* Track: its batch changes no rollout record, since nothing is saved.
TrackEnds ==
  /\ tracker = "run"
  /\ "close" \in closed
  /\ tracker' = "done"
  /\ UNCHANGED <<toAdd, feedback, queue, closed, sched, work, cancelled, stop, panicked,
                 failures, done, dropped, busyAtStop>>

----------------------------------------------------------------------------
(***************************************************************************)
(* A worker.  Nobody calls Worker.Stop, so its close channel stays open.   *)
(***************************************************************************)
WorkerReceive(w) ==
  /\ work[w].pc = "select"
  /\ queue # <<>>
  /\ queue' = Tail(queue)
  /\ work' = [work EXCEPT ![w] = Holding("process", Head(queue))]
  /\ UNCHANGED <<toAdd, feedback, closed, sched, tracker, cancelled, stop, panicked,
                 failures, done, dropped, busyAtStop>>

WorkerSucceeds(w) ==
  /\ work[w].pc = "process"
  /\ done' = done \cup work[w].req
  /\ work' = [work EXCEPT ![w] = Idle("select")]
  /\ UNCHANGED <<toAdd, feedback, queue, closed, sched, tracker, cancelled, stop, panicked,
                 failures, dropped, busyAtStop>>

\* Mutant: a failed request is not rescheduled.
WorkerFails_Forgets(w) ==
  /\ work[w].pc = "process"
  /\ failures < MaxFailures
  /\ failures' = failures + 1
  /\ work' = [work EXCEPT ![w] = Idle("select")]
  /\ UNCHANGED <<toAdd, feedback, queue, closed, sched, tracker, cancelled, stop, panicked,
                 done, dropped, busyAtStop>>

\* Process fails: the request is to be rescheduled.
WorkerFails(w) ==
  /\ work[w].pc = "process"
  /\ failures < MaxFailures
  /\ failures' = failures + 1
  /\ work' = [work EXCEPT ![w].pc = "feedback"]
  /\ UNCHANGED <<toAdd, feedback, queue, closed, sched, tracker, cancelled, stop, panicked,
                 done, dropped, busyAtStop>>

\* Mutant: the request is sent to feedback and kept.
WorkerReschedules_Keeps(w) ==
  /\ work[w].pc = "feedback"
  /\ "feedback" \notin closed
  /\ Len(feedback) < Cap
  /\ feedback' = feedback \o SetToSeq(work[w].req)
  /\ work' = [work EXCEPT ![w].pc = "process"]
  /\ UNCHANGED <<toAdd, queue, closed, sched, tracker, cancelled, stop, panicked, failures,
                 done, dropped, busyAtStop>>

WorkerReschedules(w) ==
  /\ work[w].pc = "feedback"
  /\ "feedback" \notin closed
  /\ Len(feedback) < Cap
  /\ feedback' = feedback \o SetToSeq(work[w].req)
  /\ work' = [work EXCEPT ![w] = Idle("select")]
  /\ UNCHANGED <<toAdd, queue, closed, sched, tracker, cancelled, stop, panicked, failures,
                 done, dropped, busyAtStop>>

WorkerPanics(w) ==
  /\ work[w].pc = "feedback"
  /\ "feedback" \in closed
  /\ panicked' = TRUE
  /\ UNCHANGED <<toAdd, feedback, queue, closed, sched, work, tracker, cancelled, stop,
                 failures, done, dropped, busyAtStop>>

\* The closed queue is drained before it yields nil.
WorkerEnds(w) ==
  /\ work[w].pc = "select"
  /\ "queue" \in closed
  /\ queue = <<>>
  /\ work' = [work EXCEPT ![w] = Idle("done")]
  /\ UNCHANGED <<toAdd, feedback, queue, closed, sched, tracker, cancelled, stop, panicked,
                 failures, done, dropped, busyAtStop>>

----------------------------------------------------------------------------
(***************************************************************************)
(* Stop: close, queue and feedback are closed one after the other, and     *)
(* every goroutine is waited for.  Close is called after Apply returned,   *)
(* so no Add is under way.                                                 *)
(***************************************************************************)
StopCalled ==
  /\ stop = "no"
  /\ stop' = "close"
  /\ toAdd' = {}
  /\ busyAtStop' = (InPool # {})
  /\ UNCHANGED <<feedback, queue, closed, sched, work, tracker, cancelled, panicked,
                 failures, done, dropped>>

StopCloses(c, then) ==
  /\ stop = c
  /\ closed' = closed \cup {c}
  /\ stop' = then
  /\ UNCHANGED <<toAdd, feedback, queue, sched, work, tracker, cancelled, panicked,
                 failures, done, dropped, busyAtStop>>

AllOver ==
  sched.pc = "done" /\ tracker = "done" /\ \A w \in Workers : work[w].pc = "done"

StopReturns ==
  /\ stop = "wait"
  /\ AllOver
  /\ stop' = "returned"
  /\ UNCHANGED <<toAdd, feedback, queue, closed, sched, work, tracker, cancelled, panicked,
                 failures, done, dropped, busyAtStop>>

\* Mutant: the queue is never closed.
StopStep_QueueOpen ==
  \/ StopCloses("close", "feedback") \/ StopCloses("feedback", "wait")
  \/ StopReturns

StopStep ==
  \/ StopCloses("close", "queue") \/ StopCloses("queue", "feedback")
  \/ StopCloses("feedback", "wait")
  \/ StopReturns

GoroutineStep ==
  \/ ScheduleReceive \/ ScheduleSend \/ SchedulePanics \/ ScheduleEnds
  \/ TrackEnds
  \/ \E w \in Workers :
       \/ WorkerReceive(w) \/ WorkerSucceeds(w) \/ WorkerFails(w)
       \/ WorkerReschedules(w) \/ WorkerPanics(w) \/ WorkerEnds(w)

PoolNext ==
  /\ ~panicked
  /\ \/ \E r \in Requests : Add(r) \/ Cancel({r})
     \/ GoroutineStep
     \/ StopCalled \/ StopStep

PoolSpec == NewPool /\ [][PoolNext]_poolVars

\* The Go scheduler runs every goroutine that can run, Process returns, and a
\* request does not fail for ever (MaxFailures).
PoolFairSpec ==
  /\ PoolSpec
  /\ WF_poolVars(\E r \in Requests : ~panicked /\ Add(r))
  /\ WF_poolVars(~panicked /\ GoroutineStep)
  /\ WF_poolVars(~panicked /\ StopStep)

----------------------------------------------------------------------------
PoolTypeOK ==
  /\ toAdd \subseteq Requests
  /\ feedback \in Seq(Requests) /\ Len(feedback) <= Cap
  /\ queue \in Seq(Requests) /\ Len(queue) <= Cap
  /\ closed \subseteq {"close", "queue", "feedback"}
  /\ sched.pc \in {"select", "send", "done"} /\ sched.req \subseteq Requests
  /\ \A w \in Workers : /\ work[w].pc \in {"select", "process", "feedback", "done"}
                        /\ work[w].req \subseteq Requests
                        /\ (work[w].req = {} <=> work[w].pc \in {"select", "done"})
  /\ stop \in {"no", "close", "queue", "feedback", "wait", "returned"}
  /\ panicked \in BOOLEAN

\* How many copies of a request there are between Add and its end.
Copies(r) ==
  Cardinality({i \in DOMAIN feedback : feedback[i] = r})
    + Cardinality({i \in DOMAIN queue : queue[i] = r})
    + (IF r \in sched.req THEN 1 ELSE 0)
    + Cardinality({w \in Workers : r \in work[w].req})

(***************************************************************************)
(* No request is lost or duplicated on its way round the channels: until   *)
(* Stop is called, each one is still to be added, or in exactly one place, *)
(* or processed, or skipped, so that it is never processed twice           *)
(* (pool.go:61-71, 160-189; worker.go:25-62).                              *)
(***************************************************************************)
Conserved ==
  \A r \in Requests :
    IF r \in toAdd \cup done \cup dropped
    THEN Copies(r) = 0 /\ ~(r \in done /\ r \in dropped)
    ELSE stop = "no" => Copies(r) = 1

(***************************************************************************)
(* Stop panics only if it interrupts work: an idle pool, which is all that *)
(* plan/apply ever has, stops cleanly; and when Stop has returned, every   *)
(* goroutine is over and no request is being processed on a database that  *)
(* is about to be closed (engine.go:166-176).                              *)
(***************************************************************************)
StopIsSafe ==
  /\ panicked => busyAtStop
  /\ stop = "returned" => /\ AllOver
                          /\ \A w \in Workers : work[w].req = {}
                          /\ queue = <<>>

(***************************************************************************)
(* Every request is processed, skipped as cancelled, or interrupted by     *)
(* Stop, although both channels and all workers block one another when     *)
(* they are full: a load of 2 * Cap + |Workers| is never stuck.            *)
(***************************************************************************)
LoadIsServed == <>(done \cup dropped = Requests \/ stop # "no")

(***************************************************************************)
(* Stop returns, unless it panics.                                         *)
(***************************************************************************)
StopTerminates == (stop # "no") ~> (stop = "returned" \/ panicked)
=============================================================================
