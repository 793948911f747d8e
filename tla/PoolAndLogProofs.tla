-------------------------- MODULE PoolAndLogProofs ---------------------------
(***************************************************************************)
(* What is proved of the two components that run beside the engine and     *)
(* share nothing, the worker pool and the log follower.                    *)
(*                                                                         *)
(* Of Pool, for any number of workers, requests and slots: its types, that *)
(* no request is lost or duplicated on its way round the channels, and     *)
(* that Stop is safe.  Copies counts places.  The inductive invariant says *)
(* the same without counting: the places a request can be in are apart     *)
(* from one another, and until Stop they cover all requests.               *)
(*                                                                         *)
(* Of LogFollow, for any services, lines and truncations: that nothing is  *)
(* skipped between the first offset and the present one, and that nothing  *)
(* is printed three times.  Here too places stand for numbers: a cell is   *)
(* printed at most twice if of any three places two are the same.          *)
(***************************************************************************)
EXTENDS Pool, LogFollow, FiniteSetTheorems, SequenceTheorems, WellFoundedInduction, TLAPS

(***************************************************************************)
(* The worker pool.                                                        *)
(***************************************************************************)
PoolTypes ==
  /\ toAdd \subseteq Requests /\ done \subseteq Requests /\ dropped \subseteq Requests
  /\ feedback \in Seq(Requests) /\ Len(feedback) <= Cap
  /\ queue \in Seq(Requests) /\ Len(queue) <= Cap
  /\ closed \subseteq {"close", "queue", "feedback"}
  /\ sched \in [pc : {"select", "send", "done"}, req : SUBSET Requests]
  /\ work \in [Workers -> [pc : {"select", "process", "feedback", "done"},
                           req : SUBSET Requests]]
  /\ stop \in {"no", "close", "queue", "feedback", "wait", "returned"}
  /\ panicked \in BOOLEAN /\ busyAtStop \in BOOLEAN

\* A goroutine at its outer select holds nothing, one further on a request.
Hands ==
  /\ sched.pc = "select" => sched.req = {}
  /\ sched.pc = "send" => \E r \in Requests : sched.req = {r}
  /\ \A w \in Workers :
       /\ work[w].pc \in {"select", "done"} => work[w].req = {}
       /\ work[w].pc \in {"process", "feedback"} => \E r \in Requests : work[w].req = {r}

\* The requests on the way and the others.
Elsewhere == toAdd \cup done \cup dropped

\* No request is in two places.
ChannelsApart ==
  /\ \A i, j \in 1..Len(feedback) : feedback[i] = feedback[j] => i = j
  /\ \A i, j \in 1..Len(queue) : queue[i] = queue[j] => i = j
  /\ \A i \in 1..Len(feedback), j \in 1..Len(queue) : feedback[i] # queue[j]
  /\ \A i \in 1..Len(feedback) :
       /\ feedback[i] \notin sched.req /\ feedback[i] \notin Elsewhere
       /\ \A w \in Workers : feedback[i] \notin work[w].req
  /\ \A i \in 1..Len(queue) :
       /\ queue[i] \notin sched.req /\ queue[i] \notin Elsewhere
       /\ \A w \in Workers : queue[i] \notin work[w].req

HandsApart ==
  /\ sched.req \cap Elsewhere = {}
  /\ \A w \in Workers : /\ work[w].req \cap sched.req = {}
                        /\ work[w].req \cap Elsewhere = {}
  /\ \A v, w \in Workers : v # w => work[v].req \cap work[w].req = {}
  /\ toAdd \cap done = {} /\ toAdd \cap dropped = {} /\ done \cap dropped = {}

\* Until Stop is called every request is somewhere.
Covered ==
  stop = "no" =>
    \A r \in Requests :
      \/ r \in Elsewhere \/ r \in sched.req
      \/ \E i \in 1..Len(feedback) : feedback[i] = r
      \/ \E i \in 1..Len(queue) : queue[i] = r
      \/ \E w \in Workers : r \in work[w].req

\* Channels are closed by Stop only, an idle pool stays idle, and a worker ends
\* when the queue is closed and drained, after which nothing is sent to it.
Stopping ==
  /\ closed # {} => stop # "no"
  /\ stop # "no" /\ ~busyAtStop =>
       /\ feedback = <<>> /\ queue = <<>> /\ sched.req = {}
       /\ \A w \in Workers : work[w].req = {}
  /\ (\E w \in Workers : work[w].pc = "done") => "queue" \in closed /\ queue = <<>>
  /\ stop = "returned" => AllOver
  /\ panicked => busyAtStop

PoolInv ==
  PoolTypes /\ Hands /\ ChannelsApart /\ HandsApart /\ Covered /\ Stopping

----------------------------------------------------------------------------
(***************************************************************************)
(* What a send and a receive do to a channel.                              *)
(***************************************************************************)
\* The sequence of a set with one element.
LEMMA SingletonSeq ==
  ASSUME NEW r
  PROVE  SetToSeq({r}) = <<r>>
  <1>1. Cardinality({r}) = 1
    BY FS_Singleton
  <1>2. 1..1 = {1}
    OBVIOUS
  <1>3. [i \in {1} |-> r] \in [{1} -> {r}] /\ IsInjective([i \in {1} |-> r])
    BY DEF IsInjective
  <1>4. SetToSeq({r}) = CHOOSE f \in [{1} -> {r}] : IsInjective(f)
    BY <1>1, <1>2 DEF SetToSeq
  <1>5. SetToSeq({r}) \in [{1} -> {r}]
    BY <1>3, <1>4
  <1>6. SetToSeq({r}) = [i \in 1..1 |-> r]
    BY <1>2, <1>5
  <1> QED
    BY <1>6

\* Sending a request in hand is appending it.
LEMMA SendIsAppend ==
  ASSUME NEW s \in Seq(Requests), NEW r \in Requests
  PROVE  s \o SetToSeq({r}) = Append(s, r)
  <1>1. SetToSeq({r}) = <<r>>
    BY SingletonSeq
  <1>2. Append(s, r) = s \o <<r>>
    BY AppendIsConcat
  <1> QED
    BY <1>1, <1>2

LEMMA AppendElements ==
  ASSUME NEW s \in Seq(Requests), NEW r \in Requests
  PROVE  /\ Append(s, r) \in Seq(Requests)
         /\ Len(s) \in Nat /\ Len(Append(s, r)) = Len(s) + 1
         /\ \A i \in 1..Len(s) : Append(s, r)[i] = s[i]
         /\ Append(s, r)[Len(s) + 1] = r
  OBVIOUS

LEMMA TailElements ==
  ASSUME NEW s \in Seq(Requests), s # <<>>
  PROVE  /\ Tail(s) \in Seq(Requests)
         /\ Len(s) \in Nat \ {0} /\ Len(Tail(s)) = Len(s) - 1
         /\ \A i \in 1..Len(s) - 1 : Tail(s)[i] = s[i + 1]
         /\ Head(s) = s[1] /\ s[1] \in Requests
  OBVIOUS

----------------------------------------------------------------------------
(***************************************************************************)
(* The invariant is inductive.                                             *)
(***************************************************************************)
\* It holds of a new pool.
LEMMA PoolInvInit ==
  ASSUME NewPool
  PROVE  PoolInv
  <1> USE DEF NewPool, Idle
  <1>1. PoolTypes
    <2>1. <<>> \in Seq(Requests) /\ Len(<<>>) = 0
      OBVIOUS
    <2>2. [w \in Workers |-> [pc |-> "select", req |-> {}]]
            \in [Workers -> [pc : {"select", "process", "feedback", "done"},
                             req : SUBSET Requests]]
      OBVIOUS
    <2>3. panicked \in BOOLEAN /\ busyAtStop \in BOOLEAN
      BY Zenon
    <2> QED
      BY <2>1, <2>2, <2>3, CapPositive DEF PoolTypes
  <1>2. Hands /\ HandsApart
    BY DEF Hands, HandsApart, Elsewhere
  <1>3. ChannelsApart
    BY DEF ChannelsApart
  <1>4. Covered
    BY DEF Covered, Elsewhere
  <1>5. Stopping
    BY DEF Stopping
  <1> QED
    BY <1>1, <1>2, <1>3, <1>4, <1>5 DEF PoolInv

\* Add moves a request from toAdd to the feedback channel.
LEMMA AddStep ==
  ASSUME PoolInv, NEW r \in Requests, Add(r)
  PROVE  PoolInv'
  <1> USE DEF PoolInv, Add
  <1>1. /\ feedback' = Append(feedback, r) /\ feedback' \in Seq(Requests)
        /\ Len(feedback) \in Nat /\ Len(feedback') = Len(feedback) + 1
        /\ \A i \in 1..Len(feedback) : feedback'[i] = feedback[i]
        /\ feedback'[Len(feedback) + 1] = r
    BY AppendElements DEF PoolTypes
  <1>2. PoolTypes'
    BY <1>1, CapPositive DEF PoolTypes
  <1>3. Hands'
    BY DEF Hands
  <1>4. ChannelsApart'
    BY <1>1 DEF ChannelsApart, HandsApart, Elsewhere
  <1>5. HandsApart'
    BY DEF HandsApart, Elsewhere
  <1>6. Covered'
    BY <1>1 DEF Covered, Elsewhere
  <1>7. Stopping'
    BY DEF Stopping, AllOver
  <1> QED
    BY <1>2, <1>3, <1>4, <1>5, <1>6, <1>7

\* Schedule takes the oldest request from feedback, to skip or to hold it.
LEMMA ScheduleReceiveStep ==
  ASSUME PoolInv, ScheduleReceive
  PROVE  PoolInv'
  <1> USE DEF PoolInv, ScheduleReceive
  <1> DEFINE r == Head(feedback)
  <1>1. /\ feedback' = Tail(feedback) /\ feedback' \in Seq(Requests)
        /\ Len(feedback) \in Nat \ {0} /\ Len(feedback') = Len(feedback) - 1
        /\ \A i \in 1..Len(feedback) - 1 : feedback'[i] = feedback[i + 1]
        /\ r = feedback[1] /\ r \in Requests
    BY TailElements DEF PoolTypes
  <1>2. /\ sched \in [pc : {"select", "send", "done"}, req : SUBSET Requests]
        /\ sched.pc = "select" /\ sched.req = {}
    BY DEF PoolTypes, Hands
  <1>3. \/ dropped' = dropped \cup {r} /\ sched' = sched
        \/ sched' = [pc |-> "send", req |-> {r}] /\ dropped' = dropped
    BY DEF Holding
  <1> HIDE DEF r
  <1>4. PoolTypes'
    BY <1>1, <1>2, <1>3, CapPositive DEF PoolTypes
  <1>5. Hands'
    BY <1>1, <1>2, <1>3 DEF Hands
  <1>6. ChannelsApart'
    BY <1>1, <1>2, <1>3 DEF ChannelsApart, Elsewhere
  <1>7. HandsApart'
    BY <1>1, <1>2, <1>3 DEF HandsApart, ChannelsApart, Elsewhere
  <1>8. Covered'
    <2>1. ASSUME NEW i \in 1..Len(feedback)
          PROVE  feedback[i] = r \/ \E j \in 1..Len(feedback') : feedback'[j] = feedback[i]
      <3>1. i # 1 => i - 1 \in 1..Len(feedback') /\ feedback'[i - 1] = feedback[i]
        BY <1>1
      <3> QED
        BY <1>1, <3>1
    <2> QED
      BY <1>2, <1>3, <2>1 DEF Covered, Elsewhere
  <1>9. Stopping'
    BY <1>1, <1>2, <1>3 DEF Stopping, AllOver
  <1> QED
    BY <1>4, <1>5, <1>6, <1>7, <1>8, <1>9

\* Schedule sends what it holds to the queue.
LEMMA ScheduleSendStep ==
  ASSUME PoolInv, ScheduleSend
  PROVE  PoolInv'
  <1> USE DEF PoolInv, ScheduleSend
  <1>1. PICK r \in Requests : sched.req = {r}
    BY DEF Hands
  <1>2. /\ queue' = Append(queue, r) /\ queue' \in Seq(Requests)
        /\ Len(queue) \in Nat /\ Len(queue') = Len(queue) + 1
        /\ \A i \in 1..Len(queue) : queue'[i] = queue[i]
        /\ queue'[Len(queue) + 1] = r
    <2>1. queue' = queue \o SetToSeq({r}) /\ queue \in Seq(Requests)
      BY <1>1 DEF PoolTypes
    <2>2. queue' = Append(queue, r)
      BY <2>1, SendIsAppend
    <2>3. /\ Append(queue, r) \in Seq(Requests)
          /\ Len(queue) \in Nat /\ Len(Append(queue, r)) = Len(queue) + 1
          /\ \A i \in 1..Len(queue) : Append(queue, r)[i] = queue[i]
          /\ Append(queue, r)[Len(queue) + 1] = r
      BY <2>1, AppendElements
    <2> QED
      BY <2>2, <2>3
  <1>3. sched' = [pc |-> "select", req |-> {}]
    BY DEF Idle
  <1>4. PoolTypes'
    BY <1>2, <1>3, CapPositive DEF PoolTypes
  <1>5. Hands'
    BY <1>3 DEF Hands
  <1>6. ChannelsApart'
    <2>1. /\ \A i \in 1..Len(queue) : queue[i] # r
          /\ \A i \in 1..Len(feedback) : feedback[i] # r
          /\ r \notin Elsewhere /\ \A w \in Workers : r \notin work[w].req
      BY <1>1 DEF ChannelsApart, HandsApart
    <2>2. \A i \in 1..Len(queue') : IF i = Len(queue) + 1 THEN queue'[i] = r
                                    ELSE i \in 1..Len(queue) /\ queue'[i] = queue[i]
      BY <1>2
    <2>3. \A i, j \in 1..Len(queue') : queue'[i] = queue'[j] => i = j
      BY <2>1, <2>2 DEF ChannelsApart
    <2> QED
      BY <1>2, <1>3, <2>1, <2>2, <2>3, SMTT(30) DEF ChannelsApart, Elsewhere
  <1>7. HandsApart'
    BY <1>3 DEF HandsApart, Elsewhere
  <1>8. Covered'
    <2>1. \A i \in 1..Len(queue) : i \in 1..Len(queue') /\ queue'[i] = queue[i]
      BY <1>2
    <2>2. \E i \in 1..Len(queue') : queue'[i] = r
      BY <1>2
    <2> QED
      BY <1>1, <2>1, <2>2 DEF Covered, Elsewhere
  <1>9. Stopping'
    BY <1>1, <1>3 DEF Stopping, AllOver
  <1> QED
    BY <1>4, <1>5, <1>6, <1>7, <1>8, <1>9

\* A worker takes the oldest request from the queue.
LEMMA WorkerReceiveStep ==
  ASSUME PoolInv, NEW w \in Workers, WorkerReceive(w)
  PROVE  PoolInv'
  <1> USE DEF PoolInv, WorkerReceive
  <1> DEFINE r == Head(queue)
  <1>1. /\ queue' = Tail(queue) /\ queue' \in Seq(Requests)
        /\ Len(queue) \in Nat \ {0} /\ Len(queue') = Len(queue) - 1
        /\ \A i \in 1..Len(queue) - 1 : queue'[i] = queue[i + 1]
        /\ r = queue[1] /\ r \in Requests
    BY TailElements DEF PoolTypes
  <1>2. /\ work[w].req = {}
        /\ work'[w] = [pc |-> "process", req |-> {r}]
        /\ \A v \in Workers : v # w => work'[v] = work[v]
    BY DEF PoolTypes, Hands, Holding
  <1>3. work' \in [Workers -> [pc : {"select", "process", "feedback", "done"},
                               req : SUBSET Requests]]
    BY <1>1 DEF PoolTypes, Holding
  <1> HIDE DEF r
  <1>4. PoolTypes'
    BY <1>1, <1>3, CapPositive DEF PoolTypes
  <1>5. Hands'
    BY <1>1, <1>2 DEF Hands
  <1>6. ChannelsApart'
    <2>1. ASSUME NEW v \in Workers PROVE work'[v].req \subseteq work[v].req \cup {r}
      BY <1>2
    <2> QED
      BY <1>1, <2>1 DEF ChannelsApart, Elsewhere
  <1>7. HandsApart'
    <2>1. \A v \in Workers : r \notin work[v].req
      BY <1>1 DEF ChannelsApart
    <2>2. r \notin sched.req /\ r \notin Elsewhere
      BY <1>1 DEF ChannelsApart
    <2> QED
      BY <1>2, <2>1, <2>2 DEF HandsApart, Elsewhere
  <1>8. Covered'
    <2>1. ASSUME NEW i \in 1..Len(queue)
          PROVE  queue[i] = r \/ \E j \in 1..Len(queue') : queue'[j] = queue[i]
      <3>1. i # 1 => i - 1 \in 1..Len(queue') /\ queue'[i - 1] = queue[i]
        BY <1>1
      <3> QED
        BY <1>1, <3>1
    <2>2. \A q \in Requests : (\E v \in Workers : q \in work[v].req) =>
                              (\E v \in Workers : q \in work'[v].req)
      BY <1>2
    <2>3. \E v \in Workers : r \in work'[v].req
      BY <1>2
    <2>4. \A q \in Requests : (\E i \in 1..Len(queue) : queue[i] = q) =>
            q = r \/ \E j \in 1..Len(queue') : queue'[j] = q
      BY <2>1
    <2>5. UNCHANGED <<feedback, sched, Elsewhere, stop>>
      BY DEF Elsewhere
    <2> HIDE DEF WorkerReceive
    <2> QED
      BY <2>2, <2>3, <2>4, <2>5 DEF Covered
  <1>9. Stopping'
    BY <1>1, <1>2 DEF Stopping, AllOver, Hands
  <1> QED
    BY <1>4, <1>5, <1>6, <1>7, <1>8, <1>9

\* A worker is through with its request.
LEMMA WorkerSucceedsStep ==
  ASSUME PoolInv, NEW w \in Workers, WorkerSucceeds(w)
  PROVE  PoolInv'
  <1> USE DEF PoolInv, WorkerSucceeds
  <1>1. /\ work'[w] = [pc |-> "select", req |-> {}]
        /\ \A v \in Workers : v # w => work'[v] = work[v]
    BY DEF PoolTypes, Idle
  <1>2. work[w].req \subseteq Requests
    BY DEF PoolTypes
  <1>3. work' \in [Workers -> [pc : {"select", "process", "feedback", "done"},
                               req : SUBSET Requests]]
    BY DEF PoolTypes, Idle
  <1>4. PoolTypes'
    BY <1>2, <1>3 DEF PoolTypes
  <1>5. Hands'
    BY <1>1 DEF Hands
  <1>6. ChannelsApart'
    BY <1>1 DEF ChannelsApart, Elsewhere
  <1>7. HandsApart'
    BY <1>1 DEF HandsApart, Elsewhere
  <1>8. Covered'
    BY <1>1 DEF Covered, Elsewhere
  <1>9. Stopping'
    BY <1>1 DEF Stopping, AllOver, Hands
  <1> QED
    BY <1>4, <1>5, <1>6, <1>7, <1>8, <1>9

\* Process fails: the worker keeps the request, to send it back.
LEMMA WorkerFailsStep ==
  ASSUME PoolInv, NEW w \in Workers, WorkerFails(w)
  PROVE  PoolInv'
  <1> USE DEF PoolInv, WorkerFails
  <1>1. /\ work'[w].pc = "feedback"
        /\ \A v \in Workers : v # w => work'[v] = work[v]
        /\ \A v \in Workers : work'[v].req = work[v].req
    BY DEF PoolTypes
  <1>2. work' \in [Workers -> [pc : {"select", "process", "feedback", "done"},
                               req : SUBSET Requests]]
    BY DEF PoolTypes
  <1>3. PoolTypes'
    BY <1>2 DEF PoolTypes
  <1>4. Hands'
    BY <1>1 DEF Hands
  <1>5. ChannelsApart' /\ HandsApart'
    BY <1>1 DEF ChannelsApart, HandsApart, Elsewhere
  <1>6. Covered'
    BY <1>1 DEF Covered, Elsewhere
  <1>7. Stopping'
    BY <1>1 DEF Stopping, AllOver
  <1> QED
    BY <1>3, <1>4, <1>5, <1>6, <1>7

\* ... and does.
LEMMA WorkerReschedulesStep ==
  ASSUME PoolInv, NEW w \in Workers, WorkerReschedules(w)
  PROVE  PoolInv'
  <1> USE DEF PoolInv, WorkerReschedules
  <1>1. PICK r \in Requests : work[w].req = {r}
    BY DEF Hands
  <1>2. /\ feedback' = Append(feedback, r) /\ feedback' \in Seq(Requests)
        /\ Len(feedback) \in Nat /\ Len(feedback') = Len(feedback) + 1
        /\ \A i \in 1..Len(feedback) : feedback'[i] = feedback[i]
        /\ feedback'[Len(feedback) + 1] = r
    <2>1. feedback' = feedback \o SetToSeq({r}) /\ feedback \in Seq(Requests)
      BY <1>1 DEF PoolTypes
    <2>2. feedback' = Append(feedback, r)
      BY <2>1, SendIsAppend
    <2>3. /\ Append(feedback, r) \in Seq(Requests)
          /\ Len(feedback) \in Nat /\ Len(Append(feedback, r)) = Len(feedback) + 1
          /\ \A i \in 1..Len(feedback) : Append(feedback, r)[i] = feedback[i]
          /\ Append(feedback, r)[Len(feedback) + 1] = r
      BY <2>1, AppendElements
    <2> QED
      BY <2>2, <2>3
  <1>3. /\ work'[w] = [pc |-> "select", req |-> {}]
        /\ \A v \in Workers : v # w => work'[v] = work[v]
    BY DEF PoolTypes, Idle
  <1>4. work' \in [Workers -> [pc : {"select", "process", "feedback", "done"},
                               req : SUBSET Requests]]
    BY DEF PoolTypes, Idle
  <1>5. PoolTypes'
    BY <1>2, <1>4, CapPositive DEF PoolTypes
  <1>6. Hands'
    BY <1>3 DEF Hands
  <1>7. ChannelsApart'
    <2>1. /\ \A i \in 1..Len(queue) : queue[i] # r
          /\ \A i \in 1..Len(feedback) : feedback[i] # r
          /\ r \notin Elsewhere /\ r \notin sched.req
          /\ \A v \in Workers : r \notin work'[v].req
      BY <1>1, <1>3 DEF ChannelsApart, HandsApart
    <2>2. \A i \in 1..Len(feedback') :
            IF i = Len(feedback) + 1 THEN feedback'[i] = r
            ELSE i \in 1..Len(feedback) /\ feedback'[i] = feedback[i]
      BY <1>2
    <2>3. \A i, j \in 1..Len(feedback') : feedback'[i] = feedback'[j] => i = j
      BY <2>1, <2>2 DEF ChannelsApart
    <2>4. \A v \in Workers : work'[v].req \subseteq work[v].req
      BY <1>3
    <2> QED
      BY <2>1, <2>2, <2>3, <2>4 DEF ChannelsApart, Elsewhere
  <1>8. HandsApart'
    BY <1>3 DEF HandsApart, Elsewhere
  <1>9. Covered'
    <2>1. \A i \in 1..Len(feedback) :
            i \in 1..Len(feedback') /\ feedback'[i] = feedback[i]
      BY <1>2
    <2>2. \E i \in 1..Len(feedback') : feedback'[i] = r
      BY <1>2
    <2>3. \A v \in Workers : (v = w /\ work[v].req = {r}) \/ work'[v].req = work[v].req
      BY <1>1, <1>3
    <2> QED
      BY <2>1, <2>2, <2>3 DEF Covered, Elsewhere
  <1>10. Stopping'
    BY <1>1, <1>3 DEF Stopping, AllOver
  <1> QED
    BY <1>5, <1>6, <1>7, <1>8, <1>9, <1>10

\* A worker ends on nil from the closed queue.
LEMMA WorkerEndsStep ==
  ASSUME PoolInv, NEW w \in Workers, WorkerEnds(w)
  PROVE  PoolInv'
  <1> USE DEF PoolInv, WorkerEnds
  <1>1. /\ work'[w] = [pc |-> "done", req |-> {}] /\ work[w].req = {}
        /\ \A v \in Workers : v # w => work'[v] = work[v]
    BY DEF PoolTypes, Hands, Idle
  <1>2. work' \in [Workers -> [pc : {"select", "process", "feedback", "done"},
                               req : SUBSET Requests]]
    BY DEF PoolTypes, Idle
  <1>3. PoolTypes'
    BY <1>2 DEF PoolTypes
  <1>4. Hands'
    BY <1>1 DEF Hands
  <1>5. ChannelsApart' /\ HandsApart'
    BY <1>1 DEF ChannelsApart, HandsApart, Elsewhere
  <1>6. Covered'
    BY <1>1 DEF Covered, Elsewhere
  <1>7. Stopping'
    BY <1>1 DEF Stopping, AllOver
  <1> QED
    BY <1>3, <1>4, <1>5, <1>6, <1>7

\* The steps that move no request: Cancel, the ends of Schedule and Track.
LEMMA QuietSteps ==
  ASSUME PoolInv, ScheduleEnds \/ TrackEnds \/ (\E r \in Requests : Cancel({r}))
  PROVE  PoolInv'
  <1>1. CASE ScheduleEnds
    <2> USE <1>1 DEF PoolInv, ScheduleEnds
    <2>1. /\ sched' \in [pc : {"select", "send", "done"}, req : SUBSET Requests]
          /\ sched'.pc = "done" /\ sched'.req = sched.req
      BY DEF PoolTypes
    <2>2. PoolTypes' /\ Hands'
      BY <2>1 DEF PoolTypes, Hands
    <2>3. ChannelsApart' /\ HandsApart' /\ Covered'
      BY <2>1 DEF ChannelsApart, HandsApart, Covered, Elsewhere
    <2>4. Stopping'
      BY <2>1 DEF Stopping, AllOver
    <2> QED
      BY <2>2, <2>3, <2>4
  <1>2. CASE TrackEnds \/ (\E r \in Requests : Cancel({r}))
    <2>1. /\ UNCHANGED <<toAdd, feedback, queue, closed, sched, work, stop, panicked, done,
                         dropped, busyAtStop>>
          /\ tracker' = tracker \/ tracker' = "done"
      BY <1>2 DEF TrackEnds, Cancel
    <2>2. PoolTypes' /\ Hands' /\ ChannelsApart' /\ HandsApart' /\ Covered'
      BY <2>1 DEF PoolInv, PoolTypes, Hands, ChannelsApart, HandsApart, Covered, Elsewhere
    <2>3. Stopping'
      BY <2>1 DEF PoolInv, Stopping, AllOver
    <2> QED
      BY <2>2, <2>3 DEF PoolInv
  <1> QED
    BY <1>1, <1>2

\* Only a goroutine with a request in hand panics, and only after Stop.
LEMMA PanicSteps ==
  ASSUME PoolInv, SchedulePanics \/ (\E w \in Workers : WorkerPanics(w))
  PROVE  PoolInv'
  <1>1. /\ UNCHANGED <<toAdd, feedback, queue, closed, sched, work, tracker, stop, done,
                       dropped, busyAtStop>>
        /\ panicked' = TRUE /\ closed # {}
    BY DEF SchedulePanics, WorkerPanics
  <1>2. sched.req # {} \/ \E w \in Workers : work[w].req # {}
    BY DEF PoolInv, Hands, SchedulePanics, WorkerPanics
  <1>3. busyAtStop
    BY <1>1, <1>2 DEF PoolInv, Stopping, PoolTypes
  <1>4. PoolTypes' /\ Hands' /\ ChannelsApart' /\ HandsApart' /\ Covered'
    BY <1>1 DEF PoolInv, PoolTypes, Hands, ChannelsApart, HandsApart, Covered, Elsewhere
  <1>5. Stopping'
    BY <1>1, <1>3 DEF PoolInv, Stopping, AllOver
  <1> QED
    BY <1>4, <1>5 DEF PoolInv

\* Stop: what is under way when it is called is remembered.
LEMMA StopSteps ==
  ASSUME PoolInv, ~panicked, StopCalled \/ StopStep
  PROVE  PoolInv'
  <1>1. CASE StopCalled
    <2> USE <1>1 DEF PoolInv, StopCalled
    <2>1. ~busyAtStop' => /\ feedback = <<>> /\ queue = <<>> /\ sched.req = {}
                          /\ \A w \in Workers : work[w].req = {}
      <3>1. ASSUME InPool = {} PROVE feedback = <<>> /\ queue = <<>>
        <4>1. Range(feedback) = {} /\ Range(queue) = {}
          BY <3>1 DEF InPool
        <4>2. DOMAIN feedback = {} /\ DOMAIN queue = {}
          BY <4>1 DEF Range
        <4> QED
          BY <4>2, EmptySeq DEF PoolTypes
      <3>2. ASSUME InPool = {} PROVE sched.req = {} /\ \A w \in Workers : work[w].req = {}
        BY <3>2 DEF InPool
      <3> QED
        BY <3>1, <3>2
    <2>2. PoolTypes' /\ Hands' /\ ChannelsApart' /\ HandsApart' /\ Covered'
      BY DEF PoolTypes, Hands, ChannelsApart, HandsApart, Covered, Elsewhere
    <2>3. Stopping'
      BY <2>1 DEF Stopping, AllOver, PoolTypes
    <2> QED
      BY <2>2, <2>3
  <1>2. CASE StopStep
    <2>1. /\ UNCHANGED <<toAdd, feedback, queue, sched, work, tracker, panicked, done, dropped,
                         busyAtStop>>
          /\ stop # "no" /\ stop' \in {"queue", "feedback", "wait", "returned"}
          /\ closed \subseteq closed' /\ closed' \subseteq {"close", "queue", "feedback"}
          /\ stop' = "returned" => AllOver
      BY <1>2 DEF StopStep, StopCloses, StopReturns, PoolInv, PoolTypes
    <2>2. PoolTypes' /\ Hands' /\ ChannelsApart' /\ HandsApart' /\ Covered'
      BY <2>1 DEF PoolInv, PoolTypes, Hands, ChannelsApart, HandsApart, Covered, Elsewhere
    <2>3. Stopping'
      BY <2>1 DEF PoolInv, Stopping, AllOver
    <2> QED
      BY <2>2, <2>3 DEF PoolInv
  <1> QED
    BY <1>1, <1>2

\* Every step of the pool keeps the invariant.
LEMMA PoolInvStep ==
  ASSUME PoolInv, [PoolNext]_poolVars
  PROVE  PoolInv'
  <1>1. CASE UNCHANGED poolVars
    BY <1>1 DEF PoolInv, PoolTypes, Hands, ChannelsApart, HandsApart, Covered, Stopping,
                Elsewhere, AllOver, poolVars
  <1>2. ASSUME NEW r \in Requests, Add(r) PROVE PoolInv'
    BY <1>2, AddStep
  <1>3. CASE ScheduleReceive \/ ScheduleSend
    BY <1>3, ScheduleReceiveStep, ScheduleSendStep
  <1>4. ASSUME NEW w \in Workers,
               \/ WorkerReceive(w) \/ WorkerSucceeds(w) \/ WorkerFails(w)
               \/ WorkerReschedules(w) \/ WorkerEnds(w)
        PROVE  PoolInv'
    BY <1>4, WorkerReceiveStep, WorkerSucceedsStep, WorkerFailsStep, WorkerReschedulesStep,
       WorkerEndsStep
  <1>5. CASE ScheduleEnds \/ TrackEnds \/ (\E r \in Requests : Cancel({r}))
    BY <1>5, QuietSteps
  <1>6. CASE SchedulePanics \/ (\E w \in Workers : WorkerPanics(w))
    BY <1>6, PanicSteps
  <1>7. CASE ~panicked /\ (StopCalled \/ StopStep)
    BY <1>7, StopSteps
  <1> QED
    BY <1>1, <1>2, <1>3, <1>4, <1>5, <1>6, <1>7 DEF PoolNext, GoroutineStep

----------------------------------------------------------------------------
(***************************************************************************)
(* What follows from it.                                                   *)
(***************************************************************************)
\* At most one index of a channel that repeats nothing holds a given request.
LEMMA OneIndex ==
  ASSUME NEW s \in Seq(Requests), NEW r,
         \A i, j \in 1..Len(s) : s[i] = s[j] => i = j
  PROVE  Cardinality({i \in DOMAIN s : s[i] = r}) =
           IF \E i \in 1..Len(s) : s[i] = r THEN 1 ELSE 0
  <1> DEFINE I == {i \in DOMAIN s : s[i] = r}
  <1>1. DOMAIN s = 1..Len(s)
    OBVIOUS
  <1>2. ASSUME NEW i \in 1..Len(s), s[i] = r PROVE I = {i}
    BY <1>1, <1>2
  <1>3. ~(\E i \in 1..Len(s) : s[i] = r) => I = {}
    BY <1>1
  <1> QED
    BY <1>2, <1>3, FS_Singleton, FS_EmptySet

\* The invariant gives Conserved.
LEMMA PoolInvConserved ==
  ASSUME PoolInv
  PROVE  Conserved
  <1> USE DEF PoolInv
  <1> SUFFICES ASSUME NEW r \in Requests
               PROVE  IF r \in Elsewhere
                      THEN Copies(r) = 0 /\ ~(r \in done /\ r \in dropped)
                      ELSE stop = "no" => Copies(r) = 1
    BY DEF Conserved, Elsewhere
  <1> DEFINE F == {i \in DOMAIN feedback : feedback[i] = r}
             Q == {i \in DOMAIN queue : queue[i] = r}
             W == {w \in Workers : r \in work[w].req}
             InF == \E i \in 1..Len(feedback) : feedback[i] = r
             InQ == \E i \in 1..Len(queue) : queue[i] = r
             InS == r \in sched.req
             InW == \E w \in Workers : r \in work[w].req
  <1>1. Cardinality(F) = IF InF THEN 1 ELSE 0
    BY OneIndex DEF PoolTypes, ChannelsApart
  <1>2. Cardinality(Q) = IF InQ THEN 1 ELSE 0
    BY OneIndex DEF PoolTypes, ChannelsApart
  <1>3. Cardinality(W) = IF InW THEN 1 ELSE 0
    <2>1. ASSUME NEW w \in Workers, r \in work[w].req PROVE W = {w}
      BY <2>1 DEF HandsApart
    <2>2. ~InW => W = {}
      OBVIOUS
    <2> QED
      BY <2>1, <2>2, FS_Singleton, FS_EmptySet
  <1>4. Copies(r) = Cardinality(F) + Cardinality(Q) + (IF InS THEN 1 ELSE 0) + Cardinality(W)
    BY DEF Copies
  <1>5. /\ InF => ~InQ /\ ~InS /\ ~InW
        /\ InQ => ~InS /\ ~InW
        /\ InS => ~InW
    BY DEF ChannelsApart, HandsApart
  <1>6. r \in Elsewhere => ~InF /\ ~InQ /\ ~InS /\ ~InW /\ ~(r \in done /\ r \in dropped)
    BY DEF ChannelsApart, HandsApart
  <1>7. stop = "no" => r \in Elsewhere \/ InF \/ InQ \/ InS \/ InW
    BY DEF Covered
  <1> HIDE DEF F, Q, W, InF, InQ, InS, InW
  <1> QED
    BY <1>1, <1>2, <1>3, <1>4, <1>5, <1>6, <1>7

\* ... and StopIsSafe: there is a worker, and it ended on an empty queue.
LEMMA PoolInvStopIsSafe ==
  ASSUME PoolInv
  PROVE  StopIsSafe
BY WorkersFinite DEF PoolInv, Stopping, Hands, AllOver, StopIsSafe

\* The invariant is one of the pool.
LEMMA PoolInvariance == PoolSpec => []PoolInv
  <1>1. NewPool => PoolInv
    BY PoolInvInit
  <1>2. PoolInv /\ [PoolNext]_poolVars => PoolInv'
    BY PoolInvStep
  <1> QED
    BY <1>1, <1>2, PTL DEF PoolSpec

(***************************************************************************)
(* The pool's variables keep their types, and a worker holds a request     *)
(* exactly while it processes it or sends it back (worker.go:25-62).       *)
(***************************************************************************)
THEOREM PoolTypeCorrect == PoolSpec => []PoolTypeOK
  <1>1. PoolInv => PoolTypeOK
    BY DEF PoolInv, PoolTypes, Hands, PoolTypeOK
  <1> QED
    BY <1>1, PoolInvariance, PTL

(***************************************************************************)
(* No request is lost or duplicated on its way round the channels, however *)
(* many workers, requests and slots there are (pool.go:61-71, 160-189;     *)
(* worker.go:25-62).                                                       *)
(***************************************************************************)
THEOREM RequestsConserved == PoolSpec => []Conserved
  BY PoolInvariance, PoolInvConserved, PTL

(***************************************************************************)
(* Stop of an idle pool never panics, and when Stop has returned nothing   *)
(* is processed any more (pool.go:93-105, engine.go:166-176).              *)
(***************************************************************************)
THEOREM StopSafe == PoolSpec => []StopIsSafe
  BY PoolInvariance, PoolInvStopIsSafe, PTL

----------------------------------------------------------------------------
\* A nonempty set of numbers has a least element.
LEMMA LeastNumber ==
  ASSUME NEW T, T \subseteq Nat, T # {}
  PROVE  \E n \in T : n \in Nat /\ \A m \in Nat : m < n => m \notin T
  <1>1. PICK n \in T : \A m \in T : ~(<<m, n>> \in OpToRel(<, Nat))
    BY NatLessThanWellFounded, WFMin
  <1>2. n \in Nat /\ \A m \in T : ~(m < n)
    BY <1>1 DEF OpToRel
  <1> QED
    BY <1>2

\* A number of 1..N is the greatest of a nonempty set of such numbers.
LEMMA MaxIn ==
  ASSUME NEW N \in Nat, NEW T \in SUBSET (1..N), T # {}
  PROVE  Max(T) \in T /\ \A y \in T : Max(T) >= y
  <1> DEFINE Rest == {N - i : i \in T}
  <1>1. Rest \subseteq Nat /\ Rest # {}
    <2>1. \A i \in T : i \in 1..N /\ N - i \in Nat
      OBVIOUS
    <2>2. PICK i : i \in T
      OBVIOUS
    <2>3. N - i \in Rest
      BY <2>2
    <2> QED
      BY <2>1, <2>3
  <1>2. PICK d \in Rest : d \in Nat /\ \A m \in Nat : m < d => m \notin Rest
    <2> HIDE DEF Rest
    <2> QED
      BY <1>1, LeastNumber
  <1>3. PICK x \in T : d = N - x
    BY <1>2
  <1>4. \A y \in T : x >= y
    <2> SUFFICES ASSUME NEW y \in T, ~(x >= y) PROVE FALSE
      OBVIOUS
    <2>1. N - y \in Nat /\ N - y < d /\ N - y \in Rest
      BY <1>3
    <2> QED
      BY <1>2, <2>1
  <1> QED
    BY <1>3, <1>4 DEF Max

IsOrder(R, T) ==
  /\ \A s \in T : <<s, s>> \notin R
  /\ \A s, t \in T : s # t => <<s, t>> \in R \/ <<t, s>> \in R
  /\ \A s, t, u \in T : <<s, t>> \in R /\ <<t, u>> \in R => <<s, u>> \in R

\* A list of all the elements of T, each of them once.
Lists(q, T) ==
  /\ q \in Seq(T)
  /\ \A s \in T : \E i \in 1..Len(q) : q[i] = s
  /\ \A i, j \in 1..Len(q) : q[i] = q[j] => i = j

LEMMA SortedLists ==
  ASSUME NEW T, IsFiniteSet(T), NEW R, IsOrder(R, T)
  PROVE  Lists(Sorted(T, R), T) /\ Len(Sorted(T, R)) = Cardinality(T)
  <1> DEFINE N == Cardinality(T)
             Before(s) == {t \in T : <<t, s>> \in R}
             rank == [s \in T |-> Cardinality(Before(s)) + 1]
  <1>1. N \in Nat
    BY FS_CardinalityType
  <1>2. ASSUME NEW s \in T
        PROVE  Cardinality(Before(s)) \in Nat /\ Cardinality(Before(s)) < N /\ IsFiniteSet(Before(s))
    <2>1. IsFiniteSet(T \ {s}) /\ Cardinality(T \ {s}) = N - 1
      BY FS_RemoveElement
    <2>2. Before(s) \in SUBSET (T \ {s})
      BY DEF IsOrder
    <2>3. IsFiniteSet(Before(s)) /\ Cardinality(Before(s)) <= Cardinality(T \ {s})
      BY <2>1, <2>2, FS_Subset
    <2>4. Cardinality(Before(s)) \in Nat
      BY <2>3, FS_CardinalityType
    <2> QED
      BY <1>1, <2>1, <2>3, <2>4
  <1>3. rank \in [T -> 1..N]
    BY <1>1, <1>2
  <1>4. ASSUME NEW s \in T, NEW t \in T, <<s, t>> \in R
        PROVE  Cardinality(Before(s)) < Cardinality(Before(t))
    <2>1. Before(s) \in SUBSET Before(t) /\ s \in Before(t) /\ s \notin Before(s)
      BY <1>4 DEF IsOrder
    <2>2. /\ Cardinality(Before(s)) <= Cardinality(Before(t))
          /\ Cardinality(Before(t)) = Cardinality(Before(s)) => Before(t) = Before(s)
      BY <2>1, <1>2, FS_Subset
    <2> QED
      BY <2>1, <2>2, <1>2
  <1> HIDE DEF Before
  <1>5. ASSUME NEW s \in T, NEW t \in T, Cardinality(Before(s)) = Cardinality(Before(t))
        PROVE  s = t
    <2>1. ~(<<s, t>> \in R) /\ ~(<<t, s>> \in R)
      BY <1>2, <1>4, <1>5
    <2> QED
      BY <2>1 DEF IsOrder
  <1>6. rank \in Injection(T, 1..N)
    <2>1. ASSUME NEW s \in T, NEW t \in T, rank[s] = rank[t]
          PROVE  s = t
      <3>1. Cardinality(Before(s)) = Cardinality(Before(t))
        BY <2>1, <1>2
      <3> QED
        BY <3>1, <1>5
    <2> HIDE DEF rank
    <2> QED
      BY <2>1, <1>3 DEF Injection, IsInjective
  <1>7. rank \in Surjection(T, 1..N)
    <2>1. IsFiniteSet(1..N) /\ Cardinality(1..N) = N
      BY <1>1, FS_Interval
    <2> QED
      BY <1>6, <2>1, FS_Injection
  <1> DEFINE q == Sorted(T, R)
  <1>8. q = [i \in 1..N |-> CHOOSE s \in T : Cardinality(Before(s)) = i - 1]
    BY DEF Sorted, Before
  <1>9. ASSUME NEW i \in 1..N
        PROVE  q[i] \in T /\ Cardinality(Before(q[i])) = i - 1
    <2>1. PICK s \in T : rank[s] = i
      BY <1>7 DEF Surjection
    <2>2. Cardinality(Before(s)) = i - 1
      BY <2>1, <1>1, <1>2
    <2> QED
      BY <2>2, <1>8
  <1> HIDE DEF q
  <1>10. q \in Seq(T) /\ Len(q) = N
    <2>1. q \in [1..N -> T]
      BY <1>8, <1>9
    <2> QED
      BY <2>1, <1>1
  <1>11. \A i, j \in 1..N : q[i] = q[j] => i = j
    BY <1>1, <1>9
  <1>12. ASSUME NEW s \in T PROVE \E i \in 1..N : q[i] = s
    <2>1. rank[s] \in 1..N /\ rank[s] = Cardinality(Before(s)) + 1
      BY <1>3
    <2>2. q[rank[s]] \in T /\ Cardinality(Before(q[rank[s]])) = Cardinality(Before(s))
      BY <2>1, <1>9, <1>2
    <2> QED
      BY <2>1, <2>2, <1>5
  <1> QED
    BY <1>10, <1>11, <1>12 DEF Lists, q

\* The list as it grows, entry by entry.
JoinSteps(g, N, q) ==
  /\ g[0] = <<>>
  /\ \A k \in 1..N : g[k] = JoinNext(g[k - 1], q[k])

LEMMA JoinPartialsSteps ==
  ASSUME NEW T, NEW q \in Seq(T)
  PROVE  \E g : JoinSteps(g, Len(q), q) /\ JoinPartials(q) = g[Len(q)]
  <1> DEFINE N == Len(q)
             D == DOMAIN q
             Step(x, v) == JoinNext(v, q[x])
             Small(n) == {t \in SUBSET D : Cardinality(t) <= n}
             Sol(n, f) ==
               f = [t \in Small(n) |-> IF t = {} THEN <<>> ELSE Step(Max(t), f[t \ {Max(t)}])]
             Eq(f) ==
               f = [t \in SUBSET D |-> IF t = {} THEN <<>> ELSE Step(Max(t), f[t \ {Max(t)}])]
             Bad == {n \in 0..N : ~\E f : Sol(n, f)}
  <1>1. N \in Nat /\ D = 1..N
    BY LenProperties
  <1>2. \A t \in SUBSET D : IsFiniteSet(t) /\ Cardinality(t) \in Nat /\ Cardinality(t) <= N
    <2>1. IsFiniteSet(1..N) /\ Cardinality(1..N) = N
      BY <1>1, FS_Interval
    <2> QED
      BY <1>1, <2>1, FS_Subset, FS_CardinalityType
  <1>3. ASSUME NEW t \in SUBSET D, t # {}, NEW n \in Nat, Cardinality(t) <= n
        PROVE  /\ Max(t) \in D /\ t \ {Max(t)} \in SUBSET D
               /\ n # 0 /\ n - 1 \in Nat /\ Cardinality(t \ {Max(t)}) <= n - 1
    <2>1. Max(t) \in t
      BY <1>1, <1>3, MaxIn
    <2>2. /\ Cardinality(t \ {Max(t)}) = Cardinality(t) - 1
          /\ Cardinality(t \ {Max(t)}) \in Nat
      BY <1>2, <2>1, FS_RemoveElement, FS_CardinalityType
    <2> QED
      BY <1>2, <1>3, <2>1, <2>2
  <1> HIDE DEF Step
  <1>4. ASSUME N \in Bad PROVE FALSE
    <2>0. Bad \subseteq Nat /\ Bad # {}
      <3>1. Bad \subseteq Nat
        BY <1>1
      <3> HIDE DEF Bad
      <3> QED
        BY <1>4, <3>1
    <2>1. PICK n \in Bad : n \in Nat /\ \A m \in Nat : m < n => m \notin Bad
      <3> HIDE DEF Bad
      <3> QED
        BY <2>0, LeastNumber
    <2>2. CASE n = 0
      <3> DEFINE f == [t \in Small(0) |-> <<>>]
      <3>1. \A t \in Small(0) : t = {}
        BY <1>3
      <3>2. Sol(0, f)
        BY <3>1
      <3>3. ~\E h : Sol(0, h)
        BY <2>1, <2>2
      <3> HIDE DEF Sol, f
      <3> QED
        BY <3>2, <3>3
    <2>3. CASE n # 0
      <3>1. n - 1 \in Nat /\ n - 1 < n /\ n - 1 \in 0..N
        BY <2>1, <2>3, <1>1
      <3>2. PICK f : Sol(n - 1, f)
        BY <2>1, <3>1
      <3> DEFINE g == [t \in Small(n) |-> IF t = {} THEN <<>>
                                          ELSE Step(Max(t), f[t \ {Max(t)}])]
      <3>3. \A t \in Small(n - 1) : t \in Small(n) /\ g[t] = f[t]
        <4>1. \A t \in Small(n - 1) : t \in Small(n)
          BY <1>2, <2>1, <3>1
        <4>2. \A t \in Small(n - 1) :
                f[t] = IF t = {} THEN <<>> ELSE Step(Max(t), f[t \ {Max(t)}])
          BY <3>2
        <4> QED
          BY <4>1, <4>2
      <3>4. \A t \in Small(n) : t # {} => t \ {Max(t)} \in Small(n - 1)
        BY <1>3, <2>1
      <3>5. Sol(n, g)
        <4>1. \A t \in Small(n) : t # {} => g[t \ {Max(t)}] = f[t \ {Max(t)}]
          <5> HIDE DEF g, Small
          <5> QED
            BY <3>3, <3>4
        <4> DEFINE h == g
        <4>2. \A t \in Small(n) : t # {} => h[t \ {Max(t)}] = f[t \ {Max(t)}]
          BY <4>1
        <4> HIDE DEF h
        <4>3. g = [t \in Small(n) |-> IF t = {} THEN <<>> ELSE Step(Max(t), h[t \ {Max(t)}])]
          <5> HIDE DEF Small
          <5> QED
            BY <4>2
        <4> QED
          BY <4>3 DEF h
      <3> HIDE DEF Sol, g
      <3> QED
        BY <2>1, <3>5
    <2> QED
      BY <2>2, <2>3
  <1>5. \E f : Eq(f)
    <2>1. PICK f : Sol(N, f)
      <3>1. N \in 0..N
        BY <1>1
      <3> HIDE DEF Sol
      <3> QED
        BY <1>4, <3>1
    <2>2. Small(N) = SUBSET D
      BY <1>2
    <2>3. Eq(f)
      <3> HIDE DEF Small
      <3> QED
        BY <2>1, <2>2
    <2> HIDE DEF Eq
    <2> QED
      BY <2>3
  <1> DEFINE f == CHOOSE x : Eq(x)
  <1>6. Eq(f)
    <2> HIDE DEF Eq
    <2> QED
      BY <1>5
  <1>7. JoinPartials(q) = f[DOMAIN q]
    BY DEF JoinPartials, FoldLeft, MapThenFoldSet, Step
  <1> HIDE DEF f
  <1>8. \A t \in SUBSET D : f[t] = IF t = {} THEN <<>> ELSE Step(Max(t), f[t \ {Max(t)}])
    BY <1>6
  <1> HIDE DEF Eq, Sol, Bad
  <1> DEFINE g == [k \in 0..N |-> f[1..k]]
  <1>9. g[0] = <<>>
    <2>1. 0 \in 0..N /\ 1..0 = {} /\ {} \in SUBSET D
      BY <1>1
    <2> QED
      BY <2>1, <1>8
  <1>10. ASSUME NEW k \in 1..N PROVE g[k] = JoinNext(g[k - 1], q[k])
    <2>1. k \in 0..N /\ k - 1 \in 0..N /\ 1..k \in SUBSET D /\ k \in 1..k /\ \A y \in 1..k : k >= y
      BY <1>1
    <2>2. Max(1..k) = k
      <3>1. Max(1..k) \in 1..k /\ \A y \in 1..k : Max(1..k) >= y
        BY <1>1, <2>1, MaxIn
      <3> QED
        BY <2>1, <3>1
    <2>3. (1..k) \ {k} = 1..(k - 1)
      BY <1>1
    <2>4. f[1..k] = Step(k, f[1..(k - 1)])
      BY <1>8, <2>1, <2>2, <2>3
    <2> QED
      BY <2>1, <2>4 DEF Step
  <1>11. JoinPartials(q) = g[N]
    BY <1>1, <1>7
  <1> HIDE DEF g
  <1> QED
    BY <1>9, <1>10, <1>11 DEF JoinSteps

(***************************************************************************)
(* The places of a cell in a list of entries.                              *)
(***************************************************************************)
LogCells == [n : Nat, half : {1, 2}, partial : BOOLEAN]

LogEntries == [svc : Svcs, ts : Nat, partial : BOOLEAN, msg : Seq(LogCells)]

\* Cell j of entry i is c.
HasAt(E, i, j, c) == i \in 1..Len(E) /\ j \in 1..Len(E[i].msg) /\ E[i].msg[j] = c

Absent(E, c) == \A i, j \in Nat : ~HasAt(E, i, j, c)

AtMostOnce(E, c) ==
  \A i, j, k, l \in Nat : HasAt(E, i, j, c) /\ HasAt(E, k, l, c) => i = k /\ j = l

\* Of any three places two are the same.
AtMostTwo(E, c) ==
  \A i, j, k, l, m, n \in Nat :
    HasAt(E, i, j, c) /\ HasAt(E, k, l, c) /\ HasAt(E, m, n, c) =>
      (i = k /\ j = l) \/ (k = m /\ l = n) \/ (i = m /\ j = n)

\* Every entry is of s.
AllOf(E, s) == \A i \in 1..Len(E) : E[i].svc = s

LEMMA HasAtNumbers ==
  ASSUME NEW E \in Seq(LogEntries), NEW i, NEW j, NEW c, HasAt(E, i, j, c)
  PROVE  i \in Nat /\ j \in Nat /\ i \in 1..Len(E) /\ c \in LogCells /\ E[i] \in LogEntries
  <1>1. Len(E) \in Nat /\ i \in 1..Len(E)
    BY LenProperties DEF HasAt
  <1>2. E[i] \in LogEntries
    BY <1>1, ElementOfSeq
  <1>3. E[i].msg \in Seq(LogCells)
    BY <1>2 DEF LogEntries
  <1>4. j \in 1..Len(E[i].msg) /\ E[i].msg[j] = c /\ Len(E[i].msg) \in Nat
    BY <1>3, LenProperties DEF HasAt
  <1>5. c \in LogCells
    BY <1>3, <1>4, ElementOfSeq
  <1> QED
    BY <1>1, <1>2, <1>4, <1>5

\* R has some of the entries of E, each of them once.
Selects(R, E) ==
  /\ R \in Seq(LogEntries)
  /\ \E places : /\ places \in [1..Len(R) -> 1..Len(E)]
                 /\ \A k, l \in 1..Len(R) : places[k] = places[l] => k = l
                 /\ \A k \in 1..Len(R) : R[k] = E[places[k]]

LEMMA SelectionKeeps ==
  ASSUME NEW E \in Seq(LogEntries), NEW R, Selects(R, E)
  PROVE  \A c : /\ Absent(E, c) => Absent(R, c)
                /\ AtMostOnce(E, c) => AtMostOnce(R, c)
  <1>1. PICK places : /\ places \in [1..Len(R) -> 1..Len(E)]
                      /\ \A k, l \in 1..Len(R) : places[k] = places[l] => k = l
                      /\ \A k \in 1..Len(R) : R[k] = E[places[k]]
    BY DEF Selects
  <1>2. Len(E) \in Nat
    BY LenProperties
  <1>3. ASSUME NEW i, NEW j, NEW c, HasAt(R, i, j, c)
        PROVE  i \in 1..Len(R) /\ HasAt(E, places[i], j, c) /\ places[i] \in Nat
    BY <1>1, <1>2, <1>3 DEF HasAt
  <1>4. ASSUME NEW c, Absent(E, c) PROVE Absent(R, c)
    BY <1>3, <1>4 DEF Absent
  <1>5. ASSUME NEW c, AtMostOnce(E, c) PROVE AtMostOnce(R, c)
    <2> SUFFICES ASSUME NEW i \in Nat, NEW j \in Nat, NEW k \in Nat, NEW l \in Nat,
                        HasAt(R, i, j, c), HasAt(R, k, l, c)
                 PROVE  i = k /\ j = l
      BY DEF AtMostOnce
    <2>1. /\ HasAt(E, places[i], j, c) /\ HasAt(E, places[k], l, c)
          /\ places[i] \in Nat /\ places[k] \in Nat /\ i \in 1..Len(R) /\ k \in 1..Len(R)
      BY <1>3
    <2>2. places[i] = places[k] /\ j = l
      BY <2>1, <1>5 DEF AtMostOnce
    <2> QED
      BY <2>1, <2>2, <1>1
  <1> QED
    BY <1>4, <1>5

\* The places of a concatenation.
LEMMA ConcatPlaces ==
  ASSUME NEW E \in Seq(LogEntries), NEW F \in Seq(LogEntries)
  PROVE  /\ E \o F \in Seq(LogEntries)
         /\ \A i, j, c : HasAt(E \o F, i, j, c) <=>
              \/ HasAt(E, i, j, c)
              \/ i - Len(E) \in Nat /\ i \in Nat /\ HasAt(F, i - Len(E), j, c)
         /\ Len(E) \in Nat
         /\ \A i \in 1..Len(E) : (E \o F)[i] = E[i]
         /\ \A i \in 1..Len(F) : i + Len(E) \in 1..Len(E \o F) /\ (E \o F)[i + Len(E)] = F[i]
  <1> DEFINE G == E \o F
  <1>1. /\ G \in Seq(LogEntries) /\ Len(G) = Len(E) + Len(F)
        /\ \A i \in 1..Len(E) + Len(F) : G[i] = IF i <= Len(E) THEN E[i] ELSE F[i - Len(E)]
        /\ Len(E) \in Nat /\ Len(F) \in Nat
    BY ConcatProperties, LenProperties
  <1> HIDE DEF G
  <1>2. \A i \in 1..Len(E) : i \in 1..Len(G) /\ G[i] = E[i]
    BY <1>1
  <1>3. ASSUME NEW i \in 1..Len(F)
        PROVE  i + Len(E) \in 1..Len(G) /\ G[i + Len(E)] = F[i]
    <2>1. /\ i + Len(E) \in 1..Len(E) + Len(F) /\ ~(i + Len(E) <= Len(E))
          /\ (i + Len(E)) - Len(E) = i
      BY <1>1
    <2> HIDE DEF G
    <2> QED
      BY <1>1, <2>1
  <1>4. ASSUME NEW i, NEW j, NEW c, HasAt(G, i, j, c)
        PROVE  \/ HasAt(E, i, j, c)
               \/ i - Len(E) \in Nat /\ i \in Nat /\ HasAt(F, i - Len(E), j, c)
    <2>1. CASE i \in 1..Len(E)
      BY <2>1, <1>2, <1>4 DEF HasAt
    <2>2. CASE i \notin 1..Len(E)
      <3>1. i \in 1..Len(E) + Len(F) /\ i - Len(E) \in 1..Len(F) /\ ~(i <= Len(E))
        BY <2>2, <1>1, <1>4 DEF HasAt
      <3>2. G[i] = F[i - Len(E)]
        BY <3>1, <1>1
      <3> QED
        BY <3>1, <3>2, <1>1, <1>4 DEF HasAt
    <2> QED
      BY <2>1, <2>2
  <1>5. ASSUME NEW i, NEW j, NEW c, HasAt(E, i, j, c) PROVE HasAt(G, i, j, c)
    BY <1>2, <1>5 DEF HasAt
  <1>6. ASSUME NEW i, NEW j, NEW c,
               i - Len(E) \in Nat, i \in Nat, HasAt(F, i - Len(E), j, c)
        PROVE  HasAt(G, i, j, c)
    <2>1. i - Len(E) \in 1..Len(F) /\ (i - Len(E)) + Len(E) = i
      BY <1>1, <1>6 DEF HasAt
    <2>2. i \in 1..Len(G) /\ G[i] = F[i - Len(E)]
      BY <2>1, <1>3
    <2> QED
      BY <2>2, <1>6 DEF HasAt
  <1> QED
    BY <1>1, <1>2, <1>3, <1>4, <1>5, <1>6 DEF G

\* How often a cell is in what is printed and what is added to it.
LEMMA ConcatCounts ==
  ASSUME NEW E \in Seq(LogEntries), NEW F \in Seq(LogEntries), NEW c
  PROVE  /\ Absent(E, c) /\ Absent(F, c) => Absent(E \o F, c)
         /\ Absent(E, c) /\ AtMostOnce(F, c) => AtMostOnce(E \o F, c)
         /\ AtMostOnce(E, c) /\ Absent(F, c) => AtMostOnce(E \o F, c)
         /\ AtMostOnce(E, c) /\ AtMostOnce(F, c) => AtMostTwo(E \o F, c)
         /\ AtMostTwo(E, c) /\ Absent(F, c) => AtMostTwo(E \o F, c)
  <1> DEFINE G == E \o F
             off == Len(E)
  <1>1. off \in Nat
    BY LenProperties
  <1>2. \A i, j \in Nat : HasAt(G, i, j, c) =>
          HasAt(E, i, j, c) \/ (i - off \in Nat /\ HasAt(F, i - off, j, c))
    BY ConcatPlaces
  <1> HIDE DEF G, off
  <1>3. Absent(E, c) /\ Absent(F, c) => Absent(G, c)
    BY <1>2 DEF Absent
  <1>4. Absent(E, c) /\ AtMostOnce(F, c) => AtMostOnce(G, c)
    <2> SUFFICES ASSUME Absent(E, c), AtMostOnce(F, c),
                        NEW i \in Nat, NEW j \in Nat, NEW k \in Nat, NEW l \in Nat,
                        HasAt(G, i, j, c), HasAt(G, k, l, c)
                 PROVE  i = k /\ j = l
      BY DEF AtMostOnce
    <2>1. /\ i - off \in Nat /\ HasAt(F, i - off, j, c)
          /\ k - off \in Nat /\ HasAt(F, k - off, l, c)
      BY <1>2 DEF Absent
    <2>2. i - off = k - off /\ j = l
      BY <2>1 DEF AtMostOnce
    <2> QED
      BY <2>2, <1>1
  <1>5. AtMostOnce(E, c) /\ Absent(F, c) => AtMostOnce(G, c)
    BY <1>2 DEF Absent, AtMostOnce
  <1>6. AtMostOnce(E, c) /\ AtMostOnce(F, c) => AtMostTwo(G, c)
    <2> SUFFICES ASSUME AtMostOnce(E, c), AtMostOnce(F, c) PROVE AtMostTwo(G, c)
      OBVIOUS
    <2> SUFFICES ASSUME NEW i \in Nat, NEW j \in Nat, NEW k \in Nat, NEW l \in Nat,
                        NEW m \in Nat, NEW n \in Nat,
                        HasAt(G, i, j, c), HasAt(G, k, l, c), HasAt(G, m, n, c)
                 PROVE  (i = k /\ j = l) \/ (k = m /\ l = n) \/ (i = m /\ j = n)
      BY Zenon DEF AtMostTwo
    <2>1. \A a, b, d, e \in Nat :
            HasAt(E, a, b, c) /\ HasAt(E, d, e, c) => a = d /\ b = e
      BY DEF AtMostOnce
    <2>2. \A a, b, d, e \in Nat :
            /\ a - off \in Nat /\ HasAt(F, a - off, b, c)
            /\ d - off \in Nat /\ HasAt(F, d - off, e, c)
            => a = d /\ b = e
      <3> SUFFICES ASSUME NEW a \in Nat, NEW b \in Nat, NEW d \in Nat, NEW e \in Nat,
                          a - off \in Nat, HasAt(F, a - off, b, c),
                          d - off \in Nat, HasAt(F, d - off, e, c)
                   PROVE  a = d /\ b = e
        OBVIOUS
      <3>1. a - off = d - off /\ b = e
        BY DEF AtMostOnce
      <3> QED
        BY <3>1, <1>1
    <2>3. /\ HasAt(E, i, j, c) \/ (i - off \in Nat /\ HasAt(F, i - off, j, c))
          /\ HasAt(E, k, l, c) \/ (k - off \in Nat /\ HasAt(F, k - off, l, c))
          /\ HasAt(E, m, n, c) \/ (m - off \in Nat /\ HasAt(F, m - off, n, c))
      BY <1>2
    <2> QED
      BY <2>1, <2>2, <2>3
  <1>7. AtMostTwo(E, c) /\ Absent(F, c) => AtMostTwo(G, c)
    <2> SUFFICES ASSUME AtMostTwo(E, c), Absent(F, c) PROVE AtMostTwo(G, c)
      OBVIOUS
    <2> SUFFICES ASSUME NEW i \in Nat, NEW j \in Nat, NEW k \in Nat, NEW l \in Nat,
                        NEW m \in Nat, NEW n \in Nat,
                        HasAt(G, i, j, c), HasAt(G, k, l, c), HasAt(G, m, n, c)
                 PROVE  (i = k /\ j = l) \/ (k = m /\ l = n) \/ (i = m /\ j = n)
      BY Zenon DEF AtMostTwo
    <2>1. HasAt(E, i, j, c) /\ HasAt(E, k, l, c) /\ HasAt(E, m, n, c)
      BY <1>2 DEF Absent
    <2> QED
      BY <2>1 DEF AtMostTwo
  <1> QED
    BY <1>3, <1>4, <1>5, <1>6, <1>7 DEF G

(***************************************************************************)
(* Joining partial entries moves cells, and neither loses nor doubles one. *)
(***************************************************************************)
\* Cell j of e is c.
InMsg(e, j, c) == j \in 1..Len(e.msg) /\ e.msg[j] = c

\* K is J with the cells of e, in one row and behind what was there.
GrowsBy(J, e, K) ==
  /\ K \in Seq(LogEntries)
  /\ \E row, shift \in Nat :
       /\ \A j \in Nat : \A c : HasAt(J, row, j, c) => j <= shift
       /\ \A i, j \in Nat : \A c :
            HasAt(K, i, j, c) <=> HasAt(J, i, j, c) \/ (i = row /\ InMsg(e, j - shift, c))

LEMMA AppendGrows ==
  ASSUME NEW J \in Seq(LogEntries), NEW e \in LogEntries
  PROVE  GrowsBy(J, e, Append(J, e))
  <1> DEFINE K == Append(J, e)
             L == Len(J)
  <1>1. /\ K \in Seq(LogEntries) /\ Len(K) = L + 1 /\ L \in Nat
        /\ K[L + 1] = e /\ \A i \in 1..L : K[i] = J[i]
    BY AppendProperties, LenProperties
  <1> HIDE DEF K, L
  <1>2. ASSUME NEW i \in Nat, NEW j \in Nat, NEW c
        PROVE  HasAt(K, i, j, c) <=> HasAt(J, i, j, c) \/ (i = L + 1 /\ InMsg(e, j - 0, c))
    <2>0. j - 0 = j
      OBVIOUS
    <2>1. CASE i \in 1..L
      <3>1. i # L + 1 /\ i \in 1..L + 1 /\ K[i] = J[i]
        BY <1>1, <2>1
      <3> QED
        BY <3>1, <2>1, <1>1 DEF HasAt, L
    <2>2. CASE i = L + 1
      <3>1. i \notin 1..L /\ i \in 1..L + 1 /\ K[i] = e
        BY <1>1, <2>2
      <3> QED
        BY <3>1, <2>0, <2>2, <1>1 DEF HasAt, InMsg, L
    <2>3. CASE i \notin 1..L /\ i # L + 1
      <3>1. i \notin 1..L + 1
        BY <1>1, <2>3
      <3> QED
        BY <3>1, <2>3, <1>1 DEF HasAt, L
    <2> QED
      BY <2>1, <2>2, <2>3
  <1>3. L + 1 \in Nat /\ 0 \in Nat /\ \A j, c : ~HasAt(J, L + 1, j, c)
    BY <1>1 DEF HasAt, L
  <1> QED
    BY <1>1, <1>2, <1>3 DEF GrowsBy, K

LEMMA MergeGrows ==
  ASSUME NEW J \in Seq(LogEntries), J # <<>>, NEW e \in LogEntries,
         NEW K, K = [J EXCEPT ![Len(J)].msg = @ \o e.msg, ![Len(J)].partial = e.partial]
  PROVE  /\ GrowsBy(J, e, K)
         /\ \A s : AllOf(J, s) => AllOf(K, s)
  <1> DEFINE L == Len(J)
             joined == [J[L] EXCEPT !.msg = @ \o e.msg, !.partial = e.partial]
  <1>1. L \in Nat /\ L \in 1..L /\ DOMAIN J = 1..L /\ J[L] \in LogEntries
    <2>1. L \in Nat \ {0} /\ DOMAIN J = 1..L
      BY EmptySeq, LenProperties
    <2>2. L \in 1..L
      BY <2>1
    <2>3. J[L] \in LogEntries
      BY <2>2, ElementOfSeq
    <2> QED
      BY <2>1, <2>2, <2>3
  <1> DEFINE m == J[L].msg
             w == Len(m)
  <1>2. /\ m \in Seq(LogCells) /\ e.msg \in Seq(LogCells)
        /\ m \o e.msg \in Seq(LogCells)
        /\ w \in Nat /\ Len(e.msg) \in Nat /\ Len(m \o e.msg) = w + Len(e.msg)
        /\ \A j \in 1..w + Len(e.msg) : (m \o e.msg)[j] = IF j <= w THEN m[j] ELSE e.msg[j - w]
    <2>1. m \in Seq(LogCells) /\ e.msg \in Seq(LogCells)
      BY <1>1 DEF LogEntries
    <2> HIDE DEF m
    <2> QED
      BY <2>1, ConcatProperties, LenProperties
  <1>3. joined \in LogEntries /\ joined.msg = m \o e.msg /\ joined.svc = J[L].svc
    BY <1>1, <1>2 DEF LogEntries
  <1>4. K = [J EXCEPT ![L] = joined]
    BY <1>1
  <1>5. /\ K \in Seq(LogEntries) /\ Len(K) = L
        /\ \A i \in 1..L : K[i] = IF i = L THEN joined ELSE J[i]
    <2>1. joined \in LogEntries /\ L \in 1..Len(J) /\ K = [J EXCEPT ![L] = joined]
      BY <1>1, <1>3, <1>4
    <2> HIDE DEF joined
    <2>2. /\ [J EXCEPT ![L] = joined] \in Seq(LogEntries)
          /\ Len([J EXCEPT ![L] = joined]) = Len(J)
          /\ \A i \in 1..Len(J) :
               [J EXCEPT ![L] = joined][i] = IF i = L THEN joined ELSE J[i]
      BY <2>1, ExceptSeq
    <2> QED
      BY <2>1, <2>2
  <1> HIDE DEF joined, m, w, L
  <1>6. ASSUME NEW i \in Nat, NEW j \in Nat, NEW c
        PROVE  HasAt(K, i, j, c) <=> HasAt(J, i, j, c) \/ (i = L /\ InMsg(e, j - w, c))
    <2>1. CASE i \notin 1..L
      BY <2>1, <1>1, <1>5 DEF HasAt, L
    <2>2. CASE i \in 1..L /\ i # L
      BY <2>2, <1>5 DEF HasAt, L
    <2>3. CASE i = L
      <3>1. HasAt(K, i, j, c) <=> j \in 1..w + Len(e.msg) /\ (m \o e.msg)[j] = c
        BY <2>3, <1>1, <1>2, <1>3, <1>5 DEF HasAt
      <3>2. HasAt(J, i, j, c) <=> j \in 1..w /\ m[j] = c
        BY <2>3, <1>1 DEF HasAt, m, w, L
      <3>3. CASE j <= w
        <4>1. j - w \notin 1..Len(e.msg) /\ (j \in 1..w <=> j \in 1..w + Len(e.msg))
          BY <3>3, <1>2
        <4> QED
          BY <3>1, <3>2, <3>3, <4>1, <1>2 DEF InMsg
      <3>4. CASE ~(j <= w)
        <4>1. j \notin 1..w /\ (j - w \in 1..Len(e.msg) <=> j \in 1..w + Len(e.msg))
          BY <3>4, <1>2
        <4> QED
          BY <2>3, <3>1, <3>2, <3>4, <4>1, <1>2 DEF InMsg
      <3> QED
        BY <3>3, <3>4
    <2> QED
      BY <2>1, <2>2, <2>3
  <1>7. GrowsBy(J, e, K)
    <2>1. \A j \in Nat : \A c : HasAt(J, L, j, c) => j <= w
      BY <1>2 DEF HasAt, w, m
    <2> QED
      BY <1>1, <1>2, <1>5, <1>6, <2>1 DEF GrowsBy
  <1>8. \A s : AllOf(J, s) => AllOf(K, s)
    BY <1>1, <1>3, <1>5 DEF AllOf, L
  <1> QED
    BY <1>7, <1>8

LEMMA JoinNextGrows ==
  ASSUME NEW J \in Seq(LogEntries), NEW e \in LogEntries
  PROVE  /\ GrowsBy(J, e, JoinNext(J, e))
         /\ \A s : AllOf(J, s) /\ e.svc = s => AllOf(JoinNext(J, e), s)
  <1>1. CASE J # <<>> /\ Last(J).partial
    <2>1. JoinNext(J, e) = [J EXCEPT ![Len(J)].msg = @ \o e.msg, ![Len(J)].partial = e.partial]
      BY <1>1 DEF JoinNext
    <2> QED
      BY <1>1, <2>1, MergeGrows
  <1>2. CASE ~(J # <<>> /\ Last(J).partial)
    <2>1. JoinNext(J, e) = Append(J, e)
      BY <1>2 DEF JoinNext
    <2>2. /\ Len(Append(J, e)) = Len(J) + 1 /\ Len(J) \in Nat
          /\ Append(J, e)[Len(J) + 1] = e /\ \A i \in 1..Len(J) : Append(J, e)[i] = J[i]
      BY AppendProperties, LenProperties
    <2>3. \A s : AllOf(J, s) /\ e.svc = s => AllOf(Append(J, e), s)
      <3>1. \A i \in 1..Len(J) + 1 : i \in 1..Len(J) \/ i = Len(J) + 1
        BY <2>2
      <3> QED
        BY <2>2, <3>1 DEF AllOf
    <2> QED
      BY <2>1, <2>3, AppendGrows
  <1> QED
    BY <1>1, <1>2

\* J has the cells that F has, and none more often.
Keeps(F, J) ==
  \A c : /\ Absent(F, c) <=> Absent(J, c)
         /\ AtMostOnce(F, c) => AtMostOnce(J, c)

LEMMA KeepsOnGrowing ==
  ASSUME NEW F \in Seq(LogEntries), NEW J \in Seq(LogEntries), NEW e \in LogEntries,
         Keeps(F, J), NEW F2, GrowsBy(F, e, F2), NEW J2, GrowsBy(J, e, J2)
  PROVE  Keeps(F2, J2)
  <1>1. PICK r \in Nat, a \in Nat :
          /\ \A j \in Nat : \A c : HasAt(F, r, j, c) => j <= a
          /\ \A i, j \in Nat : \A c :
               HasAt(F2, i, j, c) <=> HasAt(F, i, j, c) \/ (i = r /\ InMsg(e, j - a, c))
    BY DEF GrowsBy
  <1>2. PICK q \in Nat, b \in Nat :
          /\ \A j \in Nat : \A c : HasAt(J, q, j, c) => j <= b
          /\ \A i, j \in Nat : \A c :
               HasAt(J2, i, j, c) <=> HasAt(J, i, j, c) \/ (i = q /\ InMsg(e, j - b, c))
    BY DEF GrowsBy
  <1>3. \A j, c : InMsg(e, j, c) => j \in Nat
    <2>1. Len(e.msg) \in Nat
      BY LenProperties DEF LogEntries
    <2> QED
      BY <2>1 DEF InMsg
  <1> DEFINE New(c) == \E j \in Nat : InMsg(e, j, c)
  <1>4. ASSUME NEW j \in Nat, NEW c, InMsg(e, j, c)
        PROVE  HasAt(F2, r, j + a, c) /\ HasAt(J2, q, j + b, c) /\ j + a \in Nat /\ j + b \in Nat
    <2>1. j + a \in Nat /\ j + b \in Nat /\ (j + a) - a = j /\ (j + b) - b = j
      OBVIOUS
    <2> QED
      BY <2>1, <1>1, <1>2, <1>4
  <1>5. ASSUME NEW c
        PROVE  /\ Absent(F2, c) <=> Absent(F, c) /\ ~New(c)
               /\ Absent(J2, c) <=> Absent(J, c) /\ ~New(c)
    <2>1. Absent(F2, c) => Absent(F, c)
      BY <1>1 DEF Absent
    <2>2. Absent(J2, c) => Absent(J, c)
      BY <1>2 DEF Absent
    <2>3. New(c) => ~Absent(F2, c) /\ ~Absent(J2, c)
      BY <1>4 DEF Absent
    <2>4. Absent(F, c) /\ ~New(c) => Absent(F2, c)
      BY <1>1, <1>3 DEF Absent
    <2>5. Absent(J, c) /\ ~New(c) => Absent(J2, c)
      BY <1>2, <1>3 DEF Absent
    <2> QED
      BY <2>1, <2>2, <2>3, <2>4, <2>5
  <1>6. ASSUME NEW c, AtMostOnce(F2, c) PROVE AtMostOnce(J2, c)
    <2>1. CASE ~New(c)
      <3>1. AtMostOnce(F, c)
        BY <1>1, <1>6 DEF AtMostOnce
      <3>2. AtMostOnce(J, c)
        BY <3>1 DEF Keeps
      <3>3. \A i, j \in Nat : HasAt(J2, i, j, c) => HasAt(J, i, j, c)
        BY <1>2, <1>3, <2>1
      <3> QED
        BY <3>2, <3>3 DEF AtMostOnce
    <2>2. CASE New(c)
      <3>1. PICK n \in Nat : InMsg(e, n, c)
        BY <2>2
      <3>2. HasAt(F2, r, n + a, c) /\ n + a \in Nat /\ n >= 1
        <4>1. n >= 1
          BY <3>1, <1>3, LenProperties DEF InMsg, LogEntries
        <4> QED
          BY <3>1, <4>1, <1>4
      <3>3. Absent(F, c)
        <4> SUFFICES ASSUME NEW i \in Nat, NEW j \in Nat, HasAt(F, i, j, c) PROVE FALSE
          BY DEF Absent
        <4>1. HasAt(F2, i, j, c)
          BY <1>1
        <4>2. i = r /\ j = n + a
          BY <3>2, <4>1, <1>6 DEF AtMostOnce
        <4> QED
          BY <4>2, <3>2, <1>1
      <3>4. \A k, l \in Nat : InMsg(e, k, c) /\ InMsg(e, l, c) => k = l
        <4> SUFFICES ASSUME NEW k \in Nat, NEW l \in Nat, InMsg(e, k, c), InMsg(e, l, c)
                     PROVE  k = l
          OBVIOUS
        <4>1. /\ HasAt(F2, r, k + a, c) /\ HasAt(F2, r, l + a, c)
              /\ k + a \in Nat /\ l + a \in Nat
          BY <1>4
        <4>2. k + a = l + a
          BY <4>1, <1>6 DEF AtMostOnce
        <4> QED
          BY <4>2
      <3>5. ASSUME NEW i \in Nat, NEW j \in Nat, HasAt(J2, i, j, c)
            PROVE  i = q /\ InMsg(e, j - b, c) /\ j - b \in Nat
        BY <3>3, <3>5, <1>2, <1>3 DEF Keeps, Absent
      <3> SUFFICES ASSUME NEW i \in Nat, NEW j \in Nat, NEW k \in Nat, NEW l \in Nat,
                          HasAt(J2, i, j, c), HasAt(J2, k, l, c)
                   PROVE  i = k /\ j = l
        BY DEF AtMostOnce
      <3>6. i = q /\ k = q /\ j - b = l - b
        BY <3>4, <3>5
      <3> QED
        BY <3>6
    <2> QED
      BY <2>1, <2>2
  <1> QED
    BY <1>5, <1>6 DEF Keeps

\* So it is with the whole list.
LEMMA JoinPartialsKeeps ==
  ASSUME NEW E \in Seq(LogEntries)
  PROVE  /\ JoinPartials(E) \in Seq(LogEntries)
         /\ Keeps(E, JoinPartials(E))
         /\ \A s : AllOf(E, s) => AllOf(JoinPartials(E), s)
  <1> DEFINE N == Len(E)
             Done(k) == SubSeq(E, 1, k)
  <1>1. PICK g : JoinSteps(g, N, E) /\ JoinPartials(E) = g[N]
    BY JoinPartialsSteps
  <1>2. N \in Nat /\ \A k \in 1..N : E[k] \in LogEntries
    BY LenProperties, ElementOfSeq
  <1> DEFINE Good(k) == /\ g[k] \in Seq(LogEntries)
                        /\ Keeps(Done(k), g[k])
                        /\ \A s : AllOf(E, s) => AllOf(g[k], s)
             Bad == {k \in 0..N : ~Good(k)}
  <1>3. Good(0)
    <2>1. Done(0) = <<>> /\ g[0] = <<>>
      BY <1>1, SubSeqEmpty DEF JoinSteps
    <2>2. <<>> \in Seq(LogEntries) /\ Len(<<>>) = 0 /\ \A s : AllOf(<<>>, s)
      BY DEF AllOf
    <2>3. Keeps(<<>>, <<>>)
      BY DEF Keeps
    <2> QED
      BY <2>1, <2>2, <2>3
  <1>4. ASSUME NEW k \in 1..N, Good(k - 1) PROVE Good(k)
    <2>1. g[k] = JoinNext(g[k - 1], E[k])
      BY <1>1 DEF JoinSteps
    <2>2. Done(k - 1) \in Seq(LogEntries) /\ Done(k) = Append(Done(k - 1), E[k])
      <3>1. \A i \in 1..N : E[i] \in LogEntries
        BY <1>2
      <3>2. /\ Done(k - 1) \in Seq(LogEntries) /\ Len(Done(k - 1)) = k - 1
            /\ \A i \in 1..k - 1 : Done(k - 1)[i] = E[i]
            /\ Done(k) \in Seq(LogEntries) /\ Len(Done(k)) = k
            /\ \A i \in 1..k : Done(k)[i] = E[i]
        <4>1. ASSUME NEW n \in 0..N
              PROVE  /\ Done(n) \in Seq(LogEntries) /\ Len(Done(n)) = n
                     /\ \A i \in 1..n : Done(n)[i] = E[i]
          <5>1. \A i \in 1..n : E[i] \in LogEntries
            BY <1>2
          <5>2. /\ Done(n) \in Seq(LogEntries)
                /\ Len(Done(n)) = IF 1 <= n THEN n - 1 + 1 ELSE 0
                /\ \A i \in 1..n - 1 + 1 : Done(n)[i] = E[1 + i - 1]
            BY <1>2, <5>1, SubSeqProperties
          <5> HIDE DEF Done
          <5> QED
            BY <5>2, <1>2
        <4>2. k \in 0..N /\ k - 1 \in 0..N
          BY <1>2
        <4> QED
          BY <4>1, <4>2
      <3> DEFINE d == Done(k - 1)
                 f == Done(k)
      <3> HIDE DEF Done
      <3>3. /\ Append(d, E[k]) \in Seq(LogEntries) /\ Len(Append(d, E[k])) = k
            /\ \A i \in 1..k - 1 : Append(d, E[k])[i] = d[i]
            /\ Append(d, E[k])[k] = E[k]
        <4> HIDE DEF d
        <4>1. d \in Seq(LogEntries) /\ Len(d) = k - 1 /\ E[k] \in LogEntries
          BY <3>2, <1>2 DEF d
        <4> QED
          BY <4>1, <1>2, AppendProperties
      <3>4. \A i \in 1..k : Append(d, E[k])[i] = f[i]
        <4>1. \A i \in 1..k : i = k \/ i \in 1..k - 1
          BY <1>2
        <4> QED
          BY <3>2, <3>3, <4>1
      <3> QED
        BY <3>2, <3>3, <3>4, SeqEqual
    <2> HIDE DEF Done
    <2>3. /\ GrowsBy(Done(k - 1), E[k], Done(k))
          /\ GrowsBy(g[k - 1], E[k], g[k])
          /\ \A s : AllOf(g[k - 1], s) /\ E[k].svc = s => AllOf(g[k], s)
      BY <1>2, <1>4, <2>1, <2>2, AppendGrows, JoinNextGrows
    <2>4. Keeps(Done(k), g[k])
      BY <1>2, <1>4, <2>2, <2>3, KeepsOnGrowing
    <2>5. \A s : AllOf(E, s) => AllOf(g[k], s)
      BY <1>4, <2>3 DEF AllOf
    <2> QED
      BY <2>3, <2>4, <2>5 DEF GrowsBy
  <1> HIDE DEF Good
  <1>5. Bad = {}
    <2> SUFFICES ASSUME Bad # {} PROVE FALSE
      OBVIOUS
    <2>1. Bad \subseteq Nat
      BY <1>2
    <2>2. PICK k \in Bad : k \in Nat /\ \A m \in Nat : m < k => m \notin Bad
      <3> HIDE DEF Bad
      <3> QED
        BY <2>1, LeastNumber
    <2>3. k \in 1..N /\ k - 1 \in Nat /\ k - 1 < k /\ k - 1 \in 0..N
      <3>1. k # 0
        BY <1>3, <2>2
      <3> HIDE DEF N
      <3> QED
        BY <3>1, <2>2, <1>2
    <2> QED
      BY <1>4, <2>2, <2>3
  <1>6. Good(N)
    BY <1>2, <1>5
  <1>7. Done(N) = E
    BY SubSeqFull
  <1> QED
    BY <1>1, <1>6, <1>7 DEF Good

(***************************************************************************)
(* Reading lines and filtering entries.                                    *)
(***************************************************************************)
LEMMA PlacesInOrder ==
  ASSUME NEW n \in Nat, NEW q, DOMAIN q = 1..n, NEW T \in SUBSET (1..n)
  PROVE  IsFiniteSet(T) /\ Lists(Sorted(T, ByPlace(q)), T)
  <1>1. IsFiniteSet(T)
    <2>1. IsFiniteSet(1..n)
      BY FS_Interval
    <2> QED
      BY <2>1, FS_Subset
  <1>2. \A i, j \in T : <<i, j>> \in ByPlace(q) <=> i < j
    BY DEF ByPlace
  <1>3. \A i \in T : i \in Nat
    OBVIOUS
  <1>4. IsOrder(ByPlace(q), T)
    BY <1>2, <1>3 DEF IsOrder
  <1> QED
    BY <1>1, <1>4, SortedLists

LEMMA TimesInOrder ==
  ASSUME NEW E \in Seq(LogEntries)
  PROVE  Lists(Sorted(DOMAIN E, ByTime(E)), 1..Len(E))
  <1> DEFINE N == Len(E)
  <1>1. N \in Nat /\ DOMAIN E = 1..N /\ \A i \in 1..N : E[i].ts \in Nat
    <2>1. N \in Nat /\ DOMAIN E = 1..N
      BY LenProperties
    <2>2. \A i \in 1..N : E[i] \in LogEntries
      BY ElementOfSeq
    <2> QED
      BY <2>1, <2>2 DEF LogEntries
  <1>2. IsFiniteSet(1..N)
    BY <1>1, FS_Interval
  <1>3. \A i, j \in 1..N : <<i, j>> \in ByTime(E) <=>
          E[i].ts < E[j].ts \/ (E[i].ts = E[j].ts /\ i < j)
    BY <1>1 DEF ByTime
  <1> DEFINE t == [i \in 1..N |-> E[i].ts]
  <1>4. \A i \in 1..N : i \in Nat /\ t[i] \in Nat /\ t[i] = E[i].ts
    BY <1>1
  <1> HIDE DEF N, t
  <1>5. IsOrder(ByTime(E), 1..N)
    <2>1. \A i, j \in 1..N : <<i, j>> \in ByTime(E) <=> t[i] < t[j] \/ (t[i] = t[j] /\ i < j)
      BY <1>3, <1>4
    <2>2. \A i \in 1..N : <<i, i>> \notin ByTime(E)
      BY <2>1, <1>4
    <2>3. \A i, j \in 1..N : i # j => <<i, j>> \in ByTime(E) \/ <<j, i>> \in ByTime(E)
      BY <2>1, <1>4
    <2>4. ASSUME NEW i \in 1..N, NEW j \in 1..N, NEW k \in 1..N,
                 <<i, j>> \in ByTime(E), <<j, k>> \in ByTime(E)
          PROVE  <<i, k>> \in ByTime(E)
      BY <2>1, <1>4, <2>4
    <2> QED
      BY <2>2, <2>3, <2>4 DEF IsOrder
  <1> QED
    BY <1>1, <1>2, <1>5, SortedLists DEF N

LEMMA PickedSelects ==
  ASSUME NEW E \in Seq(LogEntries), NEW T \in SUBSET (1..Len(E)), NEW places, Lists(places, T)
  PROVE  Selects(Picked(E, places), E)
  <1> DEFINE R == Picked(E, places)
             N == Len(places)
  <1>1. /\ places \in [1..N -> T] /\ N \in Nat /\ DOMAIN places = 1..N
        /\ \A k, l \in 1..N : places[k] = places[l] => k = l
    BY LenProperties DEF Lists
  <1>2. R = [k \in 1..N |-> E[places[k]]]
    BY <1>1 DEF Picked
  <1>3. \A k \in 1..N : places[k] \in 1..Len(E) /\ E[places[k]] \in LogEntries
    BY <1>1, ElementOfSeq
  <1>4. R \in Seq(LogEntries) /\ Len(R) = N /\ \A k \in 1..N : R[k] = E[places[k]]
    <2>1. R \in [1..N -> LogEntries]
      BY <1>2, <1>3
    <2> HIDE DEF N
    <2> QED
      BY <1>1, <1>2, <2>1
  <1>5. places \in [1..N -> 1..Len(E)]
    BY <1>1
  <1> HIDE DEF R, N
  <1> QED
    BY <1>1, <1>4, <1>5 DEF Selects, R

\* What is printed of what was read: no cell that was not read, none more often.
LEMMA PrintedKeeps ==
  ASSUME NEW E \in Seq(LogEntries)
  PROVE  LET R == ApplyFilters(SortByTime(E))
         IN  /\ R \in Seq(LogEntries)
             /\ \A c : /\ Absent(E, c) => Absent(R, c)
                       /\ AtMostOnce(E, c) => AtMostOnce(R, c)
  <1> DEFINE A == SortByTime(E)
             B == FilterSince(A)
             R == TailEntries(B)
  <1>1. Selects(A, E)
    BY TimesInOrder, PickedSelects DEF SortByTime
  <1> HIDE DEF A
  <1>2. A \in Seq(LogEntries)
    BY <1>1 DEF Selects
  <1>3. Selects(B, A)
    <2> DEFINE T == {i \in DOMAIN A : A[i].ts >= Since}
    <2>1. Len(A) \in Nat /\ DOMAIN A = 1..Len(A) /\ T \in SUBSET (1..Len(A))
      BY <1>2, LenProperties
    <2> HIDE DEF T
    <2>2. Lists(Sorted(T, ByPlace(A)), T)
      BY <2>1, PlacesInOrder
    <2> QED
      BY <1>2, <2>1, <2>2, PickedSelects DEF FilterSince, T
  <1> HIDE DEF B
  <1>4. B \in Seq(LogEntries)
    BY <1>3 DEF Selects
  <1>5. Selects(R, B)
    <2> DEFINE N == Len(B)
    <2>0. N \in Nat /\ TailN \in Nat /\ \A i \in 1..N : B[i] \in LogEntries
      BY <1>4, LenProperties, ElementOfSeq, LogAssumption
    <2>1. CASE TailN = 0 \/ TailN >= N
      <3>1. R = B
        BY <2>1 DEF TailEntries
      <3> DEFINE id == [i \in 1..N |-> i]
      <3>2. id \in [1..N -> 1..N] /\ \A k \in 1..N : id[k] = k
        OBVIOUS
      <3> HIDE DEF id
      <3> QED
        BY <3>1, <3>2, <1>4 DEF Selects
    <2>2. CASE ~(TailN = 0 \/ TailN >= N)
      <3>1. R = SubSeq(B, N - TailN + 1, N)
        BY <2>2 DEF TailEntries
      <3>2. /\ R \in Seq(LogEntries) /\ Len(R) = TailN
            /\ \A i \in 1..TailN : R[i] = B[N - TailN + i]
        <4>1. /\ N - TailN + 1 \in Int /\ N \in Int /\ N - TailN + 1 <= N
              /\ N - (N - TailN + 1) + 1 = TailN
              /\ \A i \in (N - TailN + 1)..N : i \in 1..N
          BY <2>0, <2>2
        <4>2. \A i \in (N - TailN + 1)..N : B[i] \in LogEntries
          BY <2>0, <4>1
        <4>3. /\ SubSeq(B, N - TailN + 1, N) \in Seq(LogEntries)
              /\ Len(SubSeq(B, N - TailN + 1, N)) = N - (N - TailN + 1) + 1
              /\ \A i \in 1..N - (N - TailN + 1) + 1 :
                   SubSeq(B, N - TailN + 1, N)[i] = B[N - TailN + 1 + i - 1]
          BY <4>1, <4>2, SubSeqProperties
        <4>4. \A i \in 1..TailN : N - TailN + 1 + i - 1 = N - TailN + i
          BY <2>0
        <4> QED
          BY <3>1, <4>1, <4>3, <4>4
      <3> DEFINE last == [i \in 1..TailN |-> N - TailN + i]
      <3>3. /\ last \in [1..TailN -> 1..N]
            /\ \A k \in 1..TailN : last[k] = N - TailN + k
        BY <2>0, <2>2
      <3> HIDE DEF last, R
      <3>4. \A k, l \in 1..TailN : last[k] = last[l] => k = l
        BY <2>0, <3>3
      <3>5. \A k \in 1..TailN : R[k] = B[last[k]]
        BY <3>2, <3>3
      <3> QED
        BY <3>2, <3>3, <3>4, <3>5 DEF Selects
    <2> QED
      BY <2>1, <2>2
  <1> HIDE DEF R
  <1>6. R \in Seq(LogEntries)
    BY <1>5 DEF Selects
  <1>7. \A c : /\ Absent(E, c) => Absent(R, c)
               /\ AtMostOnce(E, c) => AtMostOnce(R, c)
    BY <1>1, <1>2, <1>3, <1>4, <1>5, SelectionKeeps
  <1>8. ApplyFilters(SortByTime(E)) = R
    BY DEF ApplyFilters, R, B, A
  <1> QED
    BY <1>6, <1>7, <1>8

(***************************************************************************)
(* A log file, or what is behind an offset in it.                          *)
(***************************************************************************)
\* Line numbers rise; the cells of a line are its head and behind it its tail; a
\* tail stands behind its head, if there is anything in front of it.
WellFormed(G) ==
  /\ G \in Seq(LogCells)
  /\ \A i, j \in 1..Len(G) :
       i < j => \/ G[i].n < G[j].n
                \/ G[i].n = G[j].n /\ j = i + 1 /\ G[i].half = 1 /\ G[j].half = 2
  /\ \A i \in 1..Len(G) : i > 1 => (G[i].half = 2 <=> G[i - 1].half = 1)

LEMMA CellsDiffer ==
  ASSUME NEW G, WellFormed(G)
  PROVE  \A i, j \in 1..Len(G) : G[i] = G[j] => i = j
  <1>1. Len(G) \in Nat /\ \A i \in 1..Len(G) : G[i] \in LogCells
    BY LenProperties, ElementOfSeq DEF WellFormed
  <1>2. \A i \in 1..Len(G) : G[i].n \in Nat
    BY <1>1 DEF LogCells
  <1>3. \A i, j \in 1..Len(G) : i < j => G[i] # G[j]
    BY <1>2 DEF WellFormed
  <1> QED
    BY <1>1, <1>3

\* What ReadEntries makes of it: no cell twice, no other cells, and none left out
\* but a tail that has lost its head.
LEMMA ReadEntriesIs ==
  ASSUME NEW s \in Svcs, NEW G, WellFormed(G)
  PROVE  LET R == ReadEntries(s, G)
         IN  /\ R \in Seq(LogEntries) /\ AllOf(R, s)
             /\ \A c : AtMostOnce(R, c)
             /\ \A c : c \notin Range(G) => Absent(R, c)
             /\ \A i \in 1..Len(G) : i > 1 \/ G[i].half = 1 => ~Absent(R, G[i])
  <1> DEFINE H == {i \in DOMAIN G : G[i].half = 1}
             heads == Sorted(H, ByPlace(G))
             N == Len(heads)
             L == Len(G)
             Entry(i) == [svc |-> s, ts |-> G[i].n, partial |-> G[i].partial, msg |-> LineAt(G, i)]
             R == ReadEntries(s, G)
  <1>1. /\ L \in Nat /\ DOMAIN G = 1..L /\ Range(G) = {G[i] : i \in 1..L}
        /\ \A i \in 1..L : G[i] \in LogCells
    <2>1. L \in Nat /\ DOMAIN G = 1..L
      BY LenProperties DEF WellFormed
    <2>2. \A i \in 1..L : G[i] \in LogCells
      BY ElementOfSeq DEF WellFormed
    <2> QED
      BY <2>1, <2>2 DEF Range
  <1>2. Lists(heads, H)
    <2>1. H \in SUBSET (1..L)
      BY <1>1
    <2> HIDE DEF H
    <2> QED
      BY <1>1, <2>1, PlacesInOrder
  <1>3. /\ N \in Nat /\ DOMAIN heads = 1..N
        /\ \A k \in 1..N : heads[k] \in 1..L /\ G[heads[k]].half = 1
        /\ \A i \in 1..L : G[i].half = 1 => \E k \in 1..N : heads[k] = i
        /\ \A k, l \in 1..N : heads[k] = heads[l] => k = l
    <2> HIDE DEF heads
    <2>1. N \in Nat /\ DOMAIN heads = 1..N /\ \A k \in 1..N : heads[k] \in H
      <3>1. heads \in Seq(H)
        BY <1>2 DEF Lists
      <3> HIDE DEF H
      <3> QED
        BY <3>1, LenProperties, ElementOfSeq
    <2> QED
      BY <1>1, <1>2, <2>1 DEF Lists
  \* The line of a head: the head, and behind it the tail if it is there.
  <1>4. ASSUME NEW i \in 1..L, G[i].half = 1
        PROVE  /\ LineAt(G, i) \in Seq(LogCells)
               /\ Len(LineAt(G, i)) = IF i < L THEN 2 ELSE 1
               /\ LineAt(G, i)[1] = G[i]
               /\ i < L => LineAt(G, i)[2] = G[i + 1] /\ i + 1 \in 1..L /\ G[i + 1].half = 2
    <2>1. CASE i < L
      <3>1. i + 1 \in 1..L /\ i + 1 > 1 /\ (i + 1) - 1 = i
        BY <1>1, <2>1
      <3>2. G[i + 1].half = 2
        BY <3>1, <1>4 DEF WellFormed
      <3>3. LineAt(G, i) = SubSeq(G, i, i + 1)
        BY <2>1 DEF LineAt
      <3>4. i \in Int /\ i + 1 \in Int /\ i <= i + 1 /\ (i + 1) - i + 1 = 2
            /\ \A j \in i..i + 1 : G[j] \in LogCells
        BY <1>1, <3>1
      <3>5. /\ LineAt(G, i) \in Seq(LogCells)
            /\ Len(LineAt(G, i)) = (i + 1) - i + 1
            /\ \A j \in 1..(i + 1) - i + 1 : LineAt(G, i)[j] = G[i + j - 1]
        BY <3>3, <3>4, SubSeqProperties
      <3>6. 1 \in 1..2 /\ 2 \in 1..2 /\ i + 1 - 1 = i /\ i + 2 - 1 = i + 1
        BY <1>1
      <3> QED
        BY <2>1, <3>1, <3>2, <3>4, <3>5, <3>6
    <2>2. CASE ~(i < L)
      <3>1. LineAt(G, i) = SubSeq(G, i, i)
        BY <2>2 DEF LineAt
      <3>2. i \in Int /\ i <= i /\ i - i + 1 = 1 /\ \A j \in i..i : G[j] \in LogCells
        BY <1>1
      <3> DEFINE n == i
      <3>3. n \in Int /\ i \in Int /\ i <= n /\ \A j \in i..n : G[j] \in LogCells
        BY <3>2
      <3>6. n = i
        OBVIOUS
      <3> HIDE DEF n
      <3>4. /\ SubSeq(G, i, n) \in Seq(LogCells)
            /\ Len(SubSeq(G, i, n)) = n - i + 1
            /\ \A j \in 1..n - i + 1 : SubSeq(G, i, n)[j] = G[i + j - 1]
        BY <3>3, SubSeqProperties
      <3>5. 1 \in 1..1 /\ i + 1 - 1 = i /\ i - i + 1 = 1
        BY <1>1
      <3> QED
        BY <2>2, <3>1, <3>6, <3>4, <3>5
    <2> QED
      BY <2>1, <2>2
  <1> HIDE DEF heads, H, N
  <1>5. /\ R \in Seq(LogEntries) /\ Len(R) = N
        /\ \A k \in 1..N : R[k] = Entry(heads[k])
    <2>1. R = [k \in 1..N |-> Entry(heads[k])]
      BY <1>3 DEF ReadEntries, heads, H
    <2>2. ASSUME NEW k \in 1..N PROVE Entry(heads[k]) \in LogEntries
      <3>1. /\ heads[k] \in 1..L /\ G[heads[k]] \in LogCells
            /\ LineAt(G, heads[k]) \in Seq(LogCells)
        BY <1>1, <1>3, <1>4
      <3> QED
        BY <3>1 DEF LogEntries, LogCells
    <2> HIDE DEF Entry, R
    <2>3. R \in [1..N -> LogEntries]
      BY <2>1, <2>2
    <2> QED
      BY <1>3, <2>1, <2>3
  <1> HIDE DEF R
  \* The place in the file of a place in the entries.
  <1>6. ASSUME NEW k \in Nat, NEW j \in Nat, NEW c, HasAt(R, k, j, c)
        PROVE  /\ k \in 1..N /\ heads[k] \in 1..L /\ c = G[heads[k] + j - 1]
               /\ heads[k] + j - 1 \in 1..L
               /\ \/ j = 1 /\ c.half = 1
                  \/ j = 2 /\ c.half = 2
    <2>1. /\ k \in 1..N /\ R[k].msg = LineAt(G, heads[k])
          /\ j \in 1..Len(LineAt(G, heads[k])) /\ LineAt(G, heads[k])[j] = c
      BY <1>5, <1>6 DEF HasAt
    <2> DEFINE i == heads[k]
    <2>2. i \in 1..L /\ G[i].half = 1
      BY <2>1, <1>3
    <2>3. /\ Len(LineAt(G, i)) = IF i < L THEN 2 ELSE 1
          /\ LineAt(G, i)[1] = G[i]
          /\ i < L => LineAt(G, i)[2] = G[i + 1] /\ i + 1 \in 1..L /\ G[i + 1].half = 2
      BY <2>2, <1>4
    <2> HIDE DEF i
    <2>4. j = 1 \/ (j = 2 /\ i < L)
      BY <1>1, <2>1, <2>2, <2>3 DEF i
    <2>5. CASE j = 1
      <3>1. i + 1 - 1 = i
        BY <1>1, <2>2
      <3> QED
        BY <2>1, <2>2, <2>3, <2>5, <3>1 DEF i
    <2>6. CASE j = 2 /\ i < L
      <3>1. i + 2 - 1 = i + 1
        BY <1>1, <2>2
      <3> QED
        BY <2>1, <2>2, <2>3, <2>6, <3>1 DEF i
    <2> QED
      BY <2>4, <2>5, <2>6
  <1>7. ASSUME NEW c PROVE AtMostOnce(R, c)
    <2> SUFFICES ASSUME NEW k \in Nat, NEW j \in Nat, NEW l \in Nat, NEW m \in Nat,
                        HasAt(R, k, j, c), HasAt(R, l, m, c)
                 PROVE  k = l /\ j = m
      BY DEF AtMostOnce
    <2>1. /\ k \in 1..N /\ heads[k] \in 1..L /\ c = G[heads[k] + j - 1]
          /\ heads[k] + j - 1 \in 1..L
          /\ (j = 1 /\ c.half = 1) \/ (j = 2 /\ c.half = 2)
      BY <1>6
    <2>2. /\ l \in 1..N /\ heads[l] \in 1..L /\ c = G[heads[l] + m - 1]
          /\ heads[l] + m - 1 \in 1..L
          /\ (m = 1 /\ c.half = 1) \/ (m = 2 /\ c.half = 2)
      BY <1>6
    <2>3. j = m
      BY <2>1, <2>2
    <2>4. heads[k] + j - 1 = heads[l] + m - 1
      BY <2>1, <2>2, CellsDiffer
    <2>5. heads[k] = heads[l]
      BY <2>1, <2>2, <2>3, <2>4, <1>1
    <2> QED
      BY <2>1, <2>2, <2>3, <2>5, <1>3
  <1>8. ASSUME NEW c, c \notin Range(G) PROVE Absent(R, c)
    <2>1. \A i \in 1..L : c # G[i]
      BY <1>1, <1>8
    <2>2. \A k, j \in Nat : HasAt(R, k, j, c) => \E i \in 1..L : c = G[i]
      BY <1>6
    <2> QED
      BY <2>1, <2>2 DEF Absent
  <1>9. ASSUME NEW i \in 1..L, i > 1 \/ G[i].half = 1 PROVE ~Absent(R, G[i])
    <2>1. CASE G[i].half = 1
      <3>1. PICK k \in 1..N : heads[k] = i
        BY <2>1, <1>3
      <3>2. R[k].msg = LineAt(G, i) /\ k \in 1..Len(R) /\ k \in Nat
        BY <3>1, <1>3, <1>5
      <3>3. 1 \in 1..Len(LineAt(G, i)) /\ LineAt(G, i)[1] = G[i]
        BY <2>1, <1>4
      <3>4. HasAt(R, k, 1, G[i])
        BY <3>2, <3>3 DEF HasAt
      <3> QED
        BY <3>2, <3>4 DEF Absent
    <2>2. CASE G[i].half # 1
      <3>1. G[i].half = 2 /\ i > 1
        BY <2>2, <1>1, <1>9 DEF LogCells
      <3>2. i - 1 \in 1..L /\ i - 1 < L /\ (i - 1) + 1 = i /\ G[i - 1].half = 1
        BY <3>1, <1>1 DEF WellFormed
      <3>3. PICK k \in 1..N : heads[k] = i - 1
        BY <3>2, <1>3
      <3>4. R[k].msg = LineAt(G, i - 1) /\ k \in 1..Len(R) /\ k \in Nat
        BY <3>3, <1>3, <1>5
      <3>5. Len(LineAt(G, i - 1)) = 2 /\ LineAt(G, i - 1)[2] = G[i]
        BY <3>2, <1>4
      <3>6. HasAt(R, k, 2, G[i])
        BY <3>4, <3>5 DEF HasAt
      <3> QED
        BY <3>4, <3>6 DEF Absent
    <2> QED
      BY <2>1, <2>2
  <1>10. AllOf(R, s)
    BY <1>5 DEF AllOf
  <1> QED
    BY <1>1, <1>5, <1>7, <1>8, <1>9, <1>10 DEF R

\* What one reading prints.
LEMMA ReadingIs ==
  ASSUME NEW s \in Svcs, NEW G, WellFormed(G)
  PROVE  LET R == JoinPartials(ReadEntries(s, G))
         IN  /\ R \in Seq(LogEntries) /\ AllOf(R, s)
             /\ \A c : AtMostOnce(R, c)
             /\ \A c : c \notin Range(G) => Absent(R, c)
             /\ \A i \in 1..Len(G) : i > 1 \/ G[i].half = 1 => ~Absent(R, G[i])
  <1> DEFINE E == ReadEntries(s, G)
  <1>1. /\ E \in Seq(LogEntries) /\ AllOf(E, s)
        /\ \A c : AtMostOnce(E, c)
        /\ \A c : c \notin Range(G) => Absent(E, c)
        /\ \A i \in 1..Len(G) : i > 1 \/ G[i].half = 1 => ~Absent(E, G[i])
    BY ReadEntriesIs
  <1> HIDE DEF E
  <1>2. /\ JoinPartials(E) \in Seq(LogEntries) /\ Keeps(E, JoinPartials(E))
        /\ AllOf(JoinPartials(E), s)
    BY <1>1, JoinPartialsKeeps
  <1> QED
    BY <1>1, <1>2 DEF Keeps, E

\* What is behind an offset.
LEMMA RestIs ==
  ASSUME NEW F, WellFormed(F), NEW a \in Nat
  PROVE  LET G == SubSeq(F, a + 1, Len(F))
         IN  /\ WellFormed(G)
             /\ \A p \in 1..Len(F) : p > a => p - a \in 1..Len(G) /\ G[p - a] = F[p]
             /\ \A c \in Range(G) : \E p \in 1..Len(F) : p > a /\ c = F[p]
  <1> DEFINE G == SubSeq(F, a + 1, Len(F))
             N == Len(F)
  <1>1. N \in Nat /\ \A p \in 1..N : F[p] \in LogCells
    BY LenProperties, ElementOfSeq DEF WellFormed
  <1>2. /\ G \in Seq(LogCells)
        /\ Len(G) = IF a + 1 <= N THEN N - a ELSE 0
        /\ \A i \in 1..N - a : G[i] = F[a + i]
    <2>1. \A i \in (a + 1)..N : F[i] \in LogCells
      BY <1>1
    <2>2. /\ G \in Seq(LogCells)
          /\ Len(G) = IF a + 1 <= N THEN N - (a + 1) + 1 ELSE 0
          /\ \A i \in 1..N - (a + 1) + 1 : G[i] = F[a + 1 + i - 1]
      BY <1>1, <2>1, SubSeqProperties
    <2>3. N - (a + 1) + 1 = N - a /\ \A i \in Int : a + 1 + i - 1 = a + i
      BY <1>1
    <2> HIDE DEF G, N
    <2> QED
      BY <1>1, <2>2, <2>3
  <1> HIDE DEF G
  <1>3. /\ Len(G) \in Nat
        /\ \A i \in 1..Len(G) : i \in 1..N - a /\ a + i \in 1..N /\ a + i > a /\ G[i] = F[a + i]
    BY <1>1, <1>2
  <1>4. \A p \in 1..N : p > a => p - a \in 1..Len(G) /\ G[p - a] = F[p]
    <2> SUFFICES ASSUME NEW p \in 1..N, p > a PROVE p - a \in 1..Len(G) /\ G[p - a] = F[p]
      OBVIOUS
    <2>1. p - a \in 1..N - a /\ a + (p - a) = p /\ a + 1 <= N
      BY <1>1
    <2> QED
      BY <1>2, <2>1
  <1>5. \A c \in Range(G) : \E p \in 1..N : p > a /\ c = F[p]
    <2>1. \A c \in Range(G) : \E i \in 1..Len(G) : c = G[i]
      BY <1>2, LenProperties DEF Range
    <2> QED
      BY <1>3, <2>1
  <1>6. \A i, j \in 1..Len(G) :
          i < j => \/ G[i].n < G[j].n
                   \/ G[i].n = G[j].n /\ j = i + 1 /\ G[i].half = 1 /\ G[j].half = 2
    <2> SUFFICES ASSUME NEW i \in 1..Len(G), NEW j \in 1..Len(G), i < j
                 PROVE  \/ G[i].n < G[j].n
                        \/ G[i].n = G[j].n /\ j = i + 1 /\ G[i].half = 1 /\ G[j].half = 2
      OBVIOUS
    <2> DEFINE p == a + i
               r == a + j
    <2>1. /\ p \in 1..N /\ r \in 1..N /\ G[i] = F[p] /\ G[j] = F[r]
          /\ p < r /\ (r = p + 1 => j = i + 1)
      BY <1>3
    <2> HIDE DEF p, r
    <2>2. \/ F[p].n < F[r].n
          \/ F[p].n = F[r].n /\ r = p + 1 /\ F[p].half = 1 /\ F[r].half = 2
      BY <2>1 DEF WellFormed
    <2> QED
      BY <2>1, <2>2
  <1>7. \A i \in 1..Len(G) : i > 1 => (G[i].half = 2 <=> G[i - 1].half = 1)
    <2> SUFFICES ASSUME NEW i \in 1..Len(G), i > 1
                 PROVE  G[i].half = 2 <=> G[i - 1].half = 1
      OBVIOUS
    <2> DEFINE p == a + i
    <2>1. i - 1 \in 1..Len(G) /\ p \in 1..N /\ p > 1 /\ p - 1 = a + (i - 1)
      BY <1>3
    <2>2. G[i] = F[p] /\ G[i - 1] = F[p - 1]
      BY <1>3, <2>1
    <2> HIDE DEF p
    <2>3. F[p].half = 2 <=> F[p - 1].half = 1
      BY <2>1 DEF WellFormed
    <2> QED
      BY <2>2, <2>3
  <1>8. WellFormed(G)
    BY <1>2, <1>6, <1>7 DEF WellFormed
  <1> QED
    BY <1>4, <1>5, <1>8 DEF G

(***************************************************************************)
(* The invariant of the follower.                                          *)
(***************************************************************************)
LogTypes ==
  /\ files \in [Svcs -> Seq(LogCells)] /\ clock \in Nat
  /\ pc \in {"dump", "print", "stat", "tick", "poll", "read", "done"}
  /\ at \in 1..Len(Services)
  /\ acc \in Seq(LogEntries) /\ out \in Seq(LogEntries)
  /\ offsets \in [Svcs -> Nat] /\ size \in Nat
  /\ cuts \in [Svcs -> SUBSET Nat] /\ cut \subseteq Svcs

\* A file is lines one after the other; no two services have a line in common.
FilesOk ==
  /\ \A s \in Svcs :
       /\ WellFormed(files[s])
       /\ \A i \in 1..Len(files[s]) : files[s][i].n <= clock
       /\ Len(files[s]) > 0 => files[s][1].half = 1
  /\ \A s, t \in Svcs : s # t =>
       \A i \in 1..Len(files[s]), j \in 1..Len(files[t]) : files[s][i].n # files[t][j].n

\* A cell that may still be written.
Coming(c) ==
  \/ c.n > clock
  \/ \E s \in Svcs : Unfinished(s) /\ c = [Last(files[s]) EXCEPT !.half = 2]

Fresh == \A c \in LogCells : Coming(c) => Absent(out, c) /\ Absent(acc, c)

\* Dump reads each file once.
DumpOk ==
  /\ \A c \in LogCells : AtMostOnce(acc, c)
  /\ pc \in {"dump", "print"} => out = <<>>
  /\ pc = "print" => at = 1
  /\ pc = "dump" =>
       \A i \in at..Len(Services) : \A p \in 1..Len(files[Services[i]]) :
         Absent(acc, files[Services[i]][p])

\* What is behind the offset was printed at most once, namely by the last reading,
\* and what was written since the last stat not at all.
CountOk ==
  /\ \A s \in Svcs : \A p \in 1..Len(files[s]) :
       /\ AtMostTwo(out, files[s][p])
       /\ p > offsets[s] => AtMostOnce(out, files[s][p])
  /\ pc = "read" =>
       \A p \in 1..Len(files[S]) : p > size => Absent(out, files[S][p])

\* The offset of the i-th service was taken.
Taken(i) == pc \in {"tick", "poll", "read", "done"} \/ (pc = "stat" /\ i < at)

ShownIn(E, s, c) == \E i, j \in Nat : HasAt(E, i, j, c) /\ E[i].svc = s

\* What is between the first offset and the present one was printed, but for tails
\* that an offset cut off.
Followed(s) ==
  /\ offsets[s] <= Len(files[s])
  /\ \A x \in cuts[s] : x <= offsets[s]
  /\ \A p \in 1..offsets[s] : \A x \in cuts[s] : x < p =>
       \/ ShownIn(out, s, files[s][p])
       \/ files[s][p].half = 2 /\ p - 1 \in cuts[s]

CaughtUp ==
  /\ \A i \in 1..Len(Services) :
       IF Taken(i)
       THEN /\ offsets[Services[i]] \in cuts[Services[i]]
            /\ Services[i] \notin cut => Followed(Services[i])
       ELSE cuts[Services[i]] = {}
  /\ pc = "read" => offsets[S] < size /\ (S \notin cut => size <= Len(files[S]))

LogInv == LogTypes /\ FilesOk /\ Fresh /\ DumpOk /\ CountOk /\ CaughtUp

LEMMA LogInit == Init => LogInv
  <1> SUFFICES ASSUME Init PROVE LogInv
    OBVIOUS
  <1> USE DEF Init
  <1>1. Len(Services) \in Nat /\ 1 \in 1..Len(Services) /\ DOMAIN Services = 1..Len(Services)
    <2>1. Len(Services) \in Nat \ {0} /\ DOMAIN Services = 1..Len(Services)
      BY ServicesAreListedOnce, EmptySeq, LenProperties
    <2> QED
      BY <2>1
  <1>2. LogTypes
    <2>1. <<>> \in Seq(LogCells) /\ <<>> \in Seq(LogEntries)
      OBVIOUS
    <2> QED
      BY <1>1, <2>1 DEF LogTypes
  <1>3. Len(<<>>) = 0 /\ \A s \in Svcs : files[s] = <<>>
    OBVIOUS
  <1>4. WellFormed(<<>>)
    <2>1. <<>> \in Seq(LogCells) /\ Len(<<>>) = 0 /\ 1..0 = {}
      OBVIOUS
    <2> QED
      BY <2>1 DEF WellFormed
  <1>5. FilesOk
    BY <1>3, <1>4 DEF FilesOk
  <1>6. \A c : Absent(<<>>, c) /\ AtMostOnce(<<>>, c)
    BY DEF Absent, AtMostOnce, HasAt
  <1>7. Fresh /\ DumpOk
    BY <1>6 DEF Fresh, DumpOk
  <1>8. CountOk
    BY <1>3 DEF CountOk
  <1>9. CaughtUp
    <2>1. \A i \in 1..Len(Services) : Services[i] \in Svcs /\ ~Taken(i)
      BY <1>1 DEF Svcs, Range, Taken
    <2> QED
      BY <2>1 DEF CaughtUp
  <1> QED
    BY <1>2, <1>5, <1>7, <1>8, <1>9 DEF LogInv

\* What the types say of the services and their files.
LEMMA LogNumbers ==
  ASSUME LogTypes, FilesOk
  PROVE  /\ Len(Services) \in Nat /\ DOMAIN Services = 1..Len(Services) /\ at \in 1..Len(Services)
         /\ \A i \in 1..Len(Services) : Services[i] \in Svcs
         /\ \A i, j \in 1..Len(Services) : Services[i] = Services[j] => i = j
         /\ \A s \in Svcs : \E i \in 1..Len(Services) : Services[i] = s
         /\ S \in Svcs
         /\ \A s \in Svcs : /\ files[s] \in Seq(LogCells) /\ Len(files[s]) \in Nat
                            /\ DOMAIN files[s] = 1..Len(files[s])
                            /\ \A p \in 1..Len(files[s]) :
                                 files[s][p] \in LogCells /\ files[s][p].n \in Nat
         /\ \A s \in Svcs : offsets[s] \in Nat
  <1>1. /\ Len(Services) \in Nat /\ DOMAIN Services = 1..Len(Services)
        /\ \A i, j \in 1..Len(Services) : Services[i] = Services[j] => i = j
    BY ServicesAreListedOnce, LenProperties
  <1>2. /\ \A i \in 1..Len(Services) : Services[i] \in Svcs
        /\ \A s \in Svcs : \E i \in 1..Len(Services) : Services[i] = s
    BY <1>1 DEF Svcs, Range
  <1>3. at \in 1..Len(Services) /\ S \in Svcs
    BY <1>2 DEF LogTypes, S
  <1>4. \A s \in Svcs : files[s] \in Seq(LogCells) /\ offsets[s] \in Nat
    BY DEF LogTypes
  <1>5. ASSUME NEW s \in Svcs
        PROVE  /\ Len(files[s]) \in Nat /\ DOMAIN files[s] = 1..Len(files[s])
               /\ \A p \in 1..Len(files[s]) : files[s][p] \in LogCells /\ files[s][p].n \in Nat
    <2>1. Len(files[s]) \in Nat /\ DOMAIN files[s] = 1..Len(files[s])
      BY <1>4, LenProperties
    <2>2. \A p \in 1..Len(files[s]) : files[s][p] \in LogCells
      BY <1>4, ElementOfSeq
    <2> QED
      BY <2>1, <2>2 DEF LogCells
  <1> QED
    BY <1>1, <1>2, <1>3, <1>4, <1>5

\* What may still be written is in no file.
LEMMA ComingIsNotThere ==
  ASSUME LogTypes, FilesOk, NEW c, Coming(c)
  PROVE  \A s \in Svcs : \A p \in 1..Len(files[s]) : files[s][p] # c
  <1> SUFFICES ASSUME NEW s \in Svcs, NEW p \in 1..Len(files[s]), files[s][p] = c PROVE FALSE
    OBVIOUS
  <1>1. /\ Len(files[s]) \in Nat /\ c \in LogCells /\ c.n \in Nat /\ c.n <= clock /\ clock \in Nat
    BY LogNumbers DEF FilesOk, LogTypes
  <1>2. PICK t \in Svcs : Unfinished(t) /\ c = [Last(files[t]) EXCEPT !.half = 2]
    BY <1>1 DEF Coming
  <1> DEFINE q == Len(files[t])
             last == files[t][q]
  <1>3. q \in Nat \ {0} /\ q \in 1..q /\ last.half = 1 /\ last \in LogCells /\ c.n = last.n /\ c.half = 2
    <2>1. files[t] # <<>> /\ files[t] \in Seq(LogCells)
      BY <1>2, LogNumbers DEF Unfinished
    <2>2. q \in Nat \ {0} /\ q \in 1..q
      BY <2>1, EmptySeq
    <2>3. last \in LogCells /\ last.half = 1 /\ c = [last EXCEPT !.half = 2]
      BY <1>2, <2>2, LogNumbers DEF Unfinished, Last
    <2> QED
      BY <2>2, <2>3 DEF LogCells
  <1>4. s = t
    BY <1>1, <1>3 DEF FilesOk
  <1>5. p # q /\ p < q
    BY <1>1, <1>3, <1>4
  <1>6. WellFormed(files[t])
    BY DEF FilesOk
  <1>7. files[t][p].n < last.n \/ last.half = 2
    BY <1>3, <1>4, <1>5, <1>6 DEF WellFormed
  <1> QED
    BY <1>1, <1>3, <1>4, <1>7

(***************************************************************************)
(* The runtime writes.                                                     *)
(***************************************************************************)
\* A head behind a whole line, or a tail behind its head.
LEMMA AddCell ==
  ASSUME NEW F, WellFormed(F), NEW c \in LogCells,
         \/ /\ c.half = 1 /\ \A i \in 1..Len(F) : F[i].n < c.n
            /\ Len(F) > 0 => F[Len(F)].half = 2
         \/ /\ c.half = 2 /\ Len(F) > 0 /\ F[Len(F)].half = 1 /\ F[Len(F)].n = c.n
  PROVE  /\ WellFormed(Append(F, c)) /\ Len(Append(F, c)) = Len(F) + 1
         /\ Append(F, c)[Len(F) + 1] = c
         /\ \A i \in 1..Len(F) : Append(F, c)[i] = F[i]
  <1> DEFINE G == Append(F, c)
             L == Len(F)
  <1>1. /\ L \in Nat /\ G \in Seq(LogCells) /\ Len(G) = L + 1 /\ G[L + 1] = c
        /\ \A i \in 1..L : G[i] = F[i] /\ F[i] \in LogCells /\ F[i].n \in Nat
    <2>1. F \in Seq(LogCells)
      BY DEF WellFormed
    <2>2. \A i \in 1..L : F[i] \in LogCells
      BY <2>1, ElementOfSeq
    <2>3. \A i \in 1..L : F[i].n \in Nat
      BY <2>2 DEF LogCells
    <2> QED
      BY <2>1, <2>2, <2>3, AppendProperties, LenProperties
  <1>2. \A i, j \in 1..L :
          i < j => \/ F[i].n < F[j].n
                   \/ F[i].n = F[j].n /\ j = i + 1 /\ F[i].half = 1 /\ F[j].half = 2
    BY DEF WellFormed
  <1>3. \A i \in 1..L : i > 1 => (F[i].half = 2 <=> F[i - 1].half = 1)
    BY DEF WellFormed
  <1>4. \/ /\ c.half = 1 /\ \A i \in 1..L : F[i].n < c.n
           /\ L > 0 => F[L].half = 2
        \/ c.half = 2 /\ L > 0 /\ F[L].half = 1 /\ F[L].n = c.n
    OBVIOUS
  <1> HIDE DEF G, L
  <1>5. ASSUME NEW i \in 1..L + 1, NEW j \in 1..L + 1, i < j
        PROVE  \/ G[i].n < G[j].n
               \/ G[i].n = G[j].n /\ j = i + 1 /\ G[i].half = 1 /\ G[j].half = 2
    <2>1. CASE j \in 1..L
      <3>1. i \in 1..L
        BY <1>1, <1>5, <2>1
      <3> QED
        BY <3>1, <2>1, <1>1, <1>2, <1>5
    <2>2. CASE j = L + 1
      <3>1. i \in 1..L /\ G[i] = F[i] /\ G[j] = c /\ F[i].n \in Nat
        BY <1>1, <1>5, <2>2
      <3>2. CASE c.half = 1
        BY <1>4, <3>1, <3>2
      <3>3. CASE c.half = 2 /\ L > 0 /\ F[L].half = 1 /\ F[L].n = c.n
        <4>1. CASE i = L
          BY <2>2, <3>1, <3>3, <4>1
        <4>2. CASE i # L
          <5>1. i < L /\ L \in 1..L
            BY <1>1, <3>1, <4>2
          <5>2. F[i].n < F[L].n
            BY <1>1, <1>2, <3>1, <3>3, <5>1
          <5> QED
            BY <3>1, <3>3, <5>2
        <4> QED
          BY <4>1, <4>2
      <3> QED
        BY <1>4, <3>2, <3>3
    <2> QED
      BY <1>1, <2>1, <2>2
  <1>6. ASSUME NEW i \in 1..L + 1, i > 1
        PROVE  G[i].half = 2 <=> G[i - 1].half = 1
    <2>1. i - 1 \in 1..L /\ G[i - 1] = F[i - 1] /\ (i \in 1..L \/ i = L + 1)
      BY <1>1, <1>6
    <2>2. CASE i \in 1..L
      BY <1>1, <1>3, <1>6, <2>1, <2>2
    <2>3. CASE i = L + 1
      <3>1. i - 1 = L /\ L > 0 /\ G[i] = c
        BY <1>1, <2>3, <2>1
      <3>2. c.half = 2 <=> F[L].half = 1
        BY <1>4, <3>1
      <3> QED
        BY <3>1, <3>2, <2>1
    <2> QED
      BY <2>1, <2>2, <2>3
  <1>7. WellFormed(G)
    BY <1>1, <1>5, <1>6 DEF WellFormed
  <1> QED
    BY <1>1, <1>7 DEF G, L

\* A file grows by cells that were to come.
LEMMA FileGrows ==
  ASSUME LogInv, NEW s \in Svcs, NEW F \in Seq(LogCells), files' = [files EXCEPT ![s] = F],
         Len(F) >= Len(files[s]), \A i \in 1..Len(files[s]) : F[i] = files[s][i],
         \A i \in 1..Len(F) : i > Len(files[s]) => Coming(F[i]),
         \A c \in LogCells : Coming(c)' => Coming(c),
         clock' \in Nat, FilesOk',
         UNCHANGED <<pc, at, acc, offsets, size, out, cuts, cut>>
  PROVE  LogInv'
  <1> USE DEF LogInv
  <1>1. LogTypes'
    BY DEF LogTypes
  <1>2. /\ Len(files[s]) \in Nat /\ Len(F) \in Nat
        /\ \A t \in Svcs : files'[t] = IF t = s THEN F ELSE files[t]
        /\ \A i \in 1..Len(F) : F[i] \in LogCells
    BY LogNumbers, LenProperties, ElementOfSeq DEF LogTypes
  \* A cell of the files was there or was to come.
  <1>3. ASSUME NEW t \in Svcs, NEW p \in 1..Len(files'[t])
        PROVE  /\ files'[t][p] \in LogCells
               /\ \/ p \in 1..Len(files[t]) /\ files'[t][p] = files[t][p]
                  \/ Coming(files'[t][p])
    <2>1. CASE t = s
      BY <2>1, <1>2
    <2>2. CASE t # s
      BY <2>2, <1>2, LogNumbers
    <2> QED
      BY <2>1, <2>2
  <1>4. \A t \in Svcs : \A p \in 1..Len(files'[t]) :
          Coming(files'[t][p]) => Absent(out, files'[t][p]) /\ Absent(acc, files'[t][p])
    BY <1>3 DEF Fresh
  <1>5. Fresh'
    BY DEF Fresh
  <1>6. S' = S
    BY DEF S
  <1>7. DumpOk'
    <2>1. ASSUME pc = "dump", NEW i \in at..Len(Services), NEW p \in 1..Len(files'[Services[i]])
          PROVE  Absent(acc, files'[Services[i]][p])
      <3>1. Services[i] \in Svcs
        BY LogNumbers
      <3>2. CASE Coming(files'[Services[i]][p])
        BY <3>1, <3>2, <1>4
      <3>3. CASE /\ p \in 1..Len(files[Services[i]])
                 /\ files'[Services[i]][p] = files[Services[i]][p]
        BY <3>3, <2>1 DEF DumpOk
      <3> QED
        BY <3>1, <3>2, <3>3, <1>3
    <2> QED
      BY <2>1 DEF DumpOk
  <1>8. \A c : Absent(out, c) => AtMostOnce(out, c) /\ AtMostTwo(out, c)
    BY DEF Absent, AtMostOnce, AtMostTwo
  <1>9. CountOk'
    <2>1. ASSUME NEW t \in Svcs, NEW p \in 1..Len(files'[t])
          PROVE  /\ AtMostTwo(out, files'[t][p])
                 /\ p > offsets[t] => AtMostOnce(out, files'[t][p])
                 /\ pc = "read" /\ t = S /\ p > size => Absent(out, files'[t][p])
      <3>1. CASE Coming(files'[t][p])
        BY <3>1, <1>4, <1>8
      <3>2. CASE p \in 1..Len(files[t]) /\ files'[t][p] = files[t][p]
        BY <3>2 DEF CountOk
      <3> QED
        BY <3>1, <3>2, <1>3
    <2> QED
      BY <2>1, <1>6, LogNumbers DEF CountOk
  <1>10. CaughtUp'
    <2>1. ASSUME NEW t \in Svcs, Followed(t) PROVE Followed(t)'
      <3>1. Len(files[t]) <= Len(files'[t]) /\ Len(files[t]) \in Nat /\ Len(files'[t]) \in Nat
            /\ offsets[t] \in Nat
        BY <1>2, LogNumbers
      <3>2. offsets[t] <= Len(files[t])
        BY <2>1 DEF Followed
      <3>3. \A p \in 1..offsets[t] : files'[t][p] = files[t][p]
        BY <1>2, <3>1, <3>2
      <3>4. /\ \A x \in cuts[t] : x <= offsets[t]
            /\ \A p \in 1..offsets[t] : \A x \in cuts[t] : x < p =>
                 \/ ShownIn(out, t, files[t][p])
                 \/ files[t][p].half = 2 /\ p - 1 \in cuts[t]
        BY <2>1 DEF Followed
      <3>5. /\ offsets[t] <= Len(files'[t])
            /\ \A p \in 1..offsets[t] : \A x \in cuts[t] : x < p =>
                 \/ ShownIn(out, t, files'[t][p])
                 \/ files'[t][p].half = 2 /\ p - 1 \in cuts[t]
        BY <3>1, <3>2, <3>3, <3>4
      <3> QED
        BY <3>4, <3>5 DEF Followed
    <2>2. \A i : Taken(i)' <=> Taken(i)
      BY DEF Taken
    <2>3. pc = "read" /\ S \notin cut => size <= Len(files'[S])
      <3>1. Len(files[S]) <= Len(files'[S]) /\ Len(files[S]) \in Nat /\ Len(files'[S]) \in Nat
        BY <1>2, LogNumbers
      <3>2. pc = "read" /\ S \notin cut => size <= Len(files[S])
        BY DEF CaughtUp
      <3> QED
        BY <3>1, <3>2 DEF LogTypes
    <2> QED
      BY <1>6, <2>1, <2>2, <2>3, LogNumbers DEF CaughtUp
  <1> QED
    BY <1>1, <1>5, <1>7, <1>9, <1>10

\* The files with a new cell in one of them, of a line of its own or the last one.
LEMMA FilesOkOnAdding ==
  ASSUME LogTypes, FilesOk, NEW s \in Svcs, NEW F, WellFormed(F), Len(F) > 0 => F[1].half = 1,
         files' = [files EXCEPT ![s] = F], clock' \in Nat, clock <= clock',
         \A i \in 1..Len(F) : \/ \E j \in 1..Len(files[s]) : F[i].n = files[s][j].n
                              \/ clock < F[i].n /\ F[i].n <= clock'
  PROVE  FilesOk'
  <1>1. /\ \A t \in Svcs : files'[t] = IF t = s THEN F ELSE files[t]
        /\ clock \in Nat
        /\ \A t \in Svcs : \A p \in 1..Len(files[t]) : files[t][p].n \in Nat /\ files[t][p].n <= clock
    BY LogNumbers DEF LogTypes, FilesOk
  <1>2. \A i \in 1..Len(F) : F[i].n \in Nat
    <2>1. \A i \in 1..Len(F) : F[i] \in LogCells
      BY ElementOfSeq DEF WellFormed
    <2> QED
      BY <2>1 DEF LogCells
  <1>3. ASSUME NEW t \in Svcs
        PROVE  /\ WellFormed(files'[t]) /\ (Len(files'[t]) > 0 => files'[t][1].half = 1)
               /\ \A i \in 1..Len(files'[t]) : files'[t][i].n <= clock'
    <2>1. CASE t = s
      <3>1. ASSUME NEW i \in 1..Len(F) PROVE F[i].n <= clock'
        BY <1>1, <1>2
      <3> QED
        BY <2>1, <3>1, <1>1
    <2>2. CASE t # s
      BY <2>2, <1>1 DEF FilesOk
    <2> QED
      BY <2>1, <2>2
  <1>4. ASSUME NEW t \in Svcs, t # s, NEW i \in 1..Len(F), NEW j \in 1..Len(files[t])
        PROVE  F[i].n # files[t][j].n
    <2>1. CASE clock < F[i].n
      BY <2>1, <1>1, <1>2
    <2>2. CASE \E k \in 1..Len(files[s]) : F[i].n = files[s][k].n
      BY <2>2, <1>4 DEF FilesOk
    <2> QED
      BY <2>1, <2>2
  <1>5. \A t, u \in Svcs : t # u =>
          \A i \in 1..Len(files'[t]), j \in 1..Len(files'[u]) : files'[t][i].n # files'[u][j].n
    BY <1>1, <1>4 DEF FilesOk
  <1> QED
    BY <1>3, <1>5 DEF FilesOk

\* The last cell of a file.
LEMMA LastIs ==
  ASSUME LogTypes, FilesOk, NEW s \in Svcs
  PROVE  /\ files[s] # <<>> <=> Len(files[s]) > 0
         /\ Len(files[s]) > 0 => /\ Len(files[s]) \in 1..Len(files[s])
                                 /\ Last(files[s]) = files[s][Len(files[s])]
                                 /\ Last(files[s]) \in LogCells
         /\ Unfinished(s) <=> Len(files[s]) > 0 /\ files[s][Len(files[s])].half = 1
  <1>1. files[s] \in Seq(LogCells) /\ Len(files[s]) \in Nat
    BY LogNumbers
  <1>2. files[s] # <<>> <=> Len(files[s]) > 0
    BY <1>1, EmptySeq
  <1>3. Len(files[s]) > 0 => /\ Len(files[s]) \in 1..Len(files[s])
                             /\ Last(files[s]) = files[s][Len(files[s])]
    BY <1>1 DEF Last
  <1> QED
    BY <1>2, <1>3, LogNumbers DEF Unfinished

\* The head of a new line.
LEMMA NewHead ==
  ASSUME LogTypes, FilesOk, NEW s \in Svcs, ~Unfinished(s), NEW partial \in BOOLEAN
  PROVE  LET c == Cell(clock + 1, 1, partial)
             F == Append(files[s], c)
         IN  /\ c \in LogCells /\ WellFormed(F) /\ Len(F) = Len(files[s]) + 1
             /\ F[Len(files[s]) + 1] = c
             /\ \A i \in 1..Len(files[s]) : F[i] = files[s][i]
             /\ F[1].half = 1
  <1> DEFINE c == Cell(clock + 1, 1, partial)
             F == Append(files[s], c)
             L == Len(files[s])
  <1>1. clock \in Nat /\ L \in Nat
    BY LogNumbers DEF LogTypes
  <1>2. c \in LogCells /\ c.half = 1 /\ c.n = clock + 1
    BY <1>1 DEF Cell, LogCells
  <1>3. \A i \in 1..L : files[s][i].n < c.n
    BY <1>1, <1>2, LogNumbers DEF FilesOk
  <1>4. L > 0 => files[s][L].half = 2
    BY LastIs DEF LogCells
  <1>5. WellFormed(files[s]) /\ (L > 0 => files[s][1].half = 1)
    BY DEF FilesOk
  <1> HIDE DEF c
  <1>6. /\ WellFormed(F) /\ Len(F) = L + 1 /\ F[L + 1] = c
        /\ \A i \in 1..L : F[i] = files[s][i]
    BY <1>2, <1>3, <1>4, <1>5, AddCell
  <1> HIDE DEF F
  <1>7. F[1].half = 1
    <2>1. CASE L = 0
      <3>1. L + 1 = 1
        BY <2>1
      <3> QED
        BY <1>2, <1>6, <3>1
    <2>2. CASE L # 0
      <3>1. L > 0 /\ 1 \in 1..L
        BY <1>1, <2>2
      <3> QED
        BY <3>1, <1>5, <1>6
    <2> QED
      BY <2>1, <2>2
  <1> QED
    BY <1>2, <1>6, <1>7 DEF F, c

LEMMA WriteLineStays ==
  ASSUME LogInv, NEW s \in Svcs, NEW partial \in BOOLEAN, WriteLine(s, partial) PROVE LogInv'
  <1> USE DEF LogInv
  <1> DEFINE n == clock + 1
             h == Cell(n, 1, partial)
             t == Cell(n, 2, partial)
             L == Len(files[s])
             A == Append(files[s], h)
             F == Append(A, t)
  <1>1. /\ clock' = n /\ ~Unfinished(s)
        /\ files' = [files EXCEPT ![s] = files[s] \o <<h, t>>]
        /\ UNCHANGED <<pc, at, acc, offsets, size, out, cuts, cut>>
    BY DEF WriteLine
  <1>2. clock \in Nat /\ n \in Nat /\ n > clock /\ L \in Nat /\ files[s] \in Seq(LogCells)
    BY LogNumbers DEF LogTypes
  <1>3. /\ h \in LogCells /\ WellFormed(A) /\ Len(A) = L + 1 /\ A[L + 1] = h
        /\ \A i \in 1..L : A[i] = files[s][i]
        /\ A[1].half = 1
    BY <1>1, NewHead
  <1>4. t \in LogCells /\ t.half = 2 /\ t.n = n /\ h.half = 1 /\ h.n = n
    BY <1>2 DEF Cell, LogCells
  <1>5. A \in Seq(LogCells) /\ Len(A) > 0 /\ A[Len(A)] = h
    BY <1>2, <1>3 DEF WellFormed
  <1>6. files[s] \o <<h, t>> = F
    <2> HIDE DEF h, t
    <2> QED
      BY <1>2, <1>3, <1>4
  <1> HIDE DEF h, t, A, L
  <1>7. /\ WellFormed(F) /\ Len(F) = Len(A) + 1 /\ F[Len(A) + 1] = t
        /\ \A i \in 1..Len(A) : F[i] = A[i]
    BY <1>3, <1>4, <1>5, AddCell
  <1> HIDE DEF F, n
  <1>8. Len(F) = L + 2 /\ F[L + 2] = t /\ F[L + 1] = h /\ (\A i \in 1..L : F[i] = files[s][i])
        /\ F[1].half = 1
    <2>1. L + 1 + 1 = L + 2 /\ L + 1 \in 1..L + 1 /\ 1 \in 1..L + 1 /\ \A i \in 1..L : i \in 1..L + 1
      BY <1>2
    <2> QED
      BY <2>1, <1>3, <1>7
  <1>9. \A i \in 1..Len(F) : i \in 1..L \/ (i > L /\ F[i].n = n /\ F[i] \in LogCells)
    <2>1. \A i \in 1..L + 2 : i \in 1..L \/ i = L + 1 \/ i = L + 2
      BY <1>2
    <2>2. L + 1 > L /\ L + 2 > L
      BY <1>2
    <2> QED
      BY <2>1, <2>2, <1>3, <1>4, <1>8
  <1>10. FilesOk'
    <2>1. \A i \in 1..Len(F) : \/ \E j \in 1..Len(files[s]) : F[i].n = files[s][j].n
                               \/ clock < F[i].n /\ F[i].n <= clock'
      <3> SUFFICES ASSUME NEW i \in 1..Len(F)
                   PROVE  \/ \E j \in 1..L : F[i].n = files[s][j].n
                          \/ clock < F[i].n /\ F[i].n <= clock'
        BY DEF L
      <3>1. CASE i \in 1..L
        BY <3>1, <1>8
      <3>2. CASE F[i].n = n
        BY <3>2, <1>1, <1>2
      <3> QED
        BY <3>1, <3>2, <1>9
    <2>2. LogTypes /\ FilesOk /\ clock' \in Nat /\ clock <= clock'
      BY <1>1, <1>2
    <2>3. WellFormed(F) /\ (Len(F) > 0 => F[1].half = 1) /\ files' = [files EXCEPT ![s] = F]
      BY <1>1, <1>6, <1>7, <1>8
    <2> HIDE DEF LogInv
    <2> QED
      BY <2>1, <2>2, <2>3, FilesOkOnAdding
  <1>11. \A i \in 1..Len(F) : i > L => Coming(F[i])
    <2>1. \A i \in 1..L : ~(i > L)
      BY <1>2
    <2> QED
      BY <1>2, <1>9, <2>1 DEF Coming
  <1>12. ASSUME NEW c \in LogCells, Coming(c)' PROVE Coming(c)
    <2>1. CASE c.n > clock'
      BY <2>1, <1>1, <1>2 DEF Coming, LogCells
    <2>2. CASE \E u \in Svcs : Unfinished(u)' /\ c = [Last(files'[u]) EXCEPT !.half = 2]
      <3>1. PICK u \in Svcs : Unfinished(u)' /\ c = [Last(files'[u]) EXCEPT !.half = 2]
        BY <2>2
      <3>2. u # s
        <4>1. files'[s] = F
          BY <1>1, <1>6 DEF LogTypes
        <4>2. Last(F) = t
          BY <1>8 DEF Last
        <4> QED
          BY <3>1, <4>1, <4>2, <1>4 DEF Unfinished
      <3>3. files'[u] = files[u]
        BY <3>2, <1>1 DEF LogTypes
      <3> QED
        BY <3>1, <3>3 DEF Coming, Unfinished
    <2> QED
      BY <1>12, <2>1, <2>2 DEF Coming
  <1>13. F \in Seq(LogCells) /\ Len(F) >= L
    BY <1>2, <1>7, <1>8 DEF WellFormed
  <1> QED
    BY <1>1, <1>2, <1>6, <1>8, <1>10, <1>11, <1>12, <1>13, FileGrows DEF L

LEMMA WriteHeadStays ==
  ASSUME LogInv, NEW s \in Svcs, WriteHead(s) PROVE LogInv'
  <1> USE DEF LogInv
  <1> DEFINE n == clock + 1
             h == Cell(n, 1, FALSE)
             L == Len(files[s])
             F == Append(files[s], h)
  <1>1. /\ clock' = n /\ ~Unfinished(s)
        /\ files' = [files EXCEPT ![s] = F]
        /\ UNCHANGED <<pc, at, acc, offsets, size, out, cuts, cut>>
    BY DEF WriteHead
  <1>2. clock \in Nat /\ n \in Nat /\ n > clock /\ L \in Nat
    BY LogNumbers DEF LogTypes
  <1>3. /\ h \in LogCells /\ WellFormed(F) /\ Len(F) = L + 1 /\ F[L + 1] = h
        /\ \A i \in 1..L : F[i] = files[s][i]
        /\ F[1].half = 1
    BY <1>1, NewHead
  <1>4. h.half = 1 /\ h.n = n
    BY DEF Cell
  <1> HIDE DEF h, F, L, n
  <1>5. \A i \in 1..Len(F) : i \in 1..L \/ (i > L /\ F[i] = h)
    <2>1. \A i \in 1..L + 1 : i \in 1..L \/ (i = L + 1 /\ i > L)
      BY <1>2
    <2> QED
      BY <2>1, <1>3
  <1>6. FilesOk'
    <2>1. \A i \in 1..Len(F) : \/ \E j \in 1..Len(files[s]) : F[i].n = files[s][j].n
                               \/ clock < F[i].n /\ F[i].n <= clock'
      BY <1>1, <1>2, <1>3, <1>4, <1>5 DEF L
    <2>2. LogTypes /\ FilesOk /\ clock' \in Nat /\ clock <= clock'
      BY <1>1, <1>2
    <2>3. WellFormed(F) /\ (Len(F) > 0 => F[1].half = 1) /\ files' = [files EXCEPT ![s] = F]
      BY <1>1, <1>3
    <2> HIDE DEF LogInv
    <2> QED
      BY <2>1, <2>2, <2>3, FilesOkOnAdding
  <1>7. \A i \in 1..Len(F) : i > L => Coming(F[i])
    <2>1. \A i \in 1..L : ~(i > L)
      BY <1>2
    <2> QED
      BY <1>2, <1>4, <1>5, <2>1 DEF Coming
  <1>8. ASSUME NEW c \in LogCells, Coming(c)' PROVE Coming(c)
    <2>1. CASE c.n > clock'
      BY <2>1, <1>1, <1>2 DEF Coming, LogCells
    <2>2. CASE \E u \in Svcs : Unfinished(u)' /\ c = [Last(files'[u]) EXCEPT !.half = 2]
      <3>1. PICK u \in Svcs : Unfinished(u)' /\ c = [Last(files'[u]) EXCEPT !.half = 2]
        BY <2>2
      <3>2. CASE u = s
        <4>1. files'[u] = F
          BY <3>2, <1>1 DEF LogTypes
        <4>2. Last(F) = h
          BY <1>3 DEF Last
        <4>3. c.n = n
          BY <3>1, <4>1, <4>2, <1>3, <1>4 DEF LogCells
        <4> QED
          BY <4>3, <1>2 DEF Coming
      <3>3. CASE u # s
        <4>1. files'[u] = files[u]
          BY <3>3, <1>1 DEF LogTypes
        <4> QED
          BY <3>1, <4>1 DEF Coming, Unfinished
      <3> QED
        BY <3>2, <3>3
    <2> QED
      BY <1>8, <2>1, <2>2 DEF Coming
  <1>9. F \in Seq(LogCells) /\ Len(F) >= L
    BY <1>2, <1>3 DEF WellFormed
  <1> QED
    BY <1>1, <1>2, <1>3, <1>6, <1>7, <1>8, <1>9, FileGrows DEF L

LEMMA WriteTailStays ==
  ASSUME LogInv, NEW s \in Svcs, WriteTail(s) PROVE LogInv'
  <1> USE DEF LogInv
  <1> DEFINE last == Last(files[s])
             t == [last EXCEPT !.half = 2]
             L == Len(files[s])
             F == Append(files[s], t)
  <1>1. /\ clock' = clock /\ Unfinished(s)
        /\ files' = [files EXCEPT ![s] = F]
        /\ UNCHANGED <<pc, at, acc, offsets, size, out, cuts, cut>>
    BY DEF WriteTail
  <1>2. clock \in Nat /\ L \in Nat
    BY LogNumbers DEF LogTypes
  <1>3. L > 0 /\ L \in 1..L /\ last = files[s][L] /\ last.half = 1 /\ last \in LogCells
    BY <1>1, LastIs
  <1>4. t \in LogCells /\ t.half = 2 /\ t.n = last.n
    BY <1>3 DEF LogCells
  <1>5. Coming(t)
    BY <1>1 DEF Coming
  <1>6. WellFormed(files[s]) /\ files[s][1].half = 1
    BY <1>3 DEF FilesOk
  <1> HIDE DEF t, last
  <1>7. /\ WellFormed(F) /\ Len(F) = L + 1 /\ F[L + 1] = t
        /\ \A i \in 1..L : F[i] = files[s][i]
    BY <1>3, <1>4, <1>6, AddCell
  <1> HIDE DEF F, L
  <1>8. \A i \in 1..Len(F) : i \in 1..L \/ (i > L /\ F[i] = t)
    <2>1. \A i \in 1..L + 1 : i \in 1..L \/ (i = L + 1 /\ i > L)
      BY <1>2
    <2> QED
      BY <2>1, <1>7
  <1>9. F[1].half = 1
    <2>1. 1 \in 1..L
      BY <1>2, <1>3
    <2> QED
      BY <2>1, <1>6, <1>7
  <1>10. FilesOk'
    <2>1. \A i \in 1..Len(F) : \/ \E j \in 1..Len(files[s]) : F[i].n = files[s][j].n
                               \/ clock < F[i].n /\ F[i].n <= clock'
      BY <1>3, <1>4, <1>7, <1>8 DEF L
    <2>2. LogTypes /\ FilesOk /\ clock' \in Nat /\ clock <= clock'
      BY <1>1, <1>2
    <2>3. WellFormed(F) /\ (Len(F) > 0 => F[1].half = 1) /\ files' = [files EXCEPT ![s] = F]
      BY <1>1, <1>7, <1>9
    <2> HIDE DEF LogInv
    <2> QED
      BY <2>1, <2>2, <2>3, FilesOkOnAdding
  <1>11. \A i \in 1..Len(F) : i > L => Coming(F[i])
    <2>1. \A i \in 1..L : ~(i > L)
      BY <1>2
    <2> QED
      BY <1>5, <1>8, <2>1
  <1>12. ASSUME NEW c \in LogCells, Coming(c)' PROVE Coming(c)
    <2>1. CASE c.n > clock'
      BY <2>1, <1>1 DEF Coming
    <2>2. CASE \E u \in Svcs : Unfinished(u)' /\ c = [Last(files'[u]) EXCEPT !.half = 2]
      <3>1. PICK u \in Svcs : Unfinished(u)' /\ c = [Last(files'[u]) EXCEPT !.half = 2]
        BY <2>2
      <3>2. u # s
        <4>1. files'[s] = F
          BY <1>1 DEF LogTypes
        <4>2. Last(F) = t
          BY <1>7 DEF Last
        <4> QED
          BY <3>1, <4>1, <4>2, <1>4 DEF Unfinished
      <3>3. files'[u] = files[u]
        BY <3>2, <1>1 DEF LogTypes
      <3> QED
        BY <3>1, <3>3 DEF Coming, Unfinished
    <2> QED
      BY <1>12, <2>1, <2>2 DEF Coming
  <1>13. F \in Seq(LogCells) /\ Len(F) >= L
    BY <1>2, <1>7 DEF WellFormed
  <1> QED
    BY <1>1, <1>2, <1>7, <1>10, <1>11, <1>12, <1>13, FileGrows DEF L

LEMMA TruncateStays ==
  ASSUME LogInv, NEW s \in Svcs, Truncate(s) PROVE LogInv'
  <1> USE DEF LogInv
  <1>1. /\ files' = [files EXCEPT ![s] = <<>>] /\ cut' = cut \cup {s}
        /\ UNCHANGED <<clock, pc, at, acc, offsets, size, out, cuts>>
    BY DEF Truncate
  <1>2. LogTypes'
    <2>1. <<>> \in Seq(LogCells)
      OBVIOUS
    <2> QED
      BY <1>1, <2>1 DEF LogTypes
  <1>3. /\ \A t \in Svcs : files'[t] = IF t = s THEN <<>> ELSE files[t]
        /\ S' = S /\ Len(<<>>) = 0 /\ 1..0 = {}
        /\ \A i : Taken(i)' <=> Taken(i)
    BY <1>1 DEF LogTypes, S, Taken
  <1>4. FilesOk'
    <2>1. \A i \in 1..0 : FALSE
      OBVIOUS
    <2>2. WellFormed(<<>>)
      <3>1. <<>> \in Seq(LogCells) /\ Len(<<>>) = 0
        OBVIOUS
      <3> QED
        BY <2>1, <3>1 DEF WellFormed
    <2>3. ASSUME NEW t \in Svcs
          PROVE  /\ WellFormed(files'[t])
                 /\ \A i \in 1..Len(files'[t]) : files'[t][i].n <= clock'
                 /\ Len(files'[t]) > 0 => files'[t][1].half = 1
      <3>1. CASE t = s
        BY <3>1, <1>3, <2>1, <2>2
      <3>2. CASE t # s
        BY <3>2, <1>1, <1>3 DEF FilesOk
      <3> QED
        BY <3>1, <3>2
    <2>4. \A t, u \in Svcs : t # u =>
            \A i \in 1..Len(files'[t]), j \in 1..Len(files'[u]) : files'[t][i].n # files'[u][j].n
      BY <1>3, <2>1 DEF FilesOk
    <2> QED
      BY <2>3, <2>4 DEF FilesOk
  <1>5. \A c : Coming(c)' => Coming(c)
    BY <1>1, <1>3 DEF Coming, Unfinished
  <1>6. Fresh'
    BY <1>1, <1>5 DEF Fresh
  <1>7. ASSUME NEW t \in Svcs, NEW p \in 1..Len(files'[t])
        PROVE  t # s /\ files'[t] = files[t]
    BY <1>3
  <1>8. DumpOk'
    <2>1. ASSUME pc = "dump", NEW i \in at..Len(Services), NEW p \in 1..Len(files'[Services[i]])
          PROVE  Absent(acc, files'[Services[i]][p])
      <3>1. Services[i] \in Svcs
        BY LogNumbers
      <3> QED
        BY <2>1, <3>1, <1>7 DEF DumpOk
    <2> QED
      BY <1>1, <2>1 DEF DumpOk
  <1>9. CountOk'
    BY <1>1, <1>3, <1>7, LogNumbers DEF CountOk
  <1>10. CaughtUp'
    <2>1. ASSUME NEW t \in Svcs, t \notin cut', Followed(t) PROVE Followed(t)'
      <3>1. files'[t] = files[t]
        BY <1>1, <1>3, <2>1
      <3> QED
        BY <3>1, <1>1, <2>1 DEF Followed
    <2> QED
      BY <1>1, <1>3, <2>1, LogNumbers DEF CaughtUp
  <1> QED
    BY <1>2, <1>4, <1>6, <1>8, <1>9, <1>10

(***************************************************************************)
(* The follower reads.                                                     *)
(***************************************************************************)
\* A step of the follower leaves the files and what may still be written alone.
LEMMA FollowerLeaves ==
  ASSUME LogTypes, FilesOk, UNCHANGED <<files, clock>>
  PROVE  FilesOk' /\ \A c : Coming(c)' <=> Coming(c)
  BY DEF FilesOk, Coming, Unfinished

LEMMA DumpReadStays ==
  ASSUME LogInv, DumpRead PROVE LogInv'
  <1> USE DEF LogInv
  <1> DEFINE R == ReadEntries(S, files[S])
  <1>1. /\ pc = "dump" /\ acc' = acc \o R
        /\ \/ at < Len(Services) /\ at' = at + 1 /\ pc' = "dump"
           \/ at' = 1 /\ pc' = "print"
        /\ UNCHANGED <<files, clock, offsets, size, out, cuts, cut>>
    BY DEF DumpRead, Onward
  <1>2. /\ R \in Seq(LogEntries)
        /\ \A c : AtMostOnce(R, c)
        /\ \A c : c \notin Range(files[S]) => Absent(R, c)
    <2>1. S \in Svcs /\ WellFormed(files[S])
      BY LogNumbers DEF FilesOk
    <2> QED
      BY <2>1, ReadEntriesIs
  <1> HIDE DEF R
  <1>3. /\ at \in 1..Len(Services) /\ Len(Services) \in Nat /\ S \in Svcs
        /\ Range(files[S]) = {files[S][p] : p \in 1..Len(files[S])}
    BY LogNumbers DEF Range
  <1>4. LogTypes'
    <2>1. acc' \in Seq(LogEntries)
      BY <1>1, <1>2, ConcatPlaces DEF LogTypes
    <2>2. at' \in 1..Len(Services)
      BY <1>1, <1>3
    <2> QED
      BY <1>1, <2>1, <2>2 DEF LogTypes
  <1>5. FilesOk' /\ \A c : Coming(c)' <=> Coming(c)
    BY <1>1, FollowerLeaves
  <1>6. acc \in Seq(LogEntries)
    BY DEF LogTypes
  <1>7. Fresh'
    <2> SUFFICES ASSUME NEW c \in LogCells, Coming(c) PROVE Absent(out, c) /\ Absent(acc', c)
      BY <1>1, <1>5 DEF Fresh
    <2>1. c \notin Range(files[S])
      BY <1>3, ComingIsNotThere
    <2>2. Absent(out, c) /\ Absent(acc, c) /\ Absent(R, c)
      BY <2>1, <1>2 DEF Fresh
    <2> QED
      BY <1>1, <1>2, <1>6, <2>2, ConcatCounts
  <1>8. DumpOk'
    <2>1. ASSUME NEW c \in LogCells PROVE AtMostOnce(acc', c)
      <3>1. CASE c \in Range(files[S])
        <4>1. Absent(acc, c)
          <5>1. PICK p \in 1..Len(files[S]) : c = files[S][p]
            BY <3>1, <1>3
          <5>2. at \in at..Len(Services)
            BY <1>3
          <5> QED
            BY <5>1, <5>2, <1>1 DEF DumpOk, S
        <4> QED
          BY <4>1, <1>1, <1>2, <1>6, ConcatCounts
      <3>2. CASE c \notin Range(files[S])
        BY <3>2, <1>1, <1>2, <1>6, ConcatCounts DEF DumpOk
      <3> QED
        BY <3>1, <3>2
    <2>2. ASSUME pc' = "dump", NEW i \in at'..Len(Services), NEW p \in 1..Len(files[Services[i]])
          PROVE  Absent(acc', files[Services[i]][p])
      <3> DEFINE c == files[Services[i]][p]
      <3>1. i \in at..Len(Services) /\ i \in 1..Len(Services) /\ i # at /\ Services[i] \in Svcs
        BY <1>1, <1>3, <2>2, LogNumbers
      <3>2. Services[i] # S
        BY <3>1, <1>3, LogNumbers DEF S
      <3>3. Absent(acc, c)
        BY <3>1, <1>1 DEF DumpOk
      <3>4. c \notin Range(files[S])
        BY <3>1, <3>2, <1>3 DEF FilesOk
      <3>5. Absent(R, c)
        BY <3>4, <1>2
      <3> HIDE DEF c
      <3>6. Absent(acc', c)
        BY <3>3, <3>5, <1>1, <1>2, <1>6, ConcatCounts
      <3> QED
        BY <3>6 DEF c
    <2> QED
      BY <1>1, <2>1, <2>2 DEF DumpOk
  <1>9. CountOk'
    BY <1>1 DEF CountOk
  <1>10. CaughtUp'
    <2>1. \A i : ~Taken(i) /\ ~Taken(i)'
      BY <1>1 DEF Taken
    <2> QED
      BY <1>1, <2>1 DEF CaughtUp
  <1> QED
    BY <1>4, <1>5, <1>7, <1>8, <1>9, <1>10

LEMMA DumpPrintStays ==
  ASSUME LogInv, DumpPrint PROVE LogInv'
  <1> USE DEF LogInv
  <1> DEFINE E == JoinPartials(acc)
  <1>1. /\ pc = "print" /\ out' = ApplyFilters(SortByTime(E))
        /\ acc' = <<>> /\ pc' = "stat"
        /\ UNCHANGED <<files, clock, at, offsets, size, cuts, cut>>
    BY DEF DumpPrint
  <1>2. acc \in Seq(LogEntries)
    BY DEF LogTypes
  <1>3. E \in Seq(LogEntries) /\ Keeps(acc, E)
    BY <1>2, JoinPartialsKeeps
  <1> HIDE DEF E
  <1>4. /\ out' \in Seq(LogEntries)
        /\ \A c : /\ Absent(acc, c) => Absent(out', c)
                  /\ AtMostOnce(acc, c) => AtMostOnce(out', c)
    BY <1>1, <1>3, PrintedKeeps DEF Keeps
  <1>5. LogTypes'
    BY <1>1, <1>4 DEF LogTypes
  <1>6. FilesOk' /\ \A c : Coming(c)' <=> Coming(c)
    BY <1>1, FollowerLeaves
  <1>7. \A c : Absent(<<>>, c) /\ AtMostOnce(<<>>, c)
    BY DEF Absent, AtMostOnce, HasAt
  <1>8. Fresh'
    BY <1>1, <1>4, <1>6, <1>7 DEF Fresh
  <1>9. DumpOk'
    BY <1>1, <1>7 DEF DumpOk
  <1>10. CountOk'
    <2>1. ASSUME NEW t \in Svcs, NEW p \in 1..Len(files[t])
          PROVE  AtMostOnce(out', files[t][p]) /\ AtMostTwo(out', files[t][p])
      <3>1. AtMostOnce(out', files[t][p])
        BY <1>4, LogNumbers DEF DumpOk
      <3>2. \A c : AtMostOnce(out', c) => AtMostTwo(out', c)
        BY DEF AtMostOnce, AtMostTwo
      <3> QED
        BY <3>1, <3>2
    <2> QED
      BY <1>1, <2>1 DEF CountOk
  <1>11. CaughtUp'
    <2>1. at = 1
      BY <1>1 DEF DumpOk
    <2>2. \A i \in 1..Len(Services) : ~Taken(i) /\ ~Taken(i)'
      BY <1>1, <2>1, LogNumbers DEF Taken
    <2> QED
      BY <1>1, <2>2 DEF CaughtUp
  <1> QED
    BY <1>5, <1>6, <1>8, <1>9, <1>10, <1>11
LEMMA StatOffsetStays ==
  ASSUME LogInv, StatOffset PROVE LogInv'
  <1> USE DEF LogInv
  <1> DEFINE n == Len(files[S])
  <1>1. /\ pc = "stat"
        /\ offsets' = [offsets EXCEPT ![S] = n] /\ cuts' = [cuts EXCEPT ![S] = @ \cup {n}]
        /\ \/ at < Len(Services) /\ at' = at + 1 /\ pc' = "stat"
           \/ ~(at < Len(Services)) /\ at' = 1 /\ pc' = "tick"
        /\ UNCHANGED <<files, clock, acc, size, out, cut>>
    BY DEF StatOffset, SetOffset, Onward
  <1>2. /\ at \in 1..Len(Services) /\ Len(Services) \in Nat /\ S \in Svcs /\ n \in Nat
        /\ S = Services[at]
    BY LogNumbers DEF S
  <1> HIDE DEF n
  <1>3. \A t \in Svcs : /\ offsets'[t] = IF t = S THEN n ELSE offsets[t]
                        /\ cuts'[t] = IF t = S THEN cuts[S] \cup {n} ELSE cuts[t]
    BY <1>1, <1>2 DEF LogTypes
  <1>4. LogTypes'
    <2>1. at' \in 1..Len(Services)
      BY <1>1, <1>2
    <2>2. offsets' \in [Svcs -> Nat] /\ cuts' \in [Svcs -> SUBSET Nat]
      BY <1>1, <1>2 DEF LogTypes
    <2> QED
      BY <1>1, <2>1, <2>2 DEF LogTypes
  <1>5. FilesOk' /\ \A c : Coming(c)' <=> Coming(c)
    BY <1>1, FollowerLeaves
  <1>6. Fresh' /\ DumpOk'
    BY <1>1, <1>5 DEF Fresh, DumpOk
  <1>7. CountOk'
    <2>1. ASSUME NEW t \in Svcs, NEW p \in 1..Len(files[t]), p > offsets'[t]
          PROVE  AtMostOnce(out, files[t][p])
      <3>1. CASE t = S
        BY <3>1, <2>1, <1>2, <1>3 DEF n
      <3>2. CASE t # S
        BY <3>2, <2>1, <1>3 DEF CountOk
      <3> QED
        BY <3>1, <3>2
    <2> QED
      BY <1>1, <2>1 DEF CountOk
  <1>8. ASSUME NEW i \in 1..Len(Services)
        PROVE  IF Taken(i)'
               THEN /\ offsets'[Services[i]] \in cuts'[Services[i]]
                    /\ Services[i] \notin cut' => Followed(Services[i])'
               ELSE cuts'[Services[i]] = {}
    <2>1. Services[i] \in Svcs /\ (Services[i] = S <=> i = at)
      BY <1>2, LogNumbers
    <2>2. Taken(i)' <=> Taken(i) \/ i = at
      BY <1>1, <1>2 DEF Taken
    <2>3. CASE i = at
      <3> DEFINE t == Services[i]
      <3>1. cuts[t] = {}
        <4>1. ~Taken(i)
          BY <1>1, <1>2, <2>3 DEF Taken
        <4> QED
          BY <4>1 DEF CaughtUp
      <3>2. t \in Svcs /\ t = S /\ n = Len(files[t])
        BY <2>1, <2>3 DEF n
      <3>3. offsets'[t] = n /\ cuts'[t] = {n} /\ files'[t] = files[t]
        BY <3>1, <3>2, <1>1, <1>3
      <3>4. offsets'[t] <= Len(files'[t]) /\ \A x \in cuts'[t] : x <= offsets'[t]
        BY <3>2, <3>3, <1>2
      <3>5. \A p \in 1..offsets'[t] : \A x \in cuts'[t] : ~(x < p)
        BY <3>3, <1>2
      <3>6. Followed(t)'
        <4> HIDE DEF t
        <4> QED
          BY <3>4, <3>5 DEF Followed
      <3> QED
        BY <2>2, <2>3, <3>3, <3>6
    <2>4. CASE i # at
      <3> DEFINE t == Services[i]
      <3>1. /\ offsets'[t] = offsets[t] /\ cuts'[t] = cuts[t]
            /\ files' = files /\ out' = out /\ cut' = cut
        BY <1>1, <1>3, <2>1, <2>4
      <3>2. Followed(t) => Followed(t)'
        BY <3>1 DEF Followed
      <3>3. IF Taken(i) THEN offsets[t] \in cuts[t] /\ (t \notin cut => Followed(t))
                        ELSE cuts[t] = {}
        BY DEF CaughtUp
      <3> QED
        BY <2>2, <2>4, <3>1, <3>2, <3>3
    <2> QED
      BY <2>3, <2>4
  <1>9. CaughtUp'
    BY <1>1, <1>8 DEF CaughtUp
  <1> QED
    BY <1>4, <1>5, <1>6, <1>7, <1>9

\* From one stage of the rounds to the next.
LEMMA TurnStays ==
  ASSUME LogInv, pc \in {"tick", "poll"}, pc' \in {"tick", "poll", "done"},
         at' \in 1..Len(Services),
         UNCHANGED <<files, clock, acc, offsets, size, out, cuts, cut>>
  PROVE  LogInv'
  <1> USE DEF LogInv
  <1>1. LogTypes'
    BY DEF LogTypes
  <1>2. FilesOk' /\ \A c : Coming(c)' <=> Coming(c)
    BY FollowerLeaves
  <1>3. Fresh' /\ DumpOk' /\ CountOk'
    BY <1>2 DEF Fresh, DumpOk, CountOk
  <1>4. \A t : Followed(t)' <=> Followed(t)
    BY DEF Followed
  <1>5. \A i : Taken(i) /\ Taken(i)'
    BY DEF Taken
  <1>6. CaughtUp'
    BY <1>4, <1>5 DEF CaughtUp
  <1> QED
    BY <1>1, <1>2, <1>3, <1>6

LEMMA PollStatStays ==
  ASSUME LogInv, PollStat PROVE LogInv'
  <1>1. /\ pc = "poll" /\ UNCHANGED <<files, clock, acc, offsets, out, cuts, cut>>
        /\ \/ /\ \/ at < Len(Services) /\ at' = at + 1 /\ pc' = "poll"
                 \/ at' = 1 /\ pc' = "tick"
              /\ UNCHANGED size
           \/ /\ ~(Len(files[S]) <= offsets[S])
              /\ size' = Len(files[S]) /\ pc' = "read" /\ UNCHANGED at
    BY DEF PollStat, Onward
  <1>2. /\ at \in 1..Len(Services) /\ Len(Services) \in Nat
        /\ S \in Svcs /\ Len(files[S]) \in Nat /\ offsets[S] \in Nat
    BY LogNumbers DEF LogInv
  <1>3. CASE size' = size /\ pc' \in {"poll", "tick"}
    <2>1. at' \in 1..Len(Services)
      BY <1>1, <1>2, <1>3
    <2> QED
      BY <1>1, <1>3, <2>1, TurnStays
  <1>4. CASE /\ ~(Len(files[S]) <= offsets[S])
             /\ size' = Len(files[S]) /\ pc' = "read" /\ UNCHANGED at
    <2> USE DEF LogInv
    <2>1. LogTypes'
      BY <1>1, <1>2, <1>4 DEF LogTypes
    <2>2. FilesOk' /\ \A c : Coming(c)' <=> Coming(c)
      BY <1>1, FollowerLeaves
    <2>3. Fresh' /\ DumpOk'
      BY <1>1, <1>4, <2>2 DEF Fresh, DumpOk
    <2>4. S' = S
      BY <1>4 DEF S
    <2>5. CountOk'
      <3>1. \A p \in 1..Len(files[S]) : ~(p > size')
        BY <1>2, <1>4
      <3> QED
        BY <1>1, <2>4, <3>1 DEF CountOk
    <2>6. \A t : Followed(t)' <=> Followed(t)
      BY <1>1 DEF Followed
    <2>7. \A i : Taken(i) /\ Taken(i)'
      BY <1>1, <1>4 DEF Taken
    <2>8. offsets[S] < size' /\ size' <= Len(files[S])
      BY <1>2, <1>4
    <2>9. CaughtUp'
      BY <1>1, <2>4, <2>6, <2>7, <2>8 DEF CaughtUp
    <2> QED
      BY <2>1, <2>2, <2>3, <2>5, <2>9
  <1> QED
    BY <1>1, <1>3, <1>4
\* What has been printed stays printed.
LEMMA StillShown ==
  ASSUME NEW E \in Seq(LogEntries), NEW R \in Seq(LogEntries), NEW s
  PROVE  /\ \A c : ShownIn(E, s, c) => ShownIn(E \o R, s, c)
         /\ AllOf(R, s) => \A c : ~Absent(R, c) => ShownIn(E \o R, s, c)
  <1> DEFINE G == E \o R
             L == Len(E)
  <1>1. /\ L \in Nat
        /\ \A i, j, c : HasAt(G, i, j, c) <=>
             \/ HasAt(E, i, j, c)
             \/ i - L \in Nat /\ i \in Nat /\ HasAt(R, i - L, j, c)
        /\ \A i \in 1..L : G[i] = E[i]
        /\ \A i \in 1..Len(R) : i + L \in 1..Len(G) /\ G[i + L] = R[i]
    BY ConcatPlaces
  <1> HIDE DEF G, L
  <1>2. ASSUME NEW c, ShownIn(E, s, c) PROVE ShownIn(G, s, c)
    <2>1. PICK i \in Nat, j \in Nat : HasAt(E, i, j, c) /\ E[i].svc = s
      BY <1>2 DEF ShownIn
    <2>2. i \in 1..L
      BY <2>1 DEF HasAt, L
    <2>3. HasAt(G, i, j, c) /\ G[i].svc = s
      BY <2>1, <2>2, <1>1
    <2> QED
      BY <2>3 DEF ShownIn
  <1>3. ASSUME AllOf(R, s), NEW c, ~Absent(R, c) PROVE ShownIn(G, s, c)
    <2>1. PICK i \in Nat, j \in Nat : HasAt(R, i, j, c)
      BY <1>3 DEF Absent
    <2>2. i \in 1..Len(R) /\ R[i].svc = s
      BY <2>1, <1>3 DEF HasAt, AllOf
    <2> DEFINE k == i + L
    <2>3. k \in Nat /\ k - L = i /\ G[k] = R[i]
      BY <1>1, <2>2
    <2> HIDE DEF k
    <2>4. HasAt(G, k, j, c) /\ G[k].svc = s
      BY <2>1, <2>2, <2>3, <1>1
    <2> QED
      BY <2>3, <2>4 DEF ShownIn
  <1> QED
    BY <1>2, <1>3 DEF G

LEMMA PollReadStays ==
  ASSUME LogInv, PollRead PROVE LogInv'
  <1> USE DEF LogInv
  <1> DEFINE F == files[S]
             a == offsets[S]
             G == SubSeq(F, a + 1, Len(F))
             R == JoinPartials(ReadEntries(S, G))
  <1>1. /\ pc = "read" /\ out' = out \o R /\ size' = 0
        /\ offsets' = [offsets EXCEPT ![S] = size] /\ cuts' = [cuts EXCEPT ![S] = @ \cup {size}]
        /\ \/ at < Len(Services) /\ at' = at + 1 /\ pc' = "poll"
           \/ at' = 1 /\ pc' = "tick"
        /\ UNCHANGED <<files, clock, acc, cut>>
    BY DEF PollRead, Read, SetOffset, NextPoll
  <1>2. /\ at \in 1..Len(Services) /\ Len(Services) \in Nat /\ S \in Svcs /\ a \in Nat
        /\ Len(F) \in Nat /\ size \in Nat /\ S = Services[at]
    BY LogNumbers DEF S, LogTypes
  <1>3. WellFormed(F)
    BY <1>2 DEF FilesOk
  <1>4. /\ WellFormed(G)
        /\ \A p \in 1..Len(F) : p > a => p - a \in 1..Len(G) /\ G[p - a] = F[p]
        /\ \A c \in Range(G) : \E p \in 1..Len(F) : p > a /\ c = F[p]
    <2> HIDE DEF F, a
    <2> QED
      BY <1>2, <1>3, RestIs
  <1>5. /\ R \in Seq(LogEntries) /\ AllOf(R, S)
        /\ \A c : AtMostOnce(R, c)
        /\ \A c : c \notin Range(G) => Absent(R, c)
        /\ \A i \in 1..Len(G) : i > 1 \/ G[i].half = 1 => ~Absent(R, G[i])
    <2> HIDE DEF G
    <2> QED
      BY <1>2, <1>4, ReadingIs
  <1> HIDE DEF R, G
  <1>6. /\ a < size
        /\ \A p \in 1..Len(F) : p > size => Absent(out, F[p])
        /\ out \in Seq(LogEntries)
    BY <1>1 DEF CaughtUp, CountOk, LogTypes
  <1>7. \A t \in Svcs : /\ offsets'[t] = IF t = S THEN size ELSE offsets[t]
                        /\ cuts'[t] = IF t = S THEN cuts[S] \cup {size} ELSE cuts[t]
    BY <1>1, <1>2 DEF LogTypes
  <1>8. LogTypes'
    <2>1. at' \in 1..Len(Services)
      BY <1>1, <1>2
    <2>2. offsets' \in [Svcs -> Nat] /\ cuts' \in [Svcs -> SUBSET Nat]
      BY <1>1, <1>2 DEF LogTypes
    <2>3. out' \in Seq(LogEntries)
      BY <1>1, <1>5, <1>6, ConcatPlaces
    <2> QED
      BY <1>1, <2>1, <2>2, <2>3 DEF LogTypes
  <1>9. FilesOk' /\ \A c : Coming(c)' <=> Coming(c)
    BY <1>1, FollowerLeaves
  <1>10. Fresh'
    <2> SUFFICES ASSUME NEW c \in LogCells, Coming(c) PROVE Absent(out', c) /\ Absent(acc, c)
      BY <1>1, <1>9 DEF Fresh
    <2>1. \A p \in 1..Len(F) : F[p] # c
      BY <1>2, ComingIsNotThere
    <2>2. Absent(R, c)
      BY <1>4, <1>5, <2>1
    <2>3. Absent(out, c) /\ Absent(acc, c)
      BY DEF Fresh
    <2> QED
      BY <1>1, <1>5, <1>6, <2>2, <2>3, ConcatCounts
  <1>11. DumpOk'
    BY <1>1 DEF DumpOk
  <1>12. ASSUME NEW t \in Svcs, NEW p \in 1..Len(files[t])
         PROVE  /\ AtMostTwo(out', files[t][p])
                /\ p > offsets'[t] => AtMostOnce(out', files[t][p])
    <2> DEFINE c == files[t][p]
    <2>1. CASE t = S /\ p > a
      <3>1. AtMostOnce(out, c)
        BY <2>1 DEF CountOk
      <3>2. AtMostTwo(out', c)
        <4> HIDE DEF c
        <4> QED
          BY <3>1, <1>1, <1>5, <1>6, ConcatCounts
      <3>3. ASSUME p > offsets'[t] PROVE AtMostOnce(out', c)
        <4>1. Absent(out, c)
          BY <3>3, <2>1, <1>2, <1>6, <1>7
        <4> HIDE DEF c
        <4> QED
          BY <4>1, <1>1, <1>5, <1>6, ConcatCounts
      <3> QED
        BY <3>2, <3>3
    <2>2. CASE ~(t = S /\ p > a)
      <3>1. \A q \in 1..Len(F) : q > a => c # F[q]
        <4>1. CASE t = S
          <5>1. \A i, j \in 1..Len(F) : F[i] = F[j] => i = j
            BY <1>3, CellsDiffer
          <5> QED
            BY <2>2, <4>1, <5>1
        <4>2. CASE t # S
          BY <4>2, <1>2 DEF FilesOk
        <4> QED
          BY <4>1, <4>2
      <3>2. Absent(R, c)
        BY <3>1, <1>4, <1>5
      <3>3. AtMostTwo(out, c) /\ (p > offsets[t] => AtMostOnce(out, c))
        BY DEF CountOk
      <3>4. p > offsets'[t] => p > offsets[t]
        <4>1. p \in Nat
          BY LogNumbers
        <4> QED
          BY <2>2, <4>1, <1>2, <1>6, <1>7
      <3> HIDE DEF c
      <3>5. AtMostTwo(out', c)
        BY <3>2, <3>3, <1>1, <1>5, <1>6, ConcatCounts
      <3>6. p > offsets'[t] => AtMostOnce(out', c)
        BY <3>2, <3>3, <3>4, <1>1, <1>5, <1>6, ConcatCounts
      <3> QED
        BY <3>5, <3>6 DEF c
    <2> QED
      BY <2>1, <2>2
  <1>13. CountOk'
    BY <1>1, <1>12 DEF CountOk
  \* The cells between the old offset and the new one are in what was read.
  <1>14. ASSUME S \notin cut, NEW s, s = S
         PROVE  /\ offsets'[s] <= Len(files[s])
                /\ \A x \in cuts'[s] : x <= offsets'[s]
                /\ \A p \in 1..offsets'[s] : \A x \in cuts'[s] : x < p =>
                     \/ ShownIn(out', s, files[s][p])
                     \/ files[s][p].half = 2 /\ p - 1 \in cuts'[s]
    <2>1. /\ a \in cuts[S] /\ size <= Len(F)
          /\ \A x \in cuts[S] : x <= a
          /\ \A p \in 1..a : \A x \in cuts[S] : x < p =>
               \/ ShownIn(out, S, F[p])
               \/ F[p].half = 2 /\ p - 1 \in cuts[S]
      <3>1. Taken(at)
        BY <1>1 DEF Taken
      <3> QED
        BY <3>1, <1>1, <1>2, <1>14 DEF CaughtUp, Followed
    <2>2. offsets'[S] = size /\ cuts'[S] = cuts[S] \cup {size} /\ cuts[S] \subseteq Nat
      BY <1>2, <1>7 DEF LogTypes
    <2>3. ASSUME NEW p \in 1..size, NEW x \in cuts'[S], x < p
          PROVE  \/ ShownIn(out', S, F[p])
                 \/ F[p].half = 2 /\ p - 1 \in cuts'[S]
      <3>1. p \in 1..Len(F)
        BY <1>2, <2>1
      <3>2. CASE p <= a
        <4>1. p \in 1..a /\ x \in cuts[S]
          BY <3>2, <2>2, <2>3, <1>2, <1>6
        <4>2. ShownIn(out, S, F[p]) => ShownIn(out', S, F[p])
          BY <1>1, <1>5, <1>6, StillShown
        <4> QED
          BY <4>1, <4>2, <2>1, <2>2, <2>3
      <3>3. CASE p > a
        <4>1. p - a \in 1..Len(G) /\ G[p - a] = F[p]
          BY <3>1, <3>3, <1>4
        <4>2. ~Absent(R, F[p]) => ShownIn(out', S, F[p])
          BY <1>1, <1>5, <1>6, StillShown
        <4>3. CASE p - a > 1 \/ F[p].half = 1
          BY <4>1, <4>2, <4>3, <1>5
        <4>4. CASE ~(p - a > 1) /\ F[p].half # 1
          <5>1. F[p].half = 2
            BY <4>4, <3>1, <1>2, LogNumbers DEF LogCells
          <5>2. p - 1 = a
            BY <4>4, <3>3, <1>2
          <5> QED
            BY <5>1, <5>2, <2>1, <2>2
        <4> QED
          BY <4>3, <4>4
      <3> QED
        BY <3>2, <3>3, <1>2
    <2>4. \A x \in cuts'[S] : x <= size
      BY <2>1, <2>2, <1>2, <1>6
    <2> QED
      BY <1>14, <2>1, <2>2, <2>3, <2>4
  <1>15. ASSUME NEW i \in 1..Len(Services)
         PROVE  /\ offsets'[Services[i]] \in cuts'[Services[i]]
                /\ Services[i] \notin cut' => Followed(Services[i])'
    <2> DEFINE t == Services[i]
    <2>1. t \in Svcs
      BY LogNumbers
    <2>2. CASE t = S
      <3>1. offsets'[t] \in cuts'[t]
        BY <1>2, <1>7, <2>2
      <3>2. ASSUME t \notin cut PROVE Followed(t)'
        BY <3>2, <2>2, <1>1, <1>14 DEF Followed
      <3> QED
        BY <3>1, <3>2, <1>1
    <2>3. CASE t # S
      <3>1. offsets'[t] = offsets[t] /\ cuts'[t] = cuts[t] /\ files' = files /\ cut' = cut
        BY <1>1, <1>7, <2>1, <2>3
      <3>2. offsets[t] \in cuts[t] /\ (t \notin cut => Followed(t))
        <4>1. Taken(i)
          BY <1>1 DEF Taken
        <4> QED
          BY <4>1 DEF CaughtUp
      <3>3. \A c : ShownIn(out, t, c) => ShownIn(out', t, c)
        <4> HIDE DEF t
        <4> QED
          BY <1>1, <1>5, <1>6, StillShown
      <3>4. Followed(t) => Followed(t)'
        BY <3>1, <3>3 DEF Followed
      <3> QED
        BY <3>1, <3>2, <3>4
    <2> QED
      BY <2>2, <2>3
  <1>16. CaughtUp'
    <2>1. \A i : Taken(i)'
      BY <1>1 DEF Taken
    <2> QED
      BY <1>1, <1>15, <2>1 DEF CaughtUp
  <1> QED
    BY <1>8, <1>9, <1>10, <1>11, <1>13, <1>16
LEMMA LogNext == LogInv /\ [Next]_vars => LogInv'
  <1> SUFFICES ASSUME LogInv, [Next]_vars PROVE LogInv'
    OBVIOUS
  <1>1. CASE Follower
    <2>1. CASE Tick
      <3>1. pc \in {"tick", "poll"} /\ pc' \in {"tick", "poll", "done"} /\ at' = at
            /\ UNCHANGED <<files, clock, acc, offsets, size, out, cuts, cut>>
        BY <2>1 DEF Tick
      <3>2. at' \in 1..Len(Services)
        BY <3>1 DEF LogInv, LogTypes
      <3> QED
        BY <3>1, <3>2, TurnStays
    <2> QED
      BY <1>1, <2>1, DumpReadStays, DumpPrintStays, StatOffsetStays, PollStatStays, PollReadStays
      DEF Follower
  <1>2. CASE Writer
    BY <1>2, WriteLineStays, WriteHeadStays, WriteTailStays, TruncateStays DEF Writer
  <1>3. CASE Cancelled
    <2>1. pc \in {"tick", "poll"} /\ pc' \in {"tick", "poll", "done"} /\ at' = at
          /\ UNCHANGED <<files, clock, acc, offsets, size, out, cuts, cut>>
      BY <1>3 DEF Cancelled
    <2>2. at' \in 1..Len(Services)
      BY <2>1 DEF LogInv, LogTypes
    <2> QED
      BY <2>1, <2>2, TurnStays
  <1>4. CASE UNCHANGED vars
    <2>1. UNCHANGED <<files, clock, pc, at, acc, offsets, size, out, cuts, cut>>
      BY <1>4 DEF vars
    <2> USE DEF LogInv
    <2>2. FilesOk' /\ \A c : Coming(c)' <=> Coming(c)
      BY <2>1, FollowerLeaves
    <2>3. LogTypes' /\ Fresh' /\ DumpOk'
      BY <2>1, <2>2 DEF LogTypes, Fresh, DumpOk
    <2>4. CountOk'
      BY <2>1 DEF CountOk, S
    <2>5. /\ \A t : Followed(t)' <=> Followed(t)
          /\ \A i : Taken(i)' <=> Taken(i)
      BY <2>1 DEF Followed, Taken
    <2>6. CaughtUp'
      BY <2>1, <2>5 DEF CaughtUp, S
    <2> QED
      BY <2>2, <2>3, <2>4, <2>6
  <1> QED
    BY <1>1, <1>2, <1>3, <1>4 DEF Next

LEMMA LogAlways == Spec => []LogInv
  BY LogInit, LogNext, PTL DEF Spec

\* PrintedAt, place by place.
LEMMA PrintedAtIs ==
  ASSUME LogTypes, NEW s, NEW c
  PROVE  /\ \A x \in PrintedAt(s, c) :
              \E i, j \in Nat : x = <<i, j>> /\ HasAt(out, i, j, c) /\ out[i].svc = s
         /\ \A i, j : HasAt(out, i, j, c) /\ out[i].svc = s => <<i, j>> \in PrintedAt(s, c)
  <1>1. /\ out \in Seq(LogEntries) /\ DOMAIN out = 1..Len(out)
        /\ \A i \in DOMAIN out : out[i].msg \in Seq(LogCells)
    <2>1. out \in Seq(LogEntries) /\ DOMAIN out = 1..Len(out)
      BY LenProperties DEF LogTypes
    <2>2. \A i \in DOMAIN out : out[i] \in LogEntries
      BY <2>1, ElementOfSeq
    <2> QED
      BY <2>1, <2>2 DEF LogEntries
  <1>2. \A i \in DOMAIN out : DOMAIN out[i].msg = 1..Len(out[i].msg)
    BY <1>1, LenProperties
  <1>3. ASSUME NEW x \in PrintedAt(s, c)
        PROVE  \E i, j \in Nat : x = <<i, j>> /\ HasAt(out, i, j, c) /\ out[i].svc = s
    <2>1. PICK i \in DOMAIN out : /\ out[i].svc = s
                                  /\ x \in {<<i, j>> : j \in {k \in DOMAIN out[i].msg : out[i].msg[k] = c}}
      BY DEF PrintedAt
    <2>2. PICK j \in DOMAIN out[i].msg : x = <<i, j>> /\ out[i].msg[j] = c
      BY <2>1
    <2>3. HasAt(out, i, j, c)
      BY <2>2, <1>1, <1>2 DEF HasAt
    <2>4. i \in Nat /\ j \in Nat
      BY <2>3, <1>1, HasAtNumbers
    <2> QED
      BY <2>1, <2>2, <2>3, <2>4
  <1>4. ASSUME NEW i, NEW j, HasAt(out, i, j, c), out[i].svc = s
        PROVE  <<i, j>> \in PrintedAt(s, c)
    <2>1. i \in DOMAIN out /\ j \in DOMAIN out[i].msg /\ out[i].msg[j] = c
      BY <1>1, <1>2, <1>4 DEF HasAt
    <2>2. <<i, j>> \in {<<i, k>> : k \in {l \in DOMAIN out[i].msg : out[i].msg[l] = c}}
      BY <2>1
    <2> QED
      BY <1>4, <2>1, <2>2 DEF PrintedAt
  <1> QED
    BY <1>3, <1>4

\* A set that has no three different elements.
LEMMA TwoAtMost ==
  ASSUME NEW T, \A x, y, z \in T : x = y \/ y = z \/ x = z
  PROVE  Cardinality(T) <= 2
  <1>1. CASE T = {}
    BY <1>1, FS_EmptySet
  <1>2. CASE T # {}
    <2>1. PICK x \in T : TRUE
      BY <1>2
    <2>2. IsFiniteSet({x}) /\ Cardinality({x}) = 1
      BY FS_Singleton
    <2>3. CASE T = {x}
      BY <2>2, <2>3
    <2>4. CASE T # {x}
      <3>1. PICK y \in T : y # x
        BY <2>1, <2>4
      <3>2. T = {x} \cup {y} /\ y \notin {x}
        BY <2>1, <3>1
      <3>3. Cardinality({x} \cup {y}) = 1 + 1
        BY <2>2, <3>2, FS_AddElement
      <3> QED
        BY <3>2, <3>3
    <2> QED
      BY <2>3, <2>4
  <1> QED
    BY <1>1, <1>2

LEMMA FollowedMeansShown == LogInv => NothingSkipped
  <1> SUFFICES ASSUME LogInv, pc \in {"tick", "poll", "read", "done"}, NEW s \in Svcs \ cut,
                      NEW p \in (Smallest(cuts[s]) + 1)..offsets[s]
               PROVE  \/ Shown(s, files[s][p])
                      \/ files[s][p].half = 2 /\ p - 1 \in cuts[s]
    BY DEF NothingSkipped
  <1> DEFINE m == Smallest(cuts[s])
  <1>1. PICK i \in 1..Len(Services) : Services[i] = s
    BY LogNumbers DEF LogInv
  <1>2. offsets[s] \in cuts[s] /\ Followed(s)
    <2>1. Taken(i)
      BY DEF Taken
    <2> QED
      BY <1>1, <2>1 DEF LogInv, CaughtUp
  <1>3. m \in cuts[s] /\ m \in Nat /\ offsets[s] \in Nat
    <2>1. cuts[s] \subseteq Nat /\ cuts[s] # {}
      BY <1>2 DEF LogInv, LogTypes
    <2>2. \E n \in cuts[s] : n \in Nat /\ \A k \in Nat : k < n => k \notin cuts[s]
      BY <2>1, LeastNumber
    <2>3. \E n \in cuts[s] : \A k \in cuts[s] : n <= k
      BY <2>1, <2>2
    <2> QED
      BY <2>1, <2>3, <1>2 DEF Smallest
  <1>4. p \in 1..offsets[s] /\ m < p
    BY <1>3
  <1>5. \/ ShownIn(out, s, files[s][p])
        \/ files[s][p].half = 2 /\ p - 1 \in cuts[s]
    BY <1>2, <1>3, <1>4 DEF Followed
  <1>6. ShownIn(out, s, files[s][p]) => Shown(s, files[s][p])
    BY PrintedAtIs DEF ShownIn, Shown, LogInv
  <1> QED
    BY <1>5, <1>6

LEMMA CountedMeansTwice == LogInv => AtMostTwice
  <1> SUFFICES ASSUME LogInv, NEW s \in Svcs, NEW i \in DOMAIN files[s]
               PROVE  Cardinality(PrintedAt(s, files[s][i])) <= 2
    BY DEF AtMostTwice
  <1> DEFINE c == files[s][i]
             T == PrintedAt(s, c)
  <1>1. AtMostTwo(out, c)
    <2>1. i \in 1..Len(files[s])
      BY LogNumbers DEF LogInv
    <2> QED
      BY <2>1 DEF LogInv, CountOk
  <1> HIDE DEF c
  <1>2. \A x \in T : \E j, k \in Nat : x = <<j, k>> /\ HasAt(out, j, k, c)
    BY PrintedAtIs DEF LogInv
  <1> HIDE DEF T
  <1>3. ASSUME NEW x \in T, NEW y \in T, NEW z \in T PROVE x = y \/ y = z \/ x = z
    <2>1. PICK x1 \in Nat, x2 \in Nat : x = <<x1, x2>> /\ HasAt(out, x1, x2, c)
      BY <1>2
    <2>2. PICK y1 \in Nat, y2 \in Nat : y = <<y1, y2>> /\ HasAt(out, y1, y2, c)
      BY <1>2
    <2>3. PICK z1 \in Nat, z2 \in Nat : z = <<z1, z2>> /\ HasAt(out, z1, z2, c)
      BY <1>2
    <2>4. (x1 = y1 /\ x2 = y2) \/ (y1 = z1 /\ y2 = z2) \/ (x1 = z1 /\ x2 = z2)
      BY <1>1, <2>1, <2>2, <2>3 DEF AtMostTwo
    <2> QED
      BY <2>1, <2>2, <2>3, <2>4
  <1>4. Cardinality(T) <= 2
    BY <1>3, TwoAtMost
  <1> QED
    BY <1>4 DEF T, c

(***************************************************************************)
(* The theorems.                                                           *)
(***************************************************************************)
\* pkg/logs/mux.go: once the follower has taken the size of a file, its polls
\* leave nothing out between the first offset and the present one, whoever
\* writes meanwhile - but the tail of a line that an offset cut in two.
THEOREM NothingLost == Spec => []NothingSkipped
  BY LogAlways, FollowedMeansShown, PTL

\* pkg/logs/mux.go: Dump and the polls together print no part of a line more than
\* twice.  A poll reads to the end of the file and keeps the size it took before,
\* so that what is written in between is printed by it and by the next one.
THEOREM NoThirdTime == Spec => []AtMostTwice
  BY LogAlways, CountedMeansTwice, PTL
=============================================================================
