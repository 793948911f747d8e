---------------------------- MODULE MicroVMProofs ----------------------------
(***************************************************************************)
(* Proofs about MicroVM, for any number of shares, published ports and     *)
(* connections: an up that fails, or that a signal ends in the foreground, *)
(* leaves nothing behind, and no end of it, a signal that kills it among   *)
(* them, leaves a process without the directory (NoOrphans); and a Stop of *)
(* the forwarder or of the listener in the VM that has returned leaves     *)
(* nothing running but the one connection the listener's loop had in hand  *)
(* (Drained).                                                              *)
(***************************************************************************)
EXTENDS MicroVM, FiniteSetTheorems, TLAPS

ConnRecs ==
  [host : {"none", "backlog", "accepted", "dial", "header", "proxy", "closed"},
   vm : {"none", "backlog", "accepted", "header", "dial", "proxy", "closed"},
   sent : BOOLEAN, up1 : BOOLEAN, down1 : BOOLEAN, up2 : BOOLEAN, down2 : BOOLEAN,
   ceof : BOOLEAN, teof : BOOLEAN]

ForwardTypes ==
  /\ fwd \in {"off", "starting", "started", "stopping", "stopped"}
  /\ vml \in {"serving", "stopping", "stopped", "dead"}
  /\ opened \in 0..Mappings /\ loops \subseteq 1..Mappings
  /\ conn \in [Conns -> ConnRecs]

\* The host: a connection that was accepted keeps its loop alive, closed listeners
\* have no backlog, and wg.Wait has seen every handler and every loop.
HostHalf ==
  /\ \A c \in Conns : conn[c].host = "accepted" => Port[c] \in loops
  /\ fwd \in {"stopping", "stopped"} => \A c \in Conns : conn[c].host # "backlog"
  /\ fwd = "stopped" => loops = {} /\ \A c \in Conns : ~HostActive(c)

InHand(c) == VMActive(c) \/ conn[c].vm = "accepted"

\* The VM: its loop has one connection in hand; a listener that is closed has no
\* backlog; and what is in hand when Stop has returned is that one connection.
VMHalf ==
  /\ \A c, d \in Conns : conn[c].vm = "accepted" /\ conn[d].vm = "accepted" => c = d
  /\ vml # "serving" => \A c \in Conns : conn[c].vm # "backlog"
  /\ vml = "stopped" => \A c, d \in Conns : InHand(c) /\ InHand(d) => c = d

ForwardInv == ForwardTypes /\ HostHalf /\ VMHalf

Starting == {"eval", "tmp", "share", "hypervisor"}
Stopping == {"stop", "stopwait", "killwait"}

UpTypes ==
  /\ pc \in Starting \cup {"health", "dial", "forward", "enter", "foreground"}
            \cup Stopping \cup {"deferred", "returned"}
  /\ result \in {"none", "ok", "detached", "error", "crashed", "killed"}
  /\ status \in {"Stopped", "Starting", "Running", "Stopping", "Failed"}
  /\ chv \in {"none", "booting", "healthy", "exited"}
  /\ vfs \in 0..Shares /\ waitCh \in 0..1

Flags == tmp \in BOOLEAN /\ monitor \in BOOLEAN

\* The exit of the hypervisor is sent once, after it has happened.
ExitSent ==
  /\ chv = "none" => ~monitor
  /\ chv # "exited" => waitCh = 0
  /\ monitor => waitCh = 0

\* What up has started by the time it is at pc, and that it knows its result only
\* when it is about to stop the VM or to return.  The directory is made before any
\* process and removed after the last.
Progress ==
  /\ pc \in Starting => chv = "none"
  /\ pc \in {"eval", "tmp"} => vfs = 0 /\ ~tmp
  /\ pc = "share" => vfs < Shares
  /\ pc = "killwait" => chv = "exited"
  /\ pc \notin Stopping \cup {"deferred", "returned"} => result = "none"
  /\ pc \in {"deferred", "returned"} /\ result \in {"error", "ok"} => NothingRuns /\ ~tmp
  /\ pc \in Starting \ {"eval", "tmp"} => tmp
  /\ ~tmp => NothingRuns

UpInv == UpTypes /\ ExitSent /\ Progress

MicroVMInv == ForwardInv /\ Flags /\ UpInv

----------------------------------------------------------------------------
(***************************************************************************)
(* Connections.                                                            *)
(***************************************************************************)
LEMMA OverIsOver ==
  Over \in ConnRecs /\ Over.host = "closed" /\ Over.vm = "closed"
  <1>1. NoConn \in ConnRecs
    BY DEF NoConn, ConnRecs
  <1> QED
    BY <1>1 DEF Over, ConnRecs

LEMMA SettledKeeps ==
  ASSUME NEW r \in ConnRecs
  PROVE  /\ Settled(r) \in ConnRecs
         /\ Settled(r).host = r.host
         /\ Settled(r).vm = r.vm \/ (r.vm = "none" /\ Settled(r).vm = "closed")
BY OverIsOver DEF Settled, ConnRecs

Handling == {"accepted", "header", "dial", "proxy"}

\* What a step of one connection must see to.
LEMMA OneConnMoves ==
  ASSUME ForwardInv, NEW c \in Conns, NEW r \in ConnRecs,
         Goes(c, r), UNCHANGED <<fwd, opened, loops, vml>>,
         r.host = "accepted" => Port[c] \in loops,
         fwd \in {"stopping", "stopped"} => r.host # "backlog",
         fwd = "stopped" => r.host \in {"none", "accepted", "closed"},
         r.vm = "accepted" => \/ conn[c].vm = "accepted"
                              \/ \A d \in Conns : conn[d].vm # "accepted",
         vml # "serving" => r.vm # "backlog",
         vml = "stopped" /\ r.vm \in Handling => conn[c].vm \in Handling
  PROVE  ForwardInv'
  <1> DEFINE q == Settled(r)
  <1>1. /\ q \in ConnRecs
        /\ q.host = r.host
        /\ q.vm = r.vm \/ (r.vm = "none" /\ q.vm = "closed")
    BY SettledKeeps
  <1>2. conn' = [conn EXCEPT ![c] = q]
    BY DEF Goes
  <1> HIDE DEF q
  <1>3. conn \in [Conns -> ConnRecs]
    BY DEF ForwardInv, ForwardTypes
  <1>4. conn'[c] = q /\ \A d \in Conns : d # c => conn'[d] = conn[d]
    BY <1>2, <1>3
  <1>5. ForwardTypes'
    BY <1>1, <1>2 DEF ForwardInv, ForwardTypes
  <1>6. HostHalf'
    <2>1. q.host # "accepted" \/ Port[c] \in loops
      BY <1>1
    <2> QED
      BY <2>1, <1>1, <1>4 DEF ForwardInv, HostHalf, HostActive
  <1>7. VMHalf'
    <2>1. \A d \in Conns, e \in Conns :
            conn'[d].vm = "accepted" /\ conn'[e].vm = "accepted" => d = e
      BY <1>1, <1>4 DEF ForwardInv, VMHalf
    <2>2. vml' # "serving" => \A d \in Conns : conn'[d].vm # "backlog"
      BY <1>1, <1>4 DEF ForwardInv, VMHalf
    <2>3. vml = "stopped" => \A d \in Conns : InHand(d)' => InHand(d)
      BY <1>1, <1>4 DEF InHand, VMActive, Handling
    <2> QED
      BY <2>1, <2>2, <2>3 DEF ForwardInv, VMHalf
  <1> QED
    BY <1>5, <1>6, <1>7 DEF ForwardInv

LEMMA ConnTyped ==
  ASSUME ForwardInv, NEW c \in Conns
  PROVE  conn[c] \in ConnRecs
BY DEF ForwardInv, ForwardTypes

\* A copy ends, or a peer closes: the handlers stay where they are.
LEMMA HandlersStay ==
  ASSUME ForwardInv, NEW c \in Conns, NEW r \in ConnRecs,
         Goes(c, r), UNCHANGED <<fwd, opened, loops, vml>>,
         r.host = conn[c].host, r.vm = conn[c].vm
  PROVE  ForwardInv'
  <1>1. conn[c] \in ConnRecs
    BY ConnTyped
  <1>2. fwd = "stopped" => r.host \in {"none", "accepted", "closed"}
    BY <1>1 DEF ForwardInv, HostHalf, HostActive, ConnRecs
  <1> QED
    BY <1>2, OneConnMoves DEF ForwardInv, HostHalf, VMHalf

LEMMA HostStepsKeep ==
  ASSUME ForwardInv, HostSteps
  PROVE  ForwardInv'
  <1>1. ASSUME NEW c \in Conns, Accept(c) PROVE ForwardInv'
    BY <1>1, ConnTyped, OneConnMoves DEF Accept, ConnRecs, ForwardInv, HostHalf, VMHalf, InHand, VMActive, Handling
  <1>2. ASSUME NEW c \in Conns, Spawn(c) PROVE ForwardInv'
    BY <1>2, ConnTyped, OneConnMoves DEF Spawn, ConnRecs, ForwardInv, HostHalf, VMHalf, InHand, VMActive, Handling
  <1>3. ASSUME NEW c \in Conns, Dial(c) PROVE ForwardInv'
    <2>1. CASE vml = "serving"
      BY <1>3, <2>1, ConnTyped, OneConnMoves
      DEF Dial, ConnRecs, ForwardInv, HostHalf, HostActive, VMHalf, Handling
    <2>2. CASE vml # "serving"
      BY <1>3, <2>2, ConnTyped, OneConnMoves
      DEF Dial, ConnRecs, ForwardInv, HostHalf, VMHalf, Handling
    <2> QED BY <2>1, <2>2
  <1>4. ASSUME NEW c \in Conns, WriteHeader(c) PROVE ForwardInv'
    <2>1. CASE conn[c].vm = "closed"
      BY <1>4, <2>1, ConnTyped, OneConnMoves
      DEF WriteHeader, ConnRecs, ForwardInv, HostHalf, HostActive, VMHalf, Handling
    <2>2. CASE conn[c].vm # "closed"
      BY <1>4, <2>2, ConnTyped, OneConnMoves
      DEF WriteHeader, ConnRecs, ForwardInv, HostHalf, HostActive, VMHalf, Handling
    <2> QED BY <2>1, <2>2
  <1>5. ASSUME NEW c \in Conns, Up1Ends(c) PROVE ForwardInv'
    <2> DEFINE r == [conn[c] EXCEPT !.up1 = FALSE]
    <2>1. r \in ConnRecs /\ r.host = conn[c].host /\ r.vm = conn[c].vm
      BY ConnTyped DEF ConnRecs
    <2>2. Goes(c, r) /\ UNCHANGED <<fwd, opened, loops, vml>>
      BY <1>5 DEF Up1Ends
    <2> HIDE DEF r
    <2> QED
      BY <2>1, <2>2, HandlersStay
  <1>6. ASSUME NEW c \in Conns, Down1Ends(c) PROVE ForwardInv'
    <2> DEFINE r == [conn[c] EXCEPT !.down1 = FALSE]
    <2>1. r \in ConnRecs /\ r.host = conn[c].host /\ r.vm = conn[c].vm
      BY ConnTyped DEF ConnRecs
    <2>2. Goes(c, r) /\ UNCHANGED <<fwd, opened, loops, vml>>
      BY <1>6 DEF Down1Ends
    <2> HIDE DEF r
    <2> QED
      BY <2>1, <2>2, HandlersStay
  <1>7. ASSUME NEW c \in Conns, HostDone(c) PROVE ForwardInv'
    BY <1>7, ConnTyped, OneConnMoves DEF HostDone, ConnRecs, ForwardInv, HostHalf, VMHalf, Handling
  <1>8. ASSUME NEW m \in loops, LoopEnds(m) PROVE ForwardInv'
    BY <1>8 DEF LoopEnds, ForwardInv, ForwardTypes, HostHalf, HostActive, VMHalf, InHand, VMActive
  <1>9. CASE StopReturns
    BY <1>9 DEF StopReturns, ForwardInv, ForwardTypes, HostHalf, HostActive, VMHalf, InHand, VMActive
  <1> QED
    BY <1>1, <1>2, <1>3, <1>4, <1>5, <1>6, <1>7, <1>8, <1>9 DEF HostSteps

LEMMA VMStepsKeep ==
  ASSUME ForwardInv, VMSteps
  PROVE  ForwardInv'
  <1>1. ASSUME NEW c \in Conns, VAccept(c) PROVE ForwardInv'
    BY <1>1, ConnTyped, OneConnMoves DEF VAccept, ConnRecs, ForwardInv, HostHalf, HostActive, Handling
  <1>2. ASSUME NEW c \in Conns, VSpawn(c) PROVE ForwardInv'
    BY <1>2, ConnTyped, OneConnMoves DEF VSpawn, ConnRecs, ForwardInv, HostHalf, HostActive, Handling
  <1>3. ASSUME NEW c \in Conns, VHeader(c) PROVE ForwardInv'
    BY <1>3, ConnTyped, OneConnMoves DEF VHeader, ConnRecs, ForwardInv, HostHalf, HostActive, Handling
  <1>4. ASSUME NEW c \in Conns, NEW ok \in BOOLEAN, VDial(c, ok) PROVE ForwardInv'
    BY <1>4, ConnTyped, OneConnMoves DEF VDial, ConnRecs, ForwardInv, HostHalf, HostActive, Handling
  <1>5. ASSUME NEW c \in Conns, Up2Ends(c) PROVE ForwardInv'
    <2> DEFINE r == [conn[c] EXCEPT !.up2 = FALSE]
    <2>1. r \in ConnRecs /\ r.host = conn[c].host /\ r.vm = conn[c].vm
      BY ConnTyped DEF ConnRecs
    <2>2. Goes(c, r) /\ UNCHANGED <<fwd, opened, loops, vml>>
      BY <1>5 DEF Up2Ends
    <2> HIDE DEF r
    <2> QED
      BY <2>1, <2>2, HandlersStay
  <1>6. ASSUME NEW c \in Conns, Down2Ends(c) PROVE ForwardInv'
    <2> DEFINE r == [conn[c] EXCEPT !.down2 = FALSE]
    <2>1. r \in ConnRecs /\ r.host = conn[c].host /\ r.vm = conn[c].vm
      BY ConnTyped DEF ConnRecs
    <2>2. Goes(c, r) /\ UNCHANGED <<fwd, opened, loops, vml>>
      BY <1>6 DEF Down2Ends
    <2> HIDE DEF r
    <2> QED
      BY <2>1, <2>2, HandlersStay
  <1>7. ASSUME NEW c \in Conns, VDone(c) PROVE ForwardInv'
    BY <1>7, ConnTyped, OneConnMoves DEF VDone, ConnRecs, ForwardInv, HostHalf, HostActive, Handling
  <1>8. CASE VStopReturns
    BY <1>8 DEF VStopReturns, ForwardInv, ForwardTypes, HostHalf, HostActive, VMHalf, InHand, VMActive
  <1> QED
    BY <1>1, <1>2, <1>3, <1>4, <1>5, <1>6, <1>7, <1>8 DEF VMSteps

LEMMA PeersKeep ==
  ASSUME ForwardInv, Peers
  PROVE  ForwardInv'
  <1>1. ASSUME NEW c \in Conns, Connect(c) PROVE ForwardInv'
    BY <1>1, ConnTyped, OneConnMoves DEF Connect, ConnRecs, ForwardInv, HostHalf, VMHalf, Handling
  <1>2. ASSUME NEW c \in Conns, ClientCloses(c) PROVE ForwardInv'
    <2> DEFINE r == [conn[c] EXCEPT !.ceof = TRUE]
    <2>1. r \in ConnRecs /\ r.host = conn[c].host /\ r.vm = conn[c].vm
      BY ConnTyped DEF ConnRecs
    <2>2. Goes(c, r) /\ UNCHANGED <<fwd, opened, loops, vml>>
      BY <1>2 DEF ClientCloses
    <2> HIDE DEF r
    <2> QED
      BY <2>1, <2>2, HandlersStay
  <1>3. ASSUME NEW c \in Conns, TargetCloses(c) PROVE ForwardInv'
    <2> DEFINE r == [conn[c] EXCEPT !.teof = TRUE]
    <2>1. r \in ConnRecs /\ r.host = conn[c].host /\ r.vm = conn[c].vm
      BY ConnTyped DEF ConnRecs
    <2>2. Goes(c, r) /\ UNCHANGED <<fwd, opened, loops, vml>>
      BY <1>3 DEF TargetCloses
    <2> HIDE DEF r
    <2> QED
      BY <2>1, <2>2, HandlersStay
  <1>4. ASSUME NEW c \in Conns, ClientWrites(c) PROVE ForwardInv'
    <2> DEFINE r == [conn[c] EXCEPT !.up1 = FALSE]
    <2>1. r \in ConnRecs /\ r.host = conn[c].host /\ r.vm = conn[c].vm
      BY ConnTyped DEF ConnRecs
    <2>2. Goes(c, r) /\ UNCHANGED <<fwd, opened, loops, vml>>
      BY <1>4 DEF ClientWrites
    <2> HIDE DEF r
    <2> QED
      BY <2>1, <2>2, HandlersStay
  <1>5. ASSUME NEW c \in Conns, TargetWrites(c) PROVE ForwardInv'
    <2> DEFINE r == [conn[c] EXCEPT !.down2 = FALSE]
    <2>1. r \in ConnRecs /\ r.host = conn[c].host /\ r.vm = conn[c].vm
      BY ConnTyped DEF ConnRecs
    <2>2. Goes(c, r) /\ UNCHANGED <<fwd, opened, loops, vml>>
      BY <1>5 DEF TargetWrites
    <2> HIDE DEF r
    <2> QED
      BY <2>1, <2>2, HandlersStay
  <1> QED
    BY <1>1, <1>2, <1>3, <1>4, <1>5 DEF Peers

LEMMA StopForwarderKeeps ==
  ASSUME ForwardInv, StopForwarder
  PROVE  ForwardInv'
  <1>1. /\ Over \in ConnRecs /\ Over.host = "closed" /\ Over.vm = "closed"
        /\ fwd' = "stopping" /\ UNCHANGED <<opened, loops, vml>>
        /\ conn \in [Conns -> ConnRecs]
        /\ conn' = [c \in Conns |-> IF conn[c].host = "backlog" THEN Over ELSE conn[c]]
    BY OverIsOver DEF StopForwarder, Dropped, ForwardInv, ForwardTypes
  <1>2. \A c \in Conns : \/ conn'[c] = conn[c] /\ conn[c].host # "backlog"
                         \/ conn'[c].host = "closed" /\ conn'[c].vm = "closed"
    BY <1>1
  <1>3. ForwardTypes'
    BY <1>1 DEF ForwardInv, ForwardTypes
  <1>4. HostHalf'
    BY <1>1, <1>2 DEF ForwardInv, HostHalf
  <1>5. VMHalf'
    BY <1>1, <1>2 DEF ForwardInv, VMHalf, InHand, VMActive
  <1> QED
    BY <1>3, <1>4, <1>5 DEF ForwardInv

LEMMA VMHangsUp ==
  ASSUME ForwardInv, NEW c \in Conns
  PROVE  LET q == Settled([conn[c] EXCEPT !.vm = "closed"])
         IN  q \in ConnRecs /\ q.host = conn[c].host /\ q.vm = "closed"
  <1> DEFINE r == [conn[c] EXCEPT !.vm = "closed"]
  <1>1. r \in ConnRecs /\ r.host = conn[c].host /\ r.vm = "closed"
    BY ConnTyped DEF ConnRecs
  <1> HIDE DEF r
  <1>2. Settled(r) \in ConnRecs /\ Settled(r).host = conn[c].host /\ Settled(r).vm = "closed"
    BY <1>1, SettledKeeps
  <1> QED
    BY <1>2 DEF r

LEMMA VStopKeeps ==
  ASSUME ForwardInv, VStop
  PROVE  ForwardInv'
  <1> DEFINE q(c) == Settled([conn[c] EXCEPT !.vm = "closed"])
  <1>1. ASSUME NEW c \in Conns
        PROVE  q(c) \in ConnRecs /\ q(c).host = conn[c].host /\ q(c).vm = "closed"
    BY VMHangsUp
  <1>2. conn' = [c \in Conns |-> IF conn[c].vm = "backlog" THEN q(c) ELSE conn[c]]
    BY DEF VStop
  <1> HIDE DEF q
  <1>3. \A c \in Conns : \/ conn'[c] = conn[c] /\ conn[c].vm # "backlog"
                         \/ conn'[c].host = conn[c].host /\ conn'[c].vm = "closed"
    BY <1>1, <1>2
  <1>4. ForwardTypes'
    BY <1>1, <1>2 DEF VStop, ForwardInv, ForwardTypes
  <1>5. HostHalf'
    BY <1>3 DEF VStop, ForwardInv, HostHalf, HostActive
  <1>6. VMHalf'
    BY <1>3 DEF VStop, ForwardInv, VMHalf
  <1> QED
    BY <1>4, <1>5, <1>6 DEF ForwardInv

LEMMA VMDiesKeeps ==
  ASSUME ForwardInv, VMDies
  PROVE  ForwardInv'
  <1> DEFINE q(c) == Settled([conn[c] EXCEPT !.vm = "closed"])
  <1>1. ASSUME NEW c \in Conns
        PROVE  q(c) \in ConnRecs /\ q(c).host = conn[c].host /\ q(c).vm = "closed"
    BY VMHangsUp
  <1>2. conn' = [c \in Conns |-> IF conn[c].vm = "none" THEN conn[c] ELSE q(c)]
    BY DEF VMDies
  <1> HIDE DEF q
  <1>3. \A c \in Conns : conn'[c].host = conn[c].host /\ conn'[c].vm \in {"none", "closed"}
    BY <1>1, <1>2
  <1>4. ForwardTypes'
    BY <1>1, <1>2 DEF VMDies, ForwardInv, ForwardTypes
  <1>5. HostHalf'
    BY <1>3 DEF VMDies, ForwardInv, HostHalf, HostActive
  <1>6. VMHalf'
    BY <1>3 DEF VMDies, ForwardInv, VMHalf
  <1> QED
    BY <1>4, <1>5, <1>6 DEF ForwardInv

LEMMA HostDiesKeeps ==
  ASSUME ForwardInv, HostDies
  PROVE  ForwardInv'
  <1> DEFINE q(c) == Settled([conn[c] EXCEPT !.host = "closed"])
  <1>1. ASSUME NEW c \in Conns
        PROVE  /\ q(c) \in ConnRecs /\ q(c).host = "closed"
               /\ q(c).vm = conn[c].vm \/ q(c).vm = "closed"
    <2> DEFINE r == [conn[c] EXCEPT !.host = "closed"]
    <2>1. r \in ConnRecs /\ r.host = "closed" /\ r.vm = conn[c].vm
      BY ConnTyped DEF ConnRecs
    <2> HIDE DEF r
    <2>2. /\ Settled(r) \in ConnRecs /\ Settled(r).host = "closed"
          /\ Settled(r).vm = conn[c].vm \/ Settled(r).vm = "closed"
      BY <2>1, SettledKeeps
    <2> QED
      BY <2>2 DEF r
  <1>2. conn' = [c \in Conns |-> IF conn[c].host = "none" THEN conn[c] ELSE q(c)]
    BY DEF HostDies
  <1> HIDE DEF q
  <1>3. \A c \in Conns : /\ conn'[c].host \in {"none", "closed"}
                         /\ conn'[c].vm = conn[c].vm \/ conn'[c].vm = "closed"
    BY <1>1, <1>2
  <1>4. ForwardTypes'
    BY <1>1, <1>2, MappingsAreCounted DEF HostDies, ForwardInv, ForwardTypes
  <1>5. HostHalf'
    BY <1>3 DEF HostDies, HostHalf, HostActive
  <1>6. VMHalf'
    <2>1. \A c \in Conns : InHand(c)' => InHand(c)
      BY <1>3 DEF InHand, VMActive
    <2> QED
      BY <1>3, <2>1 DEF HostDies, ForwardInv, VMHalf
  <1> QED
    BY <1>4, <1>5, <1>6 DEF ForwardInv

LEMMA ListenKeeps ==
  ASSUME ForwardInv, Listen
  PROVE  ForwardInv'
  <1>1. ForwardTypes'
    BY MappingsAreCounted DEF Listen, ForwardInv, ForwardTypes
  <1> QED
    BY <1>1 DEF Listen, ForwardInv, HostHalf, HostActive, VMHalf, InHand, VMActive

----------------------------------------------------------------------------
(***************************************************************************)
(* The inductive invariant.                                                *)
(***************************************************************************)
LEMMA MicroVMInit == Init => MicroVMInv
  <1> SUFFICES ASSUME Init PROVE MicroVMInv
    OBVIOUS
  <1>1. NoConn \in ConnRecs /\ NoConn.host = "none" /\ NoConn.vm = "none"
    BY DEF NoConn, ConnRecs
  <1>2. conn \in [Conns -> ConnRecs] /\ \A c \in Conns : conn[c] = NoConn
    BY <1>1 DEF Init, PFInit
  <1>3. ForwardInv
    BY <1>1, <1>2, MappingsAreCounted DEF Init, PFInit, ForwardInv, ForwardTypes, HostHalf, VMHalf
  <1>4. UpTypes
    BY SharesAreCounted DEF Init, UpTypes, Starting
  <1>5. ExitSent
    BY DEF Init, ExitSent
  <1>6. Progress
    BY DEF Init, Progress, NothingRuns, Starting, Stopping
  <1>7. Flags
    BY Zenon DEF Init, Flags
  <1> QED
    BY <1>3, <1>4, <1>5, <1>6, <1>7 DEF MicroVMInv, UpInv

LEMMA FlagsKept ==
  ASSUME Flags, [Next]_vars
  PROVE  Flags'
  <1>1. \/ UNCHANGED <<tmp, monitor>>
        \/ tmp' = TRUE /\ UNCHANGED monitor
        \/ tmp' = FALSE /\ UNCHANGED monitor
        \/ monitor' = TRUE /\ UNCHANGED tmp
        \/ monitor' = FALSE /\ UNCHANGED tmp
    BY Zenon
    DEF Next, vars, vmVars, UpSteps, Goroutines, World, Forwarding, Evaluate, StartBegins,
        StartVirtiofsd, StartHypervisor, StartFails, Cleanup, Healthy, DialAndApply,
        ForwardBegins, OpenPort, PortTaken, ForwardEnds, Enter, OnSignal, OnExit, DeferStop,
        Return, StopBegins, Kill, StopReceives, MonitorSends, WaitReceives, BecomesHealthy,
        Exits, Signal, KilledBySignal, ServerStops
  <1> QED
    BY <1>1, Zenon DEF Flags

LEMMA UpStagesKept ==
  ASSUME Flags, UpInv, [Next]_vars
  PROVE  UpInv'
  <1> USE DEF UpInv, UpTypes, ExitSent, Progress, Starting, Stopping, NothingRuns
  <1>1. CASE Evaluate
    BY <1>1 DEF Evaluate, Fault
  <1>2. CASE StartBegins
    BY <1>2, SharesAreCounted DEF StartBegins
  <1>3. CASE StartVirtiofsd
    BY <1>3, SharesAreCounted DEF StartVirtiofsd
  <1>4. CASE StartHypervisor
    BY <1>4 DEF StartHypervisor
  <1>5. CASE StartFails
    BY <1>5, SharesAreCounted DEF StartFails, Cleanup, Fault
  <1>6. CASE Healthy
    BY <1>6 DEF Healthy
  <1>7. CASE DialAndApply
    BY <1>7 DEF DialAndApply, Fault
  <1>8. CASE ForwardBegins
    BY <1>8 DEF ForwardBegins
  <1>9. CASE PortTaken
    BY <1>9 DEF PortTaken, Fault
  <1>10. CASE ForwardEnds
    BY <1>10 DEF ForwardEnds
  <1>11. CASE \E detach \in BOOLEAN : Enter(detach)
    BY <1>11 DEF Enter
  <1>12. CASE OnSignal
    BY <1>12 DEF OnSignal
  <1>13. CASE OnExit
    BY <1>13 DEF OnExit
  <1>14. CASE Return
    BY <1>14 DEF Return
  <1>15. CASE StopBegins
    BY <1>15 DEF StopBegins
  <1>16. CASE Kill
    BY <1>16 DEF Kill
  <1>17. CASE StopReceives
    BY <1>17, SharesAreCounted DEF StopReceives, Cleanup
  <1>18. CASE MonitorSends
    BY <1>18 DEF MonitorSends
  <1>19. CASE WaitReceives
    BY <1>19 DEF WaitReceives
  <1>20. CASE BecomesHealthy
    BY <1>20 DEF BecomesHealthy
  <1>21. CASE Exits
    BY <1>21 DEF Exits, Fault
  <1>22. CASE Signal
    BY <1>22 DEF Signal
  <1>23. CASE UNCHANGED vmVars
    BY <1>23 DEF vmVars
  <1>24. CASE KilledBySignal
    BY <1>24 DEF KilledBySignal
  <1> QED
    BY <1>1, <1>2, <1>3, <1>4, <1>5, <1>6, <1>7, <1>8, <1>9, <1>10, <1>11, <1>12, <1>13,
       <1>14, <1>15, <1>16, <1>17, <1>18, <1>19, <1>20, <1>21, <1>22, <1>23, <1>24
    DEF Next, UpSteps, Goroutines, World, Forwarding, OpenPort, DeferStop, ServerStops, vars

LEMMA ForwardingKept ==
  ASSUME ForwardInv, [Next]_vars
  PROVE  ForwardInv'
  <1>1. CASE UNCHANGED pfVars
    BY <1>1 DEF pfVars, ForwardInv, ForwardTypes, HostHalf, HostActive, VMHalf, InHand, VMActive
  <1>2. CASE ForwardBegins
    BY <1>2 DEF ForwardBegins, ForwardInv, ForwardTypes, HostHalf, HostActive, VMHalf, InHand, VMActive
  <1>3. CASE OpenPort
    BY <1>3, ListenKeeps DEF OpenPort
  <1>4. CASE PortTaken \/ DeferStop
    BY <1>4, StopForwarderKeeps DEF PortTaken, DeferStop
  <1>5. CASE Kill
    BY <1>5, <1>1, VMDiesKeeps DEF Kill
  <1>6. CASE Exits
    BY <1>6, VMDiesKeeps DEF Exits
  <1>7. CASE ServerStops
    BY <1>7, VStopKeeps DEF ServerStops
  <1>8. CASE Forwarding
    BY <1>8, HostStepsKeep, VMStepsKeep, PeersKeep DEF Forwarding
  <1>9. CASE \/ Evaluate \/ StartBegins \/ StartVirtiofsd \/ StartHypervisor \/ StartFails
             \/ Healthy \/ DialAndApply \/ ForwardEnds \/ (\E detach \in BOOLEAN : Enter(detach))
             \/ OnSignal \/ OnExit \/ Return \/ StopBegins \/ StopReceives
             \/ MonitorSends \/ WaitReceives \/ BecomesHealthy \/ Signal
    BY <1>9, <1>1
    DEF Evaluate, StartBegins, StartVirtiofsd, StartHypervisor, StartFails, Healthy,
        DialAndApply, ForwardEnds, Enter, OnSignal, OnExit, Return, StopBegins,
        StopReceives, MonitorSends, WaitReceives, BecomesHealthy, Signal
  <1>10. CASE KilledBySignal
    BY <1>10, HostDiesKeeps DEF KilledBySignal
  <1> QED
    BY <1>1, <1>2, <1>3, <1>4, <1>5, <1>6, <1>7, <1>8, <1>9, <1>10
    DEF Next, UpSteps, Goroutines, World, vars

\* MicroVMInv is inductive: whatever up, its goroutines, the hypervisor, clients
\* and targets do, it holds (microvm.go, vm.go, portfwd.go, listener.go).
THEOREM MicroVMInvariant == Spec => []MicroVMInv
  <1>1. MicroVMInv /\ [Next]_vars => MicroVMInv'
    BY FlagsKept, UpStagesKept, ForwardingKept DEF MicroVMInv
  <1> QED
    BY <1>1, MicroVMInit, PTL DEF Spec

\* Type correctness of up --microvm and of the forwarding.
THEOREM VMTypeCorrect == Spec => []VMTypeOK
  <1>1. MicroVMInv => VMTypeOK
    BY DEF MicroVMInv, ForwardInv, ForwardTypes, Flags, UpInv, UpTypes, VMTypeOK
  <1> QED
    BY <1>1, MicroVMInvariant, PTL

\* However many shares, whichever step of up fails, and whether the hypervisor
\* obeys SIGTERM, is killed or crashes while it is being stopped: an up that
\* reported an error, or that a signal ended in the foreground, leaves neither a
\* process nor its directory behind (microvm.go, hypervisor.go).  A signal at any
\* other step kills up and leaves what there is; then, as after a crash of the VM
\* and after -d, wherever a process is left its directory is left too.
THEOREM NothingLeftBehind == Spec => []NoOrphans
  <1>1. MicroVMInv => NoOrphans
    BY DEF MicroVMInv, UpInv, Progress, NoOrphans
  <1> QED
    BY <1>1, MicroVMInvariant, PTL

LEMMA AtMostOne ==
  ASSUME NEW S, \A x, y \in S : x = y
  PROVE  Cardinality(S) <= 1
  <1>1. CASE S = {}
    BY <1>1, FS_EmptySet
  <1>2. CASE S # {}
    <2>1. PICK x \in S : S = {x}
      BY <1>2
    <2> QED
      BY <2>1, FS_Singleton
  <1> QED
    BY <1>1, <1>2

\* Forwarder.Stop and VMListener.Stop, for any number of ports and connections and
\* every interleaving of loops, handlers and copies with Stop: what wg.Wait waits
\* for is all there is, but for the one connection of the uncounted VM loop.
THEOREM StopDrains == Spec => []Drained
  <1>1. MicroVMInv => Drained
    <2> SUFFICES ASSUME MicroVMInv PROVE Drained
      OBVIOUS
    <2>1. ASSUME fwd = "stopped", NEW c \in Conns
          PROVE  conn[c].host \in {"none", "closed"}
      <3>1. conn[c] \in ConnRecs
        BY ConnTyped DEF MicroVMInv
      <3> QED
        BY <2>1, <3>1 DEF MicroVMInv, ForwardInv, HostHalf, HostActive, ConnRecs
    <2>2. fwd = "stopped" => loops = {}
      BY DEF MicroVMInv, ForwardInv, HostHalf
    <2>3. ASSUME vml = "stopped"
          PROVE  Cardinality({c \in Conns : VMActive(c) \/ conn[c].vm = "accepted"}) <= 1
      <3> DEFINE S == {c \in Conns : VMActive(c) \/ conn[c].vm = "accepted"}
      <3>1. \A x, y \in S : x = y
        BY <2>3 DEF MicroVMInv, ForwardInv, VMHalf, InHand
      <3> QED
        BY <3>1, AtMostOne
    <2> QED
      BY <2>1, <2>2, <2>3 DEF Drained
  <1> QED
    BY <1>1, MicroVMInvariant, PTL

=============================================================================
