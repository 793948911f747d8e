----------------------------- MODULE PortForward -----------------------------
(***************************************************************************)
(* Port forwarding into a microVM (pkg/microvm/portfwd): the Forwarder on  *)
(* the host accepts TCP connections, dials the VM over vsock, sends the    *)
(* target port and copies both ways; the VMListener in the VM reads the    *)
(* port, dials the target and copies both ways too.                        *)
(*                                                                         *)
(*     client -- up1/down1 -- Forwarder == VMListener -- up2/down2 -- target *)
(*                                                                         *)
(* Accept loops, handlers, the copies and Stop are goroutines of their     *)
(* own.  A WaitGroup is the set of goroutines that have called Add and not *)
(* Done, so it is read off the state of the loops and of the connections.  *)
(***************************************************************************)
EXTENDS Naturals, FiniteSets

CONSTANTS Mappings,   \* the number of published ports
          Conns,      \* the connections clients may open
          Port        \* the published port each of them goes to

ASSUME MappingsAreCounted == Mappings \in Nat

VARIABLES
  fwd,      \* Forwarder: "off", "starting", "started", "stopping", "stopped"
  opened,   \* the listeners opened so far: 1..opened
  loops,    \* the mappings whose accept loop runs
  vml,      \* VMListener: "serving", "stopping", "stopped"
  conn      \* the connections, both halves

pfVars == <<fwd, opened, loops, vml, conn>>

\* host and vm: where the two handlers are.  up1 ... down2: the copies that run.
\* sent: the header was written.  ceof, teof: client and target sent their EOF.
NoConn == [host |-> "none", vm |-> "none", sent |-> FALSE,
           up1 |-> TRUE, down1 |-> TRUE, up2 |-> TRUE, down2 |-> TRUE,
           ceof |-> FALSE, teof |-> FALSE]

PFInit ==
  /\ fwd = "off" /\ opened = 0 /\ loops = {}
  /\ vml = "serving"
  /\ conn = [c \in Conns |-> NoConn]

Over == [NoConn EXCEPT !.host = "closed", !.vm = "closed"]

\* A connection both handlers are through with is forgotten but for that.
Settled(r) == IF r.host = "closed" /\ r.vm \in {"none", "closed"} THEN Over ELSE r

\* The handlers of c leave it as r.
Goes(c, r) == conn' = [conn EXCEPT ![c] = Settled(r)]

HostActive(c) == conn[c].host \in {"dial", "header", "proxy"}
VMActive(c) == conn[c].vm \in {"header", "dial", "proxy"}

----------------------------------------------------------------------------
(***************************************************************************)
(* The forwarder on the host.                                              *)
(***************************************************************************)
\* Start opens one listener after the other, each with its accept loop.
Listen ==
  /\ fwd = "starting" /\ opened < Mappings
  /\ opened' = opened + 1
  /\ loops' = loops \cup {opened'}
  /\ fwd' = IF opened' = Mappings THEN "started" ELSE fwd
  /\ UNCHANGED <<vml, conn>>

Dropped == [c \in Conns |-> IF conn[c].host = "backlog"
                            THEN Over ELSE conn[c]]

\* Stop, called by the owner or because a port could not be opened: the listeners
\* are closed, and with them the connections nobody has accepted.
StopForwarder ==
  /\ fwd \in {"starting", "started"}
  /\ fwd' = "stopping"
  /\ conn' = Dropped
  /\ UNCHANGED <<opened, loops, vml>>

\* A client connects to an open port.
Connect(c) ==
  /\ Port[c] \in loops /\ fwd \in {"starting", "started"}
  /\ conn[c].host = "none"
  /\ Goes(c, [conn[c] EXCEPT !.host = "backlog"])
  /\ UNCHANGED <<fwd, opened, loops, vml>>

\* Accept returns a connection; the loop has not added its handler yet.
Accept(c) ==
  /\ conn[c].host = "backlog" /\ Port[c] \in loops
  /\ \A d \in Conns : conn[d].host = "accepted" => Port[d] # Port[c]
  /\ Goes(c, [conn[c] EXCEPT !.host = "accepted"])
  /\ UNCHANGED <<fwd, opened, loops, vml>>

Spawn(c) ==
  /\ conn[c].host = "accepted"
  /\ Goes(c, [conn[c] EXCEPT !.host = "dial"])
  /\ UNCHANGED <<fwd, opened, loops, vml>>

\* Accept fails because the listener is closed, and closed is set.
LoopEnds(m) ==
  /\ m \in loops /\ fwd = "stopping"
  /\ \A c \in Conns : conn[c].host = "accepted" => Port[c] # m
  /\ loops' = loops \ {m}
  /\ UNCHANGED <<fwd, opened, vml, conn>>

\* handleConn dials the VM ...
Dial(c) ==
  /\ conn[c].host = "dial"
  /\ IF vml = "serving"
     THEN Goes(c, [conn[c] EXCEPT !.host = "header", !.vm = "backlog"])
     ELSE Goes(c, [conn[c] EXCEPT !.host = "closed"])
  /\ UNCHANGED <<fwd, opened, loops, vml>>

\* ... and writes the port, unless the VM has hung up.
WriteHeader(c) ==
  /\ conn[c].host = "header"
  /\ IF conn[c].vm = "closed"
     THEN Goes(c, [conn[c] EXCEPT !.host = "closed"])
     ELSE Goes(c, [conn[c] EXCEPT !.host = "proxy", !.sent = TRUE])
  /\ UNCHANGED <<fwd, opened, loops, vml>>

\* Mutant: the end of the client's data is not passed on.
Up1Ends_NoCloseWrite(c) ==
  /\ conn[c].host = "proxy" /\ conn[c].up1
  /\ conn[c].ceof /\ conn[c].vm = "closed"
  /\ Goes(c, [conn[c] EXCEPT !.up1 = FALSE])
  /\ UNCHANGED <<fwd, opened, loops, vml>>

\* Proxy: a copy ends with the EOF of its source, and half closes its destination.
\* Reading from an idle peer it does not see that its destination is gone: only a
\* write tells (ClientWrites, TargetWrites).
Up1Ends(c) ==
  /\ conn[c].host = "proxy" /\ conn[c].up1
  /\ conn[c].ceof
  /\ Goes(c, [conn[c] EXCEPT !.up1 = FALSE])
  /\ UNCHANGED <<fwd, opened, loops, vml>>

Down1Ends(c) ==
  /\ conn[c].host = "proxy" /\ conn[c].down1
  /\ conn[c].vm = "closed" \/ ~conn[c].down2
  /\ Goes(c, [conn[c] EXCEPT !.down1 = FALSE])
  /\ UNCHANGED <<fwd, opened, loops, vml>>

\* Both copies are over: both connections are closed.
HostDone(c) ==
  /\ conn[c].host = "proxy" /\ ~conn[c].up1 /\ ~conn[c].down1
  /\ Goes(c, [conn[c] EXCEPT !.host = "closed"])
  /\ UNCHANGED <<fwd, opened, loops, vml>>

\* Mutant: the accept loops are not waited for.
StopReturns_LoopsUncounted ==
  /\ fwd = "stopping"
  /\ \A c \in Conns : ~HostActive(c)
  /\ fwd' = "stopped"
  /\ UNCHANGED <<opened, loops, vml, conn>>

\* wg.Wait: neither a loop nor a handler is left.
StopReturns ==
  /\ fwd = "stopping"
  /\ loops = {} /\ \A c \in Conns : ~HostActive(c)
  /\ fwd' = "stopped"
  /\ UNCHANGED <<opened, loops, vml, conn>>

----------------------------------------------------------------------------
(***************************************************************************)
(* The listener in the VM.  Its accept loop is in no WaitGroup.            *)
(***************************************************************************)
VAccept(c) ==
  /\ vml = "serving" /\ conn[c].vm = "backlog"
  /\ \A d \in Conns : conn[d].vm # "accepted"
  /\ Goes(c, [conn[c] EXCEPT !.vm = "accepted"])
  /\ UNCHANGED <<fwd, opened, loops, vml>>

VSpawn(c) ==
  /\ conn[c].vm = "accepted"
  /\ Goes(c, [conn[c] EXCEPT !.vm = "header"])
  /\ UNCHANGED <<fwd, opened, loops, vml>>

\* The port is read; on a timeout or a hang-up the handler gives up.
VHeader(c) ==
  /\ conn[c].vm = "header"
  /\ \/ conn[c].sent /\ Goes(c, [conn[c] EXCEPT !.vm = "dial"])
     \/ ~conn[c].sent /\ Goes(c, [conn[c] EXCEPT !.vm = "closed"])
  /\ UNCHANGED <<fwd, opened, loops, vml>>

VDial(c, ok) ==
  /\ conn[c].vm = "dial"
  /\ Goes(c, [conn[c] EXCEPT !.vm = IF ok THEN "proxy" ELSE "closed"])
  /\ UNCHANGED <<fwd, opened, loops, vml>>

Up2Ends(c) ==
  /\ conn[c].vm = "proxy" /\ conn[c].up2
  /\ ~conn[c].up1 \/ conn[c].host = "closed"
  /\ Goes(c, [conn[c] EXCEPT !.up2 = FALSE])
  /\ UNCHANGED <<fwd, opened, loops, vml>>

Down2Ends(c) ==
  /\ conn[c].vm = "proxy" /\ conn[c].down2
  /\ conn[c].teof
  /\ Goes(c, [conn[c] EXCEPT !.down2 = FALSE])
  /\ UNCHANGED <<fwd, opened, loops, vml>>

VDone(c) ==
  /\ conn[c].vm = "proxy" /\ ~conn[c].up2 /\ ~conn[c].down2
  /\ Goes(c, [conn[c] EXCEPT !.vm = "closed"])
  /\ UNCHANGED <<fwd, opened, loops, vml>>

\* The server in the VM is told to stop: the listener is closed.
VStop ==
  /\ vml = "serving"
  /\ vml' = "stopping"
  /\ conn' = [c \in Conns |-> IF conn[c].vm = "backlog"
                              THEN Settled([conn[c] EXCEPT !.vm = "closed"]) ELSE conn[c]]
  /\ UNCHANGED <<fwd, opened, loops>>

VStopReturns ==
  /\ vml = "stopping"
  /\ \A c \in Conns : ~VMActive(c)
  /\ vml' = "stopped"
  /\ UNCHANGED <<fwd, opened, loops, conn>>

\* The VM is gone, and all its connections.
VMDies ==
  /\ vml' = "dead"
  /\ conn' = [c \in Conns |-> IF conn[c].vm = "none" THEN conn[c]
                              ELSE Settled([conn[c] EXCEPT !.vm = "closed"])]
  /\ UNCHANGED <<fwd, opened, loops>>

\* The process of the forwarder is killed: the kernel closes its listeners and its
\* ends of the connections.
HostDies ==
  /\ fwd' = "off" /\ opened' = 0 /\ loops' = {}
  /\ conn' = [c \in Conns |-> IF conn[c].host = "none" THEN conn[c]
                              ELSE Settled([conn[c] EXCEPT !.host = "closed"])]
  /\ UNCHANGED vml

----------------------------------------------------------------------------
\* Clients and targets close their side; nobody would notice before the copies run.
ClientCloses(c) ==
  /\ conn[c].host = "proxy" /\ ~conn[c].ceof
  /\ Goes(c, [conn[c] EXCEPT !.ceof = TRUE])
  /\ UNCHANGED <<fwd, opened, loops, vml>>

TargetCloses(c) ==
  /\ conn[c].vm = "proxy" /\ ~conn[c].teof
  /\ Goes(c, [conn[c] EXCEPT !.teof = TRUE])
  /\ UNCHANGED <<fwd, opened, loops, vml>>

\* They send when the other end has gone: the copy's write fails, and it ends.
ClientWrites(c) ==
  /\ conn[c].host = "proxy" /\ conn[c].up1 /\ conn[c].vm = "closed"
  /\ Goes(c, [conn[c] EXCEPT !.up1 = FALSE])
  /\ UNCHANGED <<fwd, opened, loops, vml>>

TargetWrites(c) ==
  /\ conn[c].vm = "proxy" /\ conn[c].down2 /\ conn[c].host = "closed"
  /\ Goes(c, [conn[c] EXCEPT !.down2 = FALSE])
  /\ UNCHANGED <<fwd, opened, loops, vml>>

\* The goroutines of the forwarder, of the listener, and the peers.
HostSteps ==
  \/ \E c \in Conns : \/ Accept(c) \/ Spawn(c) \/ Dial(c) \/ WriteHeader(c)
                      \/ Up1Ends(c) \/ Down1Ends(c) \/ HostDone(c)
  \/ \E m \in loops : LoopEnds(m)
  \/ StopReturns

VMSteps ==
  \/ \E c \in Conns : \/ VAccept(c) \/ VSpawn(c) \/ VHeader(c)
                      \/ \E ok \in BOOLEAN : VDial(c, ok)
                      \/ Up2Ends(c) \/ Down2Ends(c) \/ VDone(c)
  \/ VStopReturns

Peers ==
  \E c \in Conns : \/ Connect(c) \/ ClientCloses(c) \/ TargetCloses(c)
                  \/ ClientWrites(c) \/ TargetWrites(c)
=============================================================================
