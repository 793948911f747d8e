------------------------------- MODULE MicroVM -------------------------------
(***************************************************************************)
(* `up --microvm` (pkg/cli/microvm.go, runUpMicroVM in pkg/cli/up.go,      *)
(* pkg/microvm): boot a VM under cloud-hypervisor with a virtiofsd for     *)
(* each share, let the server in it apply the composition, forward the     *)
(* published ports, and in the foreground stop the VM on a signal.         *)
(*                                                                         *)
(* One goroutine sends the exit of cloud-hypervisor to vm.waitCh, once.    *)
(* Stop receives from it; so does vm.Wait, which the foreground runs in a  *)
(* goroutine of its own.                                                   *)
(*                                                                         *)
(* SIGINT and SIGTERM are handled in the foreground only; before it, and   *)
(* while the deferred Stop of the forwarder runs, they kill up on the spot *)
(* and nothing is cleaned up (KilledBySignal).                             *)
(***************************************************************************)
EXTENDS PortForward

CONSTANTS Shares,      \* the number of shared directories
          MaxFaults    \* bound on failing steps, a crash of the VM among them

ASSUME SharesAreCounted == Shares \in Nat

VARIABLES
  pc,       \* the up process
  result,   \* how it ended: "none", "ok", "detached", "error", "crashed", "killed"
  status,   \* vm.status
  chv,      \* the cloud-hypervisor process: "none", "booting", "healthy", "exited"
  vfs,      \* how many virtiofsd processes run
  tmp,      \* whether the temporary directory exists
  monitor,  \* the goroutine that waits for chv has not sent yet
  waitCh,   \* how many values are in vm.waitCh
  waiter,   \* the goroutine in vm.Wait: "off", "waiting", "done"
  sig,      \* a signal is there
  faults

vmVars == <<pc, result, status, chv, vfs, tmp, monitor, waitCh, waiter, sig, faults>>

vars == <<pfVars, vmVars>>

Init ==
  /\ PFInit
  /\ pc = "eval" /\ result = "none"
  /\ status = "Stopped"
  /\ chv = "none" /\ vfs = 0 /\ tmp = FALSE
  /\ monitor = FALSE /\ waitCh = 0 /\ waiter = "off"
  /\ sig = FALSE /\ faults = 0

Fault == faults < MaxFaults /\ faults' = faults + 1

Cleanup == vfs' = 0 /\ tmp' = FALSE

----------------------------------------------------------------------------
(***************************************************************************)
(* Boot.                                                                   *)
(***************************************************************************)
\* Evaluation, image build and validation of the configuration.
Evaluate ==
  /\ pc = "eval"
  /\ \/ pc' = "tmp" /\ UNCHANGED <<result, faults>>
     \/ Fault /\ pc' = "returned" /\ result' = "error"
  /\ UNCHANGED <<pfVars, status, chv, vfs, tmp, monitor, waitCh, waiter, sig>>

StartBegins ==
  /\ pc = "tmp" /\ status \in {"Stopped", "Failed"}
  /\ status' = "Starting"
  /\ tmp' = TRUE
  /\ pc' = IF Shares = 0 THEN "hypervisor" ELSE "share"
  /\ UNCHANGED <<pfVars, result, chv, vfs, monitor, waitCh, waiter, sig, faults>>

StartVirtiofsd ==
  /\ pc = "share"
  /\ vfs' = vfs + 1
  /\ pc' = IF vfs' = Shares THEN "hypervisor" ELSE pc
  /\ UNCHANGED <<pfVars, result, status, chv, tmp, monitor, waitCh, waiter, sig, faults>>

StartHypervisor ==
  /\ pc = "hypervisor"
  /\ chv' = "booting" /\ monitor' = TRUE
  /\ pc' = "health"
  /\ UNCHANGED <<pfVars, result, status, vfs, tmp, waitCh, waiter, sig, faults>>

\* A virtiofsd or cloud-hypervisor cannot be started, or a socket does not appear
\* within two seconds: up ends, with the VM failed and cleaned up.
StartFails ==
  /\ pc \in {"share", "hypervisor"}
  /\ Fault
  /\ Cleanup
  /\ status' = "Failed"
  /\ pc' = "returned" /\ result' = "error"
  /\ UNCHANGED <<pfVars, chv, monitor, waitCh, waiter, sig>>

\* waitForHealth asks again and again.  It gives up only with its context, and
\* that one is never cancelled.
Healthy ==
  /\ pc = "health" /\ chv = "healthy"
  /\ status' = "Running"
  /\ pc' = "dial"
  /\ UNCHANGED <<pfVars, result, chv, vfs, tmp, monitor, waitCh, waiter, sig, faults>>

\* Mutant: up returns the error and leaves the VM as it is.
DialAndApply_NoStop ==
  /\ pc = "dial"
  /\ \/ chv = "healthy" /\ pc' = "forward" /\ UNCHANGED <<result, faults>>
     \/ Fault /\ pc' = "returned" /\ result' = "error"
     \/ chv = "exited" /\ pc' = "returned" /\ result' = "error" /\ UNCHANGED faults
  /\ UNCHANGED <<pfVars, status, chv, vfs, tmp, monitor, waitCh, waiter, sig>>

\* Connect to the server in the VM and have it apply; the VM is stopped if either
\* fails.
DialAndApply ==
  /\ pc = "dial"
  /\ \/ chv = "healthy" /\ pc' = "forward" /\ UNCHANGED <<result, faults>>
     \/ Fault /\ pc' = "stop" /\ result' = "error"
     \/ chv = "exited" /\ pc' = "stop" /\ result' = "error" /\ UNCHANGED faults
  /\ UNCHANGED <<pfVars, status, chv, vfs, tmp, monitor, waitCh, waiter, sig>>

----------------------------------------------------------------------------
(***************************************************************************)
(* Forwarding and foreground.                                              *)
(***************************************************************************)
ForwardBegins ==
  /\ pc = "forward" /\ fwd = "off"
  /\ IF Mappings = 0 THEN UNCHANGED fwd /\ pc' = "enter"
     ELSE fwd' = "starting" /\ UNCHANGED pc
  /\ UNCHANGED <<opened, loops, vml, conn, result, status, chv, vfs, tmp, monitor, waitCh,
                 waiter, sig, faults>>

OpenPort == pc = "forward" /\ Listen /\ UNCHANGED vmVars

\* A port is taken: the forwarder is stopped, and up warns and goes on.
PortTaken ==
  /\ pc = "forward" /\ fwd = "starting"
  /\ Fault
  /\ StopForwarder
  /\ UNCHANGED <<pc, result, status, chv, vfs, tmp, monitor, waitCh, waiter, sig>>

ForwardEnds ==
  /\ pc = "forward" /\ fwd \in {"started", "stopped"}
  /\ pc' = "enter"
  /\ UNCHANGED <<pfVars, result, status, chv, vfs, tmp, monitor, waitCh, waiter, sig, faults>>

\* up -d returns at once.  In the foreground a goroutine waits for the VM.
Enter(detach) ==
  /\ pc = "enter"
  /\ IF detach
     THEN pc' = "deferred" /\ result' = "detached" /\ UNCHANGED waiter
     ELSE pc' = "foreground" /\ waiter' = "waiting" /\ UNCHANGED result
  /\ UNCHANGED <<pfVars, status, chv, vfs, tmp, monitor, waitCh, sig, faults>>

\* The select of microvmForeground.
OnSignal ==
  /\ pc = "foreground" /\ sig
  /\ pc' = "stop" /\ result' = "ok"
  /\ UNCHANGED <<pfVars, status, chv, vfs, tmp, monitor, waitCh, waiter, sig, faults>>

OnExit ==
  /\ pc = "foreground" /\ waiter = "done"
  /\ pc' = "deferred" /\ result' = "crashed"
  /\ UNCHANGED <<pfVars, status, chv, vfs, tmp, monitor, waitCh, waiter, sig, faults>>

\* The deferred Stop of the forwarder.
DeferStop ==
  /\ pc = "deferred" /\ fwd = "started"
  /\ StopForwarder
  /\ UNCHANGED vmVars

Return ==
  /\ pc = "deferred" /\ fwd \in {"off", "stopped"}
  /\ pc' = "returned"
  /\ UNCHANGED <<pfVars, result, status, chv, vfs, tmp, monitor, waitCh, waiter, sig, faults>>

----------------------------------------------------------------------------
(***************************************************************************)
(* Stop of the VM.                                                         *)
(***************************************************************************)
StopBegins ==
  /\ pc = "stop" /\ status \in {"Running", "Failed"}
  /\ status' = "Stopping"
  /\ pc' = "stopwait"
  /\ UNCHANGED <<pfVars, result, chv, vfs, tmp, monitor, waitCh, waiter, sig, faults>>

\* Ten seconds have passed since SIGTERM.
Kill ==
  /\ pc = "stopwait"
  /\ chv' = "exited"
  /\ pc' = "killwait"
  /\ IF chv = "exited" THEN UNCHANGED pfVars ELSE VMDies
  /\ UNCHANGED <<result, status, vfs, tmp, monitor, waitCh, waiter, sig, faults>>

StopReceives ==
  /\ pc \in {"stopwait", "killwait"} /\ waitCh = 1
  /\ waitCh' = 0
  /\ Cleanup
  /\ status' = "Stopped"
  /\ pc' = "deferred"
  /\ UNCHANGED <<pfVars, result, chv, monitor, waiter, sig, faults>>

----------------------------------------------------------------------------
(***************************************************************************)
(* The other goroutines, and the world.                                    *)
(***************************************************************************)
MonitorSends ==
  /\ monitor /\ chv = "exited"
  /\ monitor' = FALSE
  /\ waitCh' = waitCh + 1
  /\ UNCHANGED <<pfVars, pc, result, status, chv, vfs, tmp, waiter, sig, faults>>

WaitReceives ==
  /\ waiter = "waiting" /\ waitCh = 1
  /\ waitCh' = 0 /\ waiter' = "done"
  /\ UNCHANGED <<pfVars, pc, result, status, chv, vfs, tmp, monitor, sig, faults>>

BecomesHealthy ==
  /\ chv = "booting" /\ chv' = "healthy"
  /\ UNCHANGED <<pfVars, pc, result, status, vfs, tmp, monitor, waitCh, waiter, sig, faults>>

\* cloud-hypervisor exits: told to, or by a crash.
Exits ==
  /\ chv \in {"booting", "healthy"}
  /\ chv' = "exited"
  /\ pc # "stopwait" => Fault
  /\ pc = "stopwait" => UNCHANGED faults
  /\ VMDies
  /\ UNCHANGED <<pc, result, status, vfs, tmp, monitor, waitCh, waiter, sig>>

Signal ==
  /\ pc = "foreground" /\ ~sig
  /\ sig' = TRUE
  /\ UNCHANGED <<pfVars, pc, result, status, chv, vfs, tmp, monitor, waitCh, waiter, faults>>

\* signal.Notify is called on entering microvmForeground and undone on leaving it.
HandlesSignals ==
  \/ pc = "foreground"
  \/ pc \in {"stop", "stopwait", "killwait"} /\ waiter # "off"

\* Anywhere else the signal kills up.  The hypervisor and the virtiofsd processes
\* are not its own goroutines: they and the directory stay as they are.
KilledBySignal ==
  /\ pc # "returned" /\ ~HandlesSignals
  /\ pc' = "returned" /\ result' = "killed"
  /\ HostDies
  /\ UNCHANGED <<status, chv, vfs, tmp, monitor, waitCh, waiter, sig, faults>>

\* The server in the VM is stopped while up lives.
ServerStops == chv = "healthy" /\ VStop /\ UNCHANGED vmVars

UpSteps ==
  \/ Evaluate \/ StartBegins \/ StartVirtiofsd \/ StartHypervisor \/ Healthy
  \/ DialAndApply \/ ForwardBegins \/ OpenPort \/ ForwardEnds
  \/ \E detach \in BOOLEAN : Enter(detach)
  \/ OnSignal \/ OnExit \/ DeferStop \/ Return
  \/ StopBegins \/ Kill \/ StopReceives

Goroutines == MonitorSends \/ WaitReceives

\* After the return of up its own goroutines are gone.
Forwarding ==
  /\ UNCHANGED vmVars
  /\ \/ pc # "returned" /\ HostSteps
     \/ chv = "healthy" /\ VMSteps
     \/ Peers

World ==
  \/ StartFails \/ PortTaken \/ BecomesHealthy \/ Exits
  \/ Signal \/ KilledBySignal \/ ServerStops

Next ==
  \/ pc # "returned" /\ (UpSteps \/ Goroutines)
  \/ World
  \/ Forwarding

Spec == Init /\ [][Next]_vars

\* Running programs take their steps: up, its goroutines, the forwarder and the
\* listener.  Nothing is owed by users, clients, targets and the VM's boot.
FairSpec ==
  /\ Spec
  /\ WF_vars(pc # "returned" /\ UpSteps)
  /\ WF_vars(pc # "returned" /\ Goroutines)
  /\ WF_vars(pc # "returned" /\ HostSteps /\ UNCHANGED vmVars)
  /\ WF_vars(chv = "healthy" /\ VMSteps /\ UNCHANGED vmVars)

----------------------------------------------------------------------------
VMTypeOK ==
  /\ status \in {"Stopped", "Starting", "Running", "Stopping", "Failed"}
  /\ vfs \in 0..Shares /\ waitCh \in 0..1 /\ tmp \in BOOLEAN
  /\ opened \in 0..Mappings /\ loops \subseteq 1..Mappings

NothingRuns == chv \in {"none", "exited"} /\ vfs = 0

\* An up that reports an error of its own, or that a signal ended in the foreground,
\* leaves no hypervisor, no virtiofsd and no directory behind (the Stops of
\* microvm.go and the cleanup of hypervisor.go).  Three other ends may leave all of
\* them: a crash of the VM in the foreground, -d, and a signal outside the
\* foreground, for which no handler is installed (microvm.go:172-173): while the VM
\* boots or its ports are opened it takes up away and the VM stays.  However up
\* ends, no process is left without the directory that tells of it.
NoOrphans ==
  /\ pc = "returned" /\ result \in {"error", "ok"} => NothingRuns /\ ~tmp
  /\ pc = "returned" /\ ~tmp => NothingRuns

\* Once Forwarder.Stop has returned nothing of the forwarder runs and no client is
\* connected.  When VMListener.Stop has returned one connection may still be
\* served, the one its accept loop had in hand - and no more than that.
Drained ==
  /\ fwd = "stopped" => loops = {} /\ \A c \in Conns : conn[c].host \in {"none", "closed"}
  /\ vml = "stopped" =>
       Cardinality({c \in Conns : VMActive(c) \/ conn[c].vm = "accepted"}) <= 1

\* Stop of the forwarder returns, given that clients close their side and targets
\* answer the EOF they see, unless a second signal kills up meanwhile.  Stop of a
\* VM returns as long as no goroutine is in vm.Wait, whether or not the hypervisor
\* minds SIGTERM.
StopsReturn ==
  /\ (/\ \A c \in Conns : WF_vars(ClientCloses(c) /\ UNCHANGED vmVars)
      /\ \A c \in Conns : WF_vars(TargetCloses(c) /\ ~conn[c].up2 /\ UNCHANGED vmVars))
     => (fwd = "stopping" ~> fwd = "stopped" \/ result = "killed")
  /\ (pc = "stop" /\ waiter = "off") ~> pc = "returned"

\* A signal in the foreground ends up, with the VM stopped: "blocks until
\* SIGINT/SIGTERM or VM crash, then gracefully shuts down the VM".
SignalStopsVM == (pc = "foreground" /\ sig) ~> pc = "returned"
=============================================================================
