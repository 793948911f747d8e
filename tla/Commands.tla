------------------------------ MODULE Commands -------------------------------
(***************************************************************************)
(* The other commands on a project's containers (pkg/cli/down.go, stop.go, *)
(* start.go, restart.go, kill.go, rm.go, create.go, cri_commands.go), as   *)
(* one process that runs them one after the other.  Each first takes a     *)
(* snapshot - of the containers, or of the document - and then acts on it  *)
(* call by call while up or watch may be at work on the same pods.         *)
(***************************************************************************)
EXTENDS Runtime

CONSTANTS MaxCommands,  \* bound on commands
          Targets       \* the sets of services commands are given

ASSUME TargetsAreNamed == \A svcs \in Targets : svcs \subseteq Names

VARIABLES
  cmd,     \* kind, pc, the containers still to be handled, the services still to go
  cmds,    \* how many were run
  known    \* ghost: the services a down knows of

cmdVars == <<cmd, cmds, known>>

NoCmd == [kind |-> "none", pc |-> "off", todo |-> {}, svcs |-> <<>>]

CmdInit == cmd = NoCmd /\ cmds = 0 /\ known = {}

CmdActive == cmd.pc \in {"run", "start", "down"}

CmdGoes(pc) == cmd' = [cmd EXCEPT !.pc = pc]

Free == ~CmdActive /\ cmds < MaxCommands /\ cmds' = cmds + 1

\* resolveContainers: what the runtime lists now, for the services asked for.
Snapshot(svcs) ==
  UNION {{[n |-> n, k |-> k, st |-> pods[n][k].st] : k \in Containers(n)} : n \in svcs}

\* Which containers a command acts on, by the state in its snapshot.
Selected(kind, c) ==
  CASE kind \in {"stop", "restart"} -> c.st = "running"
    [] kind = "start" -> c.st \in Exited
    [] kind = "rm"    -> c.st # "running"
    [] OTHER          -> TRUE

\* stop (and kill: a stop without a grace period), start, restart, rm and rm -s.
CommandBegins(kind, svcs) ==
  /\ Free
  /\ cmd' = [kind |-> kind, pc |-> "run", svcs |-> <<>>,
             todo |-> {c \in Snapshot(svcs) : Selected(kind, c)}]
  /\ UNCHANGED <<rtVars, known>>

Handled(c) == cmd' = [cmd EXCEPT !.todo = @ \ {c}, !.pc = "run"]

\* StopContainer, for stop and the first half of restart.
StopOne(c, st) ==
  /\ cmd.pc = "run" /\ cmd.kind \in {"stop", "restart"}
  /\ c \in cmd.todo
  /\ pods' = IF pods[c.n][c.k].st = "running" THEN SetState(c.n, c.k, st) ELSE pods
  /\ IF cmd.kind = "restart"
     THEN cmd' = [cmd EXCEPT !.pc = "start", !.svcs = <<c>>]
     ELSE Handled(c)
  /\ UNCHANGED <<doc, mtime, faults, exits, cmds, known>>

\* StartContainer, for start and the second half of restart: an error for a
\* container that is gone, and in some runtimes for one that has run before.
StartOne(c) ==
  /\ \/ cmd.pc = "run" /\ cmd.kind = "start" /\ c \in cmd.todo
     \/ cmd.pc = "start" /\ cmd.svcs = <<c>>
  /\ \/ /\ pods[c.n][c.k].st \in Exited
        /\ pods' = SetState(c.n, c.k, "running")
        /\ cmd' = [cmd EXCEPT !.todo = @ \ {c}, !.pc = "run", !.svcs = <<>>]
     \/ UNCHANGED pods /\ CmdGoes("failed")
  /\ UNCHANGED <<doc, mtime, faults, exits, cmds, known>>

\* removeContainerCRI: the container listed, then its pod.
RemoveOne(c) ==
  /\ cmd.pc = "run" /\ cmd.kind \in {"rm", "rmstop"}
  /\ c \in cmd.todo
  /\ pods' = [pods EXCEPT ![c.n] = TearDown(c.n, {c.k})]
  /\ Handled(c)
  /\ UNCHANGED <<doc, mtime, faults, exits, cmds, known>>

CommandEnds ==
  /\ cmd.pc = "run" /\ cmd.todo = {}
  /\ CmdGoes("ok")
  /\ UNCHANGED <<rtVars, cmds, known>>

----------------------------------------------------------------------------
\* down: the services of the document, evaluated now, in stop order - or, if it
\* cannot be evaluated or ordered, every pod of the project in any order.
DownBegins(evaluated) ==
  /\ Free
  /\ LET ordered == evaluated /\ HasStartOrder(doc)
     IN  /\ cmd' = [kind |-> "down", pc |-> "down", todo |-> {},
                    svcs |-> IF ordered THEN StopOrder(doc) ELSE SortedNames(Names)]
         /\ known' = IF ordered THEN DOMAIN doc ELSE Names
  /\ UNCHANGED rtVars

DownOne ==
  /\ cmd.pc = "down" /\ cmd.svcs # <<>>
  /\ ServiceDown(Head(cmd.svcs))
  /\ cmd' = [cmd EXCEPT !.svcs = Tail(@)]
  /\ UNCHANGED <<doc, mtime, faults, exits, cmds, known>>

\* Mutant: an error on one service is only a warning.
DownFails_GoesOn ==
  /\ cmd.pc = "down" /\ cmd.svcs # <<>>
  /\ Fault
  /\ ServiceDownFails(Head(cmd.svcs))
  /\ cmd' = [cmd EXCEPT !.svcs = Tail(@)]
  /\ UNCHANGED <<doc, mtime, exits, cmds, known>>

\* The first error ends down; network config, volumes and GC root stay.
DownFails ==
  /\ cmd.pc = "down" /\ cmd.svcs # <<>>
  /\ Fault
  /\ ServiceDownFails(Head(cmd.svcs))
  /\ CmdGoes("failed")
  /\ UNCHANGED <<doc, mtime, exits, cmds, known>>

DownEnds ==
  /\ cmd.pc = "down" /\ cmd.svcs = <<>>
  /\ CmdGoes("ok")
  /\ UNCHANGED <<rtVars, cmds, known>>

----------------------------------------------------------------------------
\* create: a pod and a container for every service of the raw document, beside
\* the pods there are.
CreateBegins(svcs) ==
  /\ Free
  /\ cmd' = [kind |-> "create", pc |-> "run", svcs |-> <<>>,
             todo |-> {[n |-> n, def |-> doc[n]] : n \in svcs \cap DOMAIN doc}]
  /\ UNCHANGED <<rtVars, known>>

CreateOne(c) ==
  /\ cmd.pc = "run" /\ cmd.kind = "create"
  /\ c \in cmd.todo
  /\ pods' = [pods EXCEPT ![c.n] = Append(@, [st |-> "created", def |-> c.def])]
  /\ Handled(c)
  /\ UNCHANGED <<doc, mtime, faults, exits, cmds, known>>

\* A call of one of these commands fails: it returns at once.
CommandFails ==
  /\ cmd.pc \in {"run", "start"} /\ cmd.todo # {}
  /\ Fault
  /\ \/ UNCHANGED pods
     \/ /\ cmd.kind = "create"
        /\ \E c \in cmd.todo :
             pods' = [pods EXCEPT ![c.n] = Append(@, [st |-> "sandbox", def |-> c.def])]
     \/ /\ cmd.kind \in {"rm", "rmstop"}
        /\ \E c \in cmd.todo : c.k \in Live(c.n) /\ pods' = SetState(c.n, c.k, "sandbox")
  /\ CmdGoes("failed")
  /\ UNCHANGED <<doc, mtime, exits, cmds, known>>

CmdNext ==
  \/ \E svcs \in Targets :
       \/ CreateBegins(svcs)
       \/ \E kind \in {"stop", "start", "restart", "rm", "rmstop"} :
            CommandBegins(kind, svcs)
  \/ \E evaluated \in BOOLEAN : DownBegins(evaluated)
  \/ CmdActive /\ \E c \in cmd.todo :
       \/ \E st \in Exited : StopOne(c, st)
       \/ StartOne(c) \/ RemoveOne(c) \/ CreateOne(c)
  \/ CommandEnds \/ CommandFails
  \/ DownOne \/ DownFails \/ DownEnds
=============================================================================
