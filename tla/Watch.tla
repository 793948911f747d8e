-------------------------------- MODULE Watch --------------------------------
(***************************************************************************)
(* Watch mode (pkg/watch and runWatcherCRI in pkg/cli/up.go): poll the     *)
(* modification times, re-evaluate the document on a change, and remove or *)
(* restart the services in which it differs from the one in force.  The    *)
(* document in force at the start is up's, transformed; every later one is *)
(* taken as it was evaluated.  Restarting evaluates the document once more *)
(* for every service, so an edit can slip in between.                      *)
(***************************************************************************)
EXTENDS Runtime

VARIABLES
  w,        \* pc, the mtime taken over, the document in force, the one evaluated,
            \* what is left to remove and to restart
  trail,    \* ghost: the services the present round has handled already
  torn,     \* ghost: services an error or an edit has caught in between
  managed   \* ghost: every service that was ever in force

watchVars == <<w, trail, torn, managed>>

WatchOff == [pc |-> "off", seen |-> 0, current |-> <<>>, new |-> <<>>,
             remove |-> <<>>, restart |-> <<>>, fresh |-> FALSE]

WatchInit == w = WatchOff /\ trail = {} /\ torn = {} /\ managed = {}

WatchActive == w.pc # "off"

\* Run begins with the composition up has brought up.
WatchBegins(initial) ==
  /\ w.pc = "off"
  /\ w' = [WatchOff EXCEPT !.pc = "idle", !.seen = mtime, !.current = initial]
  /\ managed' = DOMAIN initial
  /\ torn' = {} /\ trail' = {}
  /\ UNCHANGED rtVars

\* A signal.  Nothing is taken down.
WatchEnds ==
  /\ w.pc = "idle"
  /\ w' = WatchOff
  /\ trail' = {} /\ torn' = {} /\ managed' = {}
  /\ UNCHANGED rtVars

\* The ticker finds a changed file and takes the new times over.
Tick ==
  /\ w.pc = "idle" /\ mtime # w.seen
  /\ w' = [w EXCEPT !.pc = "eval", !.seen = mtime]
  /\ UNCHANGED <<rtVars, trail, torn, managed>>

\* The round ends in an error: what was in force stays in force.
RoundFails(s) ==
  /\ w' = [w EXCEPT !.pc = "idle", !.fresh = FALSE]
  /\ torn' = torn \cup trail \cup s
  /\ trail' = {}

\* Mutant: the modification times are read when the round is over.
Onward_Late(v) ==
  IF v.remove # <<>> THEN [v EXCEPT !.pc = "remove"]
  ELSE IF v.restart # <<>> THEN [v EXCEPT !.pc = "down"]
  ELSE [v EXCEPT !.pc = "idle", !.current = v.new, !.fresh = TRUE, !.seen = mtime]

\* Where a round goes once nothing is left to remove or to restart.
Onward(v) ==
  IF v.remove # <<>> THEN [v EXCEPT !.pc = "remove"]
  ELSE IF v.restart # <<>> THEN [v EXCEPT !.pc = "down"]
  ELSE [v EXCEPT !.pc = "idle", !.current = v.new, !.fresh = TRUE]

\* reEvalAndRestart: evaluate and compare.  With no difference the round is over.
ReEval ==
  /\ w.pc = "eval"
  /\ LET d == DiffCompositions(w.current, doc)
     IN  w' = Onward([w EXCEPT !.new = doc, !.remove = SortedNames(d.removed),
                               !.restart = SortedNames(d.changed) \o SortedNames(d.added)])
  /\ UNCHANGED <<rtVars, trail, torn, managed>>

ReEvalFails ==
  /\ w.pc = "eval"
  /\ Fault
  /\ RoundFails({})
  /\ UNCHANGED <<pods, doc, mtime, exits, managed>>

\* The services that are gone from the document.
RemoveService ==
  /\ w.pc = "remove"
  /\ ServiceDown(Head(w.remove))
  /\ w' = Onward([w EXCEPT !.remove = Tail(@)])
  /\ trail' = IF w'.pc = "idle" THEN {} ELSE trail \cup {Head(w.remove)}
  /\ torn' = torn \ {Head(w.remove)}
  /\ managed' = managed \cup DOMAIN w'.current
  /\ UNCHANGED <<doc, mtime, faults, exits>>

RemoveServiceFails ==
  /\ w.pc = "remove"
  /\ Fault
  /\ ServiceDownFails(Head(w.remove))
  /\ RoundFails({Head(w.remove)})
  /\ UNCHANGED <<doc, mtime, exits, managed>>

\* A service to restart is taken down first ...
RestartDown ==
  /\ w.pc = "down"
  /\ ServiceDown(Head(w.restart))
  /\ w' = [w EXCEPT !.pc = "up"]
  /\ UNCHANGED <<doc, mtime, faults, exits, trail, torn, managed>>

\* ... and brought up from the document as it is by now, if it still has it.
RestartUp ==
  /\ w.pc = "up"
  /\ LET s == Head(w.restart)
     IN  /\ IF s \in DOMAIN doc THEN ServiceUp(s, doc[s]) ELSE UNCHANGED pods
         /\ w' = Onward([w EXCEPT !.restart = Tail(@)])
         /\ torn' = IF s \in DOMAIN doc /\ doc[s] = w.new[s] THEN torn \ {s} ELSE torn \cup {s}
         /\ trail' = IF w'.pc = "idle" THEN {} ELSE trail \cup {s}
         /\ managed' = managed \cup DOMAIN w'.current
  /\ UNCHANGED <<doc, mtime, faults, exits>>

\* Mutant: the error is swallowed and the round goes on as if it had worked.
RestartFails_Swallowed ==
  /\ Fault
  /\ \/ w.pc = "down" /\ ServiceDownFails(Head(w.restart))
     \/ w.pc = "up" /\ Head(w.restart) \in DOMAIN doc
        /\ ServiceUpFails(Head(w.restart), doc[Head(w.restart)])
  /\ w' = [w EXCEPT !.pc = "idle", !.current = w.new, !.remove = <<>>, !.restart = <<>>]
  /\ torn' = torn \cup trail \cup {Head(w.restart)}
  /\ trail' = {}
  /\ UNCHANGED <<doc, mtime, exits, managed>>

\* Taking it down, the evaluation, or bringing it up fails.
RestartFails ==
  /\ Fault
  /\ \/ w.pc = "down" /\ ServiceDownFails(Head(w.restart))
     \/ w.pc = "up" /\ UNCHANGED pods
     \/ w.pc = "up" /\ Head(w.restart) \in DOMAIN doc
        /\ ServiceUpFails(Head(w.restart), doc[Head(w.restart)])
  /\ RoundFails({Head(w.restart)})
  /\ UNCHANGED <<doc, mtime, exits, managed>>

WatchStep == Tick \/ ReEval \/ RemoveService \/ RestartDown \/ RestartUp

WatchNext ==
  \/ WatchStep \/ WatchEnds
  \/ ReEvalFails \/ RemoveServiceFails \/ RestartFails
=============================================================================
