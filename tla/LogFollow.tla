------------------------------ MODULE LogFollow ------------------------------
(***************************************************************************)
(* `logs --follow` (pkg/logs, pkg/cli/logs.go and the Logs call of the     *)
(* orchestrate server): print what the log files hold, then poll them by   *)
(* size, with a byte offset for each service.  The runtime writes to the   *)
(* files all the while; nothing is locked.                                 *)
(*                                                                         *)
(* A line is two cells: its head has the time stamp, the stream, the tag   *)
(* and the beginning of the message, its tail the rest and the newline.    *)
(* A file is a sequence of cells and an offset counts cells, so an offset  *)
(* can fall into the middle of a line.  A cell has the number n of its     *)
(* line, which is also its time stamp, and whether the tag is P (partial). *)
(***************************************************************************)
EXTENDS Integers, Sequences, FiniteSets, SequencesExt

CONSTANTS Services,       \* the services followed, a sequence
          MaxLines,       \* bound on lines written
          MaxTruncated,   \* bound on truncations of a file
          Since,          \* --since, as a time stamp; 0 if not given
          TailN           \* --tail; 0 stands for "all"

ASSUME LogAssumption == MaxLines \in Nat /\ Since \in Nat /\ TailN \in Nat

\* resolveLogServices: the names of all services, or the arguments as they are; an
\* argument that is given twice is outside the model.
ASSUME ServicesAreListedOnce ==
  /\ Services \in Seq(Range(Services)) /\ Services # <<>>
  /\ \A i, j \in DOMAIN Services : Services[i] = Services[j] => i = j

VARIABLES
  files,     \* the log file of each service
  clock,     \* the lines written so far
  pc, at,    \* the follower, and the service it is at
  acc,       \* what Dump has read
  offsets,   \* the offset of each service
  size,      \* the size taken of the file that is being polled
  out,       \* the entries printed
  cuts,      \* ghost: the offsets each service has had
  cut        \* ghost: services whose file was truncated

vars == <<files, clock, pc, at, acc, offsets, size, out, cuts, cut>>

Svcs == Range(Services)
S == Services[at]

Init ==
  /\ files = [s \in Svcs |-> <<>>]
  /\ clock = 0
  /\ pc = "dump" /\ at = 1
  /\ acc = <<>> /\ out = <<>>
  /\ offsets = [s \in Svcs |-> 0] /\ size = 0
  /\ cuts = [s \in Svcs |-> {}] /\ cut = {}

----------------------------------------------------------------------------
(***************************************************************************)
(* Lists: which places of q, and in which order.                           *)
(***************************************************************************)
\* The places in T by the strict total order R, a set of pairs: each where the
\* number of those before it puts it.
Sorted(T, R) ==
  [k \in 1..Cardinality(T) |->
     CHOOSE i \in T : Cardinality({j \in T : <<j, i>> \in R}) = k - 1]

ByPlace(q) == {p \in (DOMAIN q) \X (DOMAIN q) : p[1] < p[2]}

\* sort.SliceStable: of two entries with one time stamp the first stays first.
ByTime(q) ==
  {p \in (DOMAIN q) \X (DOMAIN q) :
     q[p[1]].ts < q[p[2]].ts \/ (q[p[1]].ts = q[p[2]].ts /\ p[1] < p[2])}

Picked(q, places) == [k \in DOMAIN places |-> q[places[k]]]

----------------------------------------------------------------------------
(***************************************************************************)
(* Parsing.                                                                *)
(***************************************************************************)
\* A line: its head, and its tail if that is there already.
LineAt(cells, i) == SubSeq(cells, i, IF i < Len(cells) THEN i + 1 ELSE i)

\* A line without its head does not parse and is skipped; the last line need not
\* be finished.  That the scanner gives up at a line above 64 KiB is left out: the
\* runtime splits its lines at 16 KiB by default.
ReadEntries(s, cells) ==
  LET heads == Sorted({i \in DOMAIN cells : cells[i].half = 1}, ByPlace(cells))
  IN  [k \in DOMAIN heads |->
         [svc |-> s, ts |-> cells[heads[k]].n, partial |-> cells[heads[k]].partial,
          msg |-> LineAt(cells, heads[k])]]

\* The last entry is held back while it is partial; what follows is added to it,
\* whosever it is, until a full one completes it.
JoinNext(joined, e) ==
  IF joined # <<>> /\ Last(joined).partial
  THEN [joined EXCEPT ![Len(joined)].msg = @ \o e.msg, ![Len(joined)].partial = e.partial]
  ELSE Append(joined, e)

JoinPartials(entries) == FoldLeft(LAMBDA joined, e : JoinNext(joined, e), <<>>, entries)

SortByTime(entries) == Picked(entries, Sorted(DOMAIN entries, ByTime(entries)))

FilterSince(entries) ==
  Picked(entries, Sorted({i \in DOMAIN entries : entries[i].ts >= Since}, ByPlace(entries)))

TailEntries(entries) ==
  IF TailN = 0 \/ TailN >= Len(entries) THEN entries
  ELSE SubSeq(entries, Len(entries) - TailN + 1, Len(entries))

ApplyFilters(entries) == TailEntries(FilterSince(entries))

----------------------------------------------------------------------------
(***************************************************************************)
(* The runtime writes a line at once or in two goes (full lines only, to   *)
(* keep the instance small); somebody may truncate a file (of interest     *)
(* only once its offset is taken).                                         *)
(***************************************************************************)
Cell(n, half, partial) == [n |-> n, half |-> half, partial |-> partial]

Unfinished(s) == files[s] # <<>> /\ Last(files[s]).half = 1

WriteLine(s, partial) ==
  /\ clock < MaxLines /\ ~Unfinished(s)
  /\ clock' = clock + 1
  /\ files' = [files EXCEPT ![s] = @ \o <<Cell(clock', 1, partial), Cell(clock', 2, partial)>>]
  /\ UNCHANGED <<pc, at, acc, offsets, size, out, cuts, cut>>

WriteHead(s) ==
  /\ clock < MaxLines /\ ~Unfinished(s)
  /\ clock' = clock + 1
  /\ files' = [files EXCEPT ![s] = Append(@, Cell(clock', 1, FALSE))]
  /\ UNCHANGED <<pc, at, acc, offsets, size, out, cuts, cut>>

WriteTail(s) ==
  /\ Unfinished(s)
  /\ files' = [files EXCEPT ![s] = Append(@, [Last(@) EXCEPT !.half = 2])]
  /\ UNCHANGED <<clock, pc, at, acc, offsets, size, out, cuts, cut>>

Truncate(s) ==
  /\ Cardinality(cut) < MaxTruncated
  /\ files[s] # <<>> /\ cuts[s] # {}
  /\ files' = [files EXCEPT ![s] = <<>>]
  /\ cut' = cut \cup {s}
  /\ UNCHANGED <<clock, pc, at, acc, offsets, size, out, cuts>>

----------------------------------------------------------------------------
(***************************************************************************)
(* Follow.                                                                 *)
(***************************************************************************)
\* On to the next service, or to the first one of the next stage.
Onward(stage) ==
  IF at < Len(Services) THEN at' = at + 1 /\ pc' = pc ELSE at' = 1 /\ pc' = stage

\* collectEntries reads one file after the other.  A file that does not exist
\* yet, or cannot be read, has no lines.
DumpRead ==
  /\ pc = "dump"
  /\ acc' = acc \o ReadEntries(S, files[S])
  /\ Onward("print")
  /\ UNCHANGED <<files, clock, offsets, size, out, cuts, cut>>

\* ... joins the partial lines of all of them, sorts by time stamp and filters.
DumpPrint ==
  /\ pc = "print"
  /\ \E joined \in {JoinPartials(acc)} : \E sorted \in {SortByTime(joined)} :
       out' = ApplyFilters(sorted)
  /\ acc' = <<>>
  /\ pc' = "stat"
  /\ UNCHANGED <<files, clock, at, offsets, size, cuts, cut>>

SetOffset(s, n) ==
  /\ offsets' = [offsets EXCEPT ![s] = n]
  /\ cuts' = [cuts EXCEPT ![s] = @ \cup {n}]

\* The offsets are taken only now.
StatOffset ==
  /\ pc = "stat"
  /\ SetOffset(S, Len(files[S]))
  /\ Onward("tick")
  /\ UNCHANGED <<files, clock, acc, size, out, cut>>

Tick ==
  /\ pc = "tick"
  /\ pc' = "poll"
  /\ UNCHANGED <<files, clock, at, acc, offsets, size, out, cuts, cut>>

\* Mutant: the first file that has not grown ends the round.
PollStat_EndsRound ==
  /\ pc = "poll"
  /\ IF Len(files[S]) <= offsets[S]
     THEN at' = 1 /\ pc' = "tick" /\ UNCHANGED size
     ELSE size' = Len(files[S]) /\ pc' = "read" /\ UNCHANGED at
  /\ UNCHANGED <<files, clock, acc, offsets, out, cuts, cut>>

\* A file that has not grown is left alone, even if it is another one by now.
PollStat ==
  /\ pc = "poll"
  /\ IF Len(files[S]) <= offsets[S]
     THEN Onward("tick") /\ UNCHANGED size
     ELSE size' = Len(files[S]) /\ pc' = "read" /\ UNCHANGED at
  /\ UNCHANGED <<files, clock, acc, offsets, out, cuts, cut>>

Read(from) == out' = out \o JoinPartials(ReadEntries(S, SubSeq(files[S], from + 1, Len(files[S]))))

NextPoll ==
  IF at < Len(Services) THEN at' = at + 1 /\ pc' = "poll" ELSE at' = 1 /\ pc' = "tick"

\* Mutant: what was there at the time of the stat is read, the offset is the end.
PollRead_OffsetIsEnd ==
  /\ pc = "read"
  /\ out' = out \o JoinPartials(ReadEntries(S, SubSeq(files[S], offsets[S] + 1, size)))
  /\ SetOffset(S, Len(files[S]))
  /\ size' = 0
  /\ NextPoll
  /\ UNCHANGED <<files, clock, acc, cut>>

\* Mutant: the offset is not moved.
PollRead_Again ==
  /\ pc = "read"
  /\ Read(offsets[S])
  /\ SetOffset(S, offsets[S])
  /\ size' = 0
  /\ NextPoll
  /\ UNCHANGED <<files, clock, acc, cut>>

\* The file is read to its end, and the offset set to the size taken before.
PollRead ==
  /\ pc = "read"
  /\ Read(offsets[S])
  /\ SetOffset(S, size)
  /\ size' = 0
  /\ NextPoll
  /\ UNCHANGED <<files, clock, acc, cut>>

\* The context is cancelled between two rounds.
Cancelled ==
  /\ pc = "tick"
  /\ pc' = "done"
  /\ UNCHANGED <<files, clock, at, acc, offsets, size, out, cuts, cut>>

Follower == DumpRead \/ DumpPrint \/ StatOffset \/ Tick \/ PollStat \/ PollRead

Writer ==
  \E s \in Svcs :
    \/ \E partial \in BOOLEAN : WriteLine(s, partial)
    \/ WriteHead(s) \/ WriteTail(s) \/ Truncate(s)

Next == Follower \/ Writer \/ Cancelled

\* The follower is a running program with a ticker.
Spec == Init /\ [][Next]_vars /\ WF_vars(Follower)

----------------------------------------------------------------------------
LogTypeOK ==
  /\ pc \in {"dump", "print", "stat", "tick", "poll", "read", "done"}
  /\ at \in 1..Len(Services)
  /\ offsets \in [Svcs -> Nat] /\ size \in Nat
  /\ out \in Seq([svc : Svcs, ts : 1..MaxLines, partial : BOOLEAN,
                  msg : Seq([n : 1..MaxLines, half : {1, 2}, partial : BOOLEAN])])

\* The places in out at which cell c was printed in an entry of s.
PrintedAt(s, c) ==
  UNION {{<<i, j>> : j \in {k \in DOMAIN out[i].msg : out[i].msg[k] = c}} :
           i \in {k \in DOMAIN out : out[k].svc = s}}

Shown(s, c) == PrintedAt(s, c) # {}

Smallest(X) == CHOOSE x \in X : \A y \in X : x <= y

\* Once the offsets are taken, all between the first offset of a service and the
\* present one has been printed for that service - each head, and each tail whose
\* line was not cut in two by an offset.  (Not for a file that was truncated.)
NothingSkipped ==
  pc \in {"tick", "poll", "read", "done"} =>
    \A s \in Svcs \ cut : \A p \in (Smallest(cuts[s]) + 1)..offsets[s] :
      LET c == files[s][p]
      IN  \/ Shown(s, c)
          \/ c.half = 2 /\ p - 1 \in cuts[s]

\* A line that is written while the file is being polled is printed twice, but
\* never three times, truncated files included.
AtMostTwice ==
  \A s \in Svcs : \A i \in DOMAIN files[s] : Cardinality(PrintedAt(s, files[s][i])) <= 2

\* The head of every line written after the offsets were taken is printed in
\* the end, unless the command is cancelled or the file truncated: again and again
\* the follower has caught up.
EventuallyShown ==
  []<>(\/ pc = "done"
       \/ /\ pc \in {"tick", "poll", "read"}
          /\ \A s \in Svcs \ cut : \A p \in (Smallest(cuts[s]) + 1)..Len(files[s]) :
               files[s][p].half = 1 => Shown(s, files[s][p]))
=============================================================================
