----------------------------- MODULE Composition -----------------------------
(***************************************************************************)
(* What `up` does to an evaluated document before it starts anything       *)
(* (pkg/composition, pkg/envfrom, pkg/watch/diff.go and the helpers of     *)
(* pkg/cli/up.go): profiles are filtered, init containers become services, *)
(* envFrom is merged into the environment, and the start order, the        *)
(* condition to wait for and the difference of two documents are computed. *)
(*                                                                         *)
(* A composition is a function from service names to records               *)
(*   def       everything no operator here looks into (image, command...)  *)
(*   deps      depends_on: a function from names to conditions             *)
(*   profiles, xprofiles   top-level profiles and x-nix-compose.profiles   *)
(*   inits     the init containers, a sequence of [name, def]              *)
(*   probe     whether a health check is configured                        *)
(*   env       environment, a function; envFrom, a sequence of sources     *)
(***************************************************************************)
EXTENDS Naturals, Sequences, FiniteSets, Functions, SequencesExt

CONSTANTS NameSeq,    \* every service name, in the order of sort.Strings
          InitName    \* <service>-init-<name>, a function of the two

ASSUME NamesAreListedOnce ==
  /\ NameSeq \in Seq(Range(NameSeq))
  /\ \A i, j \in DOMAIN NameSeq : NameSeq[i] = NameSeq[j] => i = j

Pos(n) == CHOOSE i \in DOMAIN NameSeq : NameSeq[i] = n

DepsOf(comp, s) == DOMAIN comp[s].deps

----------------------------------------------------------------------------
(***************************************************************************)
(* Profiles.                                                               *)
(***************************************************************************)
\* --profile flags, then COMPOSE_PROFILES; blanks and duplicates are dropped.
MergeProfiles(flags, fromEnv) ==
  LET Add(acc, p) == IF p \in Range(acc) THEN acc ELSE Append(acc, p)
  IN  FoldLeft(Add, FoldLeft(Add, <<>>, flags), SelectSeq(fromEnv, LAMBDA p : p # ""))

ServiceProfiles(svc) == IF svc.profiles # {} THEN svc.profiles ELSE svc.xprofiles

ServiceMatchesProfile(svc, active) ==
  \/ ServiceProfiles(svc) = {}
  \/ ServiceProfiles(svc) \cap active # {}

\* A queue of services whose dependencies are still to be looked at.
IncludeDepsTransitive(comp, matched) ==
  LET Grow[n \in 0..Cardinality(DOMAIN comp)] ==
        IF n = 0 THEN matched
        ELSE LET last == Grow[n-1]
             IN  last \cup {d \in DOMAIN comp : \E s \in last : d \in DepsOf(comp, s)}
  IN  Grow[Cardinality(DOMAIN comp)]

PruneDanglingDeps(comp) ==
  [s \in DOMAIN comp |->
     [comp[s] EXCEPT !.deps = Restrict(@, DOMAIN @ \cap DOMAIN comp)]]

FilterByProfiles(comp, active) ==
  LET direct == {s \in DOMAIN comp : ServiceMatchesProfile(comp[s], active)}
  IN  PruneDanglingDeps(Restrict(comp, IncludeDepsTransitive(comp, direct)))

----------------------------------------------------------------------------
(***************************************************************************)
(* Init containers.                                                        *)
(***************************************************************************)
InitNameOf(comp, s, i) == InitName[<<s, comp[s].inits[i].name>>]

\* The first init container inherits the dependencies, the others form a chain.
InitDeps(comp, s, i) ==
  IF i = 1 THEN comp[s].deps
  ELSE InitNameOf(comp, s, i-1) :> "completed"

SynthesizeForService(comp, s, i) ==
  [def |-> comp[s].inits[i].def, deps |-> InitDeps(comp, s, i), profiles |-> {},
   xprofiles |-> {}, inits |-> <<>>, probe |-> FALSE, env |-> <<>>, envFrom |-> <<>>]

\* Services are processed by name: where two yield the same name the later one
\* stays, and a service of the document always comes after its namesake.
SynthesizeInitContainers(comp) ==
  LET all == UNION {{<<s, i>> : i \in DOMAIN comp[s].inits} : s \in DOMAIN comp}
      NameOf(p) == InitNameOf(comp, p[1], p[2])
      After(p, q) == Pos(p[1]) > Pos(q[1]) \/ (p[1] = q[1] /\ p[2] >= q[2])
      Owner(n) == CHOOSE p \in all :
                    NameOf(p) = n /\ \A q \in all : NameOf(q) = n => After(p, q)
      Main(s) == IF comp[s].inits = <<>> THEN comp[s]
                 ELSE [comp[s] EXCEPT !.deps =
                         (InitNameOf(comp, s, Len(comp[s].inits)) :> "completed") @@ @]
  IN  [n \in DOMAIN comp \cup {NameOf(p) : p \in all} |->
         IF n \in DOMAIN comp THEN Main(n)
         ELSE SynthesizeForService(comp, Owner(n)[1], Owner(n)[2])]

----------------------------------------------------------------------------
(***************************************************************************)
(* envFrom.  Files maps a file to the lines it has: [key, val], key "" for *)
(* a blank line, a comment or a line without a key; a file that cannot be  *)
(* read, or decrypted, is not in its domain.                               *)
(***************************************************************************)
ParseEnvFile(lines) ==
  LET Put(env, l) == IF l.key = "" THEN env ELSE (l.key :> l.val) @@ env
  IN  FoldLeft(Put, <<>>, lines)

ApplyPrefix(env, prefix, Prefixed) ==
  IF prefix = "" THEN env
  ELSE [k \in {Prefixed[<<prefix, v>>] : v \in DOMAIN env} |->
          env[CHOOSE v \in DOMAIN env : Prefixed[<<prefix, v>>] = k]]

\* A source without a file is skipped; a later source overrides an earlier one.
ResolveSources(sources, Files, Prefixed) ==
  LET Add(acc, src) ==
        IF src.file = "" THEN acc
        ELSE ApplyPrefix(ParseEnvFile(Files[src.file]), src.prefix, Prefixed) @@ acc
  IN  FoldLeft(Add, <<>>, sources)

Readable(svc, Files) ==
  \A i \in DOMAIN svc.envFrom : svc.envFrom[i].file \in DOMAIN Files \cup {""}

\* What the service sets itself wins.
ResolveEnvFrom(svc, Files, Prefixed) ==
  [svc EXCEPT !.env = @ @@ ResolveSources(svc.envFrom, Files, Prefixed)]

----------------------------------------------------------------------------
(***************************************************************************)
(* What up, down and watch ask of a composition.                           *)
(***************************************************************************)
\* The elements of S one after the other by the strict total order R, a set of
\* pairs: each at the place that the number of those before it gives.
Sorted(S, R) ==
  [i \in 1..Cardinality(S) |->
     CHOOSE s \in S : Cardinality({t \in S : <<t, s>> \in R}) = i - 1]

SortedNames(S) == Sorted(S, {p \in S \X S : Pos(p[1]) < Pos(p[2])})

\* The rounds of depgraph.StartOrder: what is left after each of them.  A
\* dependency outside the composition is never satisfied.
StartRounds(comp) ==
  LET Rest[n \in 0..Cardinality(DOMAIN comp)] ==
        IF n = 0 THEN DOMAIN comp
        ELSE LET last == Rest[n-1]
             IN  {s \in last : \E d \in DepsOf(comp, s) : d \in last \/ d \notin DOMAIN comp}
  IN  Rest

HasStartOrder(comp) == StartRounds(comp)[Cardinality(DOMAIN comp)] = {}

\* The level a service is put into: the number of rounds it waits for.
StartLevel(comp) ==
  LET Rest == StartRounds(comp)
  IN  [s \in DOMAIN comp |->
         Cardinality({n \in 1..Cardinality(DOMAIN comp) : s \in Rest[n]})]

\* The levels one after the other, each sorted by name.
StartOrder(comp) ==
  LET names == DOMAIN comp
      level == StartLevel(comp)
  IN  Sorted(names, {p \in names \X names :
                       \/ level[p[1]] < level[p[2]]
                       \/ level[p[1]] = level[p[2]] /\ Pos(p[1]) < Pos(p[2])})

\* The levels reversed, each still sorted by name.
StopOrder(comp) ==
  LET names == DOMAIN comp
      level == StartLevel(comp)
  IN  Sorted(names, {p \in names \X names :
                       \/ level[p[1]] > level[p[2]]
                       \/ level[p[1]] = level[p[2]] /\ Pos(p[1]) < Pos(p[2])})

CondPriority(cond) ==
  CASE cond = "healthy" -> 3 [] cond = "completed" -> 2 [] cond = "started" -> 1 [] OTHER -> 0

\* The strictest condition any service has on the named one.
HighestConditionOf(name, comp) ==
  LET conds == {comp[s].deps[name] : s \in {t \in DOMAIN comp : name \in DepsOf(comp, t)}}
  IN  IF conds = {} THEN "none"
      ELSE CHOOSE c \in conds : \A d \in conds : CondPriority(c) >= CondPriority(d)

\* Services are compared as a whole, by their JSON.
DiffCompositions(old, new) ==
  [added   |-> DOMAIN new \ DOMAIN old,
   removed |-> DOMAIN old \ DOMAIN new,
   changed |-> {s \in DOMAIN old \cap DOMAIN new : old[s] # new[s]}]
=============================================================================
