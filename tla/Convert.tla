------------------------------ MODULE Convert -------------------------------
(***************************************************************************)
(* From a composition to a desired deployment (pkg/orchestrate/convert):   *)
(* Convert turns the composition into typed manifests and dependency edges,*)
(* Bridge turns these into create requests, links and a condition map.     *)
(*                                                                         *)
(* A composition is a record                                               *)
(*    project   the project name                                           *)
(*    services  a function from service names to services                  *)
(*    volumes   the set of its named volumes                               *)
(* and a service a record                                                  *)
(*    image, host (network_mode = "host"), vols (named volumes it mounts), *)
(*    probe (it has a healthcheck), ver (everything else the runtime sees),*)
(*    deps (a function from service names to conditions).                  *)
(*                                                                         *)
(* Names are numbers, so that sort.Strings is the order of the numbers.  An*)
(* id is the string the code builds: the id of a Project and of a Network  *)
(* is the project name, and "<project>/<name>" is the id of a Service and  *)
(* of a Volume alike.                                                      *)
(***************************************************************************)
EXTENDS Integers, Sequences, FiniteSets, Functions

\* sort.Strings on a set of distinct keys (sortedKeys).
Sorted(S) ==
  [i \in 1..Cardinality(S) |->
     CHOOSE x \in S : Cardinality({y \in S : y <= x}) = i]

ProjectId(p) == 100 * p

NamedId(p, n) == 100 * p + n

ProjectOf(id) == id \div 100

\* Two local artifacts with the same base name are imported under one reference.
ResolvedImageRef(img) == img % 10

ServiceNames(comp) == DOMAIN comp.services

NoDeps == [n \in {} |-> ""]

(***************************************************************************)
(* What Convert is given: the names of one project's services and volumes  *)
(* are told apart, and depends_on names services of the composition only   *)
(* (every command prunes what dangles before it converts).                 *)
(***************************************************************************)
WellFormed(comp) ==
  /\ comp.project \in Nat \ {0}
  /\ ServiceNames(comp) \subseteq 1..99 /\ comp.volumes \subseteq 1..99
  /\ \A n \in ServiceNames(comp) :
       /\ comp.services[n].image \in Nat
       /\ DOMAIN comp.services[n].deps \subseteq ServiceNames(comp)

(***************************************************************************)
(* The version hashes the service without depends_on and profiles; a hash  *)
(* is as good as what it hashes.                                           *)
(***************************************************************************)
ComputeVersion(svc) == [svc EXCEPT !.deps = NoDeps]

MapCondition(c) ==
  CASE c = "service_started"                -> "started"
    [] c = "service_healthy"                -> "healthy"
    [] c = "service_completed_successfully" -> "completed"
    [] OTHER                                -> ""

----------------------------------------------------------------------------
(***************************************************************************)
(* Manifests.  The domains of the five kinds of body differ, as the JSON   *)
(* objects do; the other fields of ContainerSpec are part of the version.  *)
(***************************************************************************)
Manifest(kind, id, body) == [key |-> kind, id |-> id, body |-> body]

ProjectManifest(comp) ==
  Manifest("Project", ProjectId(comp.project), [name |-> comp.project])

\* A Network manifest if some service is not on the host network.
ConvertNetwork(comp) ==
  IF \E n \in ServiceNames(comp) : ~comp.services[n].host
  THEN <<Manifest("Network", ProjectId(comp.project), [network |-> comp.project])>>
  ELSE <<>>

\* One Image manifest per declared image, keyed by its resolved reference.
ConvertImages(comp) ==
  LET images == Sorted({comp.services[n].image : n \in ServiceNames(comp)})
  IN  [i \in DOMAIN images |->
         Manifest("Image", ResolvedImageRef(images[i]), [image |-> images[i]])]

ConvertVolumes(comp) ==
  LET names == Sorted(comp.volumes)
  IN  [i \in DOMAIN names |->
         Manifest("Volume", NamedId(comp.project, names[i]),
                  [project |-> comp.project, volume |-> names[i]])]

BuildContainerSpec(comp, n) ==
  [project     |-> comp.project,
   service     |-> n,
   version     |-> ComputeVersion(comp.services[n]),
   compVolumes |-> comp.volumes]

ConvertServices(comp) ==
  LET names == Sorted(ServiceNames(comp))
  IN  [i \in DOMAIN names |->
         Manifest("Service", NamedId(comp.project, names[i]),
                  BuildContainerSpec(comp, names[i]))]

Manifests(comp) ==
  <<ProjectManifest(comp)>> \o ConvertNetwork(comp) \o ConvertImages(comp)
    \o ConvertVolumes(comp) \o ConvertServices(comp)

----------------------------------------------------------------------------
(***************************************************************************)
(* Edges of one service, in the order buildServiceEdges appends them.      *)
(***************************************************************************)
Edge(from, to, cond) == [from |-> from, to |-> to, cond |-> cond]

BuildServiceEdges(comp, n) ==
  LET svc   == comp.services[n]
      from  == NamedId(comp.project, n)
      vols  == Sorted(svc.vols \cap comp.volumes)
      deps  == Sorted(DOMAIN svc.deps)
  IN  <<Edge(from, ProjectId(comp.project), ""),
        Edge(from, ResolvedImageRef(svc.image), "")>>
      \o (IF svc.host THEN <<>> ELSE <<Edge(from, ProjectId(comp.project), "")>>)
      \o [i \in DOMAIN vols |-> Edge(from, NamedId(comp.project, vols[i]), "")]
      \o [i \in DOMAIN deps |-> Edge(from, NamedId(comp.project, deps[i]),
                                     MapCondition(svc.deps[deps[i]]))]

AllEdges(comp) == UNION {Range(BuildServiceEdges(comp, n)) : n \in ServiceNames(comp)}

\* The links AddCreation records for a manifest: the edges under its name.
LinksOf(comp, m) ==
  LET n == m.id % 100
  IN  IF m.key \in {"Service", "Volume"} /\ n \in ServiceNames(comp)
      THEN LET edges == BuildServiceEdges(comp, n)
           IN  [i \in DOMAIN edges |-> <<edges[i].from, edges[i].to>>]
      ELSE <<>>

CreateRequest(m) == [type |-> "create", id |-> m.id, key |-> m.key, body |-> m.body]

\* conditions[to][from] = cond; an edge without a condition leaves no entry.
ConditionMap(comp) ==
  {<<e.to, e.from, e.cond>> : e \in {x \in AllEdges(comp) : x.cond # ""}}

Bridge(comp) ==
  LET ms == Manifests(comp)
      linksUpTo[k \in 0..Len(ms)] ==
        IF k = 0 THEN <<>> ELSE linksUpTo[k - 1] \o LinksOf(comp, ms[k])
  IN  [requests   |-> [i \in DOMAIN ms |-> CreateRequest(ms[i])],
       links      |-> linksUpTo[Len(ms)],
       conditions |-> ConditionMap(comp)]
=============================================================================
