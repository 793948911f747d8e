------------------------------ MODULE MCEngine ------------------------------
(***************************************************************************)
(* Instances of Engine for TLC.  The compositions are those of one project *)
(* (or two) with services 1 and 2, images 1 to 3, and volume 3.            *)
(***************************************************************************)
EXTENDS Engine

Svc(image, host, ver, probe, deps) ==
  [image |-> image, host |-> host, vols |-> {}, probe |-> probe, ver |-> ver, deps |-> deps]

On(n, cond) == [x \in {n} |-> cond]

Comp(project, services) == [project |-> project, services |-> services, volumes |-> {}]

\* Service 2 waits for service 1, which has a healthcheck, to be healthy.
Pair(host, ver1, ver2) ==
  Comp(1, <<Svc(1, host, ver1, TRUE, NoDeps),
            Svc(1, host, ver2, FALSE, On(1, "service_healthy"))>>)

\* Only service 1 is left.
Single(host, ver1) == Comp(1, <<Svc(1, host, ver1, TRUE, NoDeps)>>)

\* Only service 2 is left, and depends on nothing.
Second == Comp(1, [n \in {2} |-> Svc(1, TRUE, 1, FALSE, NoDeps)])

\* The dependency between the services is turned round, and both change.
Turned ==
  Comp(1, <<Svc(1, TRUE, 2, TRUE, On(2, "service_started")), Svc(1, TRUE, 2, FALSE, NoDeps)>>)

\* Host network: bring up, change both services and turn the dependency round,
\* drop either service.
HostComps == {Pair(TRUE, 1, 1), Turned, Single(TRUE, 1), Second}
HostIds == {1, 100, 101, 102}

\* Bridge network: service 1 runs to completion first, service 2 mounts a
\* volume, and one image is shared under two declared names.
NetComp(ver) ==
  [project  |-> 1,
   services |-> <<Svc(1, FALSE, ver, FALSE, NoDeps),
                  [Svc(11, FALSE, ver, FALSE, On(1, "service_completed_successfully"))
                     EXCEPT !.vols = {3}]>>,
   volumes  |-> {3}]
NetComps == {NetComp(1), NetComp(2)}
NetIds == {1, 100, 101, 102, 103}

\* One service on the bridge network.
BridgeComps == {Single(FALSE, 1)}
SingleIds == {1, 100, 101}

\* The dependency is dropped together with the service it names.
DropComps == {Pair(TRUE, 1, 1), Second}

\* A service is added.
GrowComps == {Single(TRUE, 1), Pair(TRUE, 1, 1)}

\* One composition, undone by nothing but `down`.
PairComps == {Pair(TRUE, 1, 1)}

AllManifests == UNION {Range(Manifests(c)) : c \in Comps}

MCRolloutRecords ==
  {[key |-> m.key, body |-> m.body, status |-> s] :
     m \in AllManifests, s \in {"SUCCEEDED", "ERROR"}}

MCRequests ==
  {CreateRequest(m) : m \in AllManifests} \cup {DeleteRequest(m.id, m.key) : m \in AllManifests}

MCDeployments == [requests : Seq(MCRequests), links : Seq(Ids \X Ids)]
=============================================================================
