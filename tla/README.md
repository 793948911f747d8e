# nix-compose: a TLA+ model

nix-compose evaluates a Nix (or YAML) composition and runs it on a container
runtime that speaks CRI, in a microVM, or as Kubernetes manifests. This
directory models the parts that decide *what runs, in which order, what is
remembered about it and what is left when something goes wrong*: the dependency
graph, the state store and the plan/apply engine with its worker pool; the
direct path with its foreground supervisor, watch mode and the container
commands; log following; the microVM and its port forwarding; image import; and
the Kubernetes output. TLC checks the modules on small instances, TLAPS proves
the theorems listed below for every value of the constants. Paths are relative
to the repository; `O/` stands for `pkg/orchestrate/`.

## 1. Inventory

| Component | State | Operations | Talks to |
|---|---|---|---|
| Dependency graph (`pkg/depgraph`) | local maps of one call | `Validate`, `StartOrder`, `StopOrder` | called by `up`, `down`, shutdown, watch |
| State store (`O/state`) | BoltDB buckets `rollouts-by-id`, `deployments-by-id`, `links-by-source-id`, `links-by-target-id` | `Save`, `AddLink`, `RemoveLink`, `GetDependencies`, `GetDepending` | engine, requests, graph queries |
| Manifest conversion (`O/convert`) | none | `Convert`, `Bridge` | composition in, deployment out |
| Planning and ordering (`O/plan.go`, `O/apply.go`, `O/deploy/deployment.go`) | none | `ComputePlan`, `CheckReferences`, `topoSortRequests` | store (reads) |
| Engine (`O/engine.go`, `O/apply.go`, `O/conditions.go`, `O/deploy/request.go`) | position of one `ApplySync`, its list of applied requests | `Plan`, `ApplySync`, `Rollback`, `DriftCheck`, `State` | store, registry, runtime |
| Resource definitions (`O/resources`) | in the runtime | `Apply`, `Delete`, provider status | `pkg/cri`, `pkg/cni`, `pkg/volumes` |
| Worker pool (`O/deploy/pool.go`, `worker.go`) | three channels, cancelled map | `Add`, `Cancel`, `Schedule`, `Track`, `Run`, `Stop` | `Engine.Apply`, `Engine.Close` |
| gRPC server (`O/server`) | an engine per call | `Apply`, `Rollback`, `Teardown`, `Drift`, reads | engine, `pkg/cri` |
| Supervisor (`pkg/cri/supervisor.go`, `restart.go`) | per service: watcher, backoff; one stopped flag | `Register`, `Run`, `Stop` | `ServiceUp`, `criForeground` |
| Pod lifecycle (`pkg/cri/lifecycle.go`, `containers.go`) | in the runtime | `ServiceUp`, `ServiceDown`, `ProjectDown` | CRI |
| Direct `up`/`down` and container commands (`pkg/cli`) | none of their own | `up`, `down`, `stop`, `kill`, `rm`, `start`, `restart`, `create` | depgraph, cri, health |
| Health monitor (`pkg/health`) | per service: check, failures, status | `Register`, `Start`, `WaitHealthy`, `Stop` | direct `up` |
| Watch mode (`pkg/watch`) | mtimes, running composition | poll, re-evaluate, diff, apply | eval, cri |
| Composition transforms (`pkg/composition`) | none | profile filter, init containers, validation | eval, cli |
| Logs (`pkg/logs`) | a byte offset per followed file | `Follow`, merge | log files |
| MicroVM and port forwarding (`pkg/microvm`) | VM process, listeners, connections | start, stop, forward | hypervisor |
| Image import (`pkg/cri/import.go`, `validate.go`, `pkg/eval/realise.go`) | containerd's records and snapshots, the CRI plugin's view of them | `EnsureImage`, `pull`, image delete | containerd, CRI |
| CRI configuration (`pkg/cri/convert.go`) | none | ports and mounts of a service | `ServiceUp` |
| Kubernetes output (`pkg/k8s`, `render`) | an output directory | plan volumes, convert, write | files |
| envFrom (`pkg/envfrom`) | none | read, decrypt and merge variables | `up`, `render` |
| Evaluation (`pkg/eval`), compose import, doctor, volumes, CNI, GC roots | files | conversions and host I/O | – |

How they interact. `up` goes one of two ways. The *plan/apply path*
(`orchestrateUp`, or the `Apply` RPC) converts the composition to manifests,
diffs them against the rollout records, and runs `ApplySync`: persist the
links, delete in reverse topological order, create in forward order, wait after
each create for the strictest condition a dependent has on it, save a rollout
record per create and a deployment record at the end; a failed create rolls
back what this apply created. The *direct path* validates the graph, starts the
services level by level, and in the foreground hands them to the supervisor
until a signal arrives, or, detached with `--watch`, to the watcher, which polls
the files and restarts what an edit changed. `down` and `Teardown` go to the
runtime alone and never touch the store. The other commands take a snapshot of
the containers and act on it call by call; no lock lies between any two of these
processes. `up --microvm` boots a VM, has the server in it apply the
composition, and forwards the published ports. Before anything runs, images are
made available through containerd's own API, of which the CRI plugin learns by
events.

What is hard here, and what has to be true:

* **Depgraph.** Two graph algorithms over Go maps in random order, the first
  one going on after it found an error. Correct: a cycle is reported exactly
  when there is one; levels put dependencies first; no service is left out.
* **State store.** A link lives in two buckets, changed in one transaction.
  Correct: the two are always mirror images, i.e. one set of links.
* **Engine.** Each runtime call and each transaction can be the last one (a
  kill), can fail, or can be overtaken by a container that exits or by a `down`
  that takes no lock. Records, links and pods drift apart at exactly these
  points. Correct: order and gating of creates, order of deletes, nothing
  referenced is destroyed, success means done, failure means undone, drift is
  bounded and reported.
* **Pool.** Goroutines in a ring of bounded channels, with a Stop that closes
  what others send to. Correct: no request lost or doubled, no deadlock under
  the load the capacities allow, Stop ends.
* **Supervisor.** Watchers restart while the main goroutine takes down, and
  other processes stop, remove, create and bring up the same services without a
  lock. Correct: the watchers alone never make a second pod, restarts as the
  policy says, exact backoff, a shutdown that ends and leaves as little as the
  design allows.
* **Direct path.** `criUp` waits for the strictest condition of any dependent
  and rolls nothing back. Correct: no service before its conditions were seen; a
  failed `up` is a clean prefix; `up` returns.
* **Watch.** Times are taken over before the round, and a restart evaluates
  again. Correct: between rounds the runtime mirrors the composition in force,
  and an edit in the middle of a round is not lost.
* **Commands.** They act on a snapshot while others move. Correct: a `down` that
  reports success left nothing it knew of.
* **Logs.** A byte offset per file, taken apart from the reading. Correct:
  nothing between two offsets is skipped, repetition is bounded, all is shown.
* **MicroVM and forwarding.** Processes, goroutines and a channel with one value
  and two receivers; signals are handled in the foreground only. Correct: an `up`
  that ends by itself leaves no process, Stop drains and returns.
* **Images.** Several processes write one record in several calls. Correct: a
  content-addressed reference stands for its artifact; another path is fresh.
* **Kubernetes output.** Names collide after sanitizing; renders follow one
  another into one directory. Correct: every container gets the volumes and ports
  of the document, except where the files of two services share a name; a refusal
  names the flags that lift it, the kustomization lists what is there.

## 2. Modules

| Module | Models | Notes |
|---|---|---|
| `Depgraph` | `pkg/depgraph` | every colour change and every level is a step; recursion is a stack of frames |
| `LinkStore` | – | abstract: one set of links, read from either end |
| `StateDB` | `O/state` | four buckets; implements `LinkStore` |
| `Convert` | `O/convert`, ids of `O/resources` | operators |
| `Plan` | `O/plan.go`, `O/deploy/deployment.go`, the sorts of `O/apply.go` | operators |
| `Engine` | `O/apply.go`, `engine.go`, `conditions.go`, `deploy/request.go`, `resources`, `server`, the runtime as they use it | extends `StateDB` and `Plan` |
| `Pool` | `O/deploy/pool.go`, `worker.go` | Go channels as bounded sequences |
| `Supervisor` | `pkg/cri/supervisor.go`, `restart.go`, `lifecycle.go`; `criForeground`, `shutdownServices` | |
| `Composition` | `pkg/composition`, `pkg/envfrom`, `pkg/watch/diff.go`, helpers of `cli/up.go` | operators on documents; the start order as a function |
| `Runtime` | pods as `pkg/cri` uses them, the document on disk | extends `Composition` |
| `DirectUp`, `Commands`, `Watch` | `cli/up.go` and `pkg/health`; `cli/{down,stop,start,restart,rm,kill,create}.go`; `pkg/watch` | each extends `Runtime` |
| `Project` | the three on one set of pods | composition of processes |
| `LogFollow` | `pkg/logs`, `cli/logs.go`, the `Logs` RPC | |
| `PortForward` | `pkg/microvm/portfwd` | |
| `MicroVM` | `pkg/microvm`, `cli/microvm.go` | extends `PortForward` |
| `ServiceConfig` | ports and volumes in `pkg/cri/convert.go`, `portfwd/extract.go`, `pkg/k8s` | three readers of the same strings |
| `Render` | `cli/render.go`, `pkg/k8s` | extends `Composition`, `ServiceConfig` |
| `Images` | `pkg/cri/import.go`, `validate.go`, `pkg/eval/realise.go`, `cli/pull.go` | |
| `DepgraphProofs`, `EngineProofs`, `PoolAndLogProofs`, `SupervisorProofs`, `ProjectProofs`, `MicroVMProofs`, `RenderProofs`, `ImagesProofs` | theorems | each extends the module it is named after; `EngineProofs` has those of `Convert`, `Plan` and `StateDB` as well, `PoolAndLogProofs` those of `Pool` and `LogFollow` |
| `MCDepgraph`, `MCEngine`, `MCPool`, `MCSupervisor`, `MCProject`, `MCLogFollow`, `MCMicroVM`, `MCRender`, `MCImages` | instances for TLC | |

How the state corresponds to the code:

* **Depgraph.** `dependsOn` is the input, chosen arbitrarily in `Init`;
  `colors`, `stack` are `detectCycles`/`dfsVisit`; `inDegree`, `levels` are
  `StartOrder`. `for … range` over a map is a nondeterministic choice.
  `Cyclic` and `HasDangling` are the reference definitions. `StartOrder` also
  runs on compositions nobody validated, as `down` calls it.
* **StateDB.** A bucket is a function from ids; the kind of a resource is part
  of the value only, as in the code. Transactions are atomic and serialised:
  BoltDB is trusted.
* **Convert.** Names are numbers, so that `sort.Strings` is the order of the
  numbers; ids are built as the code builds them, with the collisions that
  follow (a Project and its Network, a Service and a Volume of one name). A
  version is what it hashes: the service without `depends_on` and profiles.
* **Plan.** `ComputePlan`, the reference check and Kahn's algorithm, whose
  queue is re-sorted on every insertion and so is deterministic. Of requests
  with one id a batch keeps the last (`buildRequestSet`).
* **Engine.** `pc` is the position in `ApplySync`; every transaction and every
  runtime call is one step, so that a `Crash`, a `Cancel`, an `Exit` or a
  `Teardown` can come between any two. Planning reads only the store, under
  BoltDB's file lock, and is one step. `pods` and `present` are the runtime:
  what a failing `ServiceUp` or teardown may leave is chosen from every stage
  at which the call can stop. `observed`, `created`, `snaps`, `tangled` and
  `disturbed` are ghosts that no guard reads.
* **Pool.** A closed and empty channel yields nil, a send to a closed one
  panics, a select takes any ready case.
* **Supervisor.** `pods[s]` is the history of the pods of a service. A watcher
  stands between two CRI calls; a call abandoned by a cancelled context may
  still take effect in the runtime (`abandoned`, `LateSandbox`). `clean` is
  "`shutdownServices` returned no error". A process of `Others` is a second `up`
  (or its watcher), which lists, removes and makes a pod like `ServiceUp`, or
  `create`, which only makes one; both go call by call and may end anywhere.
  `stop`, `kill` and `rm` are steps of their own; `start` and the second half of
  `restart` are left out: containerd refuses to start a container that has exited
  (`Commands` allows for runtimes that do not). `known`,
  `foreign` (pods of other processes) and `raced` are ghosts. Signals before
  `criForeground` are the runtime's default and outside the module, which begins
  there.
* **Runtime, DirectUp, Commands, Watch, Project.** `pods[n]` is the history of
  the pods of a service, each with the definition it was built from. `up`, `cmd`
  and `w` are the positions of three processes. Here `ServiceUp` is one step with
  every way it can fail; its inside is the subject of `Supervisor`. The document
  is evaluated where the code evaluates it: by `up` once, by the watcher once per
  round and once per restarted service, by `down` and `create` raw, without
  profiles and init containers. `disturbed`, `raced`, `seen`, `before`, `trail`,
  `torn` and `managed` are ghosts.
* **LogFollow.** A line is two cells, so that an offset can fall into its
  middle; stat and read of one poll are two steps. Writers never block. A time
  stamp is the number of its line. Lists are sorted and filtered by rank: `Sorted`
  puts each place where the number of those before it says, which is what the
  stable sort of `collectEntries` does.
* **PortForward, MicroVM.** A WaitGroup is read off the state of the goroutines
  it counts. `waitCh` holds at most the one value its sender ever sends. Of the
  data on a connection only that matters which tells a copy that its other end is
  gone: a copy ends on EOF, or when what a peer writes cannot be passed on; with an
  idle peer it stays in its `Read`. `signal.Notify` is called in
  `microvmForeground` alone, so that anywhere else a signal kills `up`
  (`KilledBySignal`), with hypervisor, virtiofsd and directory as they are.
* **Images.** Import writes one record per manifest, all under one reference;
  `Update` and `Unpack` follow. `view` is what the CRI plugin has heard of.
  `torn` marks references an import of which ended half-way; no guard reads it.
* **Render, ServiceConfig.** Object names are sequences; `Label` is the map of
  `sanitizeName`, given by the instance with its collisions, of one service and
  between services. Strings for ports and volumes are records of what their parts
  say. What a container gets is read off the manifests that are written, of
  several with one file name the last (`Emitted`).

Each definition that models code has its lines in `PROJECT.json`, "map". A
definition named `X_Something` just before `X` is a mutant: a plausible bug of
that code with which the property it is paired with fails.

## 3. Runs

Run one with `tlc -config <cfg> <module>`. `CHECK_DEADLOCK FALSE` stands in
every configuration: an algorithm that has returned, a pool that has stopped, a
process that has exited, or an engine that has used up its requests rightly does
nothing more. That nothing stops *too early* is what the liveness properties say.

| Run | Bounds | Distinct states | Shows |
|---|---|---|---|
| `depgraph` | every graph on 3 services and 1 unknown name | 231,697 | `DetectCyclesExact`, `LevelsRespectDeps`, `StartOrderExact` |
| `engine` | 4 compositions of 2 services, 3 applies, 1 fault, 1 crash, 1 teardown | 902,625 | safety of plan/apply |
| `engine_net` | 2 versions of a bridge-network composition, 2 applies, 2 faults, 1 crash | 35,445 | `ConditionsGate`, `LinksMirror`, `ApplyReturns`, `ImplementsLinkStore` |
| `pool` | 2 workers, 4 requests, channels of 1 slot, 2 failures | 381,171 | `Conserved`, `StopIsSafe`, `StopTerminates`, `LoadIsServed` |
| `supervisor` | 2 services, 1 exit, 1 failing call, 1 command, 1 other process | 706,928 | `OnePod`, `BackoffExact`, `LeakBounded`, `RestartsByPolicy`, `SignalEnds`, `ExitedIsRestarted` |
| `project` | 3 documents, 1 `up`, 2 edits, 1 command, 1 failing call | 461,624 | `ConditionsSeen`, `UpIsAPrefix`, `DownIsComplete`, `WatchMirrors`, `WatchIsCurrent`, `UpReturns` |
| `logs` | 2 files, 3 lines, 1 truncation, `--since` and `--tail` | 375,342 | `NothingSkipped`, `AtMostTwice`, `EventuallyShown` |
| `microvm` | 2 published ports, 2 connections, 1 share, 1 fault, a signal anywhere | 155,920 | `NoOrphans`, `Drained`, `StopsReturn` |
| `render` | 6 documents, all flags, 3 renders, 1 failing write | 31,457 | `RenderFaithful`, `OverridesSuffice`, `KustomizationClosed` |
| `images` | 2 processes, 2 store paths, 2 other paths, 1 registry image, 2 commands, 1 fault, 1 edit | 975,404 | `PresentIsExact`, `PathIsFresh` |

Why these bounds:

* Three services hold self-loops, two- and three-cycles, a tail leading into a
  cycle, and chains and forks without one; the proofs cover every other size.
* The host compositions of `engine` bring up a pair with a health condition,
  change both services and turn their dependency round, and drop either one.
  Three applies are up, change, and rollback or repair after a crash; each kind
  of interference occurs once, at every point. `engine_net` has what the
  others lack: network, volume, two image names with one reference, an update
  of a service that must complete, and two faults in one apply.
* In `pool` the load is `2 * Cap + |Workers|`, the greatest for which the ring
  cannot fill up; with one request more TLC finds scheduler and workers waiting
  for one another. The channels of the code hold 1024 requests each, so the deadlock
  needs a load that plan/apply does not produce, and `Pool.Add` has no caller
  but `Engine.Apply`, which only tests call.
* The backoff of `supervisor` runs 1, 2, 3 (the cap); doubling and the cap occur
  within two restarts, the reset after a run that was long enough. The exit and
  the one command, if it is a `stop`, make two restarts; if it is an `up` or a
  `create`, it runs beside a restart, an abandoned call or the shutdown.
* The documents of `project` have a health condition, an init container, a
  profile that is not active, and a cycle; two edits are one to react to and one
  in the middle of the reaction. Exits nobody waits for are left out of this
  instance, since none of its processes reacts to them; those a wait is about,
  and those `stop` causes, are there. The command runs against `up` and against
  the watcher alike.
* In `logs` three lines make a head in one read and its tail in the next, a
  partial line, and a second file that grows meanwhile.
* Both connections of `microvm` go to one port, the other port is idle: one is
  in the hands of the accept loop while the other is served.
* The documents of `render` are built for collisions (two files of one base
  name, two volumes of one label, a Secret named like a file, and `web` with
  `app.conf` beside `web-app` with `conf`), for each reason to refuse, and for each
  look of a port.
* In `images` two processes import one reference at once, or two paths with one
  reference; one fault is enough to end an import after any of its calls.
  Processes are interchangeable (symmetry; no liveness is checked there).

What the properties say:

* `OrderRespected` (dependencies created first, dependents deleted first) and
  `ConditionsGate`: order and gating, except among requests that depend on a
  *cycle of links*. Such a cycle arises when a dependency is turned round: links
  of earlier deployments are still there when the new ones are sorted, and
  `appendCycleOrphans` falls back to request order. The exemption is defined by
  the links alone (`Tangled`), not by the sort.
* `DestroyedUnreferenced`: what is removed for good is referenced by nothing
  that stays, although the links of the deployment are persisted after the
  check.
* `ExecutedConverges`: success means that the plan was carried out, unless the
  apply was disturbed. A delete that failed counts as a disturbance: `executeDeletes`
  logs it and the apply reports success (`apply.go:73`), which the property does
  not catch.
* `RollbackClean`: a failed apply leaves nothing it had created. The request
  that failed is not in the rollback list, so that a half-created pod may stay.
* `DriftBounded`: pods that differ from their record number at most the faults
  and crashes so far, plus the one between call and record.
* `NoDriftNoChangeIsUp`: an empty plan together with an empty drift report
  means that the services are started. It does not mean that they run in the
  recorded version: `getProviderStatus` compares versions only for a
  `*ContainerDefinition`, and `Convert` emits Services.
* `OnePod`: of the pods the supervisor itself makes a service never has two, and
  it has two at all only in `raced` services: `create` ran beside a pod or another
  creator (it removes nothing, `create.go:92`), or a `ServiceUp` listed while
  another creator was still to make its pod (`lifecycle.go:34`). Both do happen in
  the model, since no lock keeps two processes apart; every lookup then takes the
  first pod listed. A `ServiceUp` that lists with no creator about ends it.
* `LeakBounded`: after a clean shutdown a pod that was there at the signal is gone;
  what can be left is the pod of a `RunPodSandbox` that was under way at the
  signal (the abandoned call may complete after the pods were listed), and a pod
  another process made since.
* `RestartsByPolicy`: a pod a watcher adds always replaces a container seen to exit
  with a code its policy restarts. `stoppedByUser` is set only when the foreground
  process itself shuts down, so `stop` from another terminal is an exit like
  any other, and `unless-stopped` then restarts the container.
* `ExitedIsRestarted`: while its watcher lives and is about the supervisor's own
  pod. A watcher that met one failing call is gone, and one whose lookup took the
  pod of another process waits for that.
* `ConditionsSeen`: when `up` turns to a service, what it asks of each dependency
  was seen to hold; a condition the code does not know asks for a start
  (`condPriority`). The exception is in `highestConditionOf`: where one dependent
  wants a service completed and another wants it healthy, only health is waited
  for.
* `UpIsAPrefix`: at any time, and after any error, the services `up` is through
  with have exactly their new pod, and those after the one it stopped at have the
  pods they had.
* `DownIsComplete`: for the services of the raw document. Pods of init
  containers, whose names only the transformed document has, stay behind.
* `WatchMirrors`, `WatchIsCurrent`: what is in force runs, and what is on disk is
  in force, unless the last round failed. A failed round is not retried before
  the next edit, because the times were taken over first. An edit between `up`'s
  evaluation and the first times of `Run` (`watch.go:55`), i.e. while `up` still
  pulls, starts and waits, is not seen before the next one either: `WatchIsCurrent`
  speaks of the time after a first round.
* `UpReturns`: except where `up` waits for the health of a container that no
  longer runs. Such a wait never ends: the context of the direct path has no
  deadline, and the probe only counts failures.
* `NothingSkipped`, `AtMostTwice`, `EventuallyShown`: a line written while a
  file is being polled is shown twice; a line an offset falls into loses its
  tail; a truncated file is silent until it has outgrown its old offset.
* `NoOrphans`: after an `up --microvm` that failed, or that a signal in the
  foreground ended, nothing is left. Three ends are exempt, and leave processes
  and directory: the VM dies in the foreground and the command returns without
  `Stop`; `-d`; and a signal outside the foreground, i.e. during boot, health
  check, apply or the opening of ports, for which there is no handler
  (`microvm.go:172-173`). However `up` ends, the directory goes last.
* `Drained`: after `Forwarder.Stop` nothing runs. After `VMListener.Stop` one
  connection may still be served: the accept loop is not in its WaitGroup.
* `StopsReturn`: as long as nobody is in `vm.Wait` (see the run `vm_signal`) and
  no second signal kills `up`.
* `RenderFaithful`: mounts, their contents and ports, for containers and init
  containers, in the manifests as they end up in the directory, against what the
  document says and what `up` would do. `web` with `app.conf` and `web-app` with
  `conf` both emit a ConfigMap `web-app-conf` in one file: the later overwrites
  the earlier, and a container of the one gets the content of the other. The
  property allows for exactly that (`Clashes`): the content is the service's own,
  or one that another service puts under the same name. The other
  exceptions are in `PortsMatch` and are differences between three parsers:
  Kubernetes drops `ip:host:container` strings, and all strings beside named
  ports; one string that does not parse costs the CRI pod every mapping; the
  forwarder opens a port `"80"` for which nothing in the VM has a mapping.
* `OverridesSuffice`: a refused render with the named flags added renders, and
  is refused again exactly if it said that something must be fixed.
* `KustomizationClosed`: whatever failed before; after a success each file listed
  holds the last manifest of this render with its name. Files of services no longer
  in the document stay in the directory, but are not listed.
* `PresentIsExact`: a store path's reference, once no import of it is under way
  and none ended half-way, is the manifest for this platform, unpacked. The
  exemption is real: after a failure or a kill between Import and Update the
  reference may stand for another platform, and every later `up` skips it.
* `PathIsFresh`: the record of any other path is of an artifact that stood there
  during the call. `awaitImage`, however, is content with whatever the CRI plugin
  shows under the reference, which may still be the previous image.

### Where the code and its documents disagree

Two runs are expected to be violated; each states a sentence of the documents,
quoted with its place in `PROJECT.json`, "findings".

| Run | Property | What TLC shows |
|---|---|---|
| `rollback_restores` | `RollbackRestores` | a stored deployment holds a diff; rolling back to one removes what it had left unchanged |
| `vm_signal` | `SignalStopsVM` | on a signal `Wait` may take the one exit value, and `Stop` waits for it for ever after SIGKILL |

Four more properties are stated in the modules and not among the runs; TLC
refutes each on the instance named, with the constants of the run of that module
otherwise. ADR 017 is `docs/adrs/017-plan-apply-declarative-loop.md`.

| Property | Instance | What happens | Document |
|---|---|---|---|
| `Engine.UpConverges` | `Comps <- PairComps`, no fault, no crash | after a `down`, `up` finds every record unchanged and starts nothing | ADR 017:13 |
| `Engine.IdempotentUp` | `Comps <- BridgeComps`, `Ids <- SingleIds` | Project and Network share an id; the second plan has changes | ADR 017:89 |
| `Engine.OrphansRemovable` | `Comps <- DropComps` | dropping a service together with the `depends_on` that names it is refused: the recorded link is never removed | ADR 017:91 |
| `Supervisor.PolicyEnforced` | `Policy <- TwoAlways`, `MaxCommands = 0` | one failing CRI call ends the supervision of a service while the process runs on | README.md:44 |

Smaller observations made while modelling, none of which a property states:
the watcher compares up's transformed document with a raw one, so that its first
round restarts services with init containers and removes the init pods;
`up --watch` without `-d` never watches (`docs/getting-started.md:185`); only
`*.nix` files directly in the project directory are polled; `start` passes over
containers that were created and never started; `logs --tail 0` shows all, and
remote `logs` without a service shows none; `up --microvm -d` stops forwarding
when it returns; `filter` and `initcontainers` drop the microVM settings of the
composition; a `secretRef` names a Secret even where no file defines one; external volumes
get a claim; a bind mount from `~` is refused by `render` and dropped by `up`.

### Fairness

* `EngineFairSpec`: weak fairness of the engine's own steps. Every CRI call and
  transaction returns, and every condition wait has a timeout, which is a step
  of the engine (`WaitFails`); nothing is assumed of containers.
* `PoolFairSpec`: weak fairness of adding, of the goroutines and of Stop. The
  Go scheduler runs what can run; `Process` returns; a request does not fail
  for ever (`MaxFailures`).
* `SupFairSpec`: weak fairness of the main goroutine only, which waits with
  deadlines of 30 s and 5 s; so `SignalEnds` holds with watchers that hang.
  `ExitedIsRestarted` and `PolicyEnforced` carry their own premise,
  `WatcherFair`: that the calls of the watcher return.
* `FairSpec` of `Project`: weak fairness of the steps of `up`, a running program
  whose calls return. That running containers pass their probe and awaited ones
  exit is the premise of `UpReturns`, not of the specification.
* `Spec` of `LogFollow`: weak fairness of the follower, which has a ticker.
* `FairSpec` of `MicroVM`: weak fairness of `up`, of its goroutines, of the
  forwarder and of the listener. Clients and targets owe nothing; that they close
  in the end is the premise of the first half of `StopsReturn`.

## 4. Proofs

`tlapm <module>` checks each module of proofs.

**DepgraphProofs**, for every finite set of names (`NamesFinite`) that includes
the services (`ServicesAreNames`): `Invariant`, `TypeCorrect`,
`CycleDetection`, `Ordering`, `OrderExact`. None of the properties is inductive:
that a gray node closes a cycle needs the stack to be a path (`StackPath`), all
gray nodes to be on it (`GrayOnStack`), and a frame's entries to be either still
to do or visited (`FrameProgress`); that no cycle is missed needs black nodes to
be closed under dependencies and outside every cycle (`BlackAcyclic`). This
holds although the search goes on after an error with gray nodes on the stack.
For Kahn's algorithm the in-degree must count what has not been emitted
(`InDegreeCounts`), emitted and remaining services must partition the services,
and no member of a cycle may be emitted. `IInv` is the conjunction; there is one
lemma per action. A cycle is a nonempty set each member of which depends on a
member (`SelfSupporting`), which spares the proofs induction over paths.

**EngineProofs** has three layers.

*Operators.* `BridgeIsClosed`: a well-formed composition is converted to one
create for each manifest, its links and conditions join these only, and no two
services have one id. `PlanIsSound`: a plan creates nothing but what is desired,
deletes nothing but what is recorded, destroys nothing that is desired, and is
empty only if everything desired is recorded with the desired body.
`CreatesInOrder` and `DeletesInOrder`: for every batch and every set of links the
queue-based sort of `apply.go` loses no request and puts a request behind what it
links to (in front of it for deletes), unless both ends depend on a cycle. The
loops are folds and recursive functions; that their equations have solutions is
`NumberRecursion` and `SubsetRecursion`, by the least number or the smallest set
for which they had none (`LeastNumber`, from the well-foundedness of the numbers).
The sort descends on the ids left: who is ready links to nothing left and may
stand in front of the rest (`FirstOrdered`); when nobody is ready, everybody left
links to somebody left and so depends on a cycle (`OrphansOrdered`). `WalkInv`
goes along with `ComputePlan`.

*The store*, with no assumption on the constants: `Mirror` (invariant `DBInv`,
the type and the mirror), `Reads`, and `Refinement`: each transaction is a step
of `LinkStore` or a stutter. `EngineMirror` and `EngineRefinement` say the same
under `EngineSpec`, crashes and failures included; a link that leads to an unknown
id is a stutter.

*The engine*, for all compositions, faults, crashes, cancellations and foreign
teardowns. Assumed of the constants: the compositions are well formed
(`CompsAreWellFormed`: names and project in the range of the id scheme, and
`depends_on` names services of the composition, which `pruneDanglingDeps` sees to
before every conversion), `Ids` is a finite set with every id they lead to
(`IdsCoverComps`), and the values that stand for "no pod" and "no record" are
neither (`NothingIsNoRecord`). None of the properties is inductive as it stands:

* `ShapeHolds`: what is planned, stored, listed, recorded and running stems from
  the compositions (`Shape`, five parts). All that follows rests on it, as a step
  works on what an earlier transaction stored, possibly before a crash.
* `Order` (`OrderRespected`): `OrderInv` says that what the plan creates is what
  was created and what is left in the list, and that the list is sorted; then a
  create finds what it links to either done or tangled in a cycle.
* `Conditions` (`ConditionsGate`): `ConditionInv` says that whatever was created
  has seen all its conditions, but for the request that waits for them right now.
* `Destroyed` (`DestroyedUnreferenced`): `DestroyInv` carries the check from the
  start of the apply over the transaction that persists the new links; that these
  do not lead to anything destroyed is `BridgeIsClosed` and `PlanIsSound`.
* `Converges` (`ExecutedConverges`): `ConvergeInv` follows what is created and
  what is destroyed from step to step of an undisturbed apply. A create under the
  id of a service that was just created would undo it; that there is none needs
  `Bridged`.
* `NoDrift` (`NoDriftNoChangeIsUp`): `NoChangeInv`, i.e. `PlanIsSound` at the time
  of planning, still holds as nothing but an apply writes records, and a record
  that says SUCCEEDED and a status that agrees mean a started pod.
* `Drift` (`DriftBounded`), under `NoClash`: no volume bears the name of a service
  of its project. The two have one id then, and the record of the one hides that
  of the other for good (the hazard at `convert.go:79`); without the hypothesis
  the bound is false. `DriftInv` counts without the pod in doubt between a call
  and its record, and with it if the call has failed.
* `FailedApplyLeavesNothing` (`RollbackClean`): `RollbackInv` says that while
  creates run the rollback list holds all that was created, while the list is
  worked off everything is either still in it or gone, and what is gone stays
  gone because only creates bring anything back.

**PoolAndLogProofs** has two parts that share nothing.

*The pool*, for finite sets of workers and requests and channels of at least
one slot: `PoolTypeCorrect`, `RequestsConserved` (`Conserved`), `StopSafe`
(`StopIsSafe`). `Conserved` counts copies; the invariant `PoolInv` says the same
without counting. Who is at a select holds nothing (`Hands`), the places of a
request are apart (`ChannelsApart`, `HandsApart`) and until Stop cover all
requests (`Covered`); `Stopping` says that only Stop closes channels, that an
idle pool stays idle, and that a worker ends after the queue was closed and
drained.

*The log follower*, for any list of services without repetition
(`ServicesAreListedOnce`; `logs web web` dumps everything twice and is outside),
any number of lines and truncations, any `--since` and `--tail`: `NothingLost`
(`NothingSkipped`) and `NoThirdTime` (`AtMostTwice`). First what the operators do
with the *places* of a cell, entry and position (`HasAt`): concatenation adds
places (`ConcatPlaces`), sorting and filtering only permute and drop entries
(`SelectionKeeps`), joining partial lines moves cells but neither loses nor
doubles one (`JoinPartialsKeeps`, along the fold entry by entry), and reading what
is behind an offset yields every cell there once, but for a tail that has lost its
head (`RestIs`, `ReadingIs`). Then `LogInv`, one lemma per action:

* `FilesOk`: a file is heads and tails in turn with rising numbers, and no two
  files share a line, so that a cell has one place in the files.
* `Fresh`: a cell that may still be written was not read. The tail of an
  unfinished line is one, and the numbers above the clock are the others.
* `DumpOk`: `Dump` reads each file once, and nothing is printed before it.
* `CountOk`: what is behind the offset was printed at most once, what was written
  since the last stat not at all. Without the second half the first is not
  inductive: the offset is set to the size taken *before* the reading, so that the
  reading has printed cells that the next one prints again.
* `CaughtUp`: the offset is one of those a service has had and the greatest; what
  is between any earlier one and it was printed for that service, but for tails
  that an offset cut off. For truncated files only the offsets are followed.

**SupervisorProofs**, for any services, policies and `0 < BackoffMin <=
BackoffMax`, with a stop order that lists every service: `SupTypeCorrect`,
`AtMostOnePod` (`OnePod`), `ShutdownLeak` (`LeakBounded`), `ExponentialBackoff`
(`BackoffExact`) and the action property `RestartPolicy` (`RestartsByPolicy`),
with any number of other processes that bring up, create, stop and remove the
same services.
`SupInv` adds that a watcher about to make a pod, or one whose call was abandoned,
has no other pod of its own, and that a service that is not raced has a pod, a
watcher about to make one, or another process about to make one, but no two of
these (`Replacing`); that after the signal only calls under way
at that time can add a pod, so that services already taken down stay down but for
these (`ShuttingDown`); and what a watcher saw before it set out to restart
(`Restarting`). The powers of two of the backoff are read off the cardinality of
power sets, as the prover knows no other law of `^`.

**ProjectProofs**, for any documents and names: `ProjectInvariant`,
`ProjectTypeCorrect`, `UpInOrder` (`UpIsAPrefix`), `DownLeavesNothing`
(`DownIsComplete`), `WatcherMirrors` (`WatchMirrors`), `WatcherIsCurrent`
(`WatchIsCurrent`), `ConditionsHold` (`ConditionsSeen`). Assumed: `NameSeq` lists
every name once (`NamesAreListedOnce`), and documents, their transformed versions
and the arguments of commands use these names (`DocsAreNamed`, `InitsAreNamed`,
`TargetsAreNamed`), i.e. `NameSeq` is the sorted list of all names that occur.
Nothing else is assumed of the documents; cycles and dangling names are among
them. `ProjectInv` has a part per process:

* `UpTodo` and `Prefix`: what `up` has left is a list without repetition; what it
  is through with has its new pod, and so has the service it waits for.
* `DownGoes`: as long as nobody else touches pods, what a `down` is through with
  has none.
* `RoundMirrors`, `IdleMirrors`, `Currency`: in a round of the watcher what was
  handled is as in the new document, what was not is as in the old one, the two
  agree on everything outside the work lists; and a round that works on an old
  document has a newer time to see.

`ConditionsHold` needs that the start order works. `SortedLists` shows that
`Sorted` lists a finite set once and in order, `LevelsRise` that a service waits
more rounds than its dependencies. `StartRounds` is a recursive function;
`RoundsAre` shows that its equation has a solution, by the least number for which
it had none (`LeastNumber`, from the well-foundedness of the numbers; induction
itself takes an operator as a parameter and is out of reach). `UpSeen`, the
invariant that goes with it, says that the rest of the list never gets back to a
lower level, that what is done depends on nothing in it, and that the strictest
condition on what is done was seen.

**MicroVMProofs**, for any number of shares, published ports and connections
(`SharesAreCounted`, `MappingsAreCounted`): `MicroVMInvariant`, `VMTypeCorrect`,
`NothingLeftBehind` (`NoOrphans`), `StopDrains` (`Drained`). `HostHalf`: an
accepted connection keeps its loop alive, so `wg.Wait` sees all of them; `VMHalf`:
the loop in the VM has one connection in hand, and after Stop that one is all
there is. `ExitSent` and `Progress` say what `up` has started at each of its steps,
that nothing runs once the directory is gone, and that the exit of the hypervisor is
sent once; a signal that kills `up` may come at any step.

**RenderProofs**, for every document, host, set of flags and behaviour of the
directory: `Faithful` (`RenderFaithful`), `Overriding` (`OverridesSuffice`),
`Closed` (`KustomizationClosed`). Assumed: the documents are documents
(`DocsAreDocuments`, the types of the JSON fields; nothing about collisions,
duplicates or names) and the greatest port is a number (`MaxPortIsNumber`).
`Rendered` and `Written` are the invariants: what is refused or written was
planned from the document at hand, and every manifest of the render is still to be
written or its file holds one. The work is in what planning yields. `PlanVolumes`
is a fold over the volumes of a service: `VolumesPlanSteps` takes it apart into
steps, and `PlanInv` holds after each of them. A volume done is mounted or has
led to a refusal (`DoneOk`), a mount has a pod volume of its source (`MountsOk`),
pod volumes and generated ConfigMaps have names that stand for one source each
(`PodVolumesOk`, `ConfigMapsOk`), and each source that was refused has the flag
that lifts it among the overrides (`SourcesOk`). Whether a step refuses depends on
the service, the volume and the flags alone (`FlagFor`), so that with the named flags added the
same fold gets through (`FlagsSuffice`), unless something has to be fixed.
`ManifestsAre` says what the manifests of the plans are, and `EmittedIs` which of
those with one file name remains, so that a ConfigMap has the content of its own
service or of one that clashes with it (`HasContent`); the faithfulness of the
ports is a comparison of the three parsers (`PortsMatchHolds`).

**ImagesProofs**, for any processes, compositions and artifacts:
`StoreImagesExact` (`PresentIsExact`) and the action property `PathImagesFresh`
(`PathIsFresh`). Assumed: store paths are not other paths, nor empty
(`NamesApart`); an artifact is a sequence of manifests (`ArtifactsAreSequences`);
one reference of two store paths means one content, because the tag is the store
hash (`StoreRefsPinned`); and the reference of a store path is neither that of
another path, which is tagged `latest`, nor the name of a registry image
(`RefsApart`). `StorePaths` are paths
directly in the store. For one deeper down `isContentAddressed` looks at the
prefix alone while `deriveLocalRef` takes the tag from the base name, so that two
contents may have one reference: such paths are outside these assumptions, and
nothing is claimed of them. `Stage` follows one process
through the calls of an import; `Settling` says who will put a wrong store
reference right.

`Invariant`, `TypeCorrect`, `Reads`, `PoolTypeCorrect`, `SupTypeCorrect`,
`MicroVMInvariant`, `VMTypeCorrect`, `ProjectInvariant`, `ProjectTypeCorrect`,
`ShapeHolds`, `BridgeIsClosed`, `PlanIsSound`, `CreatesInOrder` and
`DeletesInOrder` state facts that no run repeats: inductive invariants, types,
what conversion, planning and sorting yield for every input, and that both link
queries read the one abstract set. Each inductive invariant was checked by TLC on
the instance of its run before it was proved.

**Only model-checked.** Every safety invariant, action property and refinement of
the passing runs has a theorem. What is left to TLC:

* Liveness: `StopTerminates`, `LoadIsServed`, `SignalEnds`, `ExitedIsRestarted`,
  `UpReturns`, `EventuallyShown`, `StopsReturn`, `ApplyReturns`. The prover has
  no fairness.
* The two properties that are expected to be violated, and the four that are
  refuted on instances of their own.

## 5. Left out, and the plan

Not modelled: BoltDB, gRPC and CRI plumbing, generated code; text generation
(compose import, error wording, doctor); host file I/O (volumes, CNI, GC roots),
of which the engine sees only whether a thing is present; evaluation, i.e. running
Nix and decoding JSON and YAML, which is a step that yields a document or fails;
`O/graph.go`, which walks the links to print them. Fields that are copied from
one record to another (environment, resources, probes, labels, security context)
are left out of the conversions. Resource kinds Pod and Container are not
reachable from a composition.

Simplifications inside the modules, none of which a property speaks about:

* `Engine`: that the open store cannot be read (`loadLinks`; the code warns and
  sorts without links, `apply.go:33-36`) is left out; failing writes are there
  (`PersistLinkFails`, `RemoveLinkOrWarn`, `SaveOrWarn`, `Finish`). `Teardown` is
  one step, and a pod it leaves is whole.
* `LogFollow`: the scanner's limit of 64 KiB per line (`parse.go:61`), at which the
  reading of a file silently ends; runtimes split lines far earlier.
* `Images`: the manifests of an artifact are those with a name annotation, which are
  all that containerd names; a layout directory is read in one step, although it is
  tarred while the import reads it (`import.go:327-330`).
* `Render`: that a label already ends in the hash that `withSuffix` appends for some
  other source is not considered (`volumes.go:250`).

The plan this project followed had three parts: the core (dependency graph, store,
plan/apply, supervisor), the rest of the state (direct path, watcher, pool, logs,
microVM, images, renderer), and a theorem for each safety property. All three are
done. What would come next, in this order:

1. The inside of `ServiceUp` in `Project`. It is one step there, with every way it
   can fail, and call by call in `Supervisor`; a refinement between the two would
   say that the abstraction is sound.
2. Properties for the hazards that have none, or for a part of one only (in
   `PROJECT.json` each has its reason), most of which await a decision what the code should do: the shared ids
   of `convert.go:79`, which make up the exemption `NoClash` of `Drift` and the
   refuted `IdempotentUp`; the `cancelled` map of `pool.go:78`, which nothing ever
   clears; the failed delete of `apply.go:73`; the watcher that one failing call
   ends (`supervisor.go:117`) and the stop it takes for an exit
   (`supervisor.go:160`); the edit before `watch.go:55`; the signal before
   `microvm.go:173`; and the import that ends half-way (`import.go:249`).
3. Decoding of the evaluated document, should it ever do more than copy fields.
