-------------------------------- MODULE Render --------------------------------
(***************************************************************************)
(* `render --target k8s` (pkg/cli/render.go, pkg/k8s): evaluate, filter by *)
(* profile, resolve envFrom, plan the volumes of every service, refuse or  *)
(* translate, and write one file for each manifest and a kustomization     *)
(* that lists them.  The output directory outlives the command: renders of *)
(* edited documents, some of them failing half-way, write into the same    *)
(* directory one after the other.                                          *)
(*                                                                         *)
(* A service is a record of module Composition with the fields ports and   *)
(* named, vols, secretMounts (a function from sources to Secrets) and job  *)
(* (a restart policy of "no" or "on-failure"); an init container has vols. *)
(* Names of objects are sequences: a label, and the disambiguating hash if *)
(* there is one.                                                           *)
(***************************************************************************)
EXTENDS Composition, ServiceConfig

CONSTANTS
  Docs,         \* the documents: services, declared volumes, files of envFrom
  Active,       \* the active profiles
  Host,         \* what the host paths are: place, type, size, utf8, key, base
  Kind,         \* the look of each source: "path", "name" or "home"
  Label,        \* the RFC 1123 label a sequence of strings becomes
  Prefixed,     \* prefix and variable, joined
  MaxBytes,     \* the greatest ConfigMap
  MaxRenders,   \* bound on renders
  MaxFaults     \* bound on failing writes

VARIABLES
  pc,        \* "idle", "convert", "refused", "write", "failed", "ok"
  doc, opts, \* what is being rendered, and the flags
  plans,     \* the volume plan of each service
  todo,      \* the manifests still to be written
  all,       \* the manifests of this render
  dir,       \* the output directory: files and what is in them
  kust,      \* the resources kustomization.yaml lists
  renders, faults

vars == <<pc, doc, opts, plans, todo, all, dir, kust, renders, faults>>

----------------------------------------------------------------------------
(***************************************************************************)
(* What render is given: evaluated documents.                              *)
(***************************************************************************)
\* The service's own volumes and those of its init containers.
VolumesOf(svc) ==
  Range(svc.vols) \cup UNION {Range(svc.inits[i].vols) : i \in DOMAIN svc.inits}

IsService(svc) ==
  /\ {"vols", "inits", "secretMounts", "ports", "named", "job", "envFrom"} \subseteq DOMAIN svc
  /\ svc.vols \in Seq(Range(svc.vols))
  /\ svc.inits \in Seq(Range(svc.inits))
  /\ \A i \in DOMAIN svc.inits : svc.inits[i].vols \in Seq(Range(svc.inits[i].vols))
  /\ \A v \in VolumesOf(svc) : Kind[v.src] \in {"path", "name", "home"}
  /\ IsFiniteSet(DOMAIN svc.secretMounts)
  /\ \A np \in Range(svc.named) : np.host \in Int /\ np.cont \in Int

IsDocument(d) ==
  /\ {"services", "volumes", "files"} \subseteq DOMAIN d
  /\ IsFiniteSet(d.volumes)
  /\ DOMAIN d.services \subseteq Range(NameSeq)
  /\ \A s \in DOMAIN d.services : IsService(d.services[s])

ASSUME DocsAreDocuments == \A d \in Docs : IsDocument(d)

ASSUME MaxPortIsNumber == MaxPort \in Nat

----------------------------------------------------------------------------
(***************************************************************************)
(* Names.                                                                  *)
(***************************************************************************)
With(f, k, v) == [x \in DOMAIN f \cup {k} |-> IF x = k THEN v ELSE f[x]]

\* Many strings have the same label.
SanitizeName(parts) == <<Label[parts]>>

\* The hash of the source makes the name different from all others: that a label
\* ends in the hash of some other source is not considered.
WithSuffix(base, source) == Append(base, source)

\* Mutant: whoever comes second shares the name of the first.
ClaimName_Shared(p, base, source) == base

\* A name belongs to the first source that asks for it.
ClaimName(p, base, source) ==
  IF base \notin DOMAIN p.names \/ p.names[base] = source THEN base
  ELSE WithSuffix(base, source)

----------------------------------------------------------------------------
(***************************************************************************)
(* The volume plan of a service.                                           *)
(***************************************************************************)
EmptyPlan == [mounts |-> <<>>, podVolumes |-> <<>>, configMaps |-> <<>>, names |-> <<>>,
              used |-> {}, refusals |-> {}, overrides |-> {}, mustFix |-> FALSE]

IsBindMount(source) == Kind[source] \in {"path", "home"}

\* resolveBindPath and readBindSource: a regular text file of the project or of
\* the store, small enough.
Representable(source) ==
  LET f == Host[source]
  IN  /\ Kind[source] # "home" /\ f.place \in {"project", "store"}
      /\ f.type = "regular" /\ f.size <= MaxBytes /\ f.utf8

\* A pod volume, unless there is one of that name, and the mount of vol on it.
AddPodVolume(p, vol, pv, sub, ro) ==
  [p EXCEPT !.names = With(@, pv.name, vol.src),
            !.podVolumes = IF \E i \in DOMAIN @ : @[i].name = pv.name THEN @ ELSE Append(@, pv),
            !.mounts = With(@, vol, [name |-> pv.name, dst |-> vol.dst, sub |-> sub, ro |-> ro])]

\* Mutant: every refusal is taken for one a flag would lift.
Refuse_AllByFlag(p, source, override) ==
  [p EXCEPT !.refusals = @ \cup {source}, !.overrides = @ \cup {override}]

Refuse(p, source, override) ==
  [p EXCEPT !.refusals = @ \cup {source},
            !.mustFix = @ \/ override = "",
            !.overrides = IF override = "" THEN @ ELSE @ \cup {override}]

\* A claim if the document declares the volume, an empty directory if not.
AddNamedVolume(p, vol, declared) ==
  LET name == ClaimName(p, SanitizeName(<<vol.src>>), vol.src)
      pv == IF vol.src \in declared THEN [name |-> name, of |-> "claim", ref |-> <<vol.src>>]
            ELSE [name |-> name, of |-> "empty", ref |-> <<>>]
  IN  AddPodVolume(p, vol, pv, "", vol.ro)

\* The file is not even looked at.
AddSecretMount(p, vol, secret) ==
  LET name == ClaimName(p, SanitizeName(<<secret>>), vol.src)
  IN  [AddPodVolume(p, vol, [name |-> name, of |-> "secret", ref |-> <<secret>>], vol.src, TRUE)
         EXCEPT !.used = @ \cup {vol.src}]

\* The name is claimed even if the file is then refused for the key it holds.
AddConfigMap(p, s, vol, o) ==
  LET name == ClaimName(p, SanitizeName(<<s, Host[vol.src].base>>), vol.src)
      q == AddPodVolume(p, vol, [name |-> name, of |-> "configMap", ref |-> name], vol.src, TRUE)
  IN  IF Host[vol.src].key /\ ~o.keys
      THEN [Refuse(p, vol.src, "keys") EXCEPT !.names = With(@, name, vol.src)]
      ELSE [q EXCEPT !.configMaps =
              IF \E i \in DOMAIN @ : @[i].name = name THEN @
              ELSE Append(@, [name |-> name, src |-> vol.src])]

AddUnrepresentable(p, vol, o) ==
  LET name == ClaimName(p, SanitizeName(<<vol.src>>), vol.src)
  IN  IF ~o.empty THEN Refuse(p, vol.src, "empty")
      ELSE AddPodVolume(p, vol, [name |-> name, of |-> "empty", ref |-> <<>>], "", vol.ro)

Add(p, s, vol, svc, declared, o) ==
  IF vol \in DOMAIN p.mounts \/ vol.dst = "" THEN p
  ELSE IF vol.src \in DOMAIN svc.secretMounts THEN AddSecretMount(p, vol, svc.secretMounts[vol.src])
  ELSE IF ~IsBindMount(vol.src) THEN AddNamedVolume(p, vol, declared)
  ELSE IF ~Representable(vol.src) THEN AddUnrepresentable(p, vol, o)
  ELSE AddConfigMap(p, s, vol, o)

\* A declared secret mount that covers no volume is refused, and no flag helps.
ReportUnmatchedSecretMounts(p, svc) ==
  FoldSet(LAMBDA src, q : Refuse(q, src, ""), p, DOMAIN svc.secretMounts \ p.used)

\* The service's own volumes, then those of its init containers.
ServiceVolumes(svc) == svc.vols \o FlattenSeq([i \in DOMAIN svc.inits |-> svc.inits[i].vols])

PlanVolumes(s, svc, declared, o) ==
  ReportUnmatchedSecretMounts(
    FoldLeft(LAMBDA p, vol : Add(p, s, vol, svc, declared, o), EmptyPlan, ServiceVolumes(svc)), svc)

PlanComposition(d, o) ==
  [s \in DOMAIN d.services |-> PlanVolumes(s, d.services[s], d.volumes, o)]

Refused(ps) == \E s \in DOMAIN ps : ps[s].refusals # {}
Overrides(ps) == UNION {ps[s].overrides : s \in DOMAIN ps}
MustFix(ps) == \E s \in DOMAIN ps : ps[s].mustFix

----------------------------------------------------------------------------
(***************************************************************************)
(* The manifests, in the order they are emitted.                           *)
(***************************************************************************)
Object(kind, name) ==
  [kind |-> kind, name |-> name, src |-> "", volumes |-> <<>>, mounts |-> {}, inits |-> <<>>,
   secretRef |-> FALSE, ports |-> {}]

\* The file name is made of the two.
Filename(m) == <<m.kind, m.name>>

MountsFor(p, vols) == {p.mounts[v] : v \in Range(vols) \cap DOMAIN p.mounts}

ResolveSecrets(d, s) == ResolveSources(d.services[s].envFrom, d.files, Prefixed)

ConvertSecret(s) == Object("Secret", <<s, "secrets">>)

\* Only for services whose files define something.
ConvertSecrets(d) ==
  LET names == SortedNames({s \in DOMAIN d.services : ResolveSecrets(d, s) # <<>>})
  IN  [i \in DOMAIN names |-> ConvertSecret(names[i])]

ConvertConfigMaps(d, ps) ==
  LET Of(s) == [i \in DOMAIN ps[s].configMaps |->
                  [Object("ConfigMap", ps[s].configMaps[i].name) EXCEPT
                     !.src = ps[s].configMaps[i].src]]
      names == SortedNames(DOMAIN d.services)
  IN  FlattenSeq([i \in DOMAIN names |-> Of(names[i])])

ConvertPVC(v) == Object("PVC", <<v>>)

ConvertPVCs(d) ==
  LET names == SetToSeq(d.volumes) IN [i \in DOMAIN names |-> ConvertPVC(names[i])]

ConvertInitContainers(p, svc) == [i \in DOMAIN svc.inits |-> MountsFor(p, svc.inits[i].vols)]

\* setEnvFrom names the Secret whether or not there is one.
SetEnvFrom(svc) == svc.envFrom # <<>>

\* The pod: container and init containers with their mounts.
ConvertDeployment(s, svc, p) ==
  [Object("Deployment", <<s>>) EXCEPT
     !.volumes = p.podVolumes, !.mounts = MountsFor(p, svc.vols),
     !.inits = ConvertInitContainers(p, svc),
     !.secretRef = SetEnvFrom(svc), !.ports = ContainerPorts(svc)]

ConvertJob(s, svc, p) == [ConvertDeployment(s, svc, p) EXCEPT !.kind = "Job"]

K8sService(s, svc) ==
  IF ContainerPorts(svc) = {} THEN <<>>
  ELSE <<[Object("Service", <<s>>) EXCEPT !.ports = ContainerPorts(svc)]>>

\* A job has no Service.
ConvertWorkloads(d, ps) ==
  LET Of(s, svc) == IF svc.job THEN <<ConvertJob(s, svc, ps[s])>>
                    ELSE <<ConvertDeployment(s, svc, ps[s])>> \o K8sService(s, svc)
      names == SortedNames(DOMAIN d.services)
  IN  FlattenSeq([i \in DOMAIN names |-> Of(names[i], d.services[names[i]])])

Kustomization(ms) == {Filename(m) : m \in Range(ms)}

Manifests(d, ps) ==
  ConvertSecrets(d) \o ConvertConfigMaps(d, ps) \o ConvertPVCs(d) \o ConvertWorkloads(d, ps)

----------------------------------------------------------------------------
Init ==
  /\ pc = "idle"
  /\ doc \in Docs
  /\ opts = [empty |-> FALSE, keys |-> FALSE]
  /\ plans = <<>> /\ todo = <<>> /\ all = <<>>
  /\ dir = <<>> /\ kust = {}
  /\ renders = 0 /\ faults = 0

\* evalAndFilter, with the document of the moment and the flags given.
RenderBegins(d, o) ==
  /\ pc \in {"idle", "refused", "failed", "ok"}
  /\ renders < MaxRenders /\ renders' = renders + 1
  /\ doc' = [d EXCEPT !.services = FilterByProfiles(@, Active)]
  /\ opts' = o
  /\ plans' = <<>> /\ todo' = <<>> /\ all' = <<>>
  /\ pc' = "convert"
  /\ UNCHANGED <<dir, kust, faults>>

\* A file of envFrom that cannot be read or decrypted ends the command.
SecretsFail ==
  /\ pc = "convert"
  /\ \E s \in DOMAIN doc.services : ~Readable(doc.services[s], doc.files)
  /\ pc' = "failed"
  /\ UNCHANGED <<doc, opts, plans, todo, all, dir, kust, renders, faults>>

\* All volumes of all services are planned before a manifest is made.
Convert ==
  /\ pc = "convert"
  /\ \A s \in DOMAIN doc.services : Readable(doc.services[s], doc.files)
  /\ plans' = PlanComposition(doc, opts)
  /\ all' = IF Refused(plans') THEN <<>> ELSE Manifests(doc, plans')
  /\ todo' = all'
  /\ pc' = IF Refused(plans') THEN "refused" ELSE "write"
  /\ UNCHANGED <<doc, opts, dir, kust, renders, faults>>

\* Mutant: the kustomization goes first.
WriteFile_ListedFirst ==
  /\ pc = "write" /\ todo # <<>>
  /\ kust' = Kustomization(all)
  /\ dir' = With(dir, Filename(Head(todo)), Head(todo))
  /\ todo' = Tail(todo)
  /\ UNCHANGED <<pc, doc, opts, plans, all, renders, faults>>

\* WriteDirectory: one file after the other, over what an earlier render wrote ...
WriteFile ==
  /\ pc = "write" /\ todo # <<>>
  /\ dir' = With(dir, Filename(Head(todo)), Head(todo))
  /\ todo' = Tail(todo)
  /\ UNCHANGED <<pc, doc, opts, plans, all, kust, renders, faults>>

\* ... a write that fails may have truncated the file ...
WriteFails ==
  /\ pc = "write"
  /\ faults < MaxFaults /\ faults' = faults + 1
  /\ \/ UNCHANGED dir
     \/ todo # <<>> /\ dir' = With(dir, Filename(Head(todo)), Object("broken", <<>>))
  /\ pc' = "failed"
  /\ UNCHANGED <<doc, opts, plans, todo, all, kust, renders>>

\* ... and the kustomization when all are there.  Nothing is ever removed.
WriteKustomization ==
  /\ pc = "write" /\ todo = <<>>
  /\ kust' = Kustomization(all)
  /\ pc' = "ok"
  /\ UNCHANGED <<doc, opts, plans, todo, all, dir, renders, faults>>

Flags == [empty : BOOLEAN, keys : BOOLEAN]

Next ==
  \/ \E d \in Docs, o \in Flags : RenderBegins(d, o)
  \/ SecretsFail \/ Convert \/ WriteFile \/ WriteFails \/ WriteKustomization

Spec == Init /\ [][Next]_vars

----------------------------------------------------------------------------
\* Of the manifests of one file name, whatever service they are for, the last one
\* written is the one that stays.
Emitted(f) == all[Max({i \in DOMAIN all : Filename(all[i]) = f})]

\* What a pod volume gives a container that mounts it.
Gives(pv) ==
  IF pv.of # "configMap" THEN <<pv.of, pv.ref>>
  ELSE <<"content", <<Emitted(<<"ConfigMap", pv.ref>>).src>> >>

\* What a volume of the document stands for.
StandsFor(s, v) ==
  IF v.src \in DOMAIN doc.services[s].secretMounts
  THEN <<"secret", <<doc.services[s].secretMounts[v.src]>> >>
  ELSE CASE Kind[v.src] = "name" /\ v.src \in doc.volumes -> <<"claim", <<v.src>> >>
         [] Kind[v.src] # "name" /\ Representable(v.src) -> <<"content", <<v.src>> >>
         [] OTHER -> <<"empty", <<>> >>

\* The contents that other services put under the ConfigMap name of pv.
Clashes(s, pv) ==
  {<<"content", <<cm.src>> >> :
     cm \in {c \in UNION {Range(plans[t].configMaps) : t \in DOMAIN plans \ {s}} :
              pv.of = "configMap" /\ c.name = pv.ref}}

VolumeOf(w, mount) == {pv \in Range(w.volumes) : pv.name = mount.name}

\* Every volume of a container, init containers included, is mounted once at its
\* destination from the one pod volume of that name, which gives it what the
\* volume stands for; two sources of a service never share a pod volume; and no
\* mount that `up` would make of a volume is missing, or writable where that is not.
\*
\* Names are told apart within a service only (volumes.go:245).  If another service
\* has a file whose ConfigMap gets the same name (web with app.conf, web-app with
\* conf), one of the two contents is all there is, and a container may find the
\* other's.
MountsMatch(s, w) ==
  LET svc == doc.services[s]
      Match(vols, mounts) ==
        \A v \in Range(vols) : v.dst # "" =>
          \E m \in mounts : /\ m.dst = v.dst
                            /\ \E pv \in VolumeOf(w, m) : /\ VolumeOf(w, m) = {pv}
                                                          /\ Gives(pv) \in {StandsFor(s, v)} \cup Clashes(s, pv)
                                                          /\ plans[s].names[pv.name] = v.src
  IN  /\ Match(svc.vols, w.mounts)
      /\ \A i \in DOMAIN svc.inits : Match(svc.inits[i].vols, w.inits[i])
      /\ \A b \in BuildMounts(svc, Kind, doc.volumes) :
           b.of \in {"host", "volume"} /\ b.dst # "" =>
             \E m \in w.mounts : m.dst = b.dst /\ (b.ro => m.ro)

\* The ports `up` would map are exposed, but for those of strings with an address
\* (be it empty) or beside named ports, and for named ports out of range, which
\* `up` clamps; and what the forwarder of a microVM opens is mapped in it, but
\* for a port without a host part and if a string does not parse.
PortsMatch(s, w) ==
  LET svc == doc.services[s]
  IN  /\ \A pm \in PortMappings(svc) :
           \/ \E p \in w.ports : p.cont = pm.cont
           \/ \E p \in Range(svc.ports) :
                /\ p.parts = 3 \/ svc.named # <<>>
                /\ ParsePort(p) = pm
           \/ \E np \in Range(svc.named) : np.cont \notin 0..MaxPort /\ ParseNamedPort(np) = pm
      /\ \A f \in ExtractPorts(svc) :
           \/ \E pm \in PortMappings(svc) : pm.host = f.host /\ pm.ip = f.ip /\ pm.proto = "TCP"
           \/ \E p \in Range(svc.ports) : ~Parses(p) \/ (p.parts = 1 /\ p.cont = f.host)

\* A render that is not refused gives every container the volumes of the document
\* (another service's content under a ConfigMap name the two share excepted) and
\* its ports, names no Secret that is missing (unless its files define nothing),
\* and puts no private key into a ConfigMap that was not asked for.
RenderFaithful ==
  pc = "write" =>
    \A s \in DOMAIN doc.services : \E w \in Range(all) :
      /\ w.kind \in {"Job", "Deployment"} /\ w.name = <<s>>
      /\ MountsMatch(s, w) /\ PortsMatch(s, w)
      /\ w.secretRef => \/ \E m \in Range(all) : m.kind = "Secret" /\ m.name = <<s, "secrets">>
                        \/ ResolveSecrets(doc, s) = <<>>
      /\ \A m \in Range(all) : m.kind = "ConfigMap" /\ Host[m.src].key => opts.keys

\* A refused render names the flags that lift the refusal: with them it renders,
\* unless it said that something has to be fixed, and then it does not.
OverridesSuffice ==
  pc = "refused" =>
    LET more == [empty |-> opts.empty \/ "empty" \in Overrides(plans),
                 keys |-> opts.keys \/ "keys" \in Overrides(plans)]
    IN  Refused(PlanComposition(doc, more)) <=> MustFix(plans)

\* At all times, failed renders and edits of the document in between, every file
\* the kustomization lists is there; and after a render that succeeded each one
\* is the last manifest of that name of this very render.
KustomizationClosed ==
  /\ kust \subseteq DOMAIN dir
  /\ pc = "ok" => \A f \in kust : dir[f] = Emitted(f)
=============================================================================
