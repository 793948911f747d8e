-------------------------------- MODULE Images --------------------------------
(***************************************************************************)
(* Images on their way into the runtime (pkg/cri/import.go, validate.go,   *)
(* images.go, pkg/eval/realise.go, pkg/cli/pull.go): several processes --  *)
(* two `up`s, an `up` and a `pull`, a supervisor that restarts a service   *)
(* -- make the images of their services available, each a few calls at a   *)
(* time, and any of them may fail or be killed between two calls.          *)
(*                                                                         *)
(* An image is "" or the name of a registry image, of a path in the Nix    *)
(* store, or of any other path.  An artifact on disk is the sequence of    *)
(* the manifests of its index that have a name annotation, which are those *)
(* containerd names, each with a platform ("" for none given).             *)
(* containerd keeps one record per reference; the CRI plugin has a view of *)
(* the records of its own, which events bring up to date some time later.  *)
(***************************************************************************)
EXTENDS Integers, Sequences, FiniteSets, SequencesExt, Functions

CONSTANTS
  Procs,        \* the processes
  Comps,        \* compositions: services with their image and derivation
  StorePaths,   \* the images that are store paths
  Paths,        \* the images that are other paths
  Ref,          \* the reference each of these is registered under
  Built,        \* what building a store path gives
  Versions,     \* what may stand at another path
  Registry,     \* the manifest behind each registry image
  Platform,     \* the host's
  MaxCommands, MaxFaults, MaxEdits   \* bounds

ASSUME NamesApart == StorePaths \cap Paths = {} /\ "" \notin StorePaths \cup Paths
ASSUME ArtifactsAreSequences ==
  /\ \A a \in StorePaths : Built[a] \in Seq(Range(Built[a]))
  /\ \A idx \in Versions : idx \in Seq(Range(idx))
\* The tag is the store hash, for a path directly in the store.
ASSUME StoreRefsPinned ==
  \A a, b \in StorePaths : Ref[a] = Ref[b] => Built[a] = Built[b]
\* ... and "latest" for the others; no registry is behind LocalImageDomain.
ASSUME RefsApart ==
  /\ \A a \in StorePaths, b \in Paths : Ref[a] # Ref[b]
  /\ \A comp \in Comps : \A s \in DOMAIN comp : \A a \in StorePaths \cup Paths :
       comp[s].image \notin StorePaths \cup Paths => comp[s].image # Ref[a]

VARIABLES
  disk,      \* the artifacts that exist
  records,   \* containerd's image records
  view,      \* what the CRI plugin knows of them
  unpacked,  \* the manifests with a snapshot
  proc,      \* where each process is
  torn,      \* references an import of which ended half-way
  commands, faults, edits

vars == <<disk, records, view, unpacked, proc, torn, commands, faults, edits>>

stores == <<disk, records, view, unpacked>>
bounds == <<commands, faults, edits>>

\* A process is at pc, makes the images todo available after cur, and has read
\* the manifests index, written of which have their record.  What stood at the
\* path since it turned to cur, and whether somebody else wrote the reference
\* meanwhile, is for the properties only.
Idle == [pc |-> "idle", pull |-> FALSE, todo |-> {}, cur |-> "", index |-> <<>>, written |-> 0,
         since |-> {}, disturbed |-> FALSE]

----------------------------------------------------------------------------
IsLocal(image) == image \in StorePaths \cup Paths
IsContentAddressed(image) == image \in StorePaths
Resolved(image) == IF IsLocal(image) THEN Ref[image] ELSE image

\* The first manifest of the host's platform, or else the last that names none.
Fits(idx) == {i \in DOMAIN idx : idx[i].platform = Platform}
Plain(idx) == {i \in DOMAIN idx : idx[i].platform = ""}
Selectable(idx) == Fits(idx) \cup Plain(idx) # {}
SelectPlatformImage(idx) ==
  IF Fits(idx) # {} THEN idx[CHOOSE i \in Fits(idx) : \A j \in Fits(idx) : i <= j]
  ELSE idx[CHOOSE i \in Plain(idx) : \A j \in Plain(idx) : i >= j]

Set(f, x, v) == [y \in DOMAIN f \cup {x} |-> IF y = x THEN v ELSE f[y]]
Drop(f, x) == Restrict(f, DOMAIN f \ {x})

At(p, pc) == proc[p].pc = pc
Goes(p, pc) == proc' = [proc EXCEPT ![p].pc = pc]
GoesIdle(p) == proc' = [proc EXCEPT ![p] = Idle]

\* Between two images; the last one is of no interest any more.
Done(p) == proc' = [proc EXCEPT ![p] = [Idle EXCEPT !.pc = "next", !.pull = proc[p].pull,
                                                    !.todo = proc[p].todo]]

RefOf(p) == Resolved(proc[p].cur)
Importing(p) == proc[p].pc \in {"import", "update", "unpack"}

Init ==
  /\ disk \in [Paths -> Versions]
  /\ records = <<>> /\ view = <<>> /\ unpacked = {}
  /\ proc = [p \in Procs |-> Idle]
  /\ torn = {}
  /\ commands = 0 /\ faults = 0 /\ edits = 0

----------------------------------------------------------------------------
(***************************************************************************)
(* prepareCRIImages.                                                       *)
(***************************************************************************)
ValidateImages(comp) == \A s \in DOMAIN comp : comp[s].image # ""

\* The images that can be built and are not there, in one call of nix-store.
PendingImages(comp) ==
  {comp[s].image : s \in {t \in DOMAIN comp : comp[t].drv}} \cap (StorePaths \ DOMAIN disk)

Begin(p, comp, pull) ==
  /\ At(p, "idle")
  /\ commands < MaxCommands /\ commands' = commands + 1
  /\ ValidateImages(comp)
  /\ disk' = [i \in DOMAIN disk \cup PendingImages(comp) |->
                IF i \in DOMAIN disk THEN disk[i] ELSE Built[i]]
  /\ proc' = [proc EXCEPT ![p] = [Idle EXCEPT !.pc = "next", !.pull = pull,
                                              !.todo = {comp[s].image : s \in DOMAIN comp}]]
  /\ UNCHANGED <<records, view, unpacked, torn, faults, edits>>

\* A service without an image ends the command before anything is built.
BeginInvalid(p, comp) ==
  /\ At(p, "idle")
  /\ commands < MaxCommands /\ commands' = commands + 1
  /\ ~ValidateImages(comp)
  /\ UNCHANGED <<stores, proc, torn, faults, edits>>

----------------------------------------------------------------------------
(***************************************************************************)
(* EnsureImage.                                                            *)
(***************************************************************************)
\* The next image, in whatever order; a `pull` goes to the registry at once.
Turn(p) ==
  /\ At(p, "next")
  /\ \E image \in proc[p].todo :
       proc' = [proc EXCEPT ![p] =
         [proc[p] EXCEPT
           !.pc = IF proc[p].pull /\ ~IsLocal(image) THEN "pull" ELSE "probe",
           !.cur = image, !.todo = proc[p].todo \ {image},
           !.since = {disk[i] : i \in {image} \cap DOMAIN disk},
           !.disturbed = \E q \in Procs \ {p} : Importing(q) /\ RefOf(q) = Resolved(image)]]
  /\ UNCHANGED <<stores, torn, bounds>>

\* Mutant: what is there under the reference is taken for the artifact.
ProbePresent_AnyPath(p) ==
  /\ At(p, "probe")
  /\ RefOf(p) \in DOMAIN view
  /\ Done(p)
  /\ UNCHANGED <<stores, torn, bounds>>

\* Present: a registry image or a store path needs nothing more.
ProbePresent(p) ==
  /\ At(p, "probe")
  /\ ~IsLocal(proc[p].cur) \/ IsContentAddressed(proc[p].cur)
  /\ RefOf(p) \in DOMAIN view
  /\ Done(p)
  /\ UNCHANGED <<stores, torn, bounds>>

\* Absent, or another path, which is not even asked about; or the probe failed.
ProbeAbsent(p) ==
  /\ At(p, "probe")
  /\ IF proc[p].cur \in Paths \/ RefOf(p) \notin DOMAIN view THEN UNCHANGED faults
     ELSE faults < MaxFaults /\ faults' = faults + 1
  /\ Goes(p, IF IsLocal(proc[p].cur) THEN "parse" ELSE "pull")
  /\ UNCHANGED <<stores, torn, commands, edits>>

\* The CRI plugin pulls, unpacks and registers by itself.
Pull(p) ==
  /\ At(p, "pull")
  /\ LET image == proc[p].cur
     IN  /\ records' = Set(records, image, Registry[image])
         /\ view' = Set(view, image, Registry[image])
         /\ unpacked' = unpacked \cup {Registry[image]}
  /\ Done(p)
  /\ UNCHANGED <<disk, torn, bounds>>

\* ParseLocalImage and openOCIArtifact: the artifact as it is on disk now.  A
\* layout directory that is written while it is being tarred is left out.
ParseLocalImage(p) ==
  /\ At(p, "parse")
  /\ proc[p].cur \in DOMAIN disk
  /\ proc' = [proc EXCEPT ![p] = [@ EXCEPT !.pc = "import", !.index = disk[proc[p].cur]]]
  /\ UNCHANGED <<stores, torn, bounds>>

\* A store path that was collected, and that this process does not build.
ParseFails(p) ==
  /\ At(p, "parse")
  /\ proc[p].cur \notin DOMAIN disk
  /\ GoesIdle(p)
  /\ UNCHANGED <<stores, torn, bounds>>

\* The processes, with p replaced by pp; the others at its reference are disturbed.
Writes(p, pp) ==
  [q \in Procs |-> IF q = p THEN pp
                   ELSE [proc[q] EXCEPT !.disturbed = @ \/ RefOf(q) = RefOf(p)]]

\* Import: one record per manifest, one after the other under the same name.
ImportRecord(p) ==
  LET n == proc[p].written + 1
  IN  /\ At(p, "import") /\ n <= Len(proc[p].index)
      /\ records' = Set(records, RefOf(p), proc[p].index[n])
      /\ proc' = Writes(p, [proc[p] EXCEPT !.written = n])
      /\ UNCHANGED <<disk, view, unpacked, torn, bounds>>

ImportEnds(p) == At(p, "import") /\ proc[p].written = Len(proc[p].index)

Imported(p) ==
  /\ ImportEnds(p) /\ Selectable(proc[p].index)
  /\ Goes(p, "update")
  /\ UNCHANGED <<stores, torn, bounds>>

Tear(p) ==
  torn' = IF Importing(p) /\ proc[p].written > 0 THEN torn \cup {RefOf(p)} ELSE torn

\* No manifest for this platform: the command fails, the records stay.
SelectFails(p) ==
  /\ ImportEnds(p) /\ ~Selectable(proc[p].index)
  /\ Tear(p) /\ GoesIdle(p)
  /\ UNCHANGED <<stores, bounds>>

\* Mutant: the last record written stands.
Update_Omitted(p) ==
  /\ At(p, "update") /\ RefOf(p) \in DOMAIN records
  /\ Goes(p, "unpack")
  /\ UNCHANGED <<stores, torn, bounds>>

\* The record is pointed at the manifest for this platform.
Update(p) ==
  /\ At(p, "update") /\ RefOf(p) \in DOMAIN records
  /\ records' = Set(records, RefOf(p), SelectPlatformImage(proc[p].index))
  /\ proc' = Writes(p, [proc[p] EXCEPT !.pc = "unpack"])
  /\ UNCHANGED <<disk, view, unpacked, torn, bounds>>

Unpack(p) ==
  /\ At(p, "unpack")
  /\ unpacked' = unpacked \cup {SelectPlatformImage(proc[p].index)}
  /\ Goes(p, "await")
  /\ UNCHANGED <<disk, records, view, torn, bounds>>

\* awaitImage: any image under the reference will do ...
Await(p) ==
  /\ At(p, "await") /\ RefOf(p) \in DOMAIN view
  /\ Done(p)
  /\ UNCHANGED <<stores, torn, bounds>>

\* ... until the time is up.
AwaitTimesOut(p) ==
  /\ At(p, "await") /\ RefOf(p) \notin DOMAIN view
  /\ GoesIdle(p)
  /\ UNCHANGED <<stores, torn, bounds>>

Return(p) ==
  /\ At(p, "next") /\ proc[p].todo = {}
  /\ GoesIdle(p)
  /\ UNCHANGED <<stores, torn, bounds>>

\* A call fails, an Update because its record is gone, or the process is killed.
Ends(p) ==
  /\ ~At(p, "idle")
  /\ IF At(p, "update") /\ RefOf(p) \notin DOMAIN records THEN UNCHANGED faults
     ELSE faults < MaxFaults /\ faults' = faults + 1
  /\ Tear(p) /\ GoesIdle(p)
  /\ UNCHANGED <<stores, commands, edits>>

----------------------------------------------------------------------------
(***************************************************************************)
(* What happens meanwhile.                                                 *)
(***************************************************************************)
\* An event reaches the CRI plugin.
Settle(ref) ==
  /\ view' = IF ref \in DOMAIN records THEN Set(view, ref, records[ref]) ELSE Drop(view, ref)
  /\ view' # view
  /\ UNCHANGED <<disk, records, unpacked, proc, torn, bounds>>

\* An Image resource is deleted.
RemoveImage(ref) ==
  /\ edits < MaxEdits /\ edits' = edits + 1
  /\ records' = Drop(records, ref) /\ view' = Drop(view, ref)
  /\ proc' = [q \in Procs |-> [proc[q] EXCEPT !.disturbed = @ \/ RefOf(q) = ref]]
  /\ UNCHANGED <<disk, unpacked, torn, commands, faults>>

\* Another artifact is put at a path ...
Edit(path, idx) ==
  /\ edits < MaxEdits /\ edits' = edits + 1
  /\ disk' = [disk EXCEPT ![path] = idx]
  /\ proc' = [p \in Procs |-> IF proc[p].cur = path THEN [proc[p] EXCEPT !.since = @ \cup {idx}]
                              ELSE proc[p]]
  /\ UNCHANGED <<records, view, unpacked, torn, commands, faults>>

\* ... or a store path collected.
Collect(path) ==
  /\ edits < MaxEdits /\ edits' = edits + 1
  /\ path \in DOMAIN disk
  /\ disk' = Drop(disk, path)
  /\ UNCHANGED <<records, view, unpacked, proc, torn, commands, faults>>

Step(p) ==
  \/ Turn(p) \/ ProbePresent(p) \/ ProbeAbsent(p) \/ Pull(p)
  \/ ParseLocalImage(p) \/ ParseFails(p) \/ ImportRecord(p) \/ Imported(p) \/ SelectFails(p)
  \/ Update(p) \/ Unpack(p) \/ Await(p) \/ AwaitTimesOut(p) \/ Return(p) \/ Ends(p)

Next ==
  \/ \E p \in Procs, comp \in Comps, pull \in BOOLEAN : Begin(p, comp, pull)
  \/ \E p \in Procs, comp \in Comps : BeginInvalid(p, comp)
  \/ \E p \in Procs : Step(p)
  \/ \E ref \in DOMAIN records \cup DOMAIN view : Settle(ref)
  \/ \E ref \in DOMAIN records : RemoveImage(ref)
  \/ \E path \in Paths, idx \in Versions : Edit(path, idx)
  \/ \E path \in StorePaths : Collect(path)

Spec == Init /\ [][Next]_vars

----------------------------------------------------------------------------
(***************************************************************************)
(* Properties.                                                             *)
(***************************************************************************)
\* EnsureImage skips a store path whose reference is present, so the reference
\* has to stand for the artifact: once no import of it is under way, and none has
\* ended half-way, its record is the manifest for this platform, unpacked, in
\* whatever way two imports of it ran together.
PresentIsExact ==
  \A path \in StorePaths :
    LET ref == Ref[path]
    IN  /\ ref \in DOMAIN records \ torn
        /\ \A p \in Procs : Importing(p) => RefOf(p) # ref
        => /\ records[ref] = SelectPlatformImage(Built[path])
           /\ records[ref] \in unpacked

\* Another path is imported anew each time: when EnsureImage is done with it, and
\* nobody else wrote its reference meanwhile, the record is the manifest of an
\* artifact that stood there during the call, not one of an earlier `up`, nor one
\* of the other path with the same reference.
PathIsFresh ==
  [][\A p \in Procs :
       /\ proc[p].cur \in Paths /\ ~proc[p].disturbed
       /\ proc'[p].pc = "next"
       => \E idx \in proc[p].since : /\ Selectable(idx)
                                     /\ records[RefOf(p)] = SelectPlatformImage(idx)]_vars
=============================================================================
