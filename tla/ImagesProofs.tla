----------------------------- MODULE ImagesProofs -----------------------------
(***************************************************************************)
(* What is proved of Images for any processes, compositions and artifacts: *)
(* a store path's reference stands for its artifact unless an import of it *)
(* is under way or ended half-way, and another path's is never stale.      *)
(*                                                                         *)
(* The invariant follows one process from image to image (Stage), and says *)
(* of a store reference who will put it right if it is wrong (Settling).   *)
(***************************************************************************)
EXTENDS Images, TLAPS

Names == (UNION {{comp[s].image : s \in DOMAIN comp} : comp \in Comps}) \ {""}

Artifacts == {Built[a] : a \in StorePaths} \cup Versions

Processes ==
  [pc : {"idle", "next", "probe", "pull", "parse", "import", "update", "unpack", "await"},
   pull : BOOLEAN, todo : SUBSET Names, cur : Names \cup {""},
   index : Artifacts \cup {<<>>}, written : Nat,
   since : SUBSET Artifacts, disturbed : BOOLEAN]

\* A process in state r, with d on disk and recs the records.
Stage(r, d, recs) ==
  /\ r \in Processes
  /\ r.pc \in {"idle", "next"} => r.cur = ""
  /\ r.pc \in {"probe", "pull"} => r.cur \in Names
  /\ r.pc = "pull" => ~IsLocal(r.cur)
  /\ r.pc \in {"idle", "next", "probe", "pull", "parse"} => r.written = 0
  /\ r.pc \in {"probe", "parse"} /\ r.cur \in Paths => d[r.cur] \in r.since
  /\ r.pc \in {"parse", "import", "update", "unpack", "await"} => IsLocal(r.cur)
  /\ r.pc \in {"import", "update", "unpack", "await"} =>
       /\ r.index \in Artifacts
       /\ r.cur \in StorePaths => r.index = Built[r.cur]
       /\ r.cur \in Paths => r.index \in r.since
  /\ r.pc \in {"update", "unpack"} => r.written > 0
  /\ r.pc \in {"update", "unpack", "await"} => Selectable(r.index)
  /\ r.pc \in {"unpack", "await"} /\ r.cur \in Paths /\ ~r.disturbed =>
       /\ Ref[r.cur] \in DOMAIN recs
       /\ recs[Ref[r.cur]] = SelectPlatformImage(r.index)

DiskIsExact ==
  /\ Paths \subseteq DOMAIN disk /\ DOMAIN disk \subseteq Paths \cup StorePaths
  /\ \A i \in Paths : disk[i] \in Versions
  /\ \A i \in StorePaths \cap DOMAIN disk : disk[i] = Built[i]

Stages == proc = [p \in Procs |-> proc[p]] /\ \A p \in Procs : Stage(proc[p], disk, records)

Rewriting(ref) ==
  \E q \in Procs : /\ proc[q].pc \in {"import", "update"} /\ proc[q].written > 0
                   /\ RefOf(q) = ref

Unpacking(ref) == \E q \in Procs : proc[q].pc = "unpack" /\ RefOf(q) = ref

Settling ==
  \A path \in StorePaths :
    Ref[path] \in DOMAIN records \ torn =>
      \/ Rewriting(Ref[path])
      \/ /\ records[Ref[path]] = SelectPlatformImage(Built[path])
         /\ records[Ref[path]] \in unpacked \/ Unpacking(Ref[path])

ImagesInv == DiskIsExact /\ Stages /\ Settling

----------------------------------------------------------------------------
(***************************************************************************)
(* Artifacts, references and maps.                                         *)
(***************************************************************************)
LEMMA ArtifactLen ==
  ASSUME NEW idx \in Artifacts
  PROVE  /\ Len(idx) \in Nat /\ DOMAIN idx = 1..Len(idx)
         /\ Selectable(idx) => Len(idx) > 0
  <1>1. idx \in Seq(Range(idx))
    BY ArtifactsAreSequences DEF Artifacts
  <1>2. Len(idx) \in Nat /\ DOMAIN idx = 1..Len(idx)
    BY <1>1
  <1>3. Selectable(idx) => DOMAIN idx # {}
    BY DEF Selectable, Fits, Plain
  <1> QED
    BY <1>2, <1>3

\* Who writes a store path's reference builds the same artifact.
LEMMA SameStoreRef ==
  ASSUME NEW path \in StorePaths, NEW image, IsLocal(image), Resolved(image) = Ref[path]
  PROVE  image \in StorePaths /\ Built[image] = Built[path]
BY RefsApart, StoreRefsPinned DEF IsLocal, Resolved

\* A registry image is nobody's reference.
LEMMA RegistryRef ==
  ASSUME NEW image \in Names, ~IsLocal(image), NEW a \in StorePaths \cup Paths
  PROVE  image # Ref[a]
  <1>1. PICK comp \in Comps : \E s \in DOMAIN comp : image = comp[s].image
    BY DEF Names
  <1> QED
    BY <1>1, RefsApart DEF IsLocal

----------------------------------------------------------------------------
(***************************************************************************)
(* A process.                                                              *)
(***************************************************************************)
LEMMA StageOfIdle ==
  ASSUME NEW d, NEW recs
  PROVE  Stage(Idle, d, recs)
BY NamesApart DEF Stage, Processes, Idle, IsLocal

\* Between two images.
LEMMA StageOfNext ==
  ASSUME NEW r \in Processes, NEW d, NEW recs
  PROVE  Stage([Idle EXCEPT !.pc = "next", !.pull = r.pull, !.todo = r.todo], d, recs)
BY NamesApart DEF Stage, Processes, Idle, IsLocal

\* What others do to a process: its reference is written, or the disk changes.
LEMMA StageOfOthers ==
  ASSUME NEW r, NEW d, NEW recs, NEW e, NEW recs2, NEW b \in BOOLEAN, Stage(r, d, recs),
         r.disturbed => b,
         r.cur \in Paths => e[r.cur] = d[r.cur],
         r.cur \in Paths /\ ~b /\ Ref[r.cur] \in DOMAIN recs =>
           Ref[r.cur] \in DOMAIN recs2 /\ recs2[Ref[r.cur]] = recs[Ref[r.cur]]
  PROVE  Stage([r EXCEPT !.disturbed = b], e, recs2)
  <1> DEFINE q == [r EXCEPT !.disturbed = b]
  <1>1. r \in Processes
    BY DEF Stage
  <1>2. /\ q \in Processes /\ q.pc = r.pc /\ q.cur = r.cur /\ q.written = r.written
        /\ q.index = r.index /\ q.since = r.since /\ q.disturbed = b
    BY <1>1 DEF Processes
  <1> HIDE DEF q
  <1>3. Stage(q, e, recs2)
    BY <1>2 DEF Stage
  <1> QED
    BY <1>3 DEF q

LEMMA StageUndisturbed ==
  ASSUME NEW r, NEW d, NEW recs, NEW e, NEW recs2, Stage(r, d, recs),
         r.cur \in Paths => e[r.cur] = d[r.cur],
         r.cur \in Paths /\ Ref[r.cur] \in DOMAIN recs =>
           Ref[r.cur] \in DOMAIN recs2 /\ recs2[Ref[r.cur]] = recs[Ref[r.cur]]
  PROVE  Stage(r, e, recs2)
BY DEF Stage

----------------------------------------------------------------------------
(***************************************************************************)
(* The invariant is inductive.                                             *)
(***************************************************************************)
LEMMA ImagesInvInit ==
  ASSUME Init
  PROVE  ImagesInv
  <1> USE DEF Init
  <1>1. DiskIsExact
    BY NamesApart DEF DiskIsExact
  <1>2. Stages
    BY StageOfIdle DEF Stages
  <1>3. Settling
    BY DEF Settling
  <1> QED
    BY <1>1, <1>2, <1>3 DEF ImagesInv

\* A process moves on, and no store changes: what it leaves wrong is torn.
LEMMA ProcessMoves ==
  ASSUME ImagesInv, NEW p \in Procs, NEW r, Stage(r, disk, records),
         proc' = [proc EXCEPT ![p] = r],
         UNCHANGED <<disk, records, unpacked>>,
         torn \subseteq torn',
         proc[p].pc \in {"import", "update"} /\ proc[p].written > 0 =>
           \/ RefOf(p) \in torn'
           \/ r.pc \in {"import", "update"} /\ r.written > 0 /\ r.cur = proc[p].cur,
         proc[p].pc = "unpack" => RefOf(p) \in torn'
  PROVE  ImagesInv'
  <1> USE DEF ImagesInv
  <1>1. proc'[p] = r /\ \A q \in Procs : q # p => proc'[q] = proc[q]
    BY DEF Stages
  <1>2. DiskIsExact'
    BY DEF DiskIsExact
  <1>3. Stages'
    BY <1>1 DEF Stages
  <1>4. Settling'
    <2> SUFFICES ASSUME NEW path \in StorePaths, Ref[path] \in DOMAIN records \ torn'
                 PROVE  \/ Rewriting(Ref[path])'
                        \/ /\ records[Ref[path]] = SelectPlatformImage(Built[path])
                           /\ records[Ref[path]] \in unpacked \/ Unpacking(Ref[path])'
      BY DEF Settling
    <2>1. Rewriting(Ref[path]) => Rewriting(Ref[path])'
      BY <1>1 DEF Rewriting, RefOf
    <2>2. Unpacking(Ref[path]) => Unpacking(Ref[path])'
      BY <1>1 DEF Unpacking, RefOf
    <2> QED
      BY <2>1, <2>2 DEF Settling
  <1> QED
    BY <1>2, <1>3, <1>4

\* What a process at a known place is.
LEMMA StageOf ==
  ASSUME ImagesInv, NEW p \in Procs
  PROVE  Stage(proc[p], disk, records) /\ proc[p] \in Processes
BY DEF ImagesInv, Stages, Stage

LEMMA TurnStep ==
  ASSUME ImagesInv, NEW p \in Procs, Turn(p)
  PROVE  ImagesInv'
  <1> USE DEF Turn, At, stores
  <1> DEFINE pc2(image) == IF proc[p].pull /\ ~IsLocal(image) THEN "pull" ELSE "probe"
             since2(image) == {disk[i] : i \in {image} \cap DOMAIN disk}
             b(image) == \E q \in Procs \ {p} : Importing(q) /\ RefOf(q) = Resolved(image)
             r(image) == [proc[p] EXCEPT !.pc = pc2(image), !.cur = image,
                                         !.todo = proc[p].todo \ {image},
                                         !.since = since2(image), !.disturbed = b(image)]
  <1>1. PICK image \in proc[p].todo : proc' = [proc EXCEPT ![p] = r(image)]
    OBVIOUS
  <1>2. UNCHANGED <<disk, records, unpacked, torn>> /\ proc[p].pc = "next"
    OBVIOUS
  <1> HIDE DEF Turn
  <1>3. Stage(proc[p], disk, records) /\ proc[p] \in Processes
    BY StageOf
  <1>4. image \in Names
    BY <1>3 DEF Processes
  <1>5. pc2(image) \in {"pull", "probe"} /\ (pc2(image) = "pull" => ~IsLocal(image))
    OBVIOUS
  <1>6. b(image) \in BOOLEAN
    BY Zenon
  <1>7. since2(image) \in SUBSET Artifacts /\ (image \in Paths => disk[image] \in since2(image))
    <2>1. \A i \in {image} \cap DOMAIN disk : disk[i] \in Artifacts
      <3>1. image \in Paths \cup StorePaths \/ image \notin DOMAIN disk
        BY DEF ImagesInv, DiskIsExact
      <3> QED
        BY <3>1 DEF ImagesInv, DiskIsExact, Artifacts
    <2> QED
      BY <2>1 DEF ImagesInv, DiskIsExact
  <1> HIDE DEF pc2, since2, b
  <1>8. /\ r(image) \in Processes /\ r(image).pc = pc2(image) /\ r(image).cur = image
        /\ r(image).since = since2(image) /\ r(image).written = proc[p].written
    BY <1>3, <1>4, <1>5, <1>6, <1>7 DEF Processes
  <1>9. Stage(r(image), disk, records)
    BY <1>2, <1>3, <1>4, <1>5, <1>7, <1>8 DEF Stage
  <1> HIDE DEF r
  <1> QED
    BY <1>1, <1>2, <1>9, ProcessMoves

\* EnsureImage is done, or the process is.
LEMMA NextStep ==
  ASSUME ImagesInv, NEW p \in Procs,
         ProbePresent(p) \/ Await(p) \/ AwaitTimesOut(p) \/ ParseFails(p) \/ Return(p)
  PROVE  ImagesInv'
  <1>1. /\ UNCHANGED <<disk, records, unpacked, torn>>
        /\ proc[p].pc \in {"probe", "await", "parse", "next"}
        /\ Done(p) \/ GoesIdle(p)
    BY DEF ProbePresent, Await, AwaitTimesOut, ParseFails, Return, At, stores
  <1>2. proc[p] \in Processes
    BY StageOf
  <1>3. CASE Done(p)
    BY <1>1, <1>2, <1>3, StageOfNext, ProcessMoves DEF Done
  <1>4. CASE GoesIdle(p)
    BY <1>1, <1>4, StageOfIdle, ProcessMoves DEF GoesIdle
  <1> QED
    BY <1>1, <1>3, <1>4

LEMMA ProbeAbsentStep ==
  ASSUME ImagesInv, NEW p \in Procs, ProbeAbsent(p)
  PROVE  ImagesInv'
  <1> DEFINE pc2 == IF IsLocal(proc[p].cur) THEN "parse" ELSE "pull"
             r == [proc[p] EXCEPT !.pc = pc2]
  <1>1. /\ UNCHANGED <<disk, records, unpacked, torn>> /\ proc[p].pc = "probe"
        /\ proc' = [proc EXCEPT ![p] = r]
    BY DEF ProbeAbsent, At, Goes, stores
  <1>2. Stage(proc[p], disk, records) /\ proc[p] \in Processes
    BY StageOf
  <1>3. /\ r \in Processes /\ r.pc = pc2 /\ r.cur = proc[p].cur /\ r.since = proc[p].since
        /\ r.written = proc[p].written
    BY <1>2 DEF Processes
  <1>4. IsLocal(proc[p].cur) \/ proc[p].cur \in Names
    BY <1>1, <1>2 DEF Stage, Processes
  <1>5. Stage(r, disk, records)
    BY <1>1, <1>2, <1>3, <1>4 DEF Stage
  <1> HIDE DEF r
  <1> QED
    BY <1>1, <1>5, ProcessMoves

LEMMA ParseStep ==
  ASSUME ImagesInv, NEW p \in Procs, ParseLocalImage(p)
  PROVE  ImagesInv'
  <1> DEFINE c == proc[p].cur
             r == [proc[p] EXCEPT !.pc = "import", !.index = disk[c]]
  <1>1. /\ UNCHANGED <<disk, records, unpacked, torn>> /\ proc[p].pc = "parse"
        /\ c \in DOMAIN disk
        /\ proc' = [proc EXCEPT ![p] = r]
    BY DEF ParseLocalImage, At, stores
  <1>2. Stage(proc[p], disk, records) /\ proc[p] \in Processes
    BY StageOf
  <1>3. IsLocal(c) /\ (c \in StorePaths => disk[c] = Built[c]) /\ (c \in Paths => disk[c] \in proc[p].since)
    BY <1>1, <1>2 DEF Stage, ImagesInv, DiskIsExact
  <1>4. disk[c] \in Artifacts
    BY <1>1, <1>3 DEF IsLocal, ImagesInv, DiskIsExact, Artifacts
  <1>5. /\ r \in Processes /\ r.pc = "import" /\ r.cur = c /\ r.since = proc[p].since
        /\ r.index = disk[c]
    BY <1>2, <1>4 DEF Processes
  <1>6. Stage(r, disk, records)
    BY <1>3, <1>4, <1>5 DEF Stage
  <1> HIDE DEF r
  <1> QED
    BY <1>1, <1>6, ProcessMoves

\* All manifests have their record, so that there is one.
LEMMA ImportedStep ==
  ASSUME ImagesInv, NEW p \in Procs, Imported(p)
  PROVE  ImagesInv'
  <1> DEFINE r == [proc[p] EXCEPT !.pc = "update"]
  <1>1. /\ UNCHANGED <<disk, records, unpacked, torn>> /\ proc[p].pc = "import"
        /\ proc[p].written = Len(proc[p].index) /\ Selectable(proc[p].index)
        /\ proc' = [proc EXCEPT ![p] = r]
    BY DEF Imported, ImportEnds, At, Goes, stores
  <1>2. Stage(proc[p], disk, records) /\ proc[p] \in Processes
    BY StageOf
  <1>3. proc[p].index \in Artifacts
    BY <1>1, <1>2 DEF Stage
  <1>4. proc[p].written > 0
    BY <1>1, <1>3, ArtifactLen
  <1>5. /\ r \in Processes /\ r.pc = "update" /\ r.cur = proc[p].cur /\ r.since = proc[p].since
        /\ r.index = proc[p].index /\ r.written = proc[p].written
    BY <1>2 DEF Processes
  <1>6. Stage(r, disk, records)
    BY <1>1, <1>2, <1>4, <1>5 DEF Stage
  <1> HIDE DEF r
  <1> QED
    BY <1>1, <1>4, <1>5, <1>6, ProcessMoves

\* An import that ends early tears its reference.
LEMMA EndsStep ==
  ASSUME ImagesInv, NEW p \in Procs, SelectFails(p) \/ Ends(p)
  PROVE  ImagesInv'
  <1>1. /\ UNCHANGED <<disk, records, unpacked>> /\ Tear(p)
        /\ proc' = [proc EXCEPT ![p] = Idle]
    BY DEF SelectFails, Ends, GoesIdle, stores
  <1>2. Stage(proc[p], disk, records) /\ proc[p] \in Processes
    BY StageOf
  <1>3. torn \subseteq torn' /\ (Importing(p) /\ proc[p].written > 0 => RefOf(p) \in torn')
    BY <1>1 DEF Tear
  <1>4. proc[p].pc = "unpack" => Importing(p) /\ proc[p].written > 0
    BY <1>2 DEF Stage, Importing
  <1> QED
    BY <1>1, <1>3, <1>4, StageOfIdle, ProcessMoves DEF Importing

----------------------------------------------------------------------------
\* A pull writes its own reference only.
LEMMA PullStep ==
  ASSUME ImagesInv, NEW p \in Procs, Pull(p)
  PROVE  ImagesInv'
  <1> USE DEF ImagesInv
  <1> DEFINE c == proc[p].cur
             r == [Idle EXCEPT !.pc = "next", !.pull = proc[p].pull, !.todo = proc[p].todo]
  <1>1. /\ proc[p].pc = "pull" /\ UNCHANGED <<disk, torn>>
        /\ records' = Set(records, c, Registry[c]) /\ unpacked \subseteq unpacked'
        /\ proc' = [proc EXCEPT ![p] = r]
    BY DEF Pull, At, Done
  <1>2. Stage(proc[p], disk, records) /\ proc[p] \in Processes
    BY StageOf
  <1>3. \A a \in StorePaths \cup Paths : Ref[a] # c
    BY <1>1, <1>2, RegistryRef DEF Stage
  <1>4. \A a \in StorePaths \cup Paths :
          /\ Ref[a] \in DOMAIN records' <=> Ref[a] \in DOMAIN records
          /\ Ref[a] \in DOMAIN records => records'[Ref[a]] = records[Ref[a]]
    BY <1>1, <1>3 DEF Set
  <1>5. proc'[p] = r /\ \A q \in Procs : q # p => proc'[q] = proc[q]
    BY <1>1 DEF Stages
  <1>6. Stage(r, disk, records')
    BY <1>2, StageOfNext
  <1>7. r.pc = "next"
    BY DEF Idle
  <1> HIDE DEF r
  <1>8. DiskIsExact'
    BY <1>1 DEF DiskIsExact
  <1>9. Stages'
    <2>1. ASSUME NEW q \in Procs, q # p PROVE Stage(proc[q], disk, records')
      BY <1>4, StageOf, StageUndisturbed
    <2> QED
      BY <1>1, <1>5, <1>6, <2>1 DEF Stages
  <1>10. Settling'
    <2> SUFFICES ASSUME NEW path \in StorePaths, Ref[path] \in DOMAIN records' \ torn'
                 PROVE  \/ Rewriting(Ref[path])'
                        \/ /\ records'[Ref[path]] = SelectPlatformImage(Built[path])
                           /\ records'[Ref[path]] \in unpacked' \/ Unpacking(Ref[path])'
      BY DEF Settling
    <2>1. Rewriting(Ref[path]) => Rewriting(Ref[path])'
      BY <1>1, <1>5 DEF Rewriting, RefOf
    <2>2. Unpacking(Ref[path]) => Unpacking(Ref[path])'
      BY <1>1, <1>5 DEF Unpacking, RefOf
    <2> QED
      BY <1>1, <1>4, <2>1, <2>2 DEF Settling
  <1> QED
    BY <1>8, <1>9, <1>10

\* The others when p writes its reference.
LEMMA WritesOthers ==
  ASSUME ImagesInv, NEW p \in Procs, NEW r, NEW v,
         proc' = Writes(p, r), records' = Set(records, RefOf(p), v),
         r.cur = proc[p].cur, IsLocal(r.cur)
  PROVE  /\ proc'[p] = r /\ proc' = [q \in Procs |-> proc'[q]]
         /\ \A q \in Procs : q # p =>
              /\ Stage(proc'[q], disk, records')
              /\ proc'[q].pc = proc[q].pc /\ proc'[q].cur = proc[q].cur
              /\ proc'[q].written = proc[q].written
         /\ RefOf(p)' = RefOf(p)
  <1>1. proc'[p] = r /\ proc' = [q \in Procs |-> proc'[q]]
    BY DEF Writes
  <1>2. ASSUME NEW q \in Procs, q # p
        PROVE  /\ Stage(proc'[q], disk, records')
               /\ proc'[q].pc = proc[q].pc /\ proc'[q].cur = proc[q].cur
               /\ proc'[q].written = proc[q].written
    <2> DEFINE b == proc[q].disturbed \/ RefOf(q) = RefOf(p)
    <2>1. Stage(proc[q], disk, records) /\ proc[q] \in Processes
      BY StageOf
    <2>2. proc'[q] = [proc[q] EXCEPT !.disturbed = b]
      BY <1>2 DEF Writes
    <2>3. b \in BOOLEAN /\ (proc[q].disturbed => b)
      OBVIOUS
    <2>4. proc[q].cur \in Paths /\ ~b => Ref[proc[q].cur] # RefOf(p)
      BY DEF RefOf, Resolved, IsLocal
    <2>5. proc[q].cur \in Paths /\ ~b /\ Ref[proc[q].cur] \in DOMAIN records =>
            /\ Ref[proc[q].cur] \in DOMAIN records'
            /\ records'[Ref[proc[q].cur]] = records[Ref[proc[q].cur]]
      BY <2>4 DEF Set
    <2> HIDE DEF b
    <2>6. Stage([proc[q] EXCEPT !.disturbed = b], disk, records')
      BY <2>1, <2>3, <2>5, StageOfOthers
    <2> QED
      BY <2>1, <2>2, <2>6 DEF Processes
  <1>3. RefOf(p)' = RefOf(p)
    BY <1>1 DEF RefOf
  <1> QED
    BY <1>1, <1>2, <1>3

LEMMA ImportRecordStep ==
  ASSUME ImagesInv, NEW p \in Procs, ImportRecord(p)
  PROVE  ImagesInv'
  <1> USE DEF ImagesInv
  <1> DEFINE n == proc[p].written + 1
             r == [proc[p] EXCEPT !.written = n]
  <1>1. /\ proc[p].pc = "import" /\ UNCHANGED <<disk, unpacked, torn>>
        /\ records' = Set(records, RefOf(p), proc[p].index[n])
        /\ proc' = Writes(p, r)
    BY DEF ImportRecord, At
  <1>2. Stage(proc[p], disk, records) /\ proc[p] \in Processes
    BY StageOf
  <1>3. /\ r \in Processes /\ r.pc = "import" /\ r.cur = proc[p].cur /\ r.since = proc[p].since
        /\ r.index = proc[p].index /\ r.written > 0
    <2>1. n \in Nat /\ n > 0
      <3>1. proc[p].written \in Nat
        BY <1>2 DEF Processes
      <3> QED
        BY <3>1
    <2> HIDE DEF n
    <2> QED
      BY <1>1, <1>2, <2>1 DEF Processes
  <1>4. Stage(r, disk, records') /\ IsLocal(r.cur)
    BY <1>1, <1>2, <1>3 DEF Stage
  <1> HIDE DEF r
  <1>5. /\ proc'[p] = r /\ proc' = [q \in Procs |-> proc'[q]]
        /\ \A q \in Procs : q # p =>
             /\ Stage(proc'[q], disk, records')
             /\ proc'[q].pc = proc[q].pc /\ proc'[q].cur = proc[q].cur
             /\ proc'[q].written = proc[q].written
        /\ RefOf(p)' = RefOf(p)
    BY <1>1, <1>3, <1>4, WritesOthers
  <1>6. DiskIsExact' /\ Stages'
    BY <1>1, <1>4, <1>5 DEF DiskIsExact, Stages
  <1>7. Settling'
    <2> SUFFICES ASSUME NEW path \in StorePaths, Ref[path] \in DOMAIN records' \ torn'
                 PROVE  \/ Rewriting(Ref[path])'
                        \/ /\ records'[Ref[path]] = SelectPlatformImage(Built[path])
                           /\ records'[Ref[path]] \in unpacked' \/ Unpacking(Ref[path])'
      BY DEF Settling
    <2>1. CASE Ref[path] = RefOf(p)
      BY <1>3, <1>5, <2>1 DEF Rewriting
    <2>2. CASE Ref[path] # RefOf(p)
      <3>1. Rewriting(Ref[path]) => Rewriting(Ref[path])'
        BY <1>5, <2>2 DEF Rewriting, RefOf
      <3>2. Unpacking(Ref[path]) => Unpacking(Ref[path])'
        BY <1>5, <2>2 DEF Unpacking, RefOf
      <3>3. Ref[path] \in DOMAIN records /\ records'[Ref[path]] = records[Ref[path]]
        BY <1>1, <2>2 DEF Set
      <3> QED
        BY <1>1, <3>1, <3>2, <3>3 DEF Settling
    <2> QED
      BY <2>1, <2>2
  <1> QED
    BY <1>6, <1>7

\* Update puts the reference right.
LEMMA UpdateStep ==
  ASSUME ImagesInv, NEW p \in Procs, Update(p)
  PROVE  ImagesInv'
  <1> USE DEF ImagesInv
  <1> DEFINE r == [proc[p] EXCEPT !.pc = "unpack"]
             m == SelectPlatformImage(proc[p].index)
  <1>1. /\ proc[p].pc = "update" /\ UNCHANGED <<disk, unpacked, torn>>
        /\ records' = Set(records, RefOf(p), m)
        /\ proc' = Writes(p, r)
    BY DEF Update, At
  <1>2. Stage(proc[p], disk, records) /\ proc[p] \in Processes
    BY StageOf
  <1>3. /\ r \in Processes /\ r.pc = "unpack" /\ r.cur = proc[p].cur /\ r.since = proc[p].since
        /\ r.index = proc[p].index /\ r.written = proc[p].written
    BY <1>2 DEF Processes
  <1>4. RefOf(p) \in DOMAIN records' /\ records'[RefOf(p)] = m
    BY <1>1 DEF Set
  <1>5. IsLocal(r.cur) /\ (r.cur \in Paths => Ref[r.cur] = RefOf(p))
    BY <1>1, <1>2, <1>3 DEF Stage, RefOf, Resolved, IsLocal
  <1>6. Stage(r, disk, records')
    BY <1>1, <1>2, <1>3, <1>4, <1>5 DEF Stage
  <1> HIDE DEF r
  <1>7. /\ proc'[p] = r /\ proc' = [q \in Procs |-> proc'[q]]
        /\ \A q \in Procs : q # p =>
             /\ Stage(proc'[q], disk, records')
             /\ proc'[q].pc = proc[q].pc /\ proc'[q].cur = proc[q].cur
             /\ proc'[q].written = proc[q].written
        /\ RefOf(p)' = RefOf(p)
    BY <1>1, <1>3, <1>5, WritesOthers
  <1>8. DiskIsExact' /\ Stages'
    BY <1>1, <1>6, <1>7 DEF DiskIsExact, Stages
  <1>9. Settling'
    <2> SUFFICES ASSUME NEW path \in StorePaths, Ref[path] \in DOMAIN records' \ torn'
                 PROVE  \/ Rewriting(Ref[path])'
                        \/ /\ records'[Ref[path]] = SelectPlatformImage(Built[path])
                           /\ records'[Ref[path]] \in unpacked' \/ Unpacking(Ref[path])'
      BY DEF Settling
    <2>1. CASE Ref[path] = RefOf(p)
      <3>1. Unpacking(Ref[path])'
        BY <1>3, <1>7, <2>1 DEF Unpacking
      <3>2. r.cur \in StorePaths /\ Built[r.cur] = Built[path]
        BY <1>3, <1>5, <2>1, SameStoreRef DEF RefOf
      <3>3. proc[p].index = Built[path]
        BY <1>1, <1>2, <1>3, <3>2 DEF Stage
      <3> QED
        BY <1>4, <2>1, <3>1, <3>3
    <2>2. CASE Ref[path] # RefOf(p)
      <3>1. Rewriting(Ref[path]) => Rewriting(Ref[path])'
        BY <1>7, <2>2 DEF Rewriting, RefOf
      <3>2. Unpacking(Ref[path]) => Unpacking(Ref[path])'
        BY <1>7, <2>2 DEF Unpacking, RefOf
      <3>3. Ref[path] \in DOMAIN records /\ records'[Ref[path]] = records[Ref[path]]
        BY <1>1, <2>2 DEF Set
      <3> QED
        BY <1>1, <3>1, <3>2, <3>3 DEF Settling
    <2> QED
      BY <2>1, <2>2
  <1> QED
    BY <1>8, <1>9

\* ... and Unpack makes it usable.
LEMMA UnpackStep ==
  ASSUME ImagesInv, NEW p \in Procs, Unpack(p)
  PROVE  ImagesInv'
  <1> USE DEF ImagesInv
  <1> DEFINE r == [proc[p] EXCEPT !.pc = "await"]
  <1>1. /\ proc[p].pc = "unpack" /\ UNCHANGED <<disk, records, torn>>
        /\ unpacked' = unpacked \cup {SelectPlatformImage(proc[p].index)}
        /\ proc' = [proc EXCEPT ![p] = r]
    BY DEF Unpack, At, Goes
  <1>2. Stage(proc[p], disk, records) /\ proc[p] \in Processes
    BY StageOf
  <1>3. /\ r \in Processes /\ r.pc = "await" /\ r.cur = proc[p].cur /\ r.since = proc[p].since
        /\ r.index = proc[p].index /\ r.disturbed = proc[p].disturbed
    BY <1>2 DEF Processes
  <1>4. Stage(r, disk, records)
    BY <1>1, <1>2, <1>3 DEF Stage
  <1>5. proc'[p] = r /\ \A q \in Procs : q # p => proc'[q] = proc[q]
    BY <1>1 DEF Stages
  <1> HIDE DEF r
  <1>6. DiskIsExact' /\ Stages'
    BY <1>1, <1>4, <1>5 DEF DiskIsExact, Stages
  <1>7. Settling'
    <2> SUFFICES ASSUME NEW path \in StorePaths, Ref[path] \in DOMAIN records \ torn
                 PROVE  \/ Rewriting(Ref[path])'
                        \/ /\ records[Ref[path]] = SelectPlatformImage(Built[path])
                           /\ records[Ref[path]] \in unpacked' \/ Unpacking(Ref[path])'
      BY <1>1 DEF Settling
    <2>1. Rewriting(Ref[path]) => Rewriting(Ref[path])'
      BY <1>1, <1>5 DEF Rewriting, RefOf
    <2>2. CASE RefOf(p) = Ref[path]
      <3>1. IsLocal(proc[p].cur)
        BY <1>1, <1>2 DEF Stage
      <3>2. proc[p].cur \in StorePaths /\ Built[proc[p].cur] = Built[path]
        BY <2>2, <3>1, SameStoreRef DEF RefOf
      <3>3. proc[p].index = Built[path]
        BY <1>1, <1>2, <3>2 DEF Stage
      <3> QED
        BY <1>1, <2>1, <3>3 DEF Settling
    <2>3. CASE RefOf(p) # Ref[path]
      <3>1. Unpacking(Ref[path]) => Unpacking(Ref[path])'
        BY <1>5, <2>3 DEF Unpacking, RefOf
      <3> QED
        BY <1>1, <2>1, <3>1 DEF Settling
    <2> QED
      BY <2>2, <2>3
  <1> QED
    BY <1>6, <1>7

----------------------------------------------------------------------------
\* A command begins; the missing store paths are built.
LEMMA BeginStep ==
  ASSUME ImagesInv, NEW p \in Procs, NEW comp \in Comps, NEW pull \in BOOLEAN,
         Begin(p, comp, pull)
  PROVE  ImagesInv'
  <1> USE DEF ImagesInv
  <1> DEFINE r == [Idle EXCEPT !.pc = "next", !.pull = pull,
                               !.todo = {comp[s].image : s \in DOMAIN comp}]
  <1>1. /\ proc[p].pc = "idle" /\ UNCHANGED <<records, unpacked, torn>>
        /\ disk' = [i \in DOMAIN disk \cup PendingImages(comp) |->
                      IF i \in DOMAIN disk THEN disk[i] ELSE Built[i]]
        /\ proc' = [proc EXCEPT ![p] = r]
    BY DEF Begin, At
  <1>2. {comp[s].image : s \in DOMAIN comp} \subseteq Names
    BY DEF Begin, ValidateImages, Names
  <1>3. r \in Processes /\ r.pc = "next" /\ r.cur = "" /\ r.written = 0
    BY <1>2 DEF Processes, Idle
  <1>4. Stage(r, disk', records)
    BY <1>3, NamesApart DEF Stage
  <1>5. PendingImages(comp) \subseteq StorePaths
    BY DEF PendingImages
  <1>6. proc'[p] = r /\ \A q \in Procs : q # p => proc'[q] = proc[q]
    BY <1>1 DEF Stages
  <1> HIDE DEF r
  <1>7. /\ DOMAIN disk' = DOMAIN disk \cup PendingImages(comp)
        /\ \A i \in DOMAIN disk : disk'[i] = disk[i]
        /\ \A i \in PendingImages(comp) : i \notin DOMAIN disk => disk'[i] = Built[i]
    BY <1>1
  <1>8. DiskIsExact'
    BY <1>5, <1>7 DEF DiskIsExact
  <1>9. Stages'
    <2>1. ASSUME NEW q \in Procs, q # p PROVE Stage(proc[q], disk', records)
      <3>1. proc[q].cur \in Paths => disk'[proc[q].cur] = disk[proc[q].cur]
        BY <1>7 DEF DiskIsExact
      <3> QED
        BY <3>1, StageOf, StageUndisturbed
    <2> QED
      BY <1>1, <1>4, <1>6, <2>1 DEF Stages
  <1>10. Settling'
    <2> SUFFICES ASSUME NEW path \in StorePaths, Ref[path] \in DOMAIN records \ torn
                 PROVE  \/ Rewriting(Ref[path])'
                        \/ /\ records[Ref[path]] = SelectPlatformImage(Built[path])
                           /\ records[Ref[path]] \in unpacked \/ Unpacking(Ref[path])'
      BY <1>1 DEF Settling
    <2>1. Rewriting(Ref[path]) => Rewriting(Ref[path])'
      BY <1>1, <1>6 DEF Rewriting, RefOf
    <2>2. Unpacking(Ref[path]) => Unpacking(Ref[path])'
      BY <1>1, <1>6 DEF Unpacking, RefOf
    <2> QED
      BY <2>1, <2>2 DEF Settling
  <1> QED
    BY <1>8, <1>9, <1>10

\* Steps that change neither the disk nor the records nor a process.
LEMMA QuietStep ==
  ASSUME ImagesInv, UNCHANGED <<disk, records, unpacked, proc, torn>>
  PROVE  ImagesInv'
  <1> USE DEF ImagesInv
  <1>1. DiskIsExact' /\ Stages'
    BY DEF DiskIsExact, Stages
  <1>2. Settling'
    BY DEF Settling, Rewriting, Unpacking, RefOf
  <1> QED
    BY <1>1, <1>2

\* A record is dropped; whoever counted on it is disturbed.
LEMMA RemoveImageStep ==
  ASSUME ImagesInv, NEW ref \in DOMAIN records, RemoveImage(ref)
  PROVE  ImagesInv'
  <1> USE DEF ImagesInv
  <1>1. /\ UNCHANGED <<disk, unpacked, torn>> /\ records' = Drop(records, ref)
        /\ proc' = [q \in Procs |-> [proc[q] EXCEPT !.disturbed = @ \/ RefOf(q) = ref]]
    BY DEF RemoveImage
  <1>2. /\ DOMAIN records' = DOMAIN records \ {ref}
        /\ \A y \in DOMAIN records : y # ref => records'[y] = records[y]
    BY <1>1 DEF Drop, Restrict
  <1>3. ASSUME NEW q \in Procs
        PROVE  /\ Stage(proc'[q], disk, records')
               /\ proc'[q].pc = proc[q].pc /\ proc'[q].cur = proc[q].cur
               /\ proc'[q].written = proc[q].written
    <2> DEFINE b == proc[q].disturbed \/ RefOf(q) = ref
    <2>1. Stage(proc[q], disk, records) /\ proc[q] \in Processes
      BY StageOf
    <2>2. proc'[q] = [proc[q] EXCEPT !.disturbed = b]
      BY <1>1
    <2>3. b \in BOOLEAN /\ (proc[q].disturbed => b)
      OBVIOUS
    <2>4. proc[q].cur \in Paths /\ ~b => Ref[proc[q].cur] # ref
      BY DEF RefOf, Resolved, IsLocal
    <2> HIDE DEF b
    <2>5. Stage([proc[q] EXCEPT !.disturbed = b], disk, records')
      BY <1>2, <2>1, <2>3, <2>4, StageOfOthers
    <2> QED
      BY <2>1, <2>2, <2>5 DEF Processes
  <1>4. DiskIsExact' /\ Stages'
    BY <1>1, <1>3 DEF DiskIsExact, Stages
  <1>5. Settling'
    <2> SUFFICES ASSUME NEW path \in StorePaths, Ref[path] \in DOMAIN records' \ torn'
                 PROVE  \/ Rewriting(Ref[path])'
                        \/ /\ records'[Ref[path]] = SelectPlatformImage(Built[path])
                           /\ records'[Ref[path]] \in unpacked' \/ Unpacking(Ref[path])'
      BY DEF Settling
    <2>1. Rewriting(Ref[path]) => Rewriting(Ref[path])'
      BY <1>3 DEF Rewriting, RefOf
    <2>2. Unpacking(Ref[path]) => Unpacking(Ref[path])'
      BY <1>3 DEF Unpacking, RefOf
    <2> QED
      BY <1>1, <1>2, <2>1, <2>2 DEF Settling
  <1> QED
    BY <1>4, <1>5

\* Another artifact at a path has stood there since.
LEMMA EditStep ==
  ASSUME ImagesInv, NEW path \in Paths, NEW idx \in Versions, Edit(path, idx)
  PROVE  ImagesInv'
  <1> USE DEF ImagesInv
  <1>1. /\ UNCHANGED <<records, unpacked, torn>> /\ disk' = [disk EXCEPT ![path] = idx]
        /\ proc' = [p \in Procs |-> IF proc[p].cur = path
                                    THEN [proc[p] EXCEPT !.since = @ \cup {idx}] ELSE proc[p]]
    BY DEF Edit
  <1>2. /\ DOMAIN disk' = DOMAIN disk /\ disk'[path] = idx
        /\ \A i \in DOMAIN disk : i # path => disk'[i] = disk[i]
    BY <1>1 DEF DiskIsExact
  <1>3. DiskIsExact'
    BY <1>2, NamesApart DEF DiskIsExact
  <1>4. ASSUME NEW q \in Procs
        PROVE  /\ Stage(proc'[q], disk', records)
               /\ proc'[q].pc = proc[q].pc /\ proc'[q].cur = proc[q].cur
               /\ proc'[q].written = proc[q].written
    <2>1. Stage(proc[q], disk, records) /\ proc[q] \in Processes
      BY StageOf
    <2>2. CASE proc[q].cur = path
      <3> DEFINE r == [proc[q] EXCEPT !.since = proc[q].since \cup {idx}]
      <3>1. proc'[q] = r
        BY <1>1, <2>2
      <3>2. /\ r \in Processes /\ r.pc = proc[q].pc /\ r.cur = proc[q].cur
            /\ r.written = proc[q].written /\ r.index = proc[q].index
            /\ r.disturbed = proc[q].disturbed /\ r.since = proc[q].since \cup {idx}
        BY <2>1 DEF Processes, Artifacts
      <3> HIDE DEF r
      <3>3. Stage(r, disk', records)
        BY <1>2, <2>1, <2>2, <3>2 DEF Stage
      <3> QED
        BY <3>1, <3>2, <3>3
    <2>3. CASE proc[q].cur # path
      <3>1. proc'[q] = proc[q]
        BY <1>1, <2>3
      <3>2. proc[q].cur \in Paths => disk'[proc[q].cur] = disk[proc[q].cur]
        BY <1>2, <2>3 DEF DiskIsExact
      <3> QED
        BY <2>1, <3>1, <3>2, StageUndisturbed
    <2> QED
      BY <2>2, <2>3
  <1>5. Stages'
    BY <1>1, <1>4 DEF Stages
  <1>6. Settling'
    <2> SUFFICES ASSUME NEW store \in StorePaths, Ref[store] \in DOMAIN records \ torn
                 PROVE  \/ Rewriting(Ref[store])'
                        \/ /\ records[Ref[store]] = SelectPlatformImage(Built[store])
                           /\ records[Ref[store]] \in unpacked \/ Unpacking(Ref[store])'
      BY <1>1 DEF Settling
    <2>1. Rewriting(Ref[store]) => Rewriting(Ref[store])'
      BY <1>4 DEF Rewriting, RefOf
    <2>2. Unpacking(Ref[store]) => Unpacking(Ref[store])'
      BY <1>4 DEF Unpacking, RefOf
    <2> QED
      BY <2>1, <2>2 DEF Settling
  <1> QED
    BY <1>3, <1>5, <1>6

\* A store path is collected; the reference stays, and stays right.
LEMMA CollectStep ==
  ASSUME ImagesInv, NEW path \in StorePaths, Collect(path)
  PROVE  ImagesInv'
  <1> USE DEF ImagesInv
  <1>1. UNCHANGED <<records, unpacked, proc, torn>> /\ disk' = Drop(disk, path)
    BY DEF Collect
  <1>2. /\ DOMAIN disk' = DOMAIN disk \ {path}
        /\ \A i \in DOMAIN disk : i # path => disk'[i] = disk[i]
    BY <1>1 DEF Drop, Restrict
  <1>3. DiskIsExact'
    BY <1>2, NamesApart DEF DiskIsExact
  <1>4. Stages'
    <2>1. ASSUME NEW q \in Procs PROVE Stage(proc[q], disk', records)
      <3>1. proc[q].cur \in Paths => disk'[proc[q].cur] = disk[proc[q].cur]
        BY <1>2, NamesApart DEF DiskIsExact
      <3> QED
        BY <3>1, StageOf, StageUndisturbed
    <2> QED
      BY <1>1, <2>1 DEF Stages
  <1>5. Settling'
    BY <1>1 DEF Settling, Rewriting, Unpacking, RefOf
  <1> QED
    BY <1>3, <1>4, <1>5

\* Every step keeps the invariant.
LEMMA ImagesInvStep ==
  ASSUME ImagesInv, [Next]_vars
  PROVE  ImagesInv'
  <1>1. CASE UNCHANGED vars
    BY <1>1, QuietStep DEF vars
  <1>2. ASSUME NEW p \in Procs, NEW comp \in Comps, BeginInvalid(p, comp) PROVE ImagesInv'
    BY <1>2, QuietStep DEF BeginInvalid, stores
  <1>3. ASSUME NEW p \in Procs, Step(p) PROVE ImagesInv'
    BY <1>3, TurnStep, NextStep, ProbeAbsentStep, PullStep, ParseStep, ImportRecordStep,
       ImportedStep, EndsStep, UpdateStep, UnpackStep DEF Step
  <1>4. ASSUME NEW ref, Settle(ref) PROVE ImagesInv'
    BY <1>4, QuietStep DEF Settle
  <1> QED
    BY <1>1, <1>2, <1>3, <1>4, BeginStep, RemoveImageStep, EditStep, CollectStep DEF Next

LEMMA ImagesInvariance == Spec => []ImagesInv
  <1>1. Init => ImagesInv
    BY ImagesInvInit
  <1>2. ImagesInv /\ [Next]_vars => ImagesInv'
    BY ImagesInvStep
  <1> QED
    BY <1>1, <1>2, PTL DEF Spec

----------------------------------------------------------------------------
(***************************************************************************)
(* A store path that EnsureImage skips because its reference is present is *)
(* the artifact itself, unpacked: no number of imports running together,   *)
(* removals, edits and collections leave a wrong record behind, except for *)
(* an import that ended half-way (import.go:172-266).                      *)
(***************************************************************************)
THEOREM StoreImagesExact == Spec => []PresentIsExact
  <1>1. ImagesInv => PresentIsExact
    BY DEF ImagesInv, Settling, PresentIsExact, Rewriting, Unpacking, Importing
  <1> QED
    BY <1>1, ImagesInvariance, PTL

(***************************************************************************)
(* When EnsureImage is done with another path that nobody else touched, the*)
(* record is of an artifact that stood there during the call               *)
(* (import.go:172-202, 224-266).                                           *)
(***************************************************************************)
THEOREM PathImagesFresh == Spec => PathIsFresh
  <1>1. ASSUME ImagesInv, [Next]_vars, NEW p \in Procs, proc[p].cur \in Paths,
               ~proc[p].disturbed, proc'[p].pc = "next"
        PROVE  \E idx \in proc[p].since : /\ Selectable(idx)
                                          /\ records[RefOf(p)] = SelectPlatformImage(idx)
    <2>1. Stage(proc[p], disk, records) /\ proc[p] \in Processes
      BY <1>1, StageOf
    <2>2. proc[p].pc \notin {"idle", "next", "pull"} /\ RefOf(p) = Ref[proc[p].cur]
      BY <1>1, <2>1, NamesApart DEF Stage, RefOf, Resolved, IsLocal
    <2>3. proc[p].pc = "await"
      <3> SUFFICES ASSUME proc[p].pc # "await" PROVE FALSE
        OBVIOUS
      <3>1. ASSUME proc'[p].pc = proc[p].pc PROVE FALSE
        BY <1>1, <2>2, <3>1
      <3>2. proc \in [Procs -> Processes]
        <4>1. proc = [q \in Procs |-> proc[q]] /\ \A q \in Procs : proc[q] \in Processes
          BY <1>1, StageOf DEF ImagesInv, Stages
        <4> QED
          BY <4>1
      <3>3. ASSUME NEW q \in Procs, q # p, NEW r, proc' = [proc EXCEPT ![q] = r] PROVE FALSE
        BY <3>1, <3>2, <3>3
      <3>4. ASSUME NEW q \in Procs, q # p, NEW r, proc' = Writes(q, r) PROVE FALSE
        BY <3>1, <3>2, <3>4 DEF Writes, Processes
      <3>5. ASSUME NEW q \in Procs, q # p, Step(q) PROVE FALSE
        BY <3>3, <3>4, <3>5 DEF Step, Turn, ProbePresent, ProbeAbsent, Pull, ParseLocalImage,
           ParseFails, ImportRecord, Imported, SelectFails, Update, Unpack, Await, AwaitTimesOut,
           Return, Ends, Goes, GoesIdle, Done
      <3>6. ASSUME Step(p) PROVE FALSE
        <4>1. CASE GoesIdle(p)
          BY <1>1, <3>2, <4>1 DEF GoesIdle, Idle
        <4>2. CASE \E pc \in {"parse", "pull", "update", "await"} : Goes(p, pc)
          BY <1>1, <3>2, <4>2 DEF Goes, Processes
        <4>3. CASE ParseLocalImage(p)
          BY <1>1, <3>2, <4>3 DEF ParseLocalImage, Processes
        <4>4. CASE ImportRecord(p)
          BY <3>1, <3>2, <4>4 DEF ImportRecord, Writes, Processes
        <4>5. CASE Update(p)
          BY <1>1, <3>2, <4>5 DEF Update, Writes, Processes
        <4>6. CASE ProbePresent(p)
          BY <1>1, <4>6, NamesApart DEF ProbePresent, IsLocal, IsContentAddressed
        <4> QED
          BY <2>2, <3>6, <4>1, <4>2, <4>3, <4>4, <4>5, <4>6 DEF Step, Turn, ProbeAbsent, Pull,
             ParseFails, Imported, SelectFails, Unpack, Await, AwaitTimesOut, Return, Ends, At
      <3>7. ASSUME NEW q \in Procs, NEW comp \in Comps, NEW pull \in BOOLEAN,
                   Begin(q, comp, pull)
            PROVE  FALSE
        BY <2>2, <3>3, <3>7 DEF Begin, At
      <3>8. ASSUME NEW ref, RemoveImage(ref) PROVE FALSE
        BY <3>1, <3>2, <3>8 DEF RemoveImage, Processes
      <3>9. ASSUME NEW path, NEW idx, Edit(path, idx) PROVE FALSE
        BY <3>1, <3>2, <3>9 DEF Edit, Processes
      <3>10. CASE UNCHANGED proc
        BY <3>1, <3>10
      <3> QED
        BY <1>1, <3>5, <3>6, <3>7, <3>8, <3>9, <3>10
           DEF Next, vars, BeginInvalid, Settle, Collect
    <2> QED
      BY <1>1, <2>1, <2>2, <2>3 DEF Stage
  <1>2. ImagesInv /\ [Next]_vars =>
          [\A p \in Procs :
             /\ proc[p].cur \in Paths /\ ~proc[p].disturbed
             /\ proc'[p].pc = "next"
             => \E idx \in proc[p].since : /\ Selectable(idx)
                                           /\ records[RefOf(p)] = SelectPlatformImage(idx)]_vars
    BY <1>1
  <1> QED
    BY <1>2, ImagesInvariance, PTL DEF Spec, PathIsFresh
=============================================================================
