---------------------------- MODULE DeliveryProofs ----------------------------
(***************************************************************************)
(* What a power cut may find while the stager and the publisher run, for    *)
(* every set of features: MarkerGuards, PointerSound, OnlyRejectedBroken,   *)
(* and that the scripts implement FeatureDelivery; FirstBoot's types and    *)
(* two safety properties; and what of it all holds of FinishInstall.        *)
(***************************************************************************)
EXTENDS FinishInstall, TLAPS

-----------------------------------------------------------------------------
(* Paths and file systems *)

\* The paths of the stager, of the two trees of the publisher and of its pointer.
LEMMA PathsKnown ==
  /\ \A f \in Features : /\ Marker(f) \in FeatureTree /\ FilesOf(f) \subseteq FeatureTree
                         /\ \A g \in Features : Marker(f) \notin FilesOf(g)
  /\ \A f, g \in Features : f # g => FilesOf(f) \cap FilesOf(g) = {} /\ Marker(f) # Marker(g)
  /\ FeatureTree \subseteq Paths /\ Tree("dest") \subseteq Paths /\ Tree("partial") \subseteq Paths
  /\ \A d \in {"partial", "dest"} : Parts(d) \subseteq Tree(d)
  /\ Dest \in Tree("dest") /\ Draft \in Paths /\ Pointer \in Paths /\ Draft # Pointer
BY DEF Marker, FilesOf, Installed, FeatureTree, Kinds, Paths, Tree, Parts, Dest, Draft, Pointer

\* No path belongs to two of these.
LEMMA PathsDistinct ==
  /\ FeatureTree \cap Tree("dest") = {} /\ FeatureTree \cap Tree("partial") = {}
  /\ Tree("dest") \cap Tree("partial") = {}
  /\ \A x \in FeatureTree \cup Tree("dest") \cup Tree("partial") : x # Draft /\ x # Pointer
BY DEF FeatureTree, Tree, Parts, Draft, Pointer, Kinds

\* Put changes the paths it is given and no others.
LEMMA PutFacts ==
  ASSUME NEW s \in FileSystem, NEW P, NEW status \in Status
  PROVE  /\ Put(s, P, status) \in FileSystem
         /\ \A x \in Paths : Put(s, P, status)[x] = IF x \in P THEN status ELSE s[x]
BY DEF Put, FileSystem

\* A rename gives the new name what the old one had.
LEMMA RenameFacts ==
  ASSUME NEW s \in FileSystem, NEW from \in Paths, NEW to \in Paths
  PROVE  /\ Rename(s, from, to) \in FileSystem
         /\ \A x \in Paths : Rename(s, from, to)[x] =
              IF x = from THEN "absent" ELSE IF x = to THEN s[from] ELSE s[x]
<1>1. s[from] \in Status /\ "absent" \in Status
  BY DEF FileSystem, Status
<1>2. Put(s, {to}, s[from]) \in FileSystem
  BY <1>1, PutFacts
<1> QED
  BY <1>1, <1>2, PutFacts DEF Rename

\* What is safe stays and what is absent stays absent: what sync and a power cut do.
Keeps(s, t) ==
  /\ t \in FileSystem
  /\ \A x \in Paths : t[x] = "absent" <=> s[x] = "absent"
  /\ \A x \in Paths : s[x] = "whole" => t[x] = "whole"

\* sync makes what programs can read safe.
LEMMA SyncedFacts ==
  ASSUME NEW s \in FileSystem
  PROVE  /\ Keeps(s, Synced(s))
         /\ \A x \in Paths : s[x] = "dirty" => Synced(s)[x] = "whole"
         /\ \A x \in Paths : s[x] = "torn" => Synced(s)[x] = "torn"
BY DEF Synced, Keeps, FileSystem, Status

\* A power cut only damages what was not safe.
LEMMA SettledFacts ==
  ASSUME NEW s \in FileSystem, NEW t \in Settled(s)
  PROVE  Keeps(s, t)
BY DEF Settled, Keeps, FileSystem, Status

-----------------------------------------------------------------------------
(* Types *)

\* The file systems' and the controls' share of TypeOK.
FsTyped == now \in FileSystem /\ disk \in FileSystem
ControlTyped ==
  /\ pc \in Stager \cup Publisher \cup Host
  /\ feature \in Features \cup {None} /\ done \subseteq Features
  /\ pc \in Stager \cup {"read_back"} => feature \in Features
  /\ phase \in {"READBACK_VERIFIED", "FEATURES_STAGED", "FINISHED"}
  /\ live \in BOOLEAN /\ rejected \in BOOLEAN /\ calm \in BOOLEAN

\* The commands that write to the file system without a sync.
Write ==
  \/ Mark \/ SetAside \/ MovePayload \/ MoveManifest \/ Unmark
  \/ Clear \/ Link \/ Control \/ WriteDraft \/ Seal
  \/ InstallGeneration \/ Discard \/ DraftPointer \/ Point \/ Clean

\* sync, as the scripts call it.
Flush ==
  \/ SyncFiles \/ SyncMarker \/ SyncDraft \/ SyncSeal \/ SyncInstall \/ SyncDiscard
  \/ SyncPointer \/ SyncCurrent \/ SyncClean

\* Every command of the scripts writes, syncs, or leaves the file system alone.
LEMMA ScriptKinds ==
  ASSUME StagerStep \/ PublisherStep
  PROVE  Write \/ Flush \/ ((Inspect \/ Verify) /\ UNCHANGED fs)
<1>1. CASE StagerStep
  BY <1>1 DEF StagerStep, Write, Flush
<1>2. Inspect \/ Verify => UNCHANGED fs
  BY DEF Inspect, Verify, Skip
<1>3. CASE PublisherStep
  BY <1>2, <1>3 DEF PublisherStep, Write, Flush
<1> QED
  BY <1>1, <1>3

\* A write leaves the disk as it was last committed, and the program's view well formed.
LEMMA WriteTyped ==
  ASSUME TypeOK, Write
  PROVE  now' \in FileSystem /\ disk' = disk
<1> USE DEF TypeOK
<1>0. {"absent", "dirty", "whole", "torn"} \subseteq Status
  BY DEF Status
<1>1. ASSUME NEW P, NEW status \in Status
      PROVE  Put(now, P, status) \in FileSystem
  BY <1>1, PutFacts
<1>2. ASSUME NEW from \in Paths, NEW to \in Paths
      PROVE  Rename(now, from, to) \in FileSystem
  BY <1>2, RenameFacts
<1>3. CASE Mark \/ SetAside \/ MovePayload \/ MoveManifest \/ Unmark \/ Clear \/ Clean
  BY <1>0, <1>1, <1>3 DEF Mark, SetAside, MovePayload, MoveManifest, Unmark, Clear, Clean, Do
<1>4. CASE Control \/ WriteDraft \/ DraftPointer
  BY <1>0, <1>1, <1>4 DEF Control, WriteDraft, DraftPointer, Copy, Do
<1>5. CASE Seal \/ Point
  <2>1. /\ <<"partial", None, "draft">> \in Paths /\ <<"partial", None, "seal">> \in Paths
        /\ Draft \in Paths /\ Pointer \in Paths
    BY DEF Paths, Tree, Parts, Draft, Pointer
  <2> QED
    BY <1>2, <1>5, <2>1 DEF Seal, Point, Do
<1>6. CASE Discard
  BY <1>0, <1>1, <1>6 DEF Discard, Remove, Do
<1>7. CASE InstallGeneration
  <2>1. Moved(now) \in FileSystem
    <3>1. ASSUME NEW x \in Paths, x[1] = "dest"
          PROVE  <<"partial", x[2], x[3]>> \in Paths
      BY <3>1 DEF Paths, Tree, Parts, FeatureTree, Draft, Pointer
    <3> QED
      BY <1>0, <3>1 DEF Moved, FileSystem
  <2> QED
    BY <1>7, <2>1 DEF InstallGeneration, Do
<1>8. CASE Link
  <2> DEFINE x == CHOOSE y \in ToLink : TRUE
             source == Installed(x[2], x[3])
             linked(status) == Put(Put(now, {x}, status), {<<"partial", None, "dir">>}, "whole")
  <2>1. ASSUME NEW status \in Status
        PROVE  linked(status) \in FileSystem
    BY <1>0, <1>1, <2>1, PutFacts
  <2>2. ToLink # {} => source \in Paths
    <3>1. ToLink # {} => x \in {"partial"} \X Features \X Kinds
      BY DEF ToLink
    <3> QED
      BY <3>1 DEF Installed, Paths, FeatureTree
  <2>3. ToLink # {} => now[source] \in Status
    BY <2>2 DEF FileSystem
  <2> HIDE DEF linked, source, x
  <2> QED
    BY <1>0, <1>8, <2>1, <2>3 DEF Link, Do, Skip, linked, source, x, fs
<1> QED
  BY <1>3, <1>4, <1>5, <1>6, <1>7, <1>8 DEF Write

\* A sync writes the program's view to the disk.
LEMMA FlushFacts ==
  ASSUME TypeOK, Flush
  PROVE  now' = Synced(now) /\ disk' = now' /\ now' \in FileSystem
BY SyncedFacts DEF TypeOK, Flush, Keeps, Sync, SyncFiles, SyncMarker, SyncDraft, SyncSeal, SyncInstall,
   SyncDiscard, SyncPointer, SyncCurrent, SyncClean

\* Every step of scripts, host and power keeps the types.
LEMMA TypeStep ==
  ASSUME TypeOK, [Next]_scriptVars
  PROVE  TypeOK'
<1>1. FsTyped'
  <2>1. CASE StagerStep \/ PublisherStep
    BY <2>1, ScriptKinds, WriteTyped, FlushFacts DEF FsTyped, TypeOK, fs
  <2>2. CASE FinalReboot \/ PowerCut
    BY <2>2, SettledFacts DEF FsTyped, TypeOK, FinalReboot, PowerCut, Boot, Keeps
  <2>3. CASE Commit
    BY <2>3 DEF FsTyped, TypeOK, Commit
  <2>4. CASE UNCHANGED fs
    BY <2>4 DEF FsTyped, TypeOK, fs
  <2> QED
    BY <2>1, <2>2, <2>3, <2>4 DEF Next, Step, HostStep, Run, StageNext, ReadBack, RecordStaged,
       Resume, Finish, AwaitReady, Abort, BecomeCalm, Skip, scriptVars, vars, fs
<1>2. ControlTyped'
  <2> USE DEF TypeOK, ControlTyped, Stager, Publisher, Host, Goto
  <2>1. CASE StagerStep
    BY <2>1 DEF StagerStep, Mark, SetAside, MovePayload, MoveManifest, SyncFiles, Unmark,
       SyncMarker, Do, Sync, hostVars
  <2>2. CASE PublisherStep
    <3>1. CASE Inspect \/ Clear \/ Link \/ Control \/ WriteDraft \/ Seal \/ InstallGeneration
      BY <3>1 DEF Inspect, Clear, Link, Control, WriteDraft, Seal, InstallGeneration, Copy, Do,
         Skip, hostVars
    <3>2. CASE \/ SyncDraft \/ SyncSeal \/ SyncInstall \/ SyncDiscard \/ SyncPointer
               \/ SyncCurrent \/ SyncClean
      BY <3>2 DEF SyncDraft, SyncSeal, SyncInstall, SyncDiscard, SyncPointer, SyncCurrent,
         SyncClean, Sync
    <3>3. CASE Verify \/ Discard \/ DraftPointer \/ Point \/ Clean
      BY <3>3 DEF Verify, Discard, DraftPointer, Point, Clean, Remove, Copy, Do, Skip, hostVars
    <3> QED
      BY <2>2, <3>1, <3>2, <3>3 DEF PublisherStep
  <2>3. CASE HostStep
    <3>1. CASE StageNext
      <4>1. done # Features => (CHOOSE f \in Features \ done : TRUE) \in Features \ done
        OBVIOUS
      <4> QED
        BY <3>1, <4>1 DEF StageNext, Skip, hostVars
    <3>2. CASE Run \/ ReadBack \/ RecordStaged \/ Resume \/ Finish \/ AwaitReady
      BY <3>2 DEF Run, ReadBack, RecordStaged, Resume, Finish, AwaitReady, Skip, hostVars
    <3> QED
      BY <2>3, <3>1, <3>2 DEF HostStep
  <2>4. CASE FinalReboot \/ PowerCut \/ Commit \/ Abort \/ BecomeCalm
    <3>1. Boot => live' \in BOOLEAN
      BY DEF Boot, Current
    <3>2. CASE FinalReboot \/ PowerCut
      BY <3>1, <3>2 DEF FinalReboot, PowerCut, Boot
    <3>3. CASE Commit \/ Abort
      BY <3>3 DEF Commit, Abort, hostVars
    <3>4. CASE BecomeCalm
      BY <3>4 DEF BecomeCalm
    <3> QED
      BY <2>4, <3>2, <3>3, <3>4
  <2>5. CASE UNCHANGED scriptVars
    BY <2>5 DEF scriptVars, vars
  <2> QED
    BY <2>1, <2>2, <2>3, <2>4, <2>5 DEF Next, Step
<1> QED
  BY <1>1, <1>2 DEF FsTyped, ControlTyped, TypeOK

-----------------------------------------------------------------------------
(* The inductive invariant *)

SafeFeature(s, f) == s[Marker(f)] = "absent" /\ Whole(s, FilesOf(f))
AllSafe(s) == \A f \in Features : SafeFeature(s, f)
Handed(s) == Whole(s, {Pointer} \cup Parts("dest"))

\* The three properties, of any file system.
Guarded(s) ==
  \A f \in Features :
    s[Pointer] = "absent" /\ s[Marker(f)] = "absent" =>
      Whole(s, FilesOf(f)) \/ \A x \in FilesOf(f) : s[x] = "absent"
Sound(s) == s[Pointer] # "absent" => Handed(s)
Unbroken(s, excused) == s[Dest] # "absent" => Whole(s, Parts("dest")) \/ excused

\* They hold of what programs see and of what a power cut brings back.
Files ==
  /\ Guarded(now) /\ Guarded(disk)
  /\ Sound(now) /\ Sound(disk)
  /\ Unbroken(now, rejected) /\ Unbroken(disk, rejected)

\* Where the stager is: its marker is there before the files change, the files are safe
\* before it goes; what it has done before stays.
Staging ==
  /\ pc \in Stager \cup {"read_back"} => feature \in Features \ done
  /\ pc \in {"set_aside", "move_payload", "move_manifest", "sync_files", "unmark"} =>
       now[Marker(feature)] # "absent"
  /\ pc \in {"move_manifest", "sync_files"} => now[Installed(feature, "payload")] = "dirty"
  /\ pc = "sync_files" => now[Installed(feature, "manifest")] = "dirty"
  /\ pc = "unmark" => Whole(now, FilesOf(feature))
  /\ pc \in {"sync_marker", "read_back"} => SafeFeature(now, feature)
  /\ pc = "read_back" => SafeFeature(disk, feature)
  /\ pc \in Stager \cup {"read_back", "stage"} =>
       \A f \in done : SafeFeature(now, f) /\ SafeFeature(disk, f)

\* Where the publisher is: the tree it builds has no torn file, is whole before it becomes
\* the generation, and that is whole before it is named.
Linked == {"partial"} \X Features \X Kinds
Unpointed ==
  {"clear", "link", "control", "draft", "sync_draft", "seal", "sync_seal", "install",
   "sync_install", "verify", "discard", "sync_discard", "draft_pointer", "sync_pointer", "point"}
Publishing ==
  /\ pc \in Unpointed => now[Pointer] = "absent"
  /\ pc = "link" => \A x \in Linked : now[x] # "torn"
  /\ pc \in {"control", "draft", "sync_draft"} => Readable(now, Linked)
  /\ pc \in {"draft", "sync_draft"} => Readable(now, {<<"partial", None, "control">>})
  /\ pc = "sync_draft" => Readable(now, {<<"partial", None, "draft">>})
  /\ pc = "seal" =>
       Whole(now, Linked \cup {<<"partial", None, "control">>, <<"partial", None, "draft">>})
  /\ pc \in {"sync_seal", "install"} => Whole(now, Parts("partial"))
  /\ pc = "sync_install" => Whole(now, Parts("dest"))
  /\ pc = "discard" => rejected
  /\ pc = "sync_discard" => now[Dest] = "absent"
  /\ pc \in {"draft_pointer", "sync_pointer"} => Readable(now, Parts("dest"))
  /\ pc = "sync_pointer" => Readable(now, {Draft})
  /\ pc = "point" => Whole(now, {Draft} \cup Parts("dest"))
  /\ pc = "sync_current" => Handed(now)
  /\ pc = "clean" => Handed(disk)

\* What the host's phase says of the device.
Handing ==
  /\ pc \in Stager \cup {"read_back", "stage"} => phase = "READBACK_VERIFIED"
  /\ pc \in Publisher \cup {"resume", "finish", "reboot", "await"} => phase = "FEATURES_STAGED"
  /\ pc = "record" => phase # "FINISHED"
  /\ phase = "READBACK_VERIFIED" => now[Pointer] = "absent"
  /\ disk[Pointer] # "absent" => now[Pointer] # "absent"
  /\ phase # "READBACK_VERIFIED" \/ pc = "record" => Handed(disk) \/ (AllSafe(now) /\ AllSafe(disk))
  /\ live => Handed(disk)
  /\ phase = "FINISHED" => live

DeliveryInv == TypeOK /\ Files /\ Staging /\ Publishing /\ Handing

-----------------------------------------------------------------------------
(* What the parts of the invariant depend on *)

\* The features' share depends on the feature tree and the pointer.
LEMMA SameFeatures ==
  ASSUME NEW s, NEW t, \A x \in FeatureTree : t[x] = s[x]
  PROVE  /\ t[Pointer] = s[Pointer] /\ Guarded(s) => Guarded(t)
         /\ \A f \in Features : SafeFeature(s, f) => SafeFeature(t, f)
         /\ AllSafe(s) => AllSafe(t)
BY PathsKnown DEF Guarded, SafeFeature, AllSafe, Whole

\* The generation's share depends on its tree and the pointer.
LEMMA SameGeneration ==
  ASSUME NEW s, NEW t, \A x \in Tree("dest") : t[x] = s[x]
  PROVE  /\ Whole(s, Parts("dest")) => Whole(t, Parts("dest"))
         /\ t[Pointer] = s[Pointer] /\ Sound(s) => Sound(t)
         /\ t[Pointer] = s[Pointer] /\ Handed(s) => Handed(t)
         /\ \A excused \in BOOLEAN : Unbroken(s, excused) => Unbroken(t, excused)
BY PathsKnown DEF Sound, Handed, Unbroken, Whole

\* A sync or a power cut disturbs none of it.
LEMMA KeptAll ==
  ASSUME NEW s, NEW t, Keeps(s, t)
  PROVE  /\ Guarded(s) => Guarded(t)
         /\ Sound(s) => Sound(t)
         /\ Handed(s) => Handed(t)
         /\ \A excused \in BOOLEAN : Unbroken(s, excused) => Unbroken(t, excused)
         /\ \A f \in Features : SafeFeature(s, f) => SafeFeature(t, f)
         /\ AllSafe(s) => AllSafe(t)
<1>1. /\ \A f \in Features : Marker(f) \in Paths /\ FilesOf(f) \subseteq Paths
      /\ Parts("dest") \subseteq Paths /\ Dest \in Paths /\ Pointer \in Paths
  BY PathsKnown
<1>2. \A X : X \subseteq Paths /\ Whole(s, X) => Whole(t, X)
  BY DEF Keeps, Whole
<1>3. Guarded(s) => Guarded(t)
  BY <1>1, <1>2 DEF Keeps, Guarded
<1>4. /\ \A f \in Features : SafeFeature(s, f) => SafeFeature(t, f)
      /\ AllSafe(s) => AllSafe(t)
  BY <1>1, <1>2 DEF Keeps, SafeFeature, AllSafe
<1>5. Handed(s) => Handed(t)
  BY <1>1, <1>2 DEF Handed
<1>6. /\ Sound(s) => Sound(t)
      /\ \A excused \in BOOLEAN : Unbroken(s, excused) => Unbroken(t, excused)
  BY <1>1, <1>2, <1>5 DEF Keeps, Sound, Unbroken
<1> QED
  BY <1>3, <1>4, <1>5, <1>6

-----------------------------------------------------------------------------
(* What each command writes *)

Only(X) == \A x \in Paths \ X : now'[x] = now[x]

\* A rename by a script.
LEMMA RenamedFacts ==
  ASSUME TypeOK, NEW from \in Paths, NEW to \in Paths, from # to, now' = Rename(now, from, to)
  PROVE  /\ now'[from] = "absent" /\ now'[to] = now[from]
         /\ \A x \in Paths : x # from /\ x # to => now'[x] = now[x]
<1>1. now \in FileSystem
  BY DEF TypeOK
<1>2. \A x \in Paths : Rename(now, from, to)[x] =
        IF x = from THEN "absent" ELSE IF x = to THEN now[from] ELSE now[x]
  BY ONLY <1>1, from \in Paths, to \in Paths, RenameFacts
<1> QED
  BY ONLY <1>2, from \in Paths, to \in Paths, from # to, now' = Rename(now, from, to)

\* cp and printf write one file.
LEMMA CopyFacts ==
  ASSUME TypeOK, NEW path \in Paths, NEW from, NEW to, to # "idle", Copy(from, to, path)
  PROVE  /\ Only({path}) /\ UNCHANGED <<disk, hostVars>>
         /\ pc' \in {to, "idle"} /\ (pc' = to => now'[path] = "dirty")
<1>1. {"dirty", "torn"} \subseteq Status
  BY DEF Status
<1>2. CASE Do(from, to, Put(now, {path}, "dirty"))
  <2>1. now' = Put(now, {path}, "dirty") /\ pc' = to /\ UNCHANGED <<disk, hostVars>>
    BY <1>2 DEF Do, Goto
  <2> QED
    BY <1>1, <2>1, PutFacts DEF TypeOK, Only
<1>3. CASE Do(from, "idle", Put(now, {path}, "torn"))
  <2>1. now' = Put(now, {path}, "torn") /\ pc' = "idle" /\ UNCHANGED <<disk, hostVars>>
    BY <1>3 DEF Do, Goto
  <2> QED
    BY <1>1, <2>1, PutFacts DEF TypeOK, Only
<1> QED
  BY <1>2, <1>3 DEF Copy

\* The stager, and the publisher's last command, write to the feature tree.
LEMMA FeatureWrites ==
  ASSUME TypeOK, Mark \/ SetAside \/ MovePayload \/ MoveManifest \/ Unmark \/ Clean
  PROVE  Only(FeatureTree) /\ UNCHANGED <<disk, hostVars>>
<1> USE PutFacts, PathsKnown DEF TypeOK, Only, Status
<1>1. CASE Clean
  BY <1>1 DEF Clean, Do
<1>2. feature \in Features => {Marker(feature), Installed(feature, "payload"),
                               Installed(feature, "manifest")} \subseteq FeatureTree
  BY DEF FilesOf, Kinds
<1>3. CASE Mark \/ SetAside \/ MovePayload \/ MoveManifest \/ Unmark
  BY <1>2, <1>3 DEF Mark, SetAside, MovePayload, MoveManifest, Unmark, Do, Goto, Stager
<1> QED
  BY <1>1, <1>3

\* Until it is installed, the publisher writes to PARTIAL.
LEMMA PartialWrites ==
  ASSUME TypeOK, Clear \/ Link \/ Control \/ WriteDraft \/ Seal
  PROVE  Only(Tree("partial")) /\ UNCHANGED <<disk, hostVars>>
<1> USE PathsKnown DEF TypeOK, Only
<1>0. {"absent", "dirty", "whole", "torn"} \subseteq Status
  BY DEF Status
<1>1. CASE Clear
  BY <1>0, <1>1, PutFacts DEF Clear, Do
<1>2. /\ <<"partial", None, "control">> \in Tree("partial")
      /\ <<"partial", None, "draft">> \in Tree("partial")
      /\ <<"partial", None, "seal">> \in Tree("partial")
      /\ <<"partial", None, "dir">> \in Tree("partial")
      /\ Linked \subseteq Tree("partial")
  BY DEF Tree, Parts, Linked
<1>3. CASE Control \/ WriteDraft
  <2>1. CASE Control
    BY <1>2, <2>1, CopyFacts DEF Control
  <2>2. CASE WriteDraft
    BY <1>2, <2>2, CopyFacts DEF WriteDraft
  <2> QED
    BY <1>3, <2>1, <2>2
<1>4. CASE Seal
  <2>1. /\ now' = Rename(now, <<"partial", None, "draft">>, <<"partial", None, "seal">>)
        /\ UNCHANGED <<disk, hostVars>>
    BY <1>4 DEF Seal, Do
  <2>2. <<"partial", None, "draft">> \in Paths /\ <<"partial", None, "seal">> \in Paths
    BY <1>2
  <2>3. \A x \in Paths :
          x # <<"partial", None, "draft">> /\ x # <<"partial", None, "seal">> => now'[x] = now[x]
    BY <2>1, <2>2, RenamedFacts
  <2> QED
    BY <1>2, <2>1, <2>3
<1>5. CASE Link
  <2> DEFINE x == CHOOSE y \in ToLink : TRUE
             source == Installed(x[2], x[3])
             linked(status) == Put(Put(now, {x}, status), {<<"partial", None, "dir">>}, "whole")
  <2>1. CASE Skip("link", "idle") \/ Skip("link", "control")
    BY <2>1 DEF Skip, fs
  <2>2. ToLink # {} => x \in Linked
    BY DEF ToLink, Linked
  <2>3. ToLink # {} => now[source] \in Status
    BY <2>2 DEF Linked, Installed, Paths, FeatureTree, FileSystem
  <2>4. ASSUME ToLink # {}, NEW status \in Status
        PROVE  \A y \in Paths \ Tree("partial") : linked(status)[y] = now[y]
    <3>1. Put(now, {x}, status) \in FileSystem /\ x \in Tree("partial")
      BY <1>2, <2>2, <2>4, PutFacts
    <3> HIDE DEF x
    <3> QED
      BY <1>0, <1>2, <3>1, <2>4, PutFacts
  <2> HIDE DEF linked, source, x
  <2>5. CASE ToLink # {} /\ \E status \in Status : Do("link", "link", linked(status))
    BY <2>4, <2>5 DEF Do
  <2> QED
    BY <1>0, <1>5, <2>1, <2>3, <2>5 DEF Link, linked, source, x
<1> QED
  BY <1>1, <1>3, <1>4, <1>5

\* The single rename that makes PARTIAL the generation.
LEMMA InstallWrites ==
  ASSUME TypeOK, InstallGeneration
  PROVE  /\ Only(Tree("partial") \cup Tree("dest")) /\ UNCHANGED <<disk, hostVars>>
         /\ Whole(now, Parts("partial")) => Whole(now', Parts("dest"))
<1>1. now' = Moved(now) /\ UNCHANGED <<disk, hostVars>>
  BY DEF InstallGeneration, Do
<1>2. \A x \in Paths : x[1] = "dest" => x \in Tree("dest")
  BY DEF Paths, Tree, Parts, FeatureTree, Draft, Pointer
<1>3. \A x \in Paths : x[1] = "partial" => x \in Tree("partial")
  BY DEF Paths, Tree, Parts, FeatureTree, Draft, Pointer
<1>4. Only(Tree("partial") \cup Tree("dest"))
  BY <1>1, <1>2, <1>3 DEF Moved, Only
<1>5. \A x \in Parts("dest") :
        x[1] = "dest" /\ x \in Paths /\ <<"partial", x[2], x[3]>> \in Parts("partial")
  BY DEF Parts, Paths, Tree
<1> QED
  BY <1>1, <1>4, <1>5 DEF Whole, Moved

\* The removal of a rejected generation.
LEMMA DiscardWrites ==
  ASSUME TypeOK, Discard
  PROVE  Only(Tree("dest")) /\ UNCHANGED <<disk, hostVars>> /\ (pc' # pc => now'[Dest] = "absent")
BY PutFacts, PathsKnown DEF Discard, Remove, Do, Goto, TypeOK, Only, Status

\* update/current.tmp, and its rename to update/current.
LEMMA PointerWrites ==
  ASSUME TypeOK, DraftPointer \/ Point
  PROVE  /\ Only({Draft, Pointer}) /\ UNCHANGED <<disk, hostVars>>
         /\ DraftPointer => /\ now'[Pointer] = now[Pointer]
                            /\ pc' = "sync_pointer" => now'[Draft] = "dirty"
         /\ Point => now'[Pointer] = now[Draft]
<1>1. Draft \in Paths /\ Pointer \in Paths /\ Draft # Pointer
  BY PathsKnown
<1>2. CASE DraftPointer
  <2>1. /\ Only({Draft}) /\ UNCHANGED <<disk, hostVars>>
        /\ pc' = "sync_pointer" => now'[Draft] = "dirty"
    BY <1>1, <1>2, CopyFacts DEF DraftPointer
  <2>2. ~Point
    BY <1>2 DEF DraftPointer, Point, Copy, Do, Goto
  <2> QED
    BY <1>1, <2>1, <2>2 DEF Only
<1>3. CASE Point
  <2>1. now' = Rename(now, Draft, Pointer) /\ UNCHANGED <<disk, hostVars>> /\ ~DraftPointer
    BY <1>3 DEF DraftPointer, Point, Copy, Do, Goto
  <2> QED
    BY <1>1, <1>3, <2>1, RenamedFacts DEF Only
<1> QED
  BY <1>2, <1>3

\* The stager's commands write to one feature's marker and files.
StagerWrite == Mark \/ SetAside \/ MovePayload \/ MoveManifest \/ Unmark
LEMMA StagerWrites ==
  ASSUME TypeOK, StagerWrite
  PROVE  /\ Only({Marker(feature)} \cup FilesOf(feature))
         /\ Mark => now'[Marker(feature)] = "whole"
         /\ SetAside \/ MovePayload \/ MoveManifest => now'[Marker(feature)] = now[Marker(feature)]
         /\ MovePayload => now'[Installed(feature, "payload")] = "dirty"
         /\ MoveManifest => /\ now'[Installed(feature, "manifest")] = "dirty"
                            /\ now'[Installed(feature, "payload")] = now[Installed(feature, "payload")]
         /\ Unmark => /\ now'[Marker(feature)] = "absent"
                      /\ \A x \in FilesOf(feature) : now'[x] = now[x]
<1> DEFINE m == Marker(feature)
           p == Installed(feature, "payload")
           i == Installed(feature, "manifest")
<1>1. feature \in Features
  BY DEF TypeOK, StagerWrite, Mark, SetAside, MovePayload, MoveManifest, Unmark, Do, Goto, Stager
<1>2. /\ m \in Paths /\ p \in Paths /\ i \in Paths
      /\ FilesOf(feature) = {p, i} /\ m # p /\ m # i /\ p # i
  <2>1. FilesOf(feature) = {p, i} /\ p # i
    BY DEF FilesOf, Installed, Kinds
  <2> HIDE DEF m, p, i
  <2>2. FilesOf(feature) \subseteq Paths /\ m \in Paths /\ m \notin FilesOf(feature)
    BY <1>1, PathsKnown DEF m
  <2> QED
    BY <2>1, <2>2
<1>3. \/ Mark /\ now' = Put(now, {m}, "whole")
      \/ SetAside /\ now' = Put(now, {p}, "absent")
      \/ MovePayload /\ now' = Put(now, {p}, "dirty")
      \/ MoveManifest /\ now' = Put(now, {i}, "dirty")
      \/ Unmark /\ now' = Put(now, {m}, "absent")
  BY DEF StagerWrite, Mark, SetAside, MovePayload, MoveManifest, Unmark, Do
<1>4. /\ Mark => pc = "mark" 
      /\ SetAside => pc = "set_aside"
      /\ MovePayload => pc = "move_payload"
      /\ MoveManifest => pc = "move_manifest"
      /\ Unmark => pc = "unmark"
  BY DEF Mark, SetAside, MovePayload, MoveManifest, Unmark, Do, Goto
<1>5. now \in FileSystem /\ {"absent", "dirty", "whole", "torn"} \subseteq Status
  BY DEF TypeOK, Status
<1> HIDE DEF m, p, i
<1>6. ASSUME NEW x \in Paths, NEW status \in {"absent", "dirty", "whole"}, now' = Put(now, {x}, status)
      PROVE  now'[x] = status /\ \A y \in Paths : y # x => now'[y] = now[y]
  BY <1>5, <1>6, PutFacts
<1>7. /\ Only({m} \cup FilesOf(feature))
      /\ Mark => now'[m] = "whole"
      /\ SetAside \/ MovePayload \/ MoveManifest => now'[m] = now[m]
      /\ MovePayload => now'[p] = "dirty"
      /\ MoveManifest => now'[i] = "dirty" /\ now'[p] = now[p]
      /\ Unmark => now'[m] = "absent" /\ \A x \in FilesOf(feature) : now'[x] = now[x]
  <2>1. CASE Mark /\ now' = Put(now, {m}, "whole")
    BY <1>2, <1>4, <1>6, <2>1 DEF Only
  <2>2. CASE SetAside /\ now' = Put(now, {p}, "absent")
    BY <1>2, <1>4, <1>6, <2>2 DEF Only
  <2>3. CASE MovePayload /\ now' = Put(now, {p}, "dirty")
    BY <1>2, <1>4, <1>6, <2>3 DEF Only
  <2>4. CASE MoveManifest /\ now' = Put(now, {i}, "dirty")
    BY <1>2, <1>4, <1>6, <2>4 DEF Only
  <2>5. CASE Unmark /\ now' = Put(now, {m}, "absent")
    BY <1>2, <1>4, <1>6, <2>5 DEF Only
  <2> QED
    BY <1>3, <2>1, <2>2, <2>3, <2>4, <2>5
<1> QED
  BY <1>7 DEF m, p, i

\* The publisher's last removal.
LEMMA CleanWrites ==
  ASSUME TypeOK, Clean
  PROVE  \A x \in FeatureTree : now'[x] = "absent"
BY PutFacts, PathsKnown DEF TypeOK, Clean, Do, Status

\* What every command but the stager's and Clean leaves of the features, and what every one
\* but Install, Discard and Point leaves of the generation.
LEMMA Untouched ==
  ASSUME TypeOK, Write
  PROVE  /\ disk' = disk /\ rejected' = rejected /\ phase' = phase /\ live' = live /\ done' = done
         /\ feature' = feature
         /\ ~Point => now'[Pointer] = now[Pointer]
         /\ ~StagerWrite /\ ~Clean => \A x \in FeatureTree : now'[x] = now[x]
         /\ ~InstallGeneration /\ ~Discard => \A x \in Tree("dest") : now'[x] = now[x]
         /\ ~InstallGeneration /\ (StagerWrite \/ Clean \/ Discard \/ DraftPointer \/ Point) =>
              \A x \in Tree("partial") : now'[x] = now[x]
         /\ ~DraftPointer /\ ~Point => now'[Draft] = now[Draft]
<1>1. CASE StagerWrite \/ Clean
  BY <1>1, FeatureWrites, PathsKnown, PathsDistinct DEF StagerWrite, Only, hostVars
<1>2. CASE Clear \/ Link \/ Control \/ WriteDraft \/ Seal
  <2>1. ~ (StagerWrite \/ Clean \/ Discard \/ DraftPointer \/ Point)
    <3>1. pc \in {"clear", "link", "control", "draft", "seal"}
      BY <1>2 DEF Clear, Link, Control, WriteDraft, Seal, Copy, Do, Skip, Goto
    <3> QED
      BY <3>1 DEF StagerWrite, Mark, SetAside, MovePayload, MoveManifest, Unmark, Clean, Discard,
         DraftPointer, Point, Remove, Copy, Do, Goto
  <2> QED
    BY <1>2, <2>1, PartialWrites, PathsKnown, PathsDistinct DEF Only, hostVars
<1>3. CASE InstallGeneration
  BY <1>3, InstallWrites, PathsKnown, PathsDistinct DEF Only, hostVars
<1>4. CASE Discard
  BY <1>4, DiscardWrites, PathsKnown, PathsDistinct DEF Only, hostVars
<1>5. CASE DraftPointer \/ Point
  BY <1>5, PointerWrites, PathsKnown, PathsDistinct DEF Only, hostVars
<1> QED
  BY <1>1, <1>2, <1>3, <1>4, <1>5 DEF Write, StagerWrite

-----------------------------------------------------------------------------
(* The three properties, step by step *)

\* Where the stager is while it writes.
LEMMA StagerAt ==
  ASSUME TypeOK, Staging, StagerWrite
  PROVE  /\ feature \in Features \ done /\ ~Point /\ ~Clean
         /\ ~Mark /\ ~Unmark => now[Marker(feature)] # "absent"
         /\ Unmark => Whole(now, FilesOf(feature))
<1>1. pc \in {"mark", "set_aside", "move_payload", "move_manifest", "unmark"}
  BY DEF StagerWrite, Mark, SetAside, MovePayload, MoveManifest, Unmark, Do, Goto
<1>2. ~Point /\ ~Clean
  BY <1>1 DEF Point, Clean, Do, Goto
<1>3. /\ ~Mark /\ ~Unmark => pc \in {"set_aside", "move_payload", "move_manifest"}
      /\ Unmark => pc = "unmark"
  BY DEF StagerWrite, Mark, SetAside, MovePayload, MoveManifest, Unmark, Do, Goto
<1> QED
  BY <1>1, <1>2, <1>3 DEF Staging, TypeOK, Stager

\* No write of a script leaves a feature half installed without its marker, or a
\* generation broken or named before it is whole.
LEMMA FilesWrite ==
  ASSUME DeliveryInv, Write
  PROVE  Files'
<1>0. TypeOK /\ Files /\ Staging /\ Publishing
  BY DEF DeliveryInv
<1>1. disk' = disk /\ rejected' = rejected /\ rejected \in BOOLEAN
  BY <1>0, Untouched DEF TypeOK
<1>2. Guarded(now')
  <2>1. CASE StagerWrite
    <3> SUFFICES ASSUME NEW f \in Features, now'[Pointer] = "absent", now'[Marker(f)] = "absent"
                 PROVE  Whole(now', FilesOf(f)) \/ \A x \in FilesOf(f) : now'[x] = "absent"
      BY DEF Guarded
    <3>1. now[Pointer] = "absent"
      BY <1>0, <2>1, StagerAt, Untouched
    <3>2. CASE f = feature
      <4>1. Unmark
        <5>1. Mark \/ Unmark \/ (~Mark /\ ~Unmark /\ (SetAside \/ MovePayload \/ MoveManifest))
          BY <2>1 DEF StagerWrite
        <5> QED
          BY <1>0, <2>1, <3>2, <5>1, StagerAt, StagerWrites
      <4> QED
        BY <1>0, <2>1, <3>2, <4>1, StagerAt, StagerWrites DEF Whole
    <3>3. CASE f # feature
      <4>1. /\ Marker(f) \in Paths /\ FilesOf(f) \subseteq Paths
            /\ \A x \in FilesOf(f) \cup {Marker(f)} : x \notin {Marker(feature)} \cup FilesOf(feature)
        BY <1>0, <2>1, <3>3, StagerAt, PathsKnown
      <4>2. \A x \in FilesOf(f) \cup {Marker(f)} : now'[x] = now[x]
        BY <1>0, <2>1, <4>1, StagerWrites DEF Only
      <4> QED
        BY <1>0, <3>1, <4>2 DEF Files, Guarded, Whole
    <3> QED
      BY <3>2, <3>3
  <2>2. CASE Clean
    BY <1>0, <2>2, CleanWrites, PathsKnown DEF Guarded
  <2>3. CASE Point
    <3>1. now'[Pointer] = "whole"
      BY <1>0, <2>3, PointerWrites DEF Point, Do, Goto, Publishing, Whole
    <3> QED
      BY <3>1 DEF Guarded
  <2>4. CASE ~StagerWrite /\ ~Clean /\ ~Point
    BY <1>0, <2>4, Untouched, SameFeatures DEF Files
  <2> QED
    BY <2>1, <2>2, <2>3, <2>4
<1>3. Sound(now') /\ Unbroken(now', rejected)
  <2>1. CASE InstallGeneration
    <3>1. now'[Pointer] = "absent" /\ Whole(now', Parts("dest"))
      <4>1. pc = "install" /\ ~Point
        BY <2>1 DEF InstallGeneration, Point, Do, Goto
      <4> QED
        BY <1>0, <2>1, <4>1, InstallWrites, Untouched DEF Publishing, Unpointed
    <3> QED
      BY <3>1 DEF Sound, Unbroken
  <2>2. CASE Discard
    <3>1. pc = "discard" /\ ~Point
      BY <2>2 DEF Discard, Remove, Point, Do, Goto
    <3>2. now'[Pointer] = "absent" /\ rejected
      BY <1>0, <3>1, Untouched DEF Publishing, Unpointed
    <3> QED
      BY <3>2 DEF Sound, Unbroken
  <2>3. CASE Point
    <3>1. pc = "point" /\ ~InstallGeneration /\ ~Discard
      BY <2>3 DEF Discard, Remove, InstallGeneration, Point, Do, Goto
    <3>2. Whole(now', Parts("dest"))
      BY <1>0, <3>1, Untouched, SameGeneration DEF Publishing, Whole
    <3>3. now'[Pointer] = "whole"
      BY <1>0, <2>3, <3>1, PointerWrites DEF Publishing, Whole
    <3> QED
      BY <3>2, <3>3 DEF Sound, Handed, Unbroken, Whole
  <2>4. CASE ~InstallGeneration /\ ~Discard /\ ~Point
    BY <1>0, <1>1, <2>4, Untouched, SameGeneration DEF Files
  <2> QED
    BY <2>1, <2>2, <2>3, <2>4
<1> QED
  BY <1>0, <1>1, <1>2, <1>3 DEF Files

\* Nor does a sync, a commit or a power cut; only a verifier's verdict excuses a broken
\* generation.
LEMMA FilesStep ==
  ASSUME DeliveryInv, [Next]_scriptVars
  PROVE  Files'
<1>0. TypeOK /\ Files /\ Publishing /\ rejected \in BOOLEAN /\ rejected' \in BOOLEAN
  BY TypeStep DEF DeliveryInv, TypeOK
<1>1. CASE Write
  BY <1>1, FilesWrite
<1>2. CASE Flush
  <2>1. Keeps(now, now') /\ disk' = now'
    BY <1>0, <1>2, FlushFacts, SyncedFacts DEF TypeOK
  <2>2. Guarded(now') /\ Sound(now')
    BY <1>0, <2>1, KeptAll DEF Files
  <2>3. Unbroken(now', rejected')
    <3>1. CASE rejected' = rejected
      BY <1>0, <2>1, <3>1, KeptAll DEF Files
    <3>2. CASE SyncInstall \/ SyncDiscard \/ SyncCurrent
      <4>1. Unbroken(now, FALSE)
        BY <1>0, <3>2 DEF SyncInstall, SyncDiscard, SyncCurrent, Sync, Goto, Publishing, Unbroken,
           Handed, Whole
      <4>2. Unbroken(now', FALSE)
        BY <2>1, <4>1, KeptAll
      <4> QED
        BY <4>2 DEF Unbroken
    <3> QED
      BY <1>2, <3>1, <3>2 DEF Flush, SyncFiles, SyncMarker, SyncDraft, SyncSeal, SyncPointer, SyncClean
  <2> QED
    BY <2>1, <2>2, <2>3 DEF Files
<1>3. CASE FinalReboot \/ PowerCut
  <2>1. Keeps(disk, now') /\ disk' = now' /\ rejected' = rejected
    BY <1>0, <1>3, SettledFacts DEF FinalReboot, PowerCut, Boot, TypeOK
  <2> QED
    BY <1>0, <2>1, KeptAll DEF Files
<1>4. CASE Commit
  BY <1>0, <1>4 DEF Commit, hostVars, Files
<1>5. CASE UNCHANGED fs /\ (rejected => rejected')
  BY <1>0, <1>5 DEF Files, fs, Unbroken
<1>6. Inspect \/ Verify => UNCHANGED fs /\ (rejected => rejected')
  BY DEF Inspect, Verify, Skip, hostVars, fs
<1>7. HostStep => UNCHANGED fs /\ rejected' = rejected
  BY DEF HostStep, Run, StageNext, ReadBack, RecordStaged, Resume, Finish, AwaitReady, Skip,
     hostVars, fs
<1>8. Abort \/ BecomeCalm \/ UNCHANGED scriptVars => UNCHANGED fs /\ rejected' = rejected
  BY DEF Abort, BecomeCalm, hostVars, scriptVars, vars, fs
<1> QED
  BY <1>1, <1>2, <1>3, <1>4, <1>5, <1>6, <1>7, <1>8, ScriptKinds DEF Next, Step

-----------------------------------------------------------------------------
(* The stager *)

\* The stager's own writes keep what its place says.
LEMMA StagingWrite ==
  ASSUME DeliveryInv, StagerWrite
  PROVE  Staging'
<1>0. /\ TypeOK /\ Staging /\ feature \in Features \ done /\ feature' = feature /\ done' = done
      /\ disk' = disk /\ done \subseteq Features /\ pc \in Stager
  <2>1. Write
    BY DEF Write, StagerWrite
  <2>2. pc \in Stager
    BY DEF StagerWrite, Mark, SetAside, MovePayload, MoveManifest, Unmark, Do, Goto, Stager
  <2> QED
    BY <2>1, <2>2, Untouched, StagerAt DEF DeliveryInv, TypeOK
<1>1. \A f \in done : SafeFeature(now', f) /\ SafeFeature(disk', f)
  <2>1. ASSUME NEW f \in done
        PROVE  \A x \in FilesOf(f) \cup {Marker(f)} : now'[x] = now[x]
    <3>1. /\ Marker(f) \in Paths /\ FilesOf(f) \subseteq Paths
          /\ \A x \in FilesOf(f) \cup {Marker(f)} : x \notin {Marker(feature)} \cup FilesOf(feature)
      BY <1>0, PathsKnown
    <3> QED
      BY <1>0, <3>1, StagerWrites DEF Only
  <2> QED
    BY <1>0, <2>1 DEF Staging, SafeFeature, Whole
<1>2. CASE Mark
  BY <1>0, <1>1, <1>2, StagerWrites DEF Mark, Do, Goto, Staging
<1>3. CASE SetAside
  BY <1>0, <1>1, <1>3, StagerWrites DEF SetAside, Do, Goto, Staging
<1>4. CASE MovePayload
  BY <1>0, <1>1, <1>4, StagerWrites DEF MovePayload, Do, Goto, Staging
<1>5. CASE MoveManifest
  BY <1>0, <1>1, <1>5, StagerWrites DEF MoveManifest, Do, Goto, Staging
<1>6. CASE Unmark
  BY <1>0, <1>1, <1>6, StagerWrites DEF Unmark, Do, Goto, Staging, SafeFeature, Whole
<1> QED
  BY <1>2, <1>3, <1>4, <1>5, <1>6 DEF StagerWrite

\* So do its syncs and every other step.
LEMMA StagingStep ==
  ASSUME DeliveryInv, [Next]_scriptVars
  PROVE  Staging'
<1>0. TypeOK /\ Staging /\ TypeOK'
  BY TypeStep DEF DeliveryInv
<1>1. CASE StagerWrite
  BY <1>1, StagingWrite
<1>2. CASE SyncFiles \/ SyncMarker
  <2>1. /\ Keeps(now, now') /\ disk' = now' /\ feature' = feature /\ done' = done
        /\ feature \in Features \ done /\ done \subseteq Features
        /\ \A f \in done : SafeFeature(now, f)
    BY <1>0, <1>2, FlushFacts, SyncedFacts
       DEF SyncFiles, SyncMarker, Sync, Goto, Flush, Staging, TypeOK, Stager
  <2>2. \A f \in done : SafeFeature(now', f) /\ SafeFeature(disk', f)
    BY <2>1, KeptAll
  <2>3. CASE SyncFiles
    <3>1. Marker(feature) \in Paths /\ FilesOf(feature) \subseteq Paths
      BY <2>1, PathsKnown
    <3>2. \A x \in FilesOf(feature) : now[x] = "dirty"
      BY <1>0, <2>3 DEF SyncFiles, Sync, Goto, Staging, FilesOf, Kinds
    <3>3. now' = Synced(now) /\ now \in FileSystem
      BY <1>0, <2>3 DEF SyncFiles, Sync, TypeOK
    <3>4. Whole(now', FilesOf(feature))
      BY <3>1, <3>2, <3>3, SyncedFacts DEF Whole
    <3>5. now'[Marker(feature)] # "absent" /\ pc' = "unmark"
      BY <1>0, <2>1, <2>3, <3>1 DEF SyncFiles, Sync, Goto, Staging, Keeps
    <3> QED
      BY <2>1, <2>2, <3>4, <3>5 DEF Staging
  <2>4. CASE SyncMarker
    <3>1. SafeFeature(now', feature) /\ SafeFeature(disk', feature) /\ pc' = "read_back"
      BY <1>0, <2>1, <2>4, KeptAll DEF SyncMarker, Sync, Goto, Staging
    <3> QED
      BY <2>1, <2>2, <3>1 DEF Staging
  <2> QED
    BY <1>2, <2>3, <2>4
<1>3. CASE StageNext \/ ReadBack \/ Run
  <2>1. UNCHANGED fs
    BY <1>3 DEF StageNext, ReadBack, Run, Skip, fs
  <2>2. CASE StageNext
    <3>1. done # Features => (CHOOSE f \in Features \ done : TRUE) \in Features \ done
      BY <1>0 DEF TypeOK
    <3> QED
      BY <1>0, <2>1, <2>2, <3>1 DEF StageNext, Skip, Goto, Staging, hostVars, fs, Stager
  <2>3. CASE ReadBack
    BY <1>0, <2>1, <2>3 DEF ReadBack, Goto, Staging, fs, Stager
  <2>4. CASE Run
    BY <1>0, <2>1, <2>4 DEF Run, Goto, Staging, fs, Stager
  <2> QED
    BY <1>3, <2>2, <2>3, <2>4
<1>4. CASE Commit
  <2>1. now' = now /\ disk' = now /\ UNCHANGED <<pc, feature, done>>
    BY <1>4 DEF Commit, hostVars
  <2> QED
    BY <1>0, <2>1 DEF Staging
<1>5. CASE pc' \notin Stager \cup {"read_back", "stage"}
  BY <1>5 DEF Staging, Stager
<1>6. CASE UNCHANGED scriptVars \/ BecomeCalm
  BY <1>0, <1>6 DEF scriptVars, vars, BecomeCalm, fs, Staging
<1>7. PublisherStep => pc' \in Publisher \cup {"idle", "reboot"}
  <2>1. Inspect \/ Clear \/ Link \/ Control \/ WriteDraft \/ Seal \/ InstallGeneration =>
          pc' \in Publisher \cup {"idle", "reboot"}
    BY DEF Inspect, Clear, Link, Control, WriteDraft, Seal, InstallGeneration, Copy, Do, Skip, Goto,
       Publisher
  <2>2. Verify \/ Discard \/ DraftPointer \/ Point \/ Clean => pc' \in Publisher \cup {"idle", "reboot"}
    BY DEF Verify, Discard, DraftPointer, Point, Clean, Remove, Copy, Do, Skip, Goto, Publisher
  <2>3. SyncDraft \/ SyncSeal \/ SyncInstall \/ SyncDiscard \/ SyncPointer \/ SyncCurrent \/ SyncClean =>
          pc' \in Publisher \cup {"idle", "reboot"}
    BY DEF SyncDraft, SyncSeal, SyncInstall, SyncDiscard, SyncPointer, SyncCurrent, SyncClean, Sync,
       Goto, Publisher
  <2> QED
    BY <2>1, <2>2, <2>3 DEF PublisherStep
<1>8. RecordStaged \/ Resume \/ Finish \/ AwaitReady \/ FinalReboot \/ PowerCut \/ Abort =>
        pc' \notin Stager \cup {"read_back", "stage"}
  BY DEF RecordStaged, Resume, Finish, AwaitReady, FinalReboot, PowerCut, Abort, Skip, Goto, Stager
<1>9. StagerStep => StagerWrite \/ SyncFiles \/ SyncMarker
  BY DEF StagerStep, StagerWrite
<1>10. CASE PublisherStep
  BY <1>5, <1>7, <1>10 DEF Publisher, Stager
<1> QED
  BY <1>1, <1>2, <1>3, <1>4, <1>5, <1>6, <1>8, <1>9, <1>10 DEF Next, Step, HostStep

-----------------------------------------------------------------------------
(* The publisher *)

\* A step commits the program's view, brings back what was committed, or leaves the disk.
LEMMA DiskSteps ==
  ASSUME DeliveryInv, [Next]_scriptVars
  PROVE  \/ Write /\ disk' = disk
         \/ Flush /\ Keeps(now, now') /\ disk' = now'
         \/ /\ FinalReboot \/ PowerCut
            /\ Keeps(disk, now') /\ disk' = now' /\ live' = Current(now')
         \/ Commit /\ disk' = now /\ now' = now
         \/ /\ \/ Inspect \/ Verify \/ HostStep \/ Abort \/ BecomeCalm
               \/ UNCHANGED scriptVars
            /\ UNCHANGED fs
<1>0. TypeOK
  BY DEF DeliveryInv
<1>1. CASE Write
  BY <1>0, <1>1, Untouched
<1>2. CASE Flush
  BY <1>0, <1>2, FlushFacts, SyncedFacts DEF TypeOK
<1>3. CASE FinalReboot \/ PowerCut
  BY <1>0, <1>3, SettledFacts DEF FinalReboot, PowerCut, Boot, TypeOK
<1>4. CASE Commit
  BY <1>4 DEF Commit
<1>5. Inspect \/ Verify => UNCHANGED fs
  BY DEF Inspect, Verify, Skip, fs
<1>6. HostStep => UNCHANGED fs
  BY DEF HostStep, Run, StageNext, ReadBack, RecordStaged, Resume, Finish, AwaitReady, Skip, fs
<1>7. Abort \/ BecomeCalm \/ UNCHANGED scriptVars => UNCHANGED fs
  BY DEF Abort, BecomeCalm, scriptVars, vars, fs
<1> QED
  BY <1>1, <1>2, <1>3, <1>4, <1>5, <1>6, <1>7, ScriptKinds DEF Next, Step

\* Once the generation is handed over, it stays.
LEMMA HandedStays ==
  ASSUME DeliveryInv, [Next]_scriptVars, Handed(disk)
  PROVE  Handed(disk')
<1>1. Handed(now)
  <2>1. disk[Pointer] # "absent"
    BY DEF Handed, Whole
  <2> QED
    BY <2>1 DEF DeliveryInv, Handing, Files, Sound
<1>2. ASSUME NEW s, NEW t, Keeps(s, t), Handed(s)
      PROVE  Handed(t)
  BY <1>2, KeptAll
<1> QED
  BY <1>1, <1>2, DiskSteps DEF fs

\* The publisher's own commands.
LEMMA PublishingOwn ==
  ASSUME DeliveryInv, PublisherStep
  PROVE  Publishing'
<1>0. TypeOK /\ Files /\ Publishing /\ Handing
  BY DEF DeliveryInv
<1>1. CASE Inspect \/ Verify
  <2>1. UNCHANGED fs
    BY <1>1 DEF Inspect, Verify, Skip, fs
  <2>2. Verified(now) => Readable(now, Parts("dest"))
    BY DEF Verified
  <2>3. \/ pc' \in {"reboot", "idle"}
        \/ pc' = "clear" /\ now[Pointer] = "absent"
        \/ pc' = "draft_pointer" /\ now[Pointer] = "absent" /\ Verified(now)
        \/ pc' = "discard" /\ now[Pointer] = "absent" /\ rejected'
    BY <1>0, <1>1 DEF Inspect, Verify, Skip, Goto, Publishing, Unpointed
  <2> QED
    BY <2>1, <2>2, <2>3 DEF Publishing, Unpointed, fs
<1>2. CASE Clear
  <2>1. pc' = "link" /\ now'[Pointer] = "absent"
    <3>1. pc = "clear" /\ pc' = "link" /\ ~Point /\ Write
      BY <1>2 DEF Clear, Point, Do, Goto, Write
    <3> QED
      BY <1>0, <3>1, Untouched DEF Publishing, Unpointed
  <2>2. \A x \in Tree("partial") : now'[x] = "absent"
    BY <1>0, <1>2, PutFacts, PathsKnown DEF Clear, Do, TypeOK, Status
  <2>3. Linked \subseteq Tree("partial")
    BY DEF Linked, Tree, Parts
  <2> QED
    BY <2>1, <2>2, <2>3 DEF Publishing, Unpointed
<1>3. CASE Link
  <2>1. pc = "link" /\ ~Point /\ Write /\ pc' \in {"link", "idle", "control"}
    BY <1>3 DEF Link, Point, Do, Skip, Goto, Write
  <2>2. now[Pointer] = "absent" /\ now'[Pointer] = "absent" /\ \A x \in Linked : now[x] # "torn"
    BY <1>0, <2>1, Untouched DEF Publishing, Unpointed
  <2>3. \A x \in Linked : now[Installed(x[2], x[3])] = "whole"
    <3>1. AllSafe(now)
      BY <1>0, <2>1, <2>2 DEF Handing, Publisher, Handed, Whole
    <3> QED
      BY <3>1 DEF AllSafe, SafeFeature, Whole, FilesOf, Linked
  <2>4. CASE pc' = "control"
    <3>1. ToLink = {} /\ UNCHANGED fs
      BY <1>3, <2>4 DEF Link, Do, Skip, Goto
    <3>2. \A x \in Linked : x \in Paths /\ now[x] # "absent"
      BY <3>1, PathsKnown DEF ToLink, Linked, Paths, Tree, Parts
    <3>3. Readable(now, Linked)
      BY <1>0, <2>2, <3>2 DEF TypeOK, FileSystem, Status, Readable
    <3> QED
      BY <2>2, <2>4, <3>1, <3>3 DEF Publishing, Unpointed, fs
  <2>5. CASE pc' = "idle"
    BY <2>5 DEF Publishing, Unpointed
  <2>6. CASE pc' = "link"
    <3> DEFINE x == CHOOSE y \in ToLink : TRUE
               dir == <<"partial", None, "dir">>
    <3>1. /\ ToLink # {}
          /\ \E status \in {now[Installed(x[2], x[3])], "dirty"} :
               now' = Put(Put(now, {x}, status), {dir}, "whole")
      BY <1>3, <2>6 DEF Link, Do, Skip, Goto
    <3>2. x \in Linked
      BY <3>1 DEF ToLink, Linked
    <3>3. dir \notin Linked
      BY DEF Linked, Kinds
    <3>4. Linked \subseteq Paths /\ {"dirty", "whole"} \subseteq Status /\ now \in FileSystem
      BY <1>0 DEF Linked, Paths, Tree, Parts, Status, TypeOK
    <3>5. PICK status \in {"dirty", "whole"} : now' = Put(Put(now, {x}, status), {dir}, "whole")
      BY <2>3, <3>1, <3>2
    <3> HIDE DEF x, dir
    <3>6. Put(now, {x}, status) \in FileSystem
      BY <3>4, PutFacts
    <3>7. \A y \in Linked : now'[y] = IF y = x THEN status ELSE now[y]
      BY <3>3, <3>4, <3>5, <3>6, PutFacts
    <3> QED
      BY <2>2, <2>6, <3>7 DEF Publishing, Unpointed
  <2> QED
    BY <2>1, <2>4, <2>5, <2>6
<1> DEFINE control == <<"partial", None, "control">>
           draft == <<"partial", None, "draft">>
           seal == <<"partial", None, "seal">>
<1>p. /\ control \in Paths /\ draft \in Paths /\ seal \in Paths /\ Linked \subseteq Paths
      /\ control # draft /\ control # seal /\ draft # seal
      /\ control \notin Linked /\ draft \notin Linked /\ seal \notin Linked
      /\ Parts("partial") = Linked \cup {control, seal}
      /\ Pointer \in Paths /\ Draft \in Paths
  BY PathsKnown DEF Linked, Kinds, Paths, Tree, Parts
<1>4. CASE Control
  <2>1. Copy("control", "draft", control) /\ Write /\ pc = "control" /\ ~Point
    BY <1>4 DEF Control, Write, Point, Copy, Do, Goto
  <2> HIDE DEF control, draft, seal
  <2>2. Only({control}) /\ pc' \in {"draft", "idle"} /\ (pc' = "draft" => now'[control] = "dirty")
    BY <1>0, <1>p, <2>1, CopyFacts
  <2>3. now'[Pointer] = "absent" /\ Readable(now, Linked)
    BY <1>0, <2>1, Untouched DEF Publishing, Unpointed
  <2>4. Readable(now', Linked)
    BY <1>p, <2>2, <2>3 DEF Only, Readable
  <2> QED
    BY <2>2, <2>3, <2>4 DEF Publishing, Unpointed, Readable, control
<1>5. CASE WriteDraft
  <2>1. Copy("draft", "sync_draft", draft) /\ Write /\ pc = "draft" /\ ~Point
    BY <1>5 DEF WriteDraft, Write, Point, Copy, Do, Goto
  <2>0. Readable(now, {control})
    BY <1>0, <2>1 DEF Publishing
  <2> HIDE DEF control, draft, seal
  <2>2. Only({draft}) /\ pc' \in {"sync_draft", "idle"} /\ (pc' = "sync_draft" => now'[draft] = "dirty")
    BY <1>0, <1>p, <2>1, CopyFacts
  <2>3. now'[Pointer] = "absent" /\ Readable(now, Linked)
    BY <1>0, <2>1, Untouched DEF Publishing, Unpointed
  <2>4. Readable(now', Linked) /\ Readable(now', {control})
    BY <1>p, <2>0, <2>2, <2>3 DEF Only, Readable
  <2> QED
    BY <2>2, <2>3, <2>4 DEF Publishing, Unpointed, Readable, control, draft
<1>6. CASE SyncDraft
  <2>1. /\ Readable(now, Linked \cup {control, draft}) /\ now[Pointer] = "absent"
        /\ pc' = "seal" /\ now' = Synced(now) /\ now \in FileSystem
    BY <1>0, <1>6 DEF SyncDraft, Sync, Goto, Publishing, Unpointed, Readable, TypeOK
  <2> HIDE DEF control, draft, seal
  <2>2. Whole(now', Linked \cup {control, draft}) /\ now'[Pointer] = "absent"
    BY <1>p, <2>1, SyncedFacts DEF Keeps, Readable, Whole
  <2> QED
    BY <2>1, <2>2 DEF Publishing, Unpointed, control, draft
<1>7. CASE Seal
  <2>1. /\ pc = "seal" /\ pc' = "sync_seal" /\ now' = Rename(now, draft, seal) /\ Write /\ ~Point
    BY <1>7 DEF Seal, Do, Goto, Write, Point
  <2>2. Whole(now, Linked \cup {control, draft}) /\ now'[Pointer] = "absent"
    BY <1>0, <2>1, Untouched DEF Publishing, Unpointed
  <2> HIDE DEF control, draft, seal
  <2>3. Whole(now', Parts("partial"))
    BY <1>0, <1>p, <2>1, <2>2, RenamedFacts DEF Whole
  <2> QED
    BY <2>1, <2>2, <2>3 DEF Publishing, Unpointed
<1>8. CASE SyncSeal
  <2>1. /\ Whole(now, Parts("partial")) /\ now[Pointer] = "absent"
        /\ pc' = "install" /\ now' = Synced(now) /\ now \in FileSystem
    BY <1>0, <1>8 DEF SyncSeal, Sync, Goto, Publishing, Unpointed, TypeOK
  <2> HIDE DEF control, draft, seal
  <2>2. Whole(now', Parts("partial")) /\ now'[Pointer] = "absent"
    BY <1>p, <2>1, SyncedFacts DEF Keeps, Whole
  <2> QED
    BY <2>1, <2>2 DEF Publishing, Unpointed
<1> HIDE DEF control, draft, seal
<1>9. CASE InstallGeneration
  <2>1. pc = "install" /\ pc' = "sync_install" /\ Write /\ ~Point
    BY <1>9 DEF InstallGeneration, Do, Goto, Write, Point
  <2>2. Whole(now', Parts("dest")) /\ now'[Pointer] = "absent"
    BY <1>0, <1>9, <2>1, InstallWrites, Untouched DEF Publishing, Unpointed
  <2> QED
    BY <2>1, <2>2 DEF Publishing, Unpointed
<1>10. CASE SyncInstall \/ SyncDiscard
  <2>1. /\ pc' \in {"verify", "idle"} /\ (pc' = "verify" => now[Pointer] = "absent")
        /\ now' = Synced(now) /\ now \in FileSystem
    BY <1>0, <1>10 DEF SyncInstall, SyncDiscard, Sync, Goto, Publishing, Unpointed, TypeOK
  <2>2. pc' = "verify" => now'[Pointer] = "absent"
    BY <1>p, <2>1, SyncedFacts DEF Keeps
  <2> QED
    BY <2>1, <2>2 DEF Publishing, Unpointed
<1>11. CASE Discard
  <2>1. /\ pc = "discard" /\ pc' \in {"discard", "sync_discard"} /\ Write /\ ~Point
        /\ pc' = "sync_discard" => now'[Dest] = "absent"
    BY <1>0, <1>11, DiscardWrites DEF Discard, Remove, Do, Goto, Write, Point
  <2>2. now'[Pointer] = "absent" /\ rejected'
    BY <1>0, <2>1, Untouched DEF Publishing, Unpointed
  <2> QED
    BY <2>1, <2>2 DEF Publishing, Unpointed
<1>12. CASE DraftPointer
  <2>1. /\ Copy("draft_pointer", "sync_pointer", Draft) /\ Write /\ pc = "draft_pointer"
        /\ ~Point /\ ~InstallGeneration /\ ~Discard
    BY <1>12 DEF DraftPointer, Write, Point, InstallGeneration, Discard, Remove, Copy, Do, Goto
  <2>2. pc' \in {"sync_pointer", "idle"} /\ (pc' = "sync_pointer" => now'[Draft] = "dirty")
    BY <1>0, <1>p, <2>1, CopyFacts
  <2>3. /\ now'[Pointer] = "absent" /\ Readable(now, Parts("dest"))
        /\ \A x \in Tree("dest") : now'[x] = now[x]
    BY <1>0, <2>1, Untouched DEF Publishing, Unpointed
  <2>4. Readable(now', Parts("dest"))
    BY <2>3, PathsKnown DEF Readable
  <2> QED
    BY <2>2, <2>3, <2>4 DEF Publishing, Unpointed, Readable
<1>13. CASE SyncPointer
  <2>1. /\ Readable(now, {Draft} \cup Parts("dest")) /\ now[Pointer] = "absent"
        /\ pc' = "point" /\ now' = Synced(now) /\ now \in FileSystem
    BY <1>0, <1>13 DEF SyncPointer, Sync, Goto, Publishing, Unpointed, Readable, TypeOK
  <2>2. Parts("dest") \subseteq Paths
    BY PathsKnown
  <2>3. Whole(now', {Draft} \cup Parts("dest")) /\ now'[Pointer] = "absent"
    BY <1>p, <2>1, <2>2, SyncedFacts DEF Keeps, Readable, Whole
  <2> QED
    BY <2>1, <2>3 DEF Publishing, Unpointed
<1>14. CASE Point
  <2>1. /\ pc = "point" /\ pc' = "sync_current" /\ Write /\ ~InstallGeneration /\ ~Discard
    BY <1>14 DEF Point, InstallGeneration, Discard, Remove, Do, Goto, Write
  <2>2. /\ \A x \in Tree("dest") : now'[x] = now[x]
        /\ now'[Pointer] = now[Draft] /\ Whole(now, {Draft} \cup Parts("dest"))
    BY <1>0, <1>14, <2>1, Untouched, PointerWrites DEF Publishing
  <2>3. Handed(now')
    BY <2>2, PathsKnown DEF Handed, Whole
  <2> QED
    BY <2>1, <2>3 DEF Publishing, Unpointed
<1>15. CASE SyncCurrent
  <2>1. Handed(now) /\ pc' = "clean" /\ Keeps(now, now') /\ disk' = now'
    BY <1>0, <1>15, SyncedFacts DEF SyncCurrent, Sync, Goto, Publishing, TypeOK
  <2>2. Handed(disk')
    BY <2>1, KeptAll
  <2> QED
    BY <2>1, <2>2 DEF Publishing, Unpointed
<1>16. CASE Clean \/ SyncClean
  BY <1>16 DEF Clean, SyncClean, Do, Sync, Goto, Publishing, Unpointed
<1> QED
  BY <1>1, <1>2, <1>3, <1>4, <1>5, <1>6, <1>7, <1>8, <1>9, <1>10, <1>11, <1>12, <1>13, <1>14,
     <1>15, <1>16 DEF PublisherStep

\* Every other step leaves the publisher's labels, or what they say, as they are.
LEMMA PublishingStep ==
  ASSUME DeliveryInv, [Next]_scriptVars
  PROVE  Publishing'
<1>0. TypeOK /\ Files /\ Publishing /\ Handing
  BY DEF DeliveryInv
<1>1. CASE PublisherStep
  BY <1>1, PublishingOwn
<1>2. CASE pc' \notin Publisher \ {"inspect"}
  BY <1>2 DEF Publishing, Unpointed, Publisher
<1>3. CASE UNCHANGED <<pc, fs, rejected>>
  BY <1>0, <1>3 DEF Publishing, fs
<1>4. CASE Commit
  <2>1. Handed(disk) => Handed(disk')
    BY <1>4, HandedStays
  <2> QED
    BY <1>0, <1>4, <2>1 DEF Commit, hostVars, Publishing
<1>5. StagerStep => pc' \notin Publisher \ {"inspect"}
  BY DEF StagerStep, Mark, SetAside, MovePayload, MoveManifest, SyncFiles, Unmark, SyncMarker, Do,
     Sync, Goto, Publisher
<1>6. HostStep => pc' \notin Publisher \ {"inspect"}
  BY DEF HostStep, Run, StageNext, ReadBack, RecordStaged, Resume, Finish, AwaitReady, Skip, Goto,
     Publisher
<1>7. FinalReboot \/ PowerCut \/ Abort => pc' \notin Publisher \ {"inspect"}
  BY DEF FinalReboot, PowerCut, Abort, Goto, Publisher
<1>8. BecomeCalm \/ UNCHANGED scriptVars => UNCHANGED <<pc, fs, rejected>>
  BY DEF BecomeCalm, scriptVars, vars, fs
<1> QED
  BY <1>1, <1>2, <1>3, <1>4, <1>5, <1>6, <1>7, <1>8 DEF Next, Step

-----------------------------------------------------------------------------
(* The host *)

\* The commands of a script follow each other, to the host's next step.
LEMMA StagingPlaces ==
  StagerStep => phase' = phase /\ pc \in Stager /\ pc' \in Stager \cup {"read_back"}
BY DEF StagerStep, Mark, SetAside, MovePayload, MoveManifest, SyncFiles, Unmark, SyncMarker, Do,
   Sync, Goto, Stager, hostVars

\* The publisher also ends where it fails, or in the unit's final reboot.
LEMMA PublishingPlaces ==
  PublisherStep => phase' = phase /\ pc \in Publisher /\ pc' \in Publisher \cup {"idle", "reboot"}
<1>1. Inspect \/ Clear \/ Link \/ Control \/ WriteDraft \/ Seal \/ InstallGeneration =>
          phase' = phase /\ pc \in Publisher /\ pc' \in Publisher \cup {"idle", "reboot"}
  BY DEF Inspect, Clear, Link, Control, WriteDraft, Seal, InstallGeneration, Copy, Do, Skip, Goto,
     Publisher, hostVars
<1>2. Verify \/ Discard \/ DraftPointer \/ Point \/ Clean =>
          phase' = phase /\ pc \in Publisher /\ pc' \in Publisher \cup {"idle", "reboot"}
  BY DEF Verify, Discard, DraftPointer, Point, Clean, Remove, Copy, Do, Skip, Goto, Publisher,
     hostVars
<1>3. SyncDraft \/ SyncSeal \/ SyncInstall \/ SyncDiscard \/ SyncPointer \/ SyncCurrent \/ SyncClean =>
          phase' = phase /\ pc \in Publisher /\ pc' \in Publisher \cup {"idle", "reboot"}
  BY DEF SyncDraft, SyncSeal, SyncInstall, SyncDiscard, SyncPointer, SyncCurrent, SyncClean, Sync,
     Goto, Publisher
<1> QED
  BY <1>1, <1>2, <1>3 DEF PublisherStep

\* The host's phase and the next command.
PhaseFits ==
  /\ pc \in Stager \cup {"read_back", "stage"} => phase = "READBACK_VERIFIED"
  /\ pc \in Publisher \cup {"resume", "finish", "reboot", "await"} => phase = "FEATURES_STAGED"
  /\ pc = "record" => phase # "FINISHED"
LEMMA PhaseStep ==
  ASSUME TypeOK, PhaseFits, [Next]_scriptVars
  PROVE  PhaseFits'
<1> USE DEF PhaseFits
<1>3. CASE StagerStep
  BY <1>3, StagingPlaces DEF Stager, Publisher
<1>4. CASE PublisherStep
  BY <1>4, PublishingPlaces DEF Stager, Publisher
<1>5. CASE Run
  BY <1>5 DEF Run, Goto, TypeOK, Stager, Publisher
<1>6. CASE StageNext \/ ReadBack \/ RecordStaged
  BY <1>6 DEF StageNext, ReadBack, RecordStaged, Skip, Goto, Stager, Publisher, hostVars
<1>7. CASE Resume \/ Finish \/ AwaitReady
  BY <1>7 DEF Resume, Finish, AwaitReady, Skip, Goto, Stager, Publisher, hostVars
<1>8. CASE FinalReboot \/ PowerCut \/ Abort
  BY <1>8 DEF FinalReboot, PowerCut, Boot, Abort, Goto, Stager, Publisher, hostVars
<1>9. CASE Commit \/ BecomeCalm \/ UNCHANGED scriptVars
  BY <1>9 DEF Commit, BecomeCalm, scriptVars, vars, hostVars
<1> QED
  BY <1>3, <1>4, <1>5, <1>6, <1>7, <1>8, <1>9 DEF Next, Step, HostStep

\* While the generation is not handed over, the features the host has recorded stay safe.
FeaturesKept ==
  phase # "READBACK_VERIFIED" \/ pc = "record" => Handed(disk) \/ (AllSafe(now) /\ AllSafe(disk))
LEMMA FeaturesStep ==
  ASSUME DeliveryInv, [Next]_scriptVars
  PROVE  FeaturesKept'
<1>0. TypeOK /\ Files /\ Staging /\ Publishing /\ Handing /\ FeaturesKept
  BY DEF DeliveryInv, Handing, FeaturesKept
<1>1. CASE Handed(disk)
  BY <1>1, HandedStays DEF FeaturesKept
<1>2. CASE AllSafe(now) /\ AllSafe(disk) /\ ~Handed(disk) /\ (Write => ~StagerWrite)
  <2>1. CASE Write
    <3>1. ~Clean
      BY <1>0, <1>2 DEF Clean, Do, Goto, Publishing
    <3>2. AllSafe(now') /\ disk' = disk
      BY <1>0, <1>2, <2>1, <3>1, Untouched, SameFeatures
    <3> QED
      BY <1>2, <3>2 DEF FeaturesKept
  <2>2. CASE ~Write
    <3>1. ASSUME NEW s, NEW t, Keeps(s, t), AllSafe(s)
          PROVE  AllSafe(t)
      BY <3>1, KeptAll
    <3>2. AllSafe(now') /\ AllSafe(disk')
      BY <1>2, <2>2, <3>1, DiskSteps DEF fs
    <3> QED
      BY <3>2 DEF FeaturesKept
  <2> QED
    BY <2>1, <2>2
<1>3. CASE phase' = "READBACK_VERIFIED" /\ pc' # "record"
  BY <1>3 DEF FeaturesKept
<1>4. CASE StageNext
  <2>1. CASE done = Features /\ Skip("stage", "record")
    <3>1. AllSafe(now) /\ AllSafe(disk) /\ UNCHANGED fs
      BY <1>0, <2>1 DEF Skip, Goto, Staging, AllSafe
    <3> QED
      BY <3>1 DEF FeaturesKept, fs
  <2>2. CASE pc' = "mark" /\ pc = "stage" /\ phase' = phase
    BY <1>0, <1>3, <2>2 DEF Handing
  <2> QED
    BY <1>4, <2>1, <2>2 DEF StageNext, Goto
<1>5. CASE StagerWrite
  <2>1. pc \in Stager /\ pc' \in Stager /\ phase' = phase
    BY <1>5 DEF StagerWrite, Mark, SetAside, MovePayload, MoveManifest, Unmark, Do, Goto,
       Stager, hostVars
  <2> QED
    BY <1>0, <1>3, <2>1 DEF Handing, Stager
<1>6. CASE phase = "READBACK_VERIFIED" /\ pc # "record" /\ ~StageNext
  <2>1. phase' = phase \/ pc \in {"record", "await"}
    <3>1. StagerStep \/ PublisherStep => phase' = phase
      <4>1. Write => phase' = phase
        BY <1>0, Untouched
      <4>2. Flush => phase' = phase
        BY DEF Flush, SyncFiles, SyncMarker, SyncDraft, SyncSeal, SyncInstall, SyncDiscard, SyncPointer,
           SyncCurrent, SyncClean, Sync
      <4>3. Inspect \/ Verify => phase' = phase
        BY DEF Inspect, Verify, Skip, hostVars
      <4> QED
        BY <4>1, <4>2, <4>3, ScriptKinds
    <3>2. HostStep => phase' = phase \/ pc \in {"record", "await"}
      BY DEF HostStep, Run, StageNext, ReadBack, RecordStaged, Resume, Finish, AwaitReady, Skip, Goto,
         hostVars
    <3>3. FinalReboot \/ PowerCut \/ Commit \/ Abort \/ BecomeCalm \/ UNCHANGED scriptVars =>
            phase' = phase
      BY DEF FinalReboot, PowerCut, Boot, Commit, Abort, BecomeCalm, scriptVars, vars, hostVars
    <3> QED
      BY <3>1, <3>2, <3>3 DEF Next, Step
  <2>2. pc' # "record" \/ Resume
    <3>1. StagerStep \/ PublisherStep => pc' # "record"
      BY PublishingPlaces, StagingPlaces DEF Stager, Publisher
    <3>2. HostStep => pc' # "record" \/ Resume
      BY <1>6 DEF HostStep, Run, ReadBack, RecordStaged, Finish, AwaitReady, Skip, Goto
    <3>3. FinalReboot \/ PowerCut \/ Commit \/ Abort \/ BecomeCalm \/ UNCHANGED scriptVars =>
            pc' # "record"
      BY <1>6 DEF FinalReboot, PowerCut, Commit, Abort, BecomeCalm, scriptVars, vars, hostVars, Goto
    <3> QED
      BY <3>1, <3>2, <3>3 DEF Next, Step
  <2>3. ~Resume /\ pc # "await"
    BY <1>0, <1>6 DEF Resume, Skip, Goto, Handing
  <2> QED
    BY <1>3, <1>6, <2>1, <2>2, <2>3
<1> QED
  BY <1>0, <1>1, <1>2, <1>4, <1>5, <1>6 DEF FeaturesKept

\* The phase moves only where the host records it.
LEMMA PhaseMoves ==
  ASSUME TypeOK, [Next]_scriptVars, phase' # phase
  PROVE  \/ pc = "record" /\ phase' = "FEATURES_STAGED" /\ UNCHANGED <<fs, live>>
         \/ pc = "await" /\ live /\ phase' = "FINISHED" /\ UNCHANGED <<fs, live>>
<1>1. ~StagerStep /\ ~PublisherStep
  BY StagingPlaces, PublishingPlaces
<1>2. ~ (FinalReboot \/ PowerCut \/ Commit \/ Abort \/ BecomeCalm \/ UNCHANGED scriptVars)
  BY DEF FinalReboot, PowerCut, Boot, Commit, Abort, BecomeCalm, scriptVars, vars, hostVars
<1>3. CASE HostStep
  BY <1>3 DEF HostStep, Run, StageNext, ReadBack, RecordStaged, Resume, Finish, AwaitReady, Skip,
     Goto, hostVars, fs
<1> QED
  BY <1>1, <1>2, <1>3 DEF Next, Step

\* The pointer and the running system, seen from the host's phase.
PointerFits ==
  /\ phase = "READBACK_VERIFIED" => now[Pointer] = "absent"
  /\ disk[Pointer] # "absent" => now[Pointer] # "absent"
LEMMA PointerStep ==
  ASSUME DeliveryInv, [Next]_scriptVars
  PROVE  PointerFits'
<1>0. /\ TypeOK /\ Publishing /\ Handing /\ PointerFits /\ Pointer \in Paths
      /\ phase' = "READBACK_VERIFIED" => phase = "READBACK_VERIFIED"
  BY PhaseMoves, PathsKnown DEF DeliveryInv, Handing, PointerFits
<1>1. CASE Write
  <2>1. CASE Point
    <3>1. now'[Pointer] = "whole" /\ phase = "FEATURES_STAGED"
      BY <1>0, <2>1, PointerWrites DEF Point, Do, Goto, Publishing, Whole, Handing, Publisher
    <3> QED
      BY <1>0, <3>1 DEF PointerFits
  <2>2. CASE ~Point
    BY <1>0, <1>1, <2>2, Untouched DEF PointerFits
  <2> QED
    BY <2>1, <2>2
<1>2. CASE disk' = now' /\ (Keeps(now, now') \/ Keeps(disk, now'))
  BY <1>0, <1>2 DEF Keeps, PointerFits
<1>3. CASE disk' = now /\ now' = now
  BY <1>0, <1>3 DEF PointerFits
<1>4. CASE UNCHANGED fs
  BY <1>0, <1>4 DEF PointerFits, fs
<1> QED
  BY <1>1, <1>2, <1>3, <1>4, DiskSteps

\* The running system has the generation once the installation is finished.
LiveFits == (live => Handed(disk)) /\ (phase = "FINISHED" => live)
LEMMA LiveStep ==
  ASSUME DeliveryInv, [Next]_scriptVars
  PROVE  LiveFits'
<1>0. TypeOK /\ Files /\ LiveFits
  BY DEF DeliveryInv, Handing, LiveFits
<1>1. ASSUME NEW s, Sound(s)
      PROVE  Current(s) <=> Handed(s)
  BY <1>1 DEF Sound, Handed, Current, Verified, Readable, Whole
<1>2. CASE FinalReboot \/ PowerCut
  <2>1. disk' = now' /\ live' = Current(now') /\ phase' = phase /\ Sound(now')
    BY <1>2, FilesStep DEF FinalReboot, PowerCut, Boot, Files
  <2>2. live' <=> Handed(disk')
    BY <1>1, <2>1
  <2> QED
    BY <1>0, <2>1, <2>2, HandedStays DEF LiveFits
<1>3. CASE live' = live
  BY <1>0, <1>3, PhaseMoves, HandedStays DEF LiveFits
<1>4. StagerStep \/ PublisherStep => live' = live
  <2>1. Write => live' = live
    BY <1>0, Untouched
  <2>2. Flush => live' = live
    BY DEF Flush, SyncFiles, SyncMarker, SyncDraft, SyncSeal, SyncInstall, SyncDiscard, SyncPointer,
       SyncCurrent, SyncClean, Sync
  <2>3. Inspect \/ Verify => live' = live
    BY DEF Inspect, Verify, Skip, hostVars
  <2> QED
    BY <2>1, <2>2, <2>3, ScriptKinds
<1>5. HostStep => live' = live
  BY DEF HostStep, Run, StageNext, ReadBack, RecordStaged, Resume, Finish, AwaitReady, Skip, hostVars
<1>6. Commit \/ Abort \/ BecomeCalm \/ UNCHANGED scriptVars => live' = live
  BY DEF Commit, Abort, BecomeCalm, scriptVars, vars, hostVars
<1> QED
  BY <1>2, <1>3, <1>4, <1>5, <1>6 DEF Next, Step

-----------------------------------------------------------------------------
(* Theorems *)

\* DeliveryInv, of every state of scripts, host and power.
THEOREM DeliverySafe == Spec => []DeliveryInv
<1>1. Init => DeliveryInv
  <2> SUFFICES ASSUME Init PROVE DeliveryInv
    OBVIOUS
  <2>1. TypeOK
    BY DEF Init, TypeOK, FileSystem, Status, Stager, Publisher, Host
  <2>2. \A x \in Paths : now[x] = "absent" /\ disk[x] = "absent"
    BY DEF Init
  <2>3. Files
    BY <2>2, PathsKnown DEF Files, Guarded, Sound, Unbroken
  <2>4. Staging /\ Publishing
    BY DEF Init, Staging, Publishing, Stager, Unpointed
  <2>5. Handing
    BY <2>2, PathsKnown DEF Init, Handing, Stager, Publisher
  <2> QED
    BY <2>1, <2>3, <2>4, <2>5 DEF DeliveryInv
<1>2. DeliveryInv /\ [Next]_scriptVars => DeliveryInv'
  <2> SUFFICES ASSUME DeliveryInv, [Next]_scriptVars PROVE DeliveryInv'
    OBVIOUS
  <2>1. PhaseFits'
    BY PhaseStep DEF DeliveryInv, Handing, PhaseFits
  <2>2. Handing'
    BY <2>1, PointerStep, FeaturesStep, LiveStep
       DEF Handing, PhaseFits, PointerFits, FeaturesKept, LiveFits
  <2> QED
    BY <2>2, TypeStep, FilesStep, StagingStep, PublishingStep DEF DeliveryInv
<1> QED
  BY <1>1, <1>2, PTL DEF Spec, scriptVars

\* For every set of features and whether or not userdata has hard links: whenever power is
\* cut, a feature without its marker is whole or absent (ROOT_FEATURE_STAGER).
THEOREM MarkersGuard == Spec => []MarkerGuards
<1>1. DeliveryInv => MarkerGuards
  BY DEF DeliveryInv, Files, Guarded, MarkerGuards
<1> QED
  BY <1>1, DeliverySafe, PTL

\* Whenever power is cut, update/current names a whole generation (ROOT_GENERATION_PUBLISHER).
THEOREM PointersSound == Spec => []PointerSound
<1>1. DeliveryInv => PointerSound
  BY DEF DeliveryInv, Files, Sound, Handed, PointerSound
<1> QED
  BY <1>1, DeliverySafe, PTL

\* Only a generation that its verifier rejected is ever found broken.
THEOREM BrokenWasRejected == Spec => []OnlyRejectedBroken
<1>1. DeliveryInv => OnlyRejectedBroken
  BY DEF DeliveryInv, Files, Unbroken, OnlyRejectedBroken
<1> QED
  BY <1>1, DeliverySafe, PTL

\* With one feature or more, the scripts and their calls deliver features and generation as
\* the atomic steps of FeatureDelivery do.
THEOREM ScriptsDeliver == ASSUME Features # {} PROVE Spec => ImplementsDelivery
<1>1. Init => Delivery!Init
  <2> SUFFICES ASSUME Init PROVE Delivery!Init
    OBVIOUS
  <2>1. \A x \in Paths : disk[x] = "absent"
    BY DEF Init
  <2>2. ~Delivered
    BY <2>1, PathsKnown DEF Delivered, Whole
  <2>3. ~Safe
    <3>1. PICK f \in Features : TRUE
      OBVIOUS
    <3>2. Installed(f, "payload") \in FilesOf(f) /\ Installed(f, "payload") \in Paths
      BY <3>1, PathsKnown DEF FilesOf, Kinds
    <3> QED
      BY <2>1, <3>1, <3>2 DEF Safe, Whole
  <2> QED
    BY <2>2, <2>3 DEF Init, Delivery!Init
<1>2. DeliveryInv /\ DeliveryInv' /\ [Next]_scriptVars => [Delivery!Next]_(Delivery!vars)
  <2> SUFFICES ASSUME DeliveryInv, DeliveryInv', [Next]_scriptVars
               PROVE  [Delivery!Next]_(Delivery!vars)
    OBVIOUS
  <2>0. /\ Delivered <=> Handed(disk)
        /\ Delivered' <=> Handed(disk')
        /\ Safe <=> AllSafe(disk)
        /\ Safe' <=> AllSafe(disk')
    BY DEF Safe, AllSafe, SafeFeature, Delivered, Handed
  <2>1. /\ TypeOK /\ TypeOK' /\ Handing /\ Handing'
        /\ Delivered => Delivered'
        /\ phase = "READBACK_VERIFIED" => ~Delivered
        /\ phase' = "READBACK_VERIFIED" => ~Delivered'
        /\ phase # "READBACK_VERIFIED" \/ pc = "record" => Delivered \/ Safe
        /\ phase' # "READBACK_VERIFIED" => Delivered' \/ Safe'
    BY <2>0, HandedStays DEF DeliveryInv, Handing, Handed, Whole
  <2> USE DEF Delivery!Next, Delivery!vars
  <2>6. Delivered \in BOOLEAN /\ Delivered' \in BOOLEAN
    BY DEF Delivered, Whole
  <2>2. CASE phase = "READBACK_VERIFIED" /\ phase' = phase
    <3>1. Delivered' = Delivered /\ ~Delivered /\ ~Delivered'
      BY <2>1, <2>2, <2>6
    <3> QED
      BY <2>2, <3>1 DEF Delivery!Stage
  <2>3. CASE phase' # phase
    <3>1. UNCHANGED fs
      BY <2>1, <2>3, PhaseMoves
    <3>2. Delivered' = Delivered /\ (Safe' <=> Safe)
      BY <2>0, <2>6, <3>1 DEF fs
    <3>3. CASE pc = "record" /\ phase' = "FEATURES_STAGED" /\ phase = "READBACK_VERIFIED"
      BY <2>1, <3>2, <3>3 DEF Delivery!Record
    <3>4. CASE pc = "await" /\ live /\ phase' = "FINISHED"
      <4>1. Delivered /\ phase = "FEATURES_STAGED"
        BY <2>0, <2>1, <3>4 DEF Handing
      <4> QED
        BY <3>2, <3>4, <4>1 DEF Delivery!Finish
    <3> QED
      BY <2>1, <2>3, <3>3, <3>4, PhaseMoves DEF TypeOK, Handing
  <2>4. CASE phase = "FEATURES_STAGED" /\ phase' = phase
    <3>1. CASE Delivered \/ ~Delivered'
      <4>1. Delivered' = Delivered /\ (~Delivered => Safe /\ Safe')
        BY <2>1, <2>4, <2>6, <3>1
      <4> QED
        BY <2>4, <4>1
    <3>2. CASE ~Delivered /\ Delivered'
      <4>1. Delivered' = TRUE /\ Safe
        BY <2>1, <2>4, <2>6, <3>2
      <4> QED
        BY <2>4, <3>2, <4>1 DEF Delivery!Publish
    <3> QED
      BY <3>1, <3>2
  <2>5. CASE phase = "FINISHED" /\ phase' = phase
    <3>1. Delivered
      BY <2>0, <2>1, <2>5 DEF Handing
    <3>2. Delivered' = Delivered
      BY <2>1, <2>6, <3>1
    <3> QED
      BY <2>5, <3>1, <3>2
  <2> QED
    BY <2>1, <2>2, <2>3, <2>4, <2>5 DEF TypeOK
<1> QED
  BY <1>1, <1>2, DeliverySafe, PTL DEF Spec, scriptVars, ImplementsDelivery, Delivery!Spec

-----------------------------------------------------------------------------
(* The first boot: slot confirmation and supervision, for every number of   *)
(* slots and every limit                                                    *)


\* What the properties follow from: nothing is reported before the installation is
\* finished, and an outage begins at or after the page's last answer, which is not in
\* the future.
NotYet == host = "installing" => check.report = "none"
Lost == host = "forward" => watch.lost # Never
Heard ==
  /\ watch.heard <= watch.now
  /\ watch.lost # Never => watch.heard <= watch.lost
FirstInv == FirstTypeOK /\ NotYet /\ Lost /\ Heard /\ ConfirmedKeepsBooting /\ GoneJustified

\* A boot of a slot that is not confirmed costs one of its tries.
LEMMA FewerTries ==
  ASSUME FirstBootConstantsOK, NEW r \in Slot, ~r.ok, r.tries > 0
  PROVE  [r EXCEPT !.tries = @ - 1] \in Slot
<1>1. PICK n \in 0 .. MaxTries : r = [tries |-> n, ok |-> FALSE]
  <2>1. r \in [tries : 0 .. MaxTries, ok : {FALSE}]
    BY DEF Slot
  <2>2. r = [tries |-> r.tries, ok |-> r.ok]
    BY <2>1
  <2> QED
    BY <2>1, <2>2
<1>2. r.tries = n
  BY <1>1
<1>3. n - 1 \in 0 .. MaxTries
  BY <1>2 DEF FirstBootConstantsOK
<1>4. ASSUME NEW m \in 0 .. MaxTries
      PROVE  [r EXCEPT !.tries = m] \in [tries : 0 .. MaxTries, ok : {FALSE}]
  BY <1>1
<1> QED
  BY <1>2, <1>3, <1>4 DEF Slot

\* Every step of host and unit keeps the types: verify_boot_slot, supervise_setup and the
\* bootloader's counters.
LEMMA FirstTypeStep ==
  ASSUME FirstBootConstantsOK, FirstTypeOK, Lost, [FirstNext]_firstVars
  PROVE  FirstTypeOK'
<1> USE FirstBootConstantsOK DEF FirstBootConstantsOK, FirstTypeOK, HostGoes, Verifying, Watching,
        Ended, Unit, Check, Watch, Never
<1>0. [tries |-> 0, ok |-> TRUE] \in Slot
  BY DEF Slot
<1>1. CASE FinishedInstall
  BY <1>1 DEF FinishedInstall
<1>2. CASE Preflight \/ ReadStatus \/ ReadBackSlot
  <2>1. /\ check' \in Check /\ UNCHANGED <<slots, unit, watch, steady>>
        /\ host' \in Verifying /\ (host' = "confirm" => check'.selected \in Slots)
        /\ host' # "readback"
    <3>1. CASE Preflight
      <4>1. PICK passed \in BOOLEAN :
              check' = [check EXCEPT !.preflight = passed, !.report = "none"]
        BY <3>1 DEF Preflight
      <4> QED
        BY <3>1, <4>1 DEF Preflight
    <3>2. ASSUME NEW report \in {"unverified", "confirmed", "warned"}
          PROVE  Verdict(report) \in Check
      BY DEF Verdict
    <3>3. CASE ReadStatus
      <4>1. CASE Unanswered /\ HostGoes("status", "forward_page") /\ Reported("unverified")
        BY <3>2, <4>1 DEF Reported
      <4>2. CASE /\ Up /\ HostGoes("status", "confirm")
                 /\ check' = [check EXCEPT !.selected = unit.slot]
        BY <3>3, <4>2 DEF ReadStatus, Up, Reported
      <4>3. CASE /\ HostGoes("status", "forward_page")
                 /\ check' = Verdict(IF slots[unit.slot].ok THEN "confirmed" ELSE "warned")
        BY <3>2, <3>3, <4>3 DEF ReadStatus, Reported
      <4> QED
        BY <3>3, <4>1, <4>2, <4>3 DEF ReadStatus
    <3>4. CASE ReadBackSlot
      BY <3>2, <3>4 DEF ReadBackSlot, Reported
    <3> QED
      BY <1>2, <3>1, <3>3, <3>4
  <2> QED
    BY <2>1
<1>3. CASE Confirm
  <2>1. check.selected \in Slots
    BY <1>3 DEF Confirm
  <2>2. slots' \in [Slots -> Slot]
    BY <1>0, <1>3, <2>1 DEF Confirm
  <2> QED
    BY <1>3, <2>1, <2>2 DEF Confirm
<1>4. CASE ForwardPage \/ Probe \/ Forward \/ Interrupt
  <2>1. CASE ForwardPage
    BY ZenonT(60), <2>1 DEF ForwardPage
  <2>2. CASE Probe
    BY ZenonT(60), <2>2 DEF Probe
  <2>3. CASE Forward
    <3>1. unit' \in Unit
      BY <2>3 DEF Forward
    <3>2. watch.lost # Never
      BY <2>3 DEF Forward, Lost
    <3> QED
      BY <2>3, <3>1, <3>2 DEF Forward
  <2>4. CASE Interrupt
    BY <2>4 DEF Interrupt
  <2> QED
    BY <1>4, <2>1, <2>2, <2>3, <2>4
<1>5. CASE Online
  <2>1. PICK up \in BOOLEAN :
          watch' = [watch EXCEPT !.lost = IF @ = Never THEN watch.now ELSE @,
                                 !.rebooted = @ \/ ~up]
    BY <1>5 DEF Online
  <2> DEFINE lost == IF watch.lost = -1 THEN watch.now ELSE watch.lost
             rebooted == watch.rebooted \/ ~up
  <2>2. watch' = [watch EXCEPT !.lost = lost, !.rebooted = rebooted]
    BY <2>1
  <2>3. lost \in Nat /\ rebooted \in BOOLEAN
    OBVIOUS
  <2> HIDE DEF lost, rebooted
  <2>4. watch' = [now |-> watch.now, lost |-> lost, rebooted |-> rebooted, heard |-> watch.heard]
    BY <2>2
  <2>5. watch' \in Watch
    BY <2>3, <2>4
  <2>6. watch'.lost # Never
    BY <2>3, <2>4
  <2> QED
    BY <1>5, <2>5, <2>6 DEF Online
<1>6. CASE Judge \/ Sleep
  BY <1>6 DEF Judge, Sleep
<1>7. CASE Again
  BY <1>7 DEF Again, NoWatch
<1>8. CASE GoesDown \/ Settles \/ SetupDone \/ BecomeSteady
  BY ZenonT(60), <1>8 DEF GoesDown, Settles, SetupDone, BecomeSteady
<1>9. CASE ComesUp
  <2>1. PICK s \in Slots : /\ Bootable(s) /\ unit' = [unit EXCEPT !.slot = s]
                           /\ slots' = [slots EXCEPT ![s].tries = IF slots[s].ok THEN @ ELSE @ - 1]
    BY <1>9 DEF ComesUp
  <2>2. slots[s] \in Slot
    BY <2>1
  <2>3. slots' \in [Slots -> Slot]
    <3>1. CASE slots[s].ok
      BY <2>1, <2>2, <3>1 DEF Slot
    <3>2. CASE ~slots[s].ok
      <4>1. [slots[s] EXCEPT !.tries = @ - 1] \in Slot
        BY <2>1, <2>2, <3>2, FewerTries DEF Bootable
      <4>2. slots' = [slots EXCEPT ![s] = [slots[s] EXCEPT !.tries = @ - 1]]
        BY <2>1, <3>2
      <4> QED
        BY <4>1, <4>2
    <3> QED
      BY <2>1, <2>2, <3>1, <3>2
  <2> QED
    BY <1>9, <2>1, <2>3 DEF ComesUp
<1>10. CASE ConfirmsItself
  <2>1. slots' \in [Slots -> Slot]
    BY <1>0, <1>10 DEF ConfirmsItself
  <2> QED
    BY <1>10, <2>1 DEF ConfirmsItself
<1>11. CASE UNCHANGED firstVars
  BY <1>11 DEF firstVars
<1> QED
  BY <1>1, <1>2, <1>3, <1>4, <1>5, <1>6, <1>7, <1>8, <1>9, <1>10, <1>11
     DEF FirstNext, HostWorks, VerifyStep, WatchStep, UnitStep

\* A success flag, once set, stays: by bootctl, by the device or by a reboot.
LEMMA FlagsStay ==
  ASSUME FirstBootConstantsOK, FirstTypeOK, [FirstNext]_firstVars, ~FinishedInstall,
         NEW s \in Slots, slots[s].ok
  PROVE  slots'[s].ok
<1> USE DEF FirstTypeOK
<1>1. CASE Confirm
  BY <1>1 DEF Confirm
<1>2. CASE ComesUp
  BY <1>2 DEF ComesUp
<1>3. CASE ConfirmsItself
  BY <1>3 DEF ConfirmsItself
<1>4. CASE UNCHANGED slots
  BY <1>4
<1> QED
  BY <1>1, <1>2, <1>3, <1>4
     DEF FirstNext, HostWorks, VerifyStep, WatchStep, UnitStep, FinishedInstall, Preflight,
         ReadStatus, ReadBackSlot, Reported, ForwardPage, Probe, Online, Forward, Judge, Sleep,
         Interrupt, Again, GoesDown, Settles, SetupDone, BecomeSteady, firstVars

\* verify_boot_slot reports "confirmed" only over a slot whose success flag it has read.
LEMMA ConfirmedStep ==
  ASSUME FirstBootConstantsOK, FirstTypeOK, NotYet, ConfirmedKeepsBooting, [FirstNext]_firstVars
  PROVE  ConfirmedKeepsBooting' /\ NotYet'
<1> USE DEF FirstTypeOK, Check, ConfirmedKeepsBooting, NotYet, HostGoes
<1>1. CASE FinishedInstall
  BY <1>1 DEF FinishedInstall
<1>2. CASE Preflight
  BY <1>2 DEF Preflight
<1>3. CASE ReadStatus \/ ReadBackSlot
  <2>1. host' # "installing" /\ UNCHANGED slots
    BY <1>3 DEF ReadStatus, ReadBackSlot, Reported
  <2>2. CASE check'.report # "confirmed"
    BY <2>1, <2>2
  <2>3. CASE ReadStatus /\ check'.report = "confirmed"
    <3>1. CASE slots[unit.slot].ok /\ Up
      BY <2>1, <3>1 DEF Up, Unit
    <3>2. CASE Up /\ ~slots[unit.slot].ok
      BY <2>1, <2>3, <3>2 DEF ReadStatus, Reported, Verdict
    <3>3. CASE Unanswered /\ HostGoes("status", "forward_page") /\ Reported("unverified")
      BY <2>3, <3>3 DEF Reported, Verdict
    <3> QED
      BY <2>3, <3>1, <3>2, <3>3 DEF ReadStatus
  <2>4. CASE ReadBackSlot /\ check'.report = "confirmed"
    BY <2>1, <2>4 DEF ReadBackSlot, Reported, Verdict
  <2> QED
    BY <1>3, <2>2, <2>3, <2>4
<1>4. CASE Confirm
  <2>1. check' = check /\ host' = "readback"
    BY <1>4 DEF Confirm
  <2> QED
    BY <1>4, <2>1, FlagsStay DEF Confirm, FirstNext, HostWorks, VerifyStep, FinishedInstall
<1>5. CASE UNCHANGED <<slots, check>> /\ (host' = "installing" => host = "installing")
  BY <1>5
<1>6. CASE UNCHANGED <<host, check>> /\ ~FinishedInstall
  BY <1>6, FlagsStay
<1> QED
  BY <1>1, <1>2, <1>3, <1>4, <1>5, <1>6
     DEF FirstNext, HostWorks, VerifyStep, WatchStep, UnitStep, FinishedInstall, ForwardPage, Probe,
         Online, Forward, Judge, Sleep, Interrupt, Again, GoesDown, ComesUp, Settles,
         ConfirmsItself, SetupDone, BecomeSteady, firstVars, Ended

\* supervise_setup: lost_since is never before the last answer.
LEMMA HeardStep ==
  ASSUME FirstBootConstantsOK, FirstTypeOK, Lost, Heard, GoneJustified, [FirstNext]_firstVars
  PROVE  Lost' /\ Heard' /\ GoneJustified'
<1> USE FirstBootConstantsOK DEF FirstBootConstantsOK, FirstTypeOK, Watch, Lost, Heard, GoneJustified,
        Never, HostGoes
<1>1. CASE Probe
  <2>1. CASE watch' = [watch EXCEPT !.lost = Never, !.rebooted = FALSE, !.heard = watch.now]
    BY <1>1, <2>1 DEF Probe
  <2>2. CASE UNCHANGED watch /\ host' = "online"
    BY <2>2
  <2> QED
    BY <1>1, <2>1, <2>2 DEF Probe
<1>2. CASE Online
  <2>1. /\ watch'.lost = IF watch.lost = -1 THEN watch.now ELSE watch.lost
        /\ watch'.now = watch.now /\ watch'.heard = watch.heard
        /\ host' \in {"forward", "judge"}
    BY <1>2 DEF Online
  <2> QED
    BY <2>1
<1>3. CASE Judge
  BY <1>3 DEF Judge
<1>4. CASE Sleep
  BY <1>4 DEF Sleep
<1>5. CASE Again
  BY <1>5 DEF Again, NoWatch
<1>6. CASE /\ UNCHANGED watch
           /\ host' = "gone" => host = "gone"
           /\ host' = "forward" => host = "forward"
  BY <1>6
<1> QED
  BY <1>1, <1>2, <1>3, <1>4, <1>5, <1>6
     DEF FirstNext, HostWorks, VerifyStep, WatchStep, UnitStep, FinishedInstall, Preflight,
         ReadStatus, Confirm, ReadBackSlot, Reported, ForwardPage, Forward,
         Interrupt, GoesDown, ComesUp, Settles, ConfirmsItself, SetupDone, BecomeSteady, firstVars

\* FirstInv, of every state of a unit's first boots.
THEOREM FirstBootSafe == ASSUME FirstBootConstantsOK PROVE FirstSpec => []FirstInv
<1>1. FirstInit => FirstInv
  <2> SUFFICES ASSUME FirstInit PROVE FirstInv
    OBVIOUS
  <2>1. slots \in [Slots -> Slot]
    BY FirstBootConstantsOK DEF FirstBootConstantsOK, FirstInit, Slot
  <2>2. unit \in Unit /\ check \in Check /\ watch \in Watch
    BY FirstBootConstantsOK DEF FirstBootConstantsOK, FirstInit, Unit, Check, Watch, NoWatch, Never
  <2>3. FirstTypeOK
    BY <2>1, <2>2 DEF FirstInit, FirstTypeOK
  <2>4. watch.heard = 0 /\ watch.now = 0 /\ watch.lost = -1
    BY DEF FirstInit, NoWatch, Never
  <2> QED
    BY <2>3, <2>4 DEF FirstInit, FirstInv, NotYet, Lost, Heard, ConfirmedKeepsBooting,
       GoneJustified, Never
<1>2. FirstInv /\ [FirstNext]_firstVars => FirstInv'
  BY FirstBootConstantsOK, FirstTypeStep, ConfirmedStep, HeardStep DEF FirstInv
<1> QED
  BY <1>1, <1>2, PTL DEF FirstSpec

\* A unit whose slot verify_boot_slot reported confirmed keeps a slot to boot.
THEOREM ConfirmedBoots == ASSUME FirstBootConstantsOK PROVE FirstSpec => []ConfirmedKeepsBooting
<1>1. FirstInv => ConfirmedKeepsBooting
  BY DEF FirstInv
<1> QED
  BY <1>1, FirstBootSafe, PTL

\* supervise_setup gives a unit up only after reconnect_timeout without an answer.
THEOREM GoneWasGone == ASSUME FirstBootConstantsOK PROVE FirstSpec => []GoneJustified
<1>1. FirstInv => GoneJustified
  BY DEF FirstInv
<1> QED
  BY <1>1, FirstBootSafe, PTL

-----------------------------------------------------------------------------
(* The composition *)

\* The installation's end as a whole takes the scripts' steps only (the unit's later reboots
\* are power cuts to them), so the theorems above are theorems of it.
THEOREM ScriptsWithin == FinishSpec => Spec
<1> DEFINE Here == TypeOK /\ PhaseFits
<1>1. FinishInit => Init /\ Here
  BY DEF FinishInit, Init, TypeOK, FileSystem, Status, PhaseFits, Stager, Publisher, Host
<1>2. Here /\ [FinishNext]_allVars => [Next]_scriptVars
  <2> SUFFICES ASSUME Here, [FinishNext]_allVars PROVE [Next]_scriptVars
    OBVIOUS
  <2>1. CASE Deliver
    BY <2>1 DEF Deliver
  <2>2. CASE FollowUp /\ Restart
    <3>1. At("idle") /\ Boot /\ pc' = pc
      BY <2>2 DEF FollowUp, AllDelivered, Restart, TypeOK, PhaseFits, Stager, Publisher, Host, At
    <3> QED
      BY <3>1 DEF PowerCut, At, Next
  <2>3. CASE FollowUp /\ UNCHANGED scriptVars
    BY <2>3
  <2>4. CASE UNCHANGED allVars
    BY <2>4 DEF allVars
  <2> QED
    BY <2>1, <2>2, <2>3, <2>4 DEF FinishNext, FollowUp
<1>3. Here /\ [Next]_scriptVars => Here'
  BY TypeStep, PhaseStep
<1> QED
  BY <1>1, <1>2, <1>3, PTL DEF FinishSpec, Spec, scriptVars

\* And the unit's first boots are steps of FirstBoot.
THEOREM FirstBootWithin == FinishSpec => FirstSpec
<1>1. FinishInit => FirstInit
  BY DEF FinishInit
<1>2. [FinishNext]_allVars => [FirstNext]_firstVars
  BY DEF FinishNext, Deliver, FollowUp, Restart, FirstNext, allVars
<1> QED
  BY <1>1, <1>2, PTL DEF FinishSpec, FirstSpec

\* Once the installation is finished, the unit runs the generation in every boot, whichever
\* slot it boots: finish_install ends only with the generation current and mounted.
THEOREM BootsGeneration == FinishSpec => []BootsComplete
<1>1. DeliveryInv => BootsComplete
  BY DEF DeliveryInv, Handing, BootsComplete
<1> QED
  BY <1>1, ScriptsWithin, DeliverySafe, PTL

=============================================================================
