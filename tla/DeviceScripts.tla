---------------------------- MODULE DeviceScripts ----------------------------
(***************************************************************************)
(* The two scripts tools/libreecho-install.py runs on the device, command   *)
(* by command: the stager, which installs one feature, and the publisher,   *)
(* which assembles the signed generation and points update/current to it;   *)
(* and the host's calls of them.  A script stops where it fails, is killed  *)
(* or loses power.                                                          *)
(*                                                                          *)
(* userdata is a journalled file system.  Its journal may be committed at   *)
(* any time, with all directory changes so far; the data of a file is safe  *)
(* only after a sync.  A path is <<directory, feature, name>>, its status   *)
(* "absent", "dirty" (written, perhaps only in memory), "whole" or "torn".  *)
(***************************************************************************)
EXTENDS Naturals

CONSTANTS
  Features,   \* the features of the release: the ones the signed target lists
  HardLinks,  \* whether ln works on userdata; if not, the publisher copies
  None

ASSUME FeaturesOK == None \notin Features

VARIABLES
  now,       \* the file system as programs see it
  disk,      \* the file system as last committed: what a power cut brings back, but
             \* for the data it loses
  pc,        \* the next command of the script, or of the host between scripts
  feature,   \* the feature being staged
  done,      \* the features this run has staged
  phase,     \* the phase in the host's state file
  live,      \* the running system has mounted the generation
  rejected,  \* history: the verifier rejected the generation, and its removal is not safe
  calm       \* TRUE once nothing is killed, fails or loses power any more

vars == <<now, disk, pc, feature, done, phase, live, rejected, calm>>
fs == <<now, disk>>
hostVars == <<feature, done, phase, live, rejected, calm>>

Status == {"absent", "dirty", "whole", "torn"}
Kinds == {"payload", "manifest"}
Parts(dir) == ({dir} \X Features \X Kinds) \cup {<<dir, None, "control">>, <<dir, None, "seal">>}
Tree(dir) == Parts(dir) \cup {<<dir, None, "dir">>, <<dir, None, "draft">>}

\* The staging directory of each feature and its files; PARTIAL and DEST of the
\* publisher, with target.manifest and .sig as control, COMPLETE as seal and
\* COMPLETE.tmp as draft; update/current.tmp and update/current.
Marker(f) == <<"features", f, "staging">>
Installed(f, kind) == <<"features", f, kind>>
Dest == <<"dest", None, "dir">>
Draft == <<"update", None, "draft">>
Pointer == <<"update", None, "pointer">>
FeatureTree == {"features"} \X Features \X (Kinds \cup {"staging"})
Paths == FeatureTree \cup Tree("partial") \cup Tree("dest") \cup {Draft, Pointer}
FileSystem == [Paths -> Status]

Stager ==
  {"mark", "set_aside", "move_payload", "move_manifest", "sync_files", "unmark",
   "sync_marker"}
Publisher ==
  {"inspect", "clear", "link", "control", "draft", "sync_draft", "seal", "sync_seal", "install",
   "sync_install", "verify", "discard", "sync_discard", "draft_pointer", "sync_pointer", "point",
   "sync_current", "clean", "sync_clean"}
Host == {"idle", "stage", "read_back", "record", "resume", "finish", "reboot", "await"}

Put(s, paths, status) == [x \in Paths |-> IF x \in paths THEN status ELSE s[x]]
Rename(s, from, to) == Put(Put(s, {to}, s[from]), {from}, "absent")
Readable(s, paths) == \A x \in paths : s[x] \in {"dirty", "whole"}
Whole(s, paths) == \A x \in paths : s[x] = "whole"

FilesOf(f) == {Installed(f, kind) : kind \in Kinds}
\* verify_device_features and the test for staging directories, of every feature.
AllStaged(s) == \A f \in Features : s[Marker(f)] = "absent" /\ Readable(s, FilesOf(f))
\* libreecho-generation verify (external): every file of the generation is right.
Verified(s) == Readable(s, Parts("dest"))
Current(s) == Readable(s, {Pointer}) /\ Verified(s)

\* sync writes everything; a power cut keeps the data of some files only.
Synced(s) == [x \in Paths |-> IF s[x] = "dirty" THEN "whole" ELSE s[x]]
Settled(s) ==
  {[x \in Paths |-> IF x \in lost THEN "torn" ELSE IF s[x] = "dirty" THEN "whole" ELSE s[x]] :
     lost \in SUBSET {x \in Paths : s[x] = "dirty"}}

Init ==
  /\ now = [x \in Paths |-> "absent"] /\ disk = now
  /\ pc = "idle" /\ feature = None /\ done = {}
  /\ phase = "READBACK_VERIFIED" /\ live = FALSE
  /\ rejected = FALSE /\ calm = FALSE

At(label) == pc = label
Goto(from, to) == pc = from /\ pc' = to
\* One command that changes directories, one that only reads, and sync.
Do(from, to, s) == Goto(from, to) /\ now' = s /\ UNCHANGED <<disk, hostVars>>
Skip(from, to) == Goto(from, to) /\ UNCHANGED <<fs, hostVars>>
Sync(from, to) ==
  /\ Goto(from, to)
  /\ now' = Synced(now) /\ disk' = now'
  /\ UNCHANGED <<feature, done, phase, live, calm>>
\* cp and printf: the data may still be in memory; half of it if they fail.
Copy(from, to, path) ==
  \/ Do(from, to, Put(now, {path}, "dirty"))
  \/ ~calm /\ Do(from, "idle", Put(now, {path}, "torn"))
\* rm -rf: the files one by one, then the directory.  The order is the file system's;
\* nothing tells two partly removed trees apart.
Remove(from, to, tree) ==
  LET files == {x \in tree : x[3] # "dir" /\ now[x] # "absent"}
  IN  \/ files # {} /\ Do(from, from, Put(now, {CHOOSE x \in files : TRUE}, "absent"))
      \/ files = {} /\ Do(from, to, Put(now, tree, "absent"))

-----------------------------------------------------------------------------
(* Faults *)

UnsyncedFiles == Skip("sync_files", "unmark")       \* no sync before the marker goes
UnsyncedMarker == Skip("sync_marker", "read_back")  \* no sync after it went
UnsyncedPointer == Skip("sync_pointer", "point")    \* no sync before current is renamed
KeepPartial == Skip("clear", "link")                \* what an earlier run left is used
ExistingRefused ==     \* a generation without update/current is an error, never resumed
  \/ now[Pointer] # "absent" /\ Current(now) /\ Skip("inspect", "reboot")
  \/ now[Pointer] # "absent" /\ (Current(now) => ~calm) /\ Skip("inspect", "idle")
  \/ now[Pointer] = "absent" /\ now[Dest] # "absent" /\ Skip("inspect", "idle")
  \/ now[Pointer] = "absent" /\ now[Dest] = "absent" /\ Skip("inspect", "clear")
ReadyAssumed ==        \* the unit counts as finished when it is back
  Goto("await", "idle") /\ phase' = "FINISHED" /\ UNCHANGED <<fs, feature, done, live, rejected, calm>>
-----------------------------------------------------------------------------
(* ROOT_FEATURE_STAGER.  The staging directory keeps a feature from being    *)
(* activated while its files change.  What a run copies into it and verifies *)
(* there is read by nobody else, so the copies appear with their renames.    *)

Mark == Do("mark", "set_aside", Put(now, {Marker(feature)}, "whole"))
\* The old payload's new name, payload.squashfs.previous, is never read.
SetAside == Do("set_aside", "move_payload", Put(now, {Installed(feature, "payload")}, "absent"))
MovePayload ==
  Do("move_payload", "move_manifest", Put(now, {Installed(feature, "payload")}, "dirty"))
MoveManifest ==
  Do("move_manifest", "sync_files", Put(now, {Installed(feature, "manifest")}, "dirty"))
SyncFiles == Sync("sync_files", "unmark") /\ UNCHANGED rejected
Unmark == Do("unmark", "sync_marker", Put(now, {Marker(feature)}, "absent"))
SyncMarker == Sync("sync_marker", "read_back") /\ UNCHANGED rejected

StagerStep ==
  \/ Mark \/ SetAside \/ MovePayload \/ MoveManifest
  \/ SyncFiles \/ Unmark \/ SyncMarker

-----------------------------------------------------------------------------
(* ROOT_GENERATION_PUBLISHER.  The verifier may also fail for no reason of   *)
(* the generation's own.                                                    *)

\* update/current wins over everything; an existing DEST is used as it is.
Inspect ==
  \/ now[Pointer] # "absent" /\ Current(now) /\ Skip("inspect", "reboot")
  \/ now[Pointer] # "absent" /\ (Current(now) => ~calm) /\ Skip("inspect", "idle")
  \/ now[Pointer] = "absent" /\ now[Dest] # "absent" /\ Verified(now) /\ Skip("inspect", "draft_pointer")
  \/ /\ now[Pointer] = "absent" /\ now[Dest] # "absent" /\ (Verified(now) => ~calm)
     /\ Skip("inspect", "idle")
  \/ now[Pointer] = "absent" /\ now[Dest] = "absent" /\ Skip("inspect", "clear")
\* What is left of PARTIAL is read by nobody.
Clear == Do("clear", "link", Put(now, Tree("partial"), "absent"))

\* Hard links, or copies, of each file in a fixed order; the first makes the directory.
\* What a copy that fails leaves in PARTIAL is read by nobody.
ToLink == {x \in {"partial"} \X Features \X Kinds : now[x] = "absent"}
Link ==
  LET x == CHOOSE y \in ToLink : TRUE
      source == Installed(x[2], x[3])
      linked(status) == Put(Put(now, {x}, status), {<<"partial", None, "dir">>}, "whole")
  IN  \/ /\ ToLink # {} /\ now[source] # "absent"
         /\ Do("link", "link", linked(IF HardLinks \/ now[source] = "torn" THEN now[source] ELSE "dirty"))
      \/ ToLink # {} /\ (now[source] = "absent" \/ ~calm) /\ Skip("link", "idle")
      \/ ToLink = {} /\ Skip("link", "control")

Control == Copy("control", "draft", <<"partial", None, "control">>)
WriteDraft == Copy("draft", "sync_draft", <<"partial", None, "draft">>)
SyncDraft == Sync("sync_draft", "seal") /\ UNCHANGED rejected
Seal ==
  Do("seal", "sync_seal", Rename(now, <<"partial", None, "draft">>, <<"partial", None, "seal">>))
SyncSeal == Sync("sync_seal", "install") /\ UNCHANGED rejected

\* mv PARTIAL DEST, a single rename.
Moved(s) ==
  [x \in Paths |-> IF x[1] = "dest" THEN s[<<"partial", x[2], x[3]>>]
                   ELSE IF x[1] = "partial" THEN "absent" ELSE s[x]]
InstallGeneration == Do("install", "sync_install", Moved(now))
SyncInstall == Sync("sync_install", "verify") /\ rejected' = FALSE

Verify ==
  \/ Verified(now) /\ Skip("verify", "draft_pointer")
  \/ /\ Verified(now) => ~calm
     /\ Goto("verify", "discard") /\ rejected' = TRUE
     /\ UNCHANGED <<fs, feature, done, phase, live, calm>>
Discard == Remove("discard", "sync_discard", Tree("dest"))
SyncDiscard == Sync("sync_discard", "idle") /\ rejected' = FALSE

DraftPointer == Copy("draft_pointer", "sync_pointer", Draft)
SyncPointer == Sync("sync_pointer", "point") /\ UNCHANGED rejected
Point == Do("point", "sync_current", Rename(now, Draft, Pointer))
SyncCurrent == Sync("sync_current", "clean") /\ rejected' = FALSE
\* From here on nothing reads the feature tree: its removal is one step.
Clean == Do("clean", "sync_clean", Put(now, FeatureTree, "absent"))
SyncClean == Sync("sync_clean", "reboot") /\ UNCHANGED rejected

PublisherStep ==
  \/ Inspect \/ Clear \/ Link \/ Control \/ WriteDraft \/ SyncDraft \/ Seal \/ SyncSeal
  \/ InstallGeneration \/ SyncInstall \/ Verify \/ Discard \/ SyncDiscard
  \/ DraftPointer \/ SyncPointer \/ Point \/ SyncCurrent \/ Clean \/ SyncClean

-----------------------------------------------------------------------------
(* The host: stage_device_features, continue_one_shot from READBACK_VERIFIED *)
(* or FEATURES_STAGED, finish_install.                                      *)

Run ==
  /\ phase # "FINISHED"
  /\ Goto("idle", IF phase = "READBACK_VERIFIED" THEN "stage" ELSE "resume")
  /\ done' = {} /\ feature' = None
  /\ UNCHANGED <<fs, phase, live, rejected, calm>>
StageNext ==
  \/ /\ done # Features
     /\ Goto("stage", "mark") /\ feature' = (CHOOSE f \in Features \ done : TRUE)
     /\ UNCHANGED <<fs, done, phase, live, rejected, calm>>
  \/ done = Features /\ Skip("stage", "record")
ReadBack ==
  /\ Goto("read_back", "stage")
  /\ Readable(now, FilesOf(feature))
  /\ done' = done \cup {feature} /\ feature' = None
  /\ UNCHANGED <<fs, phase, live, rejected, calm>>
RecordStaged ==
  /\ Goto("record", "finish") /\ phase' = "FEATURES_STAGED" /\ done' = {}
  /\ UNCHANGED <<fs, feature, live, rejected, calm>>

\* A generation that is current is left alone; else the features must all be there.
Resume ==
  \/ Current(now) /\ Skip("resume", "finish")
  \/ (Current(now) => ~calm) /\ AllStaged(now) /\ Skip("resume", "record")
  \/ (Current(now) => ~calm) /\ ~AllStaged(now) /\ Skip("resume", "idle")

\* finish_install publishes only what is not current, and reboots only if it published.
Finish ==
  \/ Current(now) /\ Skip("finish", "await")
  \/ (Current(now) => ~calm) /\ Skip("finish", "inspect")
AwaitReady ==
  \/ /\ live /\ Goto("await", "idle") /\ phase' = "FINISHED"
     /\ UNCHANGED <<fs, feature, done, live, rejected, calm>>
  \/ (live => ~calm) /\ Skip("await", "idle")

HostStep ==
  Run \/ StageNext \/ ReadBack \/ RecordStaged \/ Resume \/ Finish \/ AwaitReady

-----------------------------------------------------------------------------
(* Reboots and failures *)

\* The device comes back with some state of its disk; the system that boots mounts
\* the current generation if it verifies.
Boot ==
  /\ now' \in Settled(disk) /\ disk' = now'
  /\ live' = Current(now')
  /\ UNCHANGED <<feature, done, phase, rejected, calm>>
FinalReboot == Goto("reboot", "await") /\ Boot
PowerCut == (calm => At("idle")) /\ pc' = "idle" /\ Boot

Commit == disk # now /\ disk' = now /\ UNCHANGED <<now, pc, hostVars>>

\* A command fails, or the host or the script is killed.
Abort == ~calm /\ ~At("idle") /\ pc' = "idle" /\ UNCHANGED <<fs, hostVars>>
BecomeCalm ==
  ~calm /\ calm' = TRUE /\ UNCHANGED <<fs, pc, feature, done, phase, live, rejected>>

Step == StagerStep \/ PublisherStep \/ HostStep \/ FinalReboot
Next == Step \/ Commit \/ PowerCut \/ Abort \/ BecomeCalm
Spec == Init /\ [][Next]_vars

\* Trouble ends; the operator reruns continue-one-shot and power-cycles the unit.
LiveSpec == Spec /\ WF_vars(Step) /\ WF_vars(BecomeCalm) /\ SF_vars(PowerCut)

-----------------------------------------------------------------------------
(* Properties *)

TypeOK ==
  /\ now \in FileSystem /\ disk \in FileSystem
  /\ pc \in Stager \cup Publisher \cup Host
  /\ feature \in Features \cup {None} /\ done \subseteq Features
  /\ pc \in Stager \cup {"read_back"} => feature \in Features
  /\ phase \in {"READBACK_VERIFIED", "FEATURES_STAGED", "FINISHED"}
  /\ live \in BOOLEAN /\ rejected \in BOOLEAN /\ calm \in BOOLEAN

\* Whenever power is cut, a feature without its staging directory is installed whole
\* or not installed at all, until the generation takes the features over: the
\* marker is on disk before the first file changes and gone only after the last is safe.
MarkerGuards ==
  \A f \in Features :
    disk[Pointer] = "absent" /\ disk[Marker(f)] = "absent" =>
      Whole(disk, FilesOf(f)) \/ \A x \in FilesOf(f) : disk[x] = "absent"

\* Whenever power is cut, update/current is absent, or whole and names a generation
\* of which every file is on disk.
PointerSound == disk[Pointer] # "absent" => Whole(disk, {Pointer} \cup Parts("dest"))

\* Whenever power is cut, the generation's directory is absent or complete, unless
\* the verifier rejected it: only then may later runs refuse it (EXISTING_INVALID).
OnlyRejectedBroken ==
  disk[Dest] # "absent" => Whole(disk, Parts("dest")) \/ rejected

\* Features and generation are delivered as by the atomic steps of FeatureDelivery,
\* judged by what a power cut would leave.
Delivered == Whole(disk, {Pointer} \cup Parts("dest"))
Safe == \A f \in Features : disk[Marker(f)] = "absent" /\ Whole(disk, FilesOf(f))
Delivery == INSTANCE FeatureDelivery WITH
  features <- IF Delivered THEN "handed_over" ELSE IF Safe THEN "staged" ELSE "open",
  generation <- Delivered
ImplementsDelivery == Delivery!Spec

\* Once trouble ends, rerunning continue-one-shot completes the installation from
\* wherever scripts and host were stopped, but not over a broken generation that an
\* interrupted removal left or may leave.
Intact(s) == s[Dest] = "absent" \/ Verified(s)
Completes == calm /\ Intact(now) /\ Intact(disk) ~> phase = "FINISHED"
=============================================================================
