--------------------------- MODULE ComponentCache ---------------------------
(***************************************************************************)
(* build/component-cache.py under build/build.sh, for one component and     *)
(* key: the unit of locking.  Builds in checkouts of their own share the    *)
(* cache root.  Each restores the component or builds and stores it, then   *)
(* materializes it into its run directory and records it in the run's       *)
(* components.json.  Builds are killed at any point, entries decay on disk. *)
(*                                                                          *)
(* A tree is its content: one of Outputs, or Damaged.  A manifest is        *)
(* written as the content it describes, since it lists the hash of          *)
(* every file.  Copies under random names that a killed build leaves behind *)
(* are never looked at again and are left out.                              *)
(***************************************************************************)
EXTENDS Naturals, FiniteSets

CONSTANTS
  Builds,    \* checkouts whose builds share the cache root
  Outputs,   \* what the component's builder may produce for this key
  Damaged,   \* a tree or manifest that is not what was written
  None

ASSUME CacheConstantsOK ==
  /\ None \notin Builds
  /\ None \notin Outputs \cup {Damaged}
  /\ None \notin [payload : Outputs \cup {Damaged}, manifest : Outputs \cup {Damaged}]
  /\ Damaged \notin Outputs

VARIABLES
  entry,     \* <cache-root>/<component>/<key>: its payload and manifest.json, or None
  lock,      \* who holds .<key>.lock
  pc,        \* the next step of each checkout's build
  run,       \* its trees: output, copy in progress, run directory and record
  shipped,   \* history: contents recorded in some run's components.json
  rotted,    \* history: an entry has decayed
  calm       \* no more kills, I/O errors and decay
vars == <<entry, lock, pc, run, shipped, rotted, calm>>

Tree == Outputs \cup {Damaged}
Entry == [payload : Tree, manifest : Tree]
Record == [status : {"hit", "rebuilt"}, outputs : Tree]
Run ==
  [out : Tree \cup {None}, status : {"hit", "rebuilt"}, temp : Tree \cup {None},
   manifest : Tree \cup {None}, root : Tree \cup {None}, record : Record \cup {None}]

Waiting == {"restore", "store"}
Locked == {"lookup", "copy_out", "verify_restored", "copy_in", "compare", "quarantine", "commit",
           "verify_stored"}
Storing == {"compare", "quarantine", "commit", "verify_stored"}
Recording == {"materialize", "publish_root", "publish_record"}
Ended == {"idle", "complete", "refused", "failed"}

Present == entry # None  \* a fault: an entry is not verified before it is used

\* _load_entry_fd: the manifest describes exactly what the payload holds.
Valid == entry # None /\ entry.manifest = entry.payload /\ entry.payload \in Outputs

NewRun ==
  [out |-> None, status |-> "rebuilt", temp |-> None, manifest |-> None, root |-> None,
   record |-> None]

Init ==
  /\ entry = None
  /\ lock = None
  /\ pc = [b \in Builds |-> "idle"]
  /\ run = [b \in Builds |-> NewRun]
  /\ shipped = {}
  /\ rotted = FALSE
  /\ calm = FALSE

Goto(b, label) == pc' = [pc EXCEPT ![b] = label]
Becomes(b, trees) == run' = [run EXCEPT ![b] = trees]
Unlock(b) == lock' = IF lock = b THEN None ELSE lock
History == <<shipped, rotted, calm>>

-----------------------------------------------------------------------------
(***************************************************************************)
(* Faults: plausible bugs in definitions that follow, for checking that the *)
(* properties notice them.  Nothing uses them.                              *)
(***************************************************************************)
KeyUnlocked(b) ==         \* the lock is taken without waiting
  /\ pc[b] \in Waiting
  /\ lock' = b
  /\ Goto(b, IF pc[b] = "restore" THEN "lookup" ELSE "copy_in")
  /\ UNCHANGED <<entry, run, shipped, rotted, calm>>
RestoredUnverified(b) ==  \* the copy is not compared with the manifest
  /\ pc[b] = "verify_restored"
  /\ Becomes(b, [run[b] EXCEPT !.out = run[b].temp, !.status = "hit", !.temp = None])
  /\ Goto(b, "materialize")
  /\ Unlock(b)
  /\ UNCHANGED <<entry, shipped, rotted, calm>>
ExistsAnyhow(b) ==        \* any valid entry counts as the same
  Valid /\ Goto(b, "materialize") /\ Unlock(b)
RecordFirst(b) ==         \* the record is renamed into place before the directory
  /\ pc[b] = "publish_root"
  /\ Becomes(b, [run[b] EXCEPT !.record = [status |-> run[b].status, outputs |-> run[b].manifest]])
  /\ Goto(b, "publish_record")
  /\ UNCHANGED <<entry, lock, shipped, rotted, calm>>
-----------------------------------------------------------------------------
\* build.sh clears the output directory and names a new run directory; it looks
\* into the cache only if LIBREECHO_REUSE_COMPONENT_CACHE is set.
Start(b) ==
  /\ pc[b] \in Ended
  /\ Becomes(b, NewRun)
  /\ \E reuse \in BOOLEAN : Goto(b, IF reuse THEN "restore" ELSE "build")
  /\ UNCHANGED <<entry, lock, shipped, rotted, calm>>

\* flock(LOCK_EX) waits until the lock is free.
KeyLock(b) ==
  /\ pc[b] \in Waiting
  /\ lock = None
  /\ lock' = b
  /\ Goto(b, IF pc[b] = "restore" THEN "lookup" ELSE "copy_in")
  /\ UNCHANGED <<entry, run, shipped, rotted, calm>>

\* restore: MISS, CORRUPT_MISS with the entry renamed away, or a valid entry.
Miss(b) ==
  /\ ~Valid
  /\ entry' = None
  /\ Goto(b, "build")
  /\ Unlock(b)
  /\ UNCHANGED run
Hit(b) ==
  /\ Valid
  /\ Becomes(b, [run[b] EXCEPT !.manifest = entry.manifest])
  /\ Goto(b, "copy_out")
  /\ UNCHANGED <<entry, lock>>
Lookup(b) ==
  /\ pc[b] = "lookup"
  /\ Miss(b) \/ Hit(b)
  /\ UNCHANGED History

CopyOut(b) ==
  /\ pc[b] = "copy_out"
  /\ entry # None
  /\ Becomes(b, [run[b] EXCEPT !.temp = entry.payload])
  /\ Goto(b, "verify_restored")
  /\ UNCHANGED <<entry, lock, shipped, rotted, calm>>

\* The copy is compared with the manifest read before and renamed into place.
VerifyRestored(b) ==
  /\ pc[b] = "verify_restored"
  /\ IF run[b].temp = run[b].manifest
     THEN /\ Becomes(b, [run[b] EXCEPT !.out = run[b].temp, !.status = "hit", !.temp = None])
          /\ Goto(b, "materialize")
     ELSE /\ Becomes(b, [run[b] EXCEPT !.temp = None])
          /\ Goto(b, "failed")
  /\ Unlock(b)
  /\ UNCHANGED <<entry, shipped, rotted, calm>>

\* The component's builder (external): any of Outputs.
Build(b) ==
  /\ pc[b] = "build"
  /\ \E output \in Outputs : Becomes(b, [run[b] EXCEPT !.out = output, !.status = "rebuilt"])
  /\ Goto(b, "store")
  /\ UNCHANGED <<entry, lock, shipped, rotted, calm>>

CopyIn(b) ==
  /\ pc[b] = "copy_in"
  /\ Becomes(b, [run[b] EXCEPT !.temp = run[b].out, !.manifest = run[b].out])
  /\ Goto(b, "compare")
  /\ UNCHANGED <<entry, lock, shipped, rotted, calm>>

\* store: an entry that is valid and the same (EXISTS), valid and different
\* (refused as nondeterministic), or absent or corrupt (to be replaced).
Exists(b) ==
  /\ Valid
  /\ entry.manifest = run[b].manifest
  /\ Goto(b, "materialize")
  /\ Unlock(b)
Nondeterministic(b) ==
  /\ Valid
  /\ entry.manifest # run[b].manifest
  /\ Goto(b, "refused")
  /\ Unlock(b)
Compare(b) ==
  /\ pc[b] = "compare"
  /\ \/ Exists(b)
     \/ Nondeterministic(b)
     \/ ~Valid /\ Goto(b, "quarantine") /\ UNCHANGED lock
  /\ UNCHANGED <<entry, run, shipped, rotted, calm>>

Quarantine(b) ==
  /\ pc[b] = "quarantine"
  /\ entry' = None
  /\ Goto(b, "commit")
  /\ UNCHANGED <<lock, run, shipped, rotted, calm>>

\* rename does not replace a directory that is not empty.
Commit(b) ==
  /\ pc[b] = "commit"
  /\ entry = None
  /\ entry' = [payload |-> run[b].temp, manifest |-> run[b].manifest]
  /\ Goto(b, "verify_stored")
  /\ UNCHANGED <<lock, run, shipped, rotted, calm>>

VerifyStored(b) ==
  /\ pc[b] = "verify_stored"
  /\ IF Valid /\ entry.manifest = run[b].manifest
     THEN Goto(b, "materialize") /\ UNCHANGED entry
     ELSE Goto(b, "failed") /\ entry' = None
  /\ Unlock(b)
  /\ UNCHANGED <<run, shipped, rotted, calm>>

\* The output is copied beside its place in the run directory; the manifest that
\* goes into the record is that of the source.
Materialize(b) ==
  /\ pc[b] = "materialize"
  /\ run[b].record = None
  /\ run[b].root = None
  /\ Becomes(b, [run[b] EXCEPT !.temp = run[b].out, !.manifest = run[b].out])
  /\ Goto(b, "publish_root")
  /\ UNCHANGED <<entry, lock, shipped, rotted, calm>>

PublishRoot(b) ==
  /\ pc[b] = "publish_root"
  /\ Becomes(b, [run[b] EXCEPT !.root = run[b].temp, !.temp = None])
  /\ Goto(b, "publish_record")
  /\ UNCHANGED <<entry, lock, shipped, rotted, calm>>

PublishRecord(b) ==
  /\ pc[b] = "publish_record"
  /\ Becomes(b, [run[b] EXCEPT !.record = [status |-> run[b].status, outputs |-> run[b].manifest]])
  /\ shipped' = shipped \cup {run[b].manifest}
  /\ Goto(b, "complete")
  /\ UNCHANGED <<entry, lock, rotted, calm>>

\* The second rename fails: the directory is removed again.  An interrupt after the rename
\* and before the code has noted it, which rolls back too, is left out.
RollBack(b) ==
  /\ pc[b] = "publish_record"
  /\ ~calm
  /\ Becomes(b, [run[b] EXCEPT !.root = None])
  /\ Goto(b, "failed")
  /\ UNCHANGED <<entry, lock, shipped, rotted, calm>>

\* A build is killed or an I/O operation fails; the kernel drops its lock.
Kill(b) ==
  /\ pc[b] \notin Ended
  /\ ~calm
  /\ Goto(b, "failed")
  /\ Unlock(b)
  /\ UNCHANGED <<entry, run, shipped, rotted, calm>>

\* The disk or a power cut spoils the payload or the manifest of the entry.
Decay ==
  /\ ~calm
  /\ entry # None
  /\ \/ entry' = [entry EXCEPT !.payload = Damaged]
     \/ entry' = [entry EXCEPT !.manifest = Damaged]
  /\ rotted' = TRUE
  /\ UNCHANGED <<lock, pc, run, shipped, calm>>

BecomeCalm ==
  /\ ~calm
  /\ calm' = TRUE
  /\ UNCHANGED <<entry, lock, pc, run, shipped, rotted>>

Step(b) ==
  \/ Lookup(b) \/ CopyOut(b) \/ VerifyRestored(b)
  \/ Build(b) \/ CopyIn(b) \/ Compare(b) \/ Quarantine(b) \/ Commit(b) \/ VerifyStored(b)
  \/ Materialize(b) \/ PublishRoot(b) \/ PublishRecord(b)
Next ==
  \/ \E b \in Builds : Start(b) \/ KeyLock(b) \/ Step(b) \/ RollBack(b) \/ Kill(b)
  \/ Decay \/ BecomeCalm
Spec == Init /\ [][Next]_vars

\* A build that can run does; the kernel hands a contended lock to every waiter in
\* turn.  Nothing says that builds are started, nor that trouble ends.
LiveSpec ==
  /\ Spec
  /\ \A b \in Builds : WF_vars(Step(b)) /\ SF_vars(KeyLock(b))
-----------------------------------------------------------------------------
TypeOK ==
  /\ entry \in Entry \cup {None}
  /\ lock \in Builds \cup {None}
  /\ pc \in [Builds -> Waiting \cup Locked \cup Recording \cup Ended \cup {"build"}]
  /\ run \in [Builds -> Run]
  /\ shipped \subseteq Tree
  /\ rotted \in BOOLEAN
  /\ calm \in BOOLEAN

\* Whatever decays and whenever, a build never continues with a restored component
\* that is not whole, and never records one (the manifest comparison in _restore).
RestoredWhole ==
  /\ \A b \in Builds : run[b].out # Damaged
  /\ Damaged \notin shipped

\* As long as no entry decays, all runs ever recorded hold the same output for the
\* key, even if the builder is not deterministic and builds race or are killed
\* ("same cache key produced different output", _store).
OneOutput == ~rotted => \A x, y \in shipped : x = y

\* A run's components.json describes what its directory holds, at every instant a
\* build may be killed (the order of the two renames in _materialize).
Backed(b) ==
  run[b].record # None => run[b].root # None /\ run[b].record.outputs = run[b].root
RecordBacked == \A b \in Builds : Backed(b)

\* Why a valid entry is kept and outputs agree.  A build between its lookup or
\* comparison and its rename holds the key's lock, so what it saw is still so: an entry
\* to quarantine is not valid, a place to rename to is free, an entry just stored
\* can only have decayed.
Agreed(tree) == Valid /\ entry.payload = tree
Holds(b) ==
  /\ pc[b] \in Locked => lock = b
  /\ pc[b] = "quarantine" => ~Valid
  /\ pc[b] = "commit" => entry = None
  /\ pc[b] = "verify_stored" => (Valid => entry.manifest = run[b].manifest) /\ (~Valid => rotted)
\* The trees a build goes on with, by where it is.
Trees(b) ==
  /\ run[b].out \in Outputs \cup {None}
  /\ pc[b] \in Storing \cup Recording \cup {"store", "copy_in"} => run[b].out \in Outputs
  /\ pc[b] \in Storing \cup {"publish_root"} => run[b].temp = run[b].out
  /\ pc[b] \in Storing \cup {"publish_root", "publish_record"} => run[b].manifest = run[b].out
  /\ pc[b] \in {"copy_out", "verify_restored"} => run[b].manifest \in Outputs
  /\ pc[b] = "publish_record" => run[b].root = run[b].out
  /\ pc[b] \notin Ended => run[b].record = None
  /\ Backed(b)
\* Without decay, everything shipped or about to be is what the entry holds.
Agreement ==
  ~rotted =>
    /\ entry = None \/ Valid
    /\ \A tree \in shipped : Agreed(tree)
    /\ \A b \in Builds :
         /\ pc[b] \in Recording => Agreed(run[b].out)
         /\ pc[b] \in {"copy_out", "verify_restored"} => Agreed(run[b].manifest)
CacheInv ==
  /\ \A b \in Builds : Holds(b) /\ Trees(b)
  /\ Agreement
  /\ shipped \subseteq Outputs

\* A valid entry is never removed or replaced, not by a racing store and not by a
\* restore that saw it before it was repaired: it can only decay where it is
\* (_quarantine_fd and the renames run under the key's lock).
EntryKept == [][Valid /\ entry' # entry => entry' # None /\ ~Valid']_vars

\* Every build goes on with, and records, only an output that was the valid entry when it
\* looked the key up or stored, and only decay makes room for another output.
Taken(b) ==
  CASE pc[b] \in {"copy_out", "verify_restored"} -> run[b].manifest
    [] pc[b] \in Recording -> run[b].out
    [] OTHER -> None
Output == INSTANCE KeyedOutput WITH
  settled <- IF Valid THEN entry.payload ELSE None,
  held <- [b \in Builds |-> Taken(b)],
  spoiled <- rotted
ImplementsOutput == Output!Spec

\* Neither a corrupt entry nor a killed build's lock blocks the component: when the
\* trouble is over a build gets through, unless the builder's output differs from the
\* stored one.
Heals ==
  \A b \in Builds :
    calm /\ pc[b] \in {"restore", "build"} ~> pc[b] \in {"complete", "refused"}
=============================================================================
