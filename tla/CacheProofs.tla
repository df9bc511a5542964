----------------------------- MODULE CacheProofs -----------------------------
(***************************************************************************)
(* What the component cache promises, proved for any number of builds and   *)
(* outputs: whatever decays, builds go on with whole components only; a     *)
(* valid entry is kept; and all recorded runs agree while nothing decays.   *)
(***************************************************************************)
EXTENDS ComponentCache, TLAPS

\* Each step of the system, by name: most proofs below split on this.
LEMMA Steps ==
  ASSUME [Next]_vars
  PROVE  \/ \E b \in Builds :
              \/ Start(b) \/ KeyLock(b) \/ Lookup(b) \/ CopyOut(b) \/ VerifyRestored(b)
              \/ Build(b) \/ CopyIn(b) \/ Compare(b) \/ Quarantine(b) \/ Commit(b)
              \/ VerifyStored(b) \/ Materialize(b) \/ PublishRoot(b) \/ PublishRecord(b)
              \/ RollBack(b) \/ Kill(b)
         \/ Decay \/ BecomeCalm \/ UNCHANGED vars
BY DEF Next, Step

\* The parts of CacheInv for all builds.
AllTrees == \A b \in Builds : Trees(b)
AllHold == \A b \in Builds : Holds(b)

-----------------------------------------------------------------------------
(* The type invariant, together with the trees builds go on with *)

\* A change of one build's trees that is typed keeps the type of run.
LEMMA TypedRun ==
  ASSUME TypeOK, NEW b \in Builds, NEW r \in Run, Becomes(b, r)
  PROVE  run' \in [Builds -> Run]
BY DEF TypeOK, Becomes

\* Every step keeps the types; a commit needs that the copy to store is whole.
LEMMA TypeStep ==
  ASSUME CacheConstantsOK, TypeOK, AllTrees, [Next]_vars
  PROVE  TypeOK'
<1> USE DEF Goto, Unlock, History
<1>1. ASSUME NEW b \in Builds, Start(b)
      PROVE  TypeOK'
  <2>1. NewRun \in Run
    BY DEF NewRun, Run
  <2>2. run' \in [Builds -> Run]
    BY <1>1, <2>1, TypedRun DEF Start
  <2> QED
    BY <1>1, <2>2 DEF Start, TypeOK, Ended, Waiting
<1>2. ASSUME NEW b \in Builds, KeyLock(b)
      PROVE  TypeOK'
  BY <1>2 DEF KeyLock, TypeOK, Locked
<1>3. ASSUME NEW b \in Builds, Lookup(b)
      PROVE  TypeOK'
  <2>1. CASE Miss(b)
    BY <1>3, <2>1 DEF Lookup, Miss, TypeOK
  <2>2. CASE Hit(b)
    <3>1. run[b] \in Run /\ entry.manifest \in Tree
      BY <2>2 DEF Hit, Valid, TypeOK, Entry
    <3>2. [run[b] EXCEPT !.manifest = entry.manifest] \in Run
      BY <3>1 DEF Run
    <3>3. run' \in [Builds -> Run]
      BY <2>2, <3>2, TypedRun DEF Hit
    <3> QED
      BY <1>3, <2>2, <3>3 DEF Lookup, Hit, TypeOK, Locked
  <2> QED
    BY <1>3, <2>1, <2>2 DEF Lookup
<1>4. ASSUME NEW b \in Builds, CopyOut(b)
      PROVE  TypeOK'
  <2>1. [run[b] EXCEPT !.temp = entry.payload] \in Run
    BY <1>4 DEF CopyOut, TypeOK, Run, Entry
  <2>2. run' \in [Builds -> Run]
    BY <1>4, <2>1, TypedRun DEF CopyOut
  <2> QED
    BY <1>4, <2>2 DEF CopyOut, TypeOK, Locked
<1>5. ASSUME NEW b \in Builds, VerifyRestored(b)
      PROVE  TypeOK'
  <2>1. /\ [run[b] EXCEPT !.out = run[b].temp, !.status = "hit", !.temp = None] \in Run
        /\ [run[b] EXCEPT !.temp = None] \in Run
    BY ZenonT(60), <1>5 DEF TypeOK, Run
  <2>2. run' \in [Builds -> Run]
    BY <1>5, <2>1, TypedRun DEF VerifyRestored
  <2> QED
    BY <1>5, <2>2 DEF VerifyRestored, TypeOK, Recording, Ended
<1>6. ASSUME NEW b \in Builds, Build(b)
      PROVE  TypeOK'
  <2>1. run[b] \in Run
    BY <1>6 DEF TypeOK
  <2>2. \A output \in Outputs : [run[b] EXCEPT !.out = output, !.status = "rebuilt"] \in Run
    BY <2>1 DEF Run, Tree
  <2>3. run' \in [Builds -> Run]
    BY <1>6, <2>2, TypedRun DEF Build
  <2> QED
    BY <1>6, <2>3 DEF Build, TypeOK, Waiting
<1>7. ASSUME NEW b \in Builds, CopyIn(b)
      PROVE  TypeOK'
  <2>1. [run[b] EXCEPT !.temp = run[b].out, !.manifest = run[b].out] \in Run
    BY ZenonT(60), <1>7 DEF TypeOK, Run
  <2>2. run' \in [Builds -> Run]
    BY <1>7, <2>1, TypedRun DEF CopyIn
  <2> QED
    BY <1>7, <2>2 DEF CopyIn, TypeOK, Locked
<1>8. ASSUME NEW b \in Builds, Compare(b)
      PROVE  TypeOK'
  BY <1>8 DEF Compare, Exists, Nondeterministic, TypeOK, Locked, Recording, Ended
<1>9. ASSUME NEW b \in Builds, Quarantine(b)
      PROVE  TypeOK'
  BY <1>9 DEF Quarantine, TypeOK, Locked
<1>10. ASSUME NEW b \in Builds, Commit(b)
      PROVE  TypeOK'
  BY <1>10 DEF Commit, TypeOK, Locked, AllTrees, Trees, Storing, Entry, Tree
<1>11. ASSUME NEW b \in Builds, VerifyStored(b)
      PROVE  TypeOK'
  BY <1>11 DEF VerifyStored, TypeOK, Recording, Ended
<1>12. ASSUME NEW b \in Builds, Materialize(b)
      PROVE  TypeOK'
  <2>1. [run[b] EXCEPT !.temp = run[b].out, !.manifest = run[b].out] \in Run
    BY ZenonT(60), <1>12 DEF TypeOK, Run
  <2>2. run' \in [Builds -> Run]
    BY <1>12, <2>1, TypedRun DEF Materialize
  <2> QED
    BY <1>12, <2>2 DEF Materialize, TypeOK, Recording
<1>13. ASSUME NEW b \in Builds, PublishRoot(b)
      PROVE  TypeOK'
  <2>1. [run[b] EXCEPT !.root = run[b].temp, !.temp = None] \in Run
    BY ZenonT(60), <1>13 DEF TypeOK, Run
  <2>2. run' \in [Builds -> Run]
    BY <1>13, <2>1, TypedRun DEF PublishRoot
  <2> QED
    BY <1>13, <2>2 DEF PublishRoot, TypeOK, Recording
<1>14. ASSUME NEW b \in Builds, PublishRecord(b)
      PROVE  TypeOK'
  <2> DEFINE record == [status |-> run[b].status, outputs |-> run[b].manifest]
  <2>1. run[b] \in Run /\ run[b].manifest \in Tree
    BY <1>14 DEF PublishRecord, TypeOK, AllTrees, Trees, Recording, Tree
  <2>2. record \in Record
    BY <2>1 DEF Record, Run
  <2>3. [run[b] EXCEPT !.record = record] \in Run
    BY <2>1, <2>2 DEF Run
  <2>4. run' \in [Builds -> Run]
    BY <1>14, <2>3, TypedRun DEF PublishRecord
  <2> QED
    BY <1>14, <2>1, <2>4 DEF PublishRecord, TypeOK, Ended
<1>15. ASSUME NEW b \in Builds, RollBack(b)
      PROVE  TypeOK'
  <2>1. [run[b] EXCEPT !.root = None] \in Run
    BY DEF TypeOK, Run
  <2>2. run' \in [Builds -> Run]
    BY <1>15, <2>1, TypedRun DEF RollBack
  <2> QED
    BY <1>15, <2>2 DEF RollBack, TypeOK, Ended
<1>16. ASSUME NEW b \in Builds, Kill(b)
      PROVE  TypeOK'
  BY <1>16 DEF Kill, TypeOK, Ended
<1>17. CASE Decay
  BY <1>17 DEF Decay, TypeOK, Entry, Tree
<1>18. CASE BecomeCalm \/ UNCHANGED vars
  BY <1>18 DEF BecomeCalm, vars, TypeOK
<1> QED
  BY <1>1, <1>2, <1>3, <1>4, <1>5, <1>6, <1>7, <1>8, <1>9, <1>10, <1>11, <1>12, <1>13, <1>14,
     <1>15, <1>16, <1>17, <1>18, Steps

-----------------------------------------------------------------------------
(* The trees a build goes on with *)

\* A step of one build leaves the others' places and trees alone.
LEMMA OthersStay ==
  ASSUME TypeOK, NEW b \in Builds, NEW l, Goto(b, l), UNCHANGED run \/ \E r : Becomes(b, r)
  PROVE  /\ \A c \in Builds \ {b} : pc'[c] = pc[c] /\ run'[c] = run[c]
         /\ pc'[b] = l
BY DEF TypeOK, Goto, Becomes

\* What a build's trees become.
LEMMA SameRun ==
  ASSUME TypeOK, NEW b \in Builds, NEW r, Becomes(b, r)
  PROVE  run'[b] = r
BY DEF TypeOK, Becomes

\* A build's step has to be looked at for that build only.
LEMMA TreesMoved ==
  ASSUME AllTrees, NEW b \in Builds, Trees(b)',
         \A c \in Builds \ {b} : pc'[c] = pc[c] /\ run'[c] = run[c]
  PROVE  AllTrees'
BY DEF AllTrees, Trees, Backed

\* Every step keeps what the places of the builds say of their trees.
LEMMA TreesStep ==
  ASSUME CacheConstantsOK, TypeOK, AllTrees, [Next]_vars
  PROVE  AllTrees'
<1> USE DEF Storing, Recording, Ended, Waiting, Locked
<1>0. ASSUME NEW b \in Builds
      PROVE  Trees(b) /\ run[b] \in Run
  BY <1>0 DEF AllTrees, TypeOK
<1>1. ASSUME NEW b \in Builds, Start(b)
      PROVE  AllTrees'
  <2>1. run'[b] = NewRun /\ pc'[b] \in {"restore", "build"}
    BY <1>1, SameRun, OthersStay DEF Start
  <2>2. Trees(b)'
    BY <2>1 DEF Trees, Backed, NewRun
  <2> QED
    BY <1>1, <2>2, OthersStay, TreesMoved DEF Start
<1>2. ASSUME NEW b \in Builds, KeyLock(b)
      PROVE  AllTrees'
  <2>1. Trees(b)'
    BY <1>0, <1>2, OthersStay DEF KeyLock, Trees, Backed
  <2> QED
    BY <1>2, <2>1, OthersStay, TreesMoved DEF KeyLock
<1>3. ASSUME NEW b \in Builds, Lookup(b)
      PROVE  AllTrees'
  <2>1. CASE Miss(b)
    <3>1. Trees(b)'
      BY <1>0, <1>3, <2>1, OthersStay DEF Lookup, Miss, Trees, Backed
    <3> QED
      BY <2>1, <3>1, OthersStay, TreesMoved DEF Miss
  <2>2. CASE Hit(b)
    <3>1. run'[b] = [run[b] EXCEPT !.manifest = entry.manifest] /\ pc'[b] = "copy_out"
      BY <2>2, SameRun, OthersStay DEF Hit
    <3>2. entry.manifest \in Outputs
      BY <2>2 DEF Hit, Valid
    <3>3. Trees(b)'
      BY <1>0, <1>3, <3>1, <3>2 DEF Lookup, Trees, Backed, Run
    <3> QED
      BY <2>2, <3>3, OthersStay, TreesMoved DEF Hit
  <2> QED
    BY <1>3, <2>1, <2>2 DEF Lookup
<1>4. ASSUME NEW b \in Builds, CopyOut(b)
      PROVE  AllTrees'
  <2>1. run'[b] = [run[b] EXCEPT !.temp = entry.payload] /\ pc'[b] = "verify_restored"
    BY <1>4, SameRun, OthersStay DEF CopyOut
  <2>2. Trees(b)'
    BY <1>0, <1>4, <2>1 DEF CopyOut, Trees, Backed, Run
  <2> QED
    BY <1>4, <2>2, OthersStay, TreesMoved DEF CopyOut
<1>5. ASSUME NEW b \in Builds, VerifyRestored(b)
      PROVE  AllTrees'
  <2>1. CASE run[b].temp = run[b].manifest
    <3>1. /\ run'[b] = [run[b] EXCEPT !.out = run[b].temp, !.status = "hit", !.temp = None]
          /\ pc'[b] = "materialize"
      BY <1>5, <2>1, SameRun, OthersStay DEF VerifyRestored
    <3>2. Trees(b)'
      BY <1>0, <1>5, <2>1, <3>1 DEF VerifyRestored, Trees, Backed, Run
    <3> QED
      BY <1>5, <2>1, <3>2, OthersStay, TreesMoved DEF VerifyRestored
  <2>2. CASE run[b].temp # run[b].manifest
    <3>1. run'[b] = [run[b] EXCEPT !.temp = None] /\ pc'[b] = "failed"
      BY <1>5, <2>2, SameRun, OthersStay DEF VerifyRestored
    <3>2. Trees(b)'
      BY <1>0, <1>5, <3>1 DEF VerifyRestored, Trees, Backed, Run
    <3> QED
      BY <1>5, <2>2, <3>2, OthersStay, TreesMoved DEF VerifyRestored
  <2> QED
    BY <2>1, <2>2
<1>6. ASSUME NEW b \in Builds, Build(b)
      PROVE  AllTrees'
  <2>1. PICK output \in Outputs : Becomes(b, [run[b] EXCEPT !.out = output, !.status = "rebuilt"])
    BY <1>6 DEF Build
  <2>2. run'[b] = [run[b] EXCEPT !.out = output, !.status = "rebuilt"] /\ pc'[b] = "store"
    BY <1>6, <2>1, SameRun, OthersStay DEF Build
  <2>3. Trees(b)'
    BY <1>0, <1>6, <2>2 DEF Build, Trees, Backed, Run
  <2> QED
    BY <1>6, <2>1, <2>3, OthersStay, TreesMoved DEF Build
<1>7. ASSUME NEW b \in Builds, CopyIn(b)
      PROVE  AllTrees'
  <2>1. run'[b] = [run[b] EXCEPT !.temp = run[b].out, !.manifest = run[b].out]
          /\ pc'[b] = "compare"
    BY <1>7, SameRun, OthersStay DEF CopyIn
  <2>2. Trees(b)'
    BY <1>0, <1>7, <2>1 DEF CopyIn, Trees, Backed, Run
  <2> QED
    BY <1>7, <2>2, OthersStay, TreesMoved DEF CopyIn
<1>8. ASSUME NEW b \in Builds,
             Compare(b) \/ Quarantine(b) \/ Commit(b) \/ VerifyStored(b) \/ Kill(b)
      PROVE  AllTrees'
  <2>1. /\ UNCHANGED run
        /\ \/ pc[b] \in Storing /\ \E l \in Storing \cup {"materialize"} : Goto(b, l)
           \/ pc[b] \notin Ended /\ \E l \in Ended : Goto(b, l)
    BY <1>8 DEF Compare, Exists, Nondeterministic, Quarantine, Commit, VerifyStored, Kill
  <2>2. Trees(b)'
    BY <1>0, <2>1, OthersStay DEF Trees, Backed
  <2> QED
    BY <2>1, <2>2, OthersStay, TreesMoved
<1>9. ASSUME NEW b \in Builds, Materialize(b)
      PROVE  AllTrees'
  <2>1. run'[b] = [run[b] EXCEPT !.temp = run[b].out, !.manifest = run[b].out]
          /\ pc'[b] = "publish_root"
    BY <1>9, SameRun, OthersStay DEF Materialize
  <2>2. Trees(b)'
    BY <1>0, <1>9, <2>1 DEF Materialize, Trees, Backed, Run
  <2> QED
    BY <1>9, <2>2, OthersStay, TreesMoved DEF Materialize
<1>10. ASSUME NEW b \in Builds, PublishRoot(b)
       PROVE  AllTrees'
  <2>1. run'[b] = [run[b] EXCEPT !.root = run[b].temp, !.temp = None] /\ pc'[b] = "publish_record"
    BY <1>10, SameRun, OthersStay DEF PublishRoot
  <2>2. Trees(b)'
    BY <1>0, <1>10, <2>1 DEF PublishRoot, Trees, Backed, Run
  <2> QED
    BY <1>10, <2>2, OthersStay, TreesMoved DEF PublishRoot
<1>11. ASSUME NEW b \in Builds, PublishRecord(b)
       PROVE  AllTrees'
  <2> DEFINE record == [status |-> run[b].status, outputs |-> run[b].manifest]
  <2>1. run'[b] = [run[b] EXCEPT !.record = record] /\ pc'[b] = "complete"
    BY <1>11, SameRun, OthersStay DEF PublishRecord
  <2>2. Trees(b)'
    BY <1>0, <1>11, <2>1 DEF CacheConstantsOK, PublishRecord, Trees, Backed, Run
  <2> QED
    BY <1>11, <2>2, OthersStay, TreesMoved DEF PublishRecord
<1>12. ASSUME NEW b \in Builds, RollBack(b)
       PROVE  AllTrees'
  <2>1. run'[b] = [run[b] EXCEPT !.root = None] /\ pc'[b] = "failed"
    BY <1>12, SameRun, OthersStay DEF RollBack
  <2>2. Trees(b)'
    BY <1>0, <1>12, <2>1 DEF RollBack, Trees, Backed, Run
  <2> QED
    BY <1>12, <2>2, OthersStay, TreesMoved DEF RollBack
<1>13. CASE Decay \/ BecomeCalm \/ UNCHANGED vars
  BY <1>13 DEF Decay, BecomeCalm, vars, AllTrees, Trees, Backed
<1> QED
  BY <1>1, <1>2, <1>3, <1>4, <1>5, <1>6, <1>7, <1>8, <1>9, <1>10, <1>11, <1>12, <1>13, Steps

-----------------------------------------------------------------------------
(* What a build that holds the lock has seen is still so *)

\* A step under the lock: nobody else is between a lookup and its rename.
LEMMA UnderLock ==
  ASSUME AllHold, NEW b \in Builds, pc[b] \in Locked, Holds(b)',
         \A c \in Builds \ {b} : pc'[c] = pc[c]
  PROVE  AllHold'
<1>1. \A c \in Builds \ {b} : pc[c] \notin Locked
  BY DEF AllHold, Holds
<1>2. \A c \in Builds \ {b} : Holds(c)'
  BY <1>1 DEF Holds, Locked
<1> QED
  BY <1>2 DEF AllHold

\* A step that leaves the entry alone and takes the lock from nobody.
LEMMA BesideLock ==
  ASSUME AllHold, NEW b \in Builds, Holds(b)', UNCHANGED <<entry, rotted>>,
         UNCHANGED lock \/ Unlock(b) \/ lock \notin Builds,
         \A c \in Builds \ {b} : pc'[c] = pc[c] /\ run'[c] = run[c]
  PROVE  AllHold'
BY DEF AllHold, Holds, Valid, Unlock

\* Every step keeps what the lock protects.
LEMMA HoldStep ==
  ASSUME CacheConstantsOK, TypeOK, AllTrees, AllHold, [Next]_vars
  PROVE  AllHold'
<1> USE DEF Locked
<1>1. ASSUME NEW b \in Builds,
             Start(b) \/ Build(b) \/ Materialize(b) \/ PublishRoot(b) \/ PublishRecord(b)
               \/ RollBack(b) \/ Kill(b)
      PROVE  AllHold'
  <2>1. /\ UNCHANGED <<entry, rotted>> /\ (UNCHANGED lock \/ Unlock(b))
        /\ \E l \in {"restore", "build", "store", "publish_root", "publish_record", "complete",
                     "failed"} : Goto(b, l)
        /\ UNCHANGED run \/ \E r : Becomes(b, r)
    BY <1>1 DEF Start, Build, Materialize, PublishRoot, PublishRecord, RollBack, Kill
  <2>2. Holds(b)'
    BY <2>1, OthersStay DEF Holds
  <2> QED
    BY <2>1, <2>2, OthersStay, BesideLock
<1>2. ASSUME NEW b \in Builds, KeyLock(b)
      PROVE  AllHold'
  <2>1. Holds(b)'
    BY <1>2, OthersStay DEF KeyLock, Holds
  <2> QED
    BY <1>2, <2>1, OthersStay, BesideLock DEF KeyLock, CacheConstantsOK
<1>3. ASSUME NEW b \in Builds, Lookup(b)
      PROVE  AllHold'
  <2>1. pc[b] \in Locked /\ lock = b
    BY <1>3 DEF Lookup, AllHold, Holds
  <2>2. CASE Miss(b)
    <3>1. Holds(b)'
      BY <2>2, OthersStay DEF Miss, Holds
    <3> QED
      BY <2>1, <2>2, <3>1, OthersStay, UnderLock DEF Miss
  <2>3. CASE Hit(b)
    <3>1. Holds(b)'
      BY <2>1, <2>3, OthersStay DEF Hit, Holds
    <3> QED
      BY <2>1, <2>3, <3>1, OthersStay, UnderLock DEF Hit
  <2> QED
    BY <1>3, <2>2, <2>3 DEF Lookup
<1>4. ASSUME NEW b \in Builds, CopyOut(b) \/ CopyIn(b)
      PROVE  AllHold'
  <2>1. /\ pc[b] \in Locked /\ UNCHANGED lock /\ \E r : Becomes(b, r)
        /\ Goto(b, "verify_restored") \/ Goto(b, "compare")
    BY <1>4 DEF CopyOut, CopyIn
  <2>2. Holds(b)'
    BY <2>1, OthersStay DEF Holds, AllHold
  <2> QED
    BY <2>1, <2>2, OthersStay, UnderLock
<1>5. ASSUME NEW b \in Builds, VerifyRestored(b)
      PROVE  AllHold'
  <2>1. /\ pc[b] \in Locked /\ \E r : Becomes(b, r)
        /\ Goto(b, "materialize") \/ Goto(b, "failed")
    BY <1>5 DEF VerifyRestored
  <2>2. Holds(b)'
    BY <2>1, OthersStay DEF Holds
  <2> QED
    BY <2>1, <2>2, OthersStay, UnderLock
<1>6. ASSUME NEW b \in Builds, Compare(b)
      PROVE  AllHold'
  <2>1. pc[b] \in Locked /\ lock = b /\ UNCHANGED run
    BY <1>6 DEF Compare, AllHold, Holds
  <2>2. CASE Exists(b) \/ Nondeterministic(b)
    <3>1. Goto(b, "materialize") \/ Goto(b, "refused")
      BY <2>2 DEF Exists, Nondeterministic
    <3>2. Holds(b)'
      BY <2>1, <3>1, OthersStay DEF Holds
    <3> QED
      BY <2>1, <3>1, <3>2, OthersStay, UnderLock
  <2>3. CASE ~Valid /\ Goto(b, "quarantine") /\ UNCHANGED lock
    <3>1. UNCHANGED entry
      BY <1>6 DEF Compare
    <3>2. Holds(b)'
      BY <2>1, <2>3, <3>1, OthersStay DEF Holds, Valid
    <3> QED
      BY <2>1, <2>3, <3>2, OthersStay, UnderLock
  <2> QED
    BY <1>6, <2>2, <2>3 DEF Compare
<1>7. ASSUME NEW b \in Builds, Quarantine(b)
      PROVE  AllHold'
  <2>1. Holds(b)'
    BY <1>7, OthersStay DEF Quarantine, Holds, AllHold
  <2> QED
    BY <1>7, <2>1, OthersStay, UnderLock DEF Quarantine
<1>8. ASSUME NEW b \in Builds, Commit(b)
      PROVE  AllHold'
  <2>1. /\ run'[b] = run[b] /\ run[b].temp = run[b].out /\ run[b].manifest = run[b].out
        /\ run[b].out \in Outputs
    BY <1>8 DEF Commit, AllTrees, Trees, Storing
  <2>2. entry' = [payload |-> run[b].out, manifest |-> run[b].out]
    BY <1>8, <2>1 DEF Commit
  <2>3. Valid' /\ entry'.manifest = run'[b].manifest
    BY <2>1, <2>2 DEF Valid, CacheConstantsOK
  <2>4. Holds(b)'
    BY <1>8, <2>3, OthersStay DEF Commit, Holds, AllHold
  <2> QED
    BY <1>8, <2>4, OthersStay, UnderLock DEF Commit
<1>9. ASSUME NEW b \in Builds, VerifyStored(b)
      PROVE  AllHold'
  <2>1. Goto(b, "materialize") \/ Goto(b, "failed")
    BY <1>9 DEF VerifyStored
  <2>2. Holds(b)'
    BY <1>9, <2>1, OthersStay DEF VerifyStored, Holds
  <2> QED
    BY <1>9, <2>1, <2>2, OthersStay, UnderLock DEF VerifyStored
<1>10. CASE Decay
  <2>1. entry # None /\ ~Valid' /\ rotted' /\ UNCHANGED <<lock, pc, run>>
    BY <1>10 DEF Decay, Valid, TypeOK, Entry, CacheConstantsOK
  <2> QED
    BY <2>1 DEF AllHold, Holds
<1>11. CASE BecomeCalm \/ UNCHANGED vars
  BY <1>11 DEF BecomeCalm, vars, AllHold, Holds, Valid
<1> QED
  BY <1>1, <1>2, <1>3, <1>4, <1>5, <1>6, <1>7, <1>8, <1>9, <1>10, <1>11, Steps

-----------------------------------------------------------------------------
(* Without decay, all that is shipped or about to be agrees with the entry *)

\* What a build goes on with agrees with the entry.
Going(b) ==
  /\ pc[b] \in Recording => Agreed(run[b].out)
  /\ pc[b] \in {"copy_out", "verify_restored"} => Agreed(run[b].manifest)

\* A step of b that leaves the entry alone keeps the agreement if what b goes on with,
\* and what it ships, agrees.
LEMMA AgreementKept ==
  ASSUME Agreement, NEW b \in Builds, UNCHANGED <<entry, rotted>>,
         ~rotted => Going(b)' /\ \A tree \in shipped' : Agreed(tree),
         \A c \in Builds \ {b} : pc'[c] = pc[c] /\ run'[c] = run[c]
  PROVE  Agreement'
<1> SUFFICES ASSUME ~rotted
             PROVE  /\ entry' = None \/ Valid'
                    /\ \A tree \in shipped' : Agreed(tree)'
                    /\ \A c \in Builds : Going(c)'
  BY DEF Agreement, Going
<1>1. (Valid <=> Valid') /\ \A tree : Agreed(tree) <=> Agreed(tree)'
  BY DEF Valid, Agreed
<1>2. entry' = None \/ Valid'
  BY <1>1 DEF Agreement
<1>3. \A tree \in shipped' : Agreed(tree)'
  BY <1>1
<1>4. \A c \in Builds \ {b} : Going(c)'
  BY <1>1 DEF Agreement, Going, Agreed
<1> QED
  BY <1>2, <1>3, <1>4

\* An entry that is not valid has nothing that agrees with it.
LEMMA AgreementLost ==
  ASSUME Agreement, ~rotted, ~Valid
  PROVE  /\ entry = None /\ shipped = {}
         /\ \A b \in Builds : pc[b] \notin Recording \cup {"copy_out", "verify_restored"}
BY DEF Agreement, Agreed

\* Every step keeps the agreement.
LEMMA AgreementStep ==
  ASSUME CacheConstantsOK, TypeOK, AllTrees, AllHold, Agreement, [Next]_vars
  PROVE  Agreement'
<1> USE DEF Recording
<1>0. ASSUME NEW b \in Builds, ~rotted
      PROVE  Going(b) /\ \A tree \in shipped : Agreed(tree)
  BY <1>0 DEF Agreement, Going
<1>1. ASSUME NEW b \in Builds,
             Start(b) \/ Build(b) \/ RollBack(b) \/ Kill(b) \/ KeyLock(b) \/ CopyIn(b)
      PROVE  Agreement'
  <2>1. /\ UNCHANGED <<entry, rotted, shipped>> /\ (UNCHANGED run \/ \E r : Becomes(b, r))
        /\ \E l \in {"restore", "build", "store", "lookup", "copy_in", "compare", "failed"} : Goto(b, l)
    BY <1>1 DEF Start, Build, RollBack, Kill, KeyLock, CopyIn
  <2>2. Going(b)'
    BY <2>1, OthersStay DEF Going
  <2> QED
    BY <1>0, <2>1, <2>2, OthersStay, AgreementKept
<1>2. ASSUME NEW b \in Builds, Lookup(b)
      PROVE  Agreement'
  <2>1. CASE Miss(b)
    <3>1. UNCHANGED <<rotted, shipped, run>> /\ entry' = None /\ pc'[b] = "build" /\ ~Valid
      BY <1>2, <2>1, OthersStay DEF Lookup, Miss, History
    <3>2. \A c \in Builds \ {b} : pc'[c] = pc[c]
      BY <2>1, OthersStay DEF Miss
    <3> QED
      BY <3>1, <3>2, AgreementLost DEF Agreement
  <2>2. CASE Hit(b)
    <3>1. /\ UNCHANGED <<rotted, shipped, entry>> /\ pc'[b] = "copy_out" /\ Valid
          /\ run'[b] = [run[b] EXCEPT !.manifest = entry.manifest]
      BY <1>2, <2>2, OthersStay, SameRun DEF Lookup, Hit, History
    <3>2. run'[b].manifest = entry.manifest
      BY <3>1 DEF TypeOK, Run
    <3>3. Going(b)'
      BY <3>1, <3>2 DEF Going, Agreed, Valid
    <3> QED
      BY <1>0, <2>2, <3>1, <3>3, OthersStay, AgreementKept DEF Hit
  <2> QED
    BY <1>2, <2>1, <2>2 DEF Lookup
<1>3. ASSUME NEW b \in Builds, CopyOut(b)
      PROVE  Agreement'
  <2>1. /\ UNCHANGED <<rotted, shipped, entry>> /\ pc[b] = "copy_out" /\ pc'[b] = "verify_restored"
        /\ run'[b] = [run[b] EXCEPT !.temp = entry.payload]
    BY <1>3, OthersStay, SameRun DEF CopyOut
  <2>2. run'[b].manifest = run[b].manifest
    BY <2>1 DEF TypeOK, Run
  <2>3. ~rotted => Going(b)'
    BY <1>0, <2>1, <2>2 DEF Going, Agreed, Valid
  <2> QED
    BY <1>0, <1>3, <2>1, <2>3, OthersStay, AgreementKept DEF CopyOut
<1>4. ASSUME NEW b \in Builds, VerifyRestored(b)
      PROVE  Agreement'
  <2>1. UNCHANGED <<rotted, shipped, entry>> /\ pc[b] = "verify_restored"
    BY <1>4 DEF VerifyRestored
  <2>2. \/ pc'[b] = "failed"
        \/ /\ pc'[b] = "materialize" /\ run[b].temp = run[b].manifest
           /\ run'[b] = [run[b] EXCEPT !.out = run[b].temp, !.status = "hit", !.temp = None]
    BY <1>4, OthersStay, SameRun DEF VerifyRestored
  <2>3. pc'[b] = "failed" \/ (pc'[b] = "materialize" /\ run'[b].out = run[b].manifest)
    BY <2>2 DEF TypeOK, Run
  <2>4. ~rotted => Going(b)'
    BY <1>0, <2>1, <2>3 DEF Going, Agreed, Valid
  <2> QED
    BY <1>0, <1>4, <2>1, <2>4, OthersStay, AgreementKept DEF VerifyRestored
<1>5. ASSUME NEW b \in Builds, Compare(b)
      PROVE  Agreement'
  <2>1. /\ UNCHANGED <<rotted, shipped, entry, run>>
        /\ run[b].manifest = run[b].out
    BY <1>5 DEF Compare, AllTrees, Trees, Storing
  <2>2. \/ Goto(b, "refused") \/ Goto(b, "quarantine")
        \/ Goto(b, "materialize") /\ Valid /\ entry.manifest = run[b].manifest
    BY <1>5 DEF Compare, Exists, Nondeterministic
  <2>3. Going(b)'
    BY <2>1, <2>2, OthersStay DEF Going, Agreed, Valid
  <2> QED
    BY <1>0, <2>1, <2>2, <2>3, OthersStay, AgreementKept
<1>6. ASSUME NEW b \in Builds, Quarantine(b) \/ Commit(b)
      PROVE  Agreement'
  <2>1. /\ UNCHANGED <<rotted, shipped, run>> /\ ~Valid
        /\ pc'[b] \in {"commit", "verify_stored"} /\ \A c \in Builds \ {b} : pc'[c] = pc[c]
    BY <1>6, OthersStay DEF Quarantine, Commit, AllHold, Holds, Valid
  <2>2. entry' = None \/ Valid'
    <3>1. CASE Commit(b)
      <4>1. run[b].temp = run[b].out /\ run[b].manifest = run[b].out /\ run[b].out \in Outputs
        BY <3>1 DEF Commit, AllTrees, Trees, Storing
      <4>2. entry' = [payload |-> run[b].out, manifest |-> run[b].out]
        BY <3>1, <4>1 DEF Commit
      <4> QED
        BY <4>1, <4>2 DEF Valid, CacheConstantsOK
    <3>2. CASE Quarantine(b)
      BY <3>2 DEF Quarantine
    <3> QED
      BY <1>6, <3>1, <3>2
  <2> QED
    BY <2>1, <2>2, AgreementLost DEF Agreement
<1>7. ASSUME NEW b \in Builds, VerifyStored(b)
      PROVE  Agreement'
  <2>1. CASE Valid /\ entry.manifest = run[b].manifest
    <3>1. /\ UNCHANGED <<rotted, shipped, entry, run>> /\ Goto(b, "materialize")
          /\ run[b].manifest = run[b].out
      BY <1>7, <2>1 DEF VerifyStored, AllTrees, Trees, Storing
    <3>2. Going(b)'
      BY <2>1, <3>1, OthersStay DEF Going, Agreed, Valid
    <3> QED
      BY <1>0, <3>1, <3>2, OthersStay, AgreementKept
  <2>2. CASE ~(Valid /\ entry.manifest = run[b].manifest)
    <3>1. rotted /\ rotted'
      BY <1>7, <2>2 DEF VerifyStored, AllHold, Holds
    <3> QED
      BY <3>1 DEF Agreement
  <2> QED
    BY <2>1, <2>2
<1>8. ASSUME NEW b \in Builds, Materialize(b)
      PROVE  Agreement'
  <2>1. /\ UNCHANGED <<rotted, shipped, entry>> /\ pc[b] = "materialize" /\ pc'[b] = "publish_root"
        /\ run'[b] = [run[b] EXCEPT !.temp = run[b].out, !.manifest = run[b].out]
    BY <1>8, OthersStay, SameRun DEF Materialize
  <2>2. run'[b].out = run[b].out
    BY <2>1 DEF TypeOK, Run
  <2>3. ~rotted => Going(b)'
    BY <1>0, <2>1, <2>2 DEF Going, Agreed, Valid
  <2> QED
    BY <1>0, <1>8, <2>1, <2>3, OthersStay, AgreementKept DEF Materialize
<1>9. ASSUME NEW b \in Builds, PublishRoot(b)
      PROVE  Agreement'
  <2>1. /\ UNCHANGED <<rotted, shipped, entry>> /\ pc[b] = "publish_root" /\ pc'[b] = "publish_record"
        /\ run'[b] = [run[b] EXCEPT !.root = run[b].temp, !.temp = None]
    BY <1>9, OthersStay, SameRun DEF PublishRoot
  <2>2. run'[b].out = run[b].out
    BY <2>1 DEF TypeOK, Run
  <2>3. ~rotted => Going(b)'
    BY <1>0, <2>1, <2>2 DEF Going, Agreed, Valid
  <2> QED
    BY <1>0, <1>9, <2>1, <2>3, OthersStay, AgreementKept DEF PublishRoot
<1>10. ASSUME NEW b \in Builds, PublishRecord(b)
       PROVE  Agreement'
  <2>1. /\ UNCHANGED <<rotted, entry>> /\ pc[b] = "publish_record" /\ pc'[b] = "complete"
        /\ shipped' = shipped \cup {run[b].out}
    BY <1>10, OthersStay DEF PublishRecord, AllTrees, Trees
  <2>2. ~rotted => \A tree \in shipped' : Agreed(tree)
    BY <1>0, <2>1 DEF Going
  <2>3. Going(b)'
    BY <2>1 DEF Going
  <2> QED
    BY <1>10, <2>1, <2>2, <2>3, OthersStay, AgreementKept DEF PublishRecord
<1>11. CASE Decay
  BY <1>11 DEF Decay, Agreement
<1>12. CASE BecomeCalm \/ UNCHANGED vars
  BY <1>12 DEF BecomeCalm, vars, Agreement, Agreed, Valid
<1> QED
  BY <1>1, <1>2, <1>3, <1>4, <1>5, <1>6, <1>7, <1>8, <1>9, <1>10, <1>11, <1>12, Steps

-----------------------------------------------------------------------------
(* The properties *)

\* Only whole outputs are recorded.
LEMMA ShippedStep ==
  ASSUME TypeOK, AllTrees, shipped \subseteq Outputs, [Next]_vars
  PROVE  (shipped \subseteq Outputs)'
<1>1. ASSUME NEW b \in Builds, PublishRecord(b)
      PROVE  (shipped \subseteq Outputs)'
  BY <1>1 DEF PublishRecord, AllTrees, Trees, Recording
<1>2. UNCHANGED shipped \/ \E b \in Builds : PublishRecord(b)
  BY Steps DEF Start, KeyLock, Lookup, CopyOut, VerifyRestored, Build, CopyIn, Compare, Quarantine,
     Commit, VerifyStored, Materialize, PublishRoot, RollBack, Kill, Decay, BecomeCalm, History, vars
<1> QED
  BY <1>1, <1>2

\* The inductive invariant: the types, the trees, the lock and the agreement.
LEMMA Inductive ==
  ASSUME CacheConstantsOK
  PROVE  /\ Init => TypeOK /\ CacheInv
         /\ TypeOK /\ CacheInv /\ [Next]_vars => (TypeOK /\ CacheInv)'
<1>1. CacheInv <=> AllHold /\ AllTrees /\ Agreement /\ shipped \subseteq Outputs
  BY DEF CacheInv, AllHold, AllTrees
<1>2. CacheInv' <=> AllHold' /\ AllTrees' /\ Agreement' /\ (shipped \subseteq Outputs)'
  BY DEF CacheInv, AllHold, AllTrees
<1>3. ASSUME Init
      PROVE  TypeOK /\ CacheInv
  <2>1. TypeOK
    BY <1>3 DEF Init, TypeOK, Run, NewRun, Ended
  <2>2. AllTrees
    BY <1>3 DEF Init, AllTrees, Trees, Backed, NewRun, Ended, Storing, Recording
  <2>3. AllHold /\ Agreement /\ shipped \subseteq Outputs
    BY <1>3 DEF Init, AllHold, Holds, Agreement, Locked, Recording
  <2> QED
    BY <1>1, <2>1, <2>2, <2>3
<1>4. ASSUME TypeOK, CacheInv, [Next]_vars
      PROVE  (TypeOK /\ CacheInv)'
  BY <1>1, <1>2, <1>4, TypeStep, TreesStep, HoldStep, AgreementStep, ShippedStep
<1> QED
  BY <1>3, <1>4

\* In every instance the cache keeps its types and the invariant that explains it.
THEOREM CacheSafe == Spec => [](TypeOK /\ CacheInv)
<1>1. Init => TypeOK /\ CacheInv
  BY Inductive, CacheConstantsOK
<1>2. TypeOK /\ CacheInv /\ [Next]_vars => (TypeOK /\ CacheInv)'
  BY Inductive, CacheConstantsOK
<1> QED
  BY <1>1, <1>2, PTL DEF Spec

\* However many builds race and die, and whatever their builders produce: while no entry
\* decays, all runs ever recorded hold the same output for the key (_store's refusal
\* of a nondeterministic replacement).
THEOREM OutputsAgree == Spec => []OneOutput
<1>1. CacheInv => OneOutput
  BY DEF CacheInv, Agreement, Agreed, OneOutput
<1> QED
  BY <1>1, CacheSafe, PTL

\* Whatever decays and whenever, only whole components are used and recorded (the
\* comparison of the copy with the manifest in _restore).
THEOREM OnlyWhole == Spec => []RestoredWhole
<1>1. CacheInv => RestoredWhole
  BY CacheConstantsOK DEF CacheInv, Trees, RestoredWhole
<1> QED
  BY <1>1, CacheSafe, PTL

\* At every instant a build may be killed, a record in components.json has the
\* directory it describes (the order of the renames in _materialize).
THEOREM RecordsBacked == Spec => []RecordBacked
<1>1. CacheInv => RecordBacked
  BY DEF CacheInv, Trees, RecordBacked
<1> QED
  BY <1>1, CacheSafe, PTL

\* No store and no restore, however they race, removes or replaces a valid entry (the
\* key's lock spans the comparison and the rename).
THEOREM ValidKept == Spec => EntryKept
<1>1. ASSUME TypeOK, CacheInv, [Next]_vars, Valid, entry' # entry
      PROVE  entry' # None /\ ~Valid'
  <2>1. CASE Decay
    <3>1. entry \in Entry
      BY <1>1 DEF TypeOK, Valid
    <3>2. \/ entry' = [entry EXCEPT !.payload = Damaged]
          \/ entry' = [entry EXCEPT !.manifest = Damaged]
      BY <2>1 DEF Decay
    <3>3. entry' \in Entry /\ (entry'.payload = Damaged \/ entry'.manifest = Damaged)
      BY <3>1, <3>2 DEF Entry, Tree
    <3> QED
      BY <3>3, CacheConstantsOK DEF Valid, Entry, Tree
  <2>2. ASSUME NEW b \in Builds, Lookup(b)
        PROVE  FALSE
    BY <1>1, <2>2 DEF Lookup, Miss, Hit
  <2>3. ASSUME NEW b \in Builds, Quarantine(b) \/ Commit(b) \/ VerifyStored(b)
        PROVE  FALSE
    BY <1>1, <2>3 DEF Quarantine, Commit, VerifyStored, CacheInv, Holds, Valid
  <2>4. \/ UNCHANGED entry \/ Decay
        \/ \E b \in Builds : Lookup(b) \/ Quarantine(b) \/ Commit(b) \/ VerifyStored(b)
    BY <1>1, Steps DEF Start, KeyLock, CopyOut, VerifyRestored, Build, CopyIn, Compare,
       Materialize, PublishRoot, PublishRecord, RollBack, Kill, BecomeCalm, vars
  <2> QED
    BY <1>1, <2>1, <2>2, <2>3, <2>4
<1>2. TypeOK /\ CacheInv /\ [Next]_vars
        => [Valid /\ entry' # entry => entry' # None /\ ~Valid']_vars
  BY <1>1
<1> QED
  BY <1>2, CacheSafe, PTL DEF Spec, EntryKept

-----------------------------------------------------------------------------
(* Refinement *)

Settled == IF Valid THEN entry.payload ELSE None
Holding == [b \in Builds |-> Taken(b)]
Outcome == <<Settled, Holding, shipped, rotted>>

\* What the others hold does not change.
LEMMA HoldingMoves ==
  ASSUME NEW b \in Builds, \A c \in Builds \ {b} : pc'[c] = pc[c] /\ run'[c] = run[c]
  PROVE  /\ Holding' = [Holding EXCEPT ![b] = Taken(b)']
         /\ Taken(b)' = Taken(b) => UNCHANGED Holding
<1>1. \A c \in Builds \ {b} : Taken(c)' = Taken(c)
  BY DEF Taken
<1>2. Holding' = [c \in Builds |-> Taken(c)'] /\ Holding = [c \in Builds |-> Taken(c)]
  BY DEF Holding
<1> QED
  BY <1>1, <1>2

\* Where a build stands says what it holds.
LEMMA TakenAt ==
  ASSUME AllTrees, NEW b \in Builds
  PROVE  /\ pc[b] \in {"copy_out", "verify_restored"} => Taken(b) = run[b].manifest
         /\ pc[b] \in Recording => Taken(b) = run[b].out
         /\ pc[b] \notin {"copy_out", "verify_restored"} \cup Recording => Taken(b) = None
         /\ pc'[b] \in {"copy_out", "verify_restored"} => Taken(b)' = run'[b].manifest
         /\ pc'[b] \in Recording => Taken(b)' = run'[b].out
         /\ pc'[b] \notin {"copy_out", "verify_restored"} \cup Recording => Taken(b)' = None
BY DEF Taken, Recording

\* A step of a build that leaves the key's output alone goes on with what it holds, or gives
\* it up.
LEMMA KeepsOrGivesUp ==
  ASSUME NEW b \in Builds, UNCHANGED <<Settled, shipped, rotted>>,
         \A c \in Builds \ {b} : pc'[c] = pc[c] /\ run'[c] = run[c],
         Taken(b)' \in {Taken(b), None}
  PROVE  [Output!Next]_Outcome
<1>1. CASE Taken(b)' = Taken(b)
  BY <1>1, HoldingMoves DEF Outcome
<1>2. CASE Taken(b)' = None
  BY <1>2, HoldingMoves DEF Output!Next, Output!GiveUp, Settled, Holding
<1> QED
  BY <1>1, <1>2

\* Before a build asks and after it has recorded it holds nothing.
LEMMA QuietOutcome ==
  ASSUME TypeOK, AllTrees, NEW b \in Builds,
         Start(b) \/ KeyLock(b) \/ Build(b) \/ CopyIn(b) \/ RollBack(b) \/ Kill(b)
  PROVE  [Output!Next]_Outcome
<1>1. /\ UNCHANGED <<entry, shipped, rotted>> /\ (UNCHANGED run \/ \E r : Becomes(b, r))
      /\ \E l \in {"restore", "build", "store", "lookup", "copy_in", "compare", "failed"} : Goto(b, l)
  BY DEF Start, Build, RollBack, Kill, KeyLock, CopyIn
<1>2. UNCHANGED <<Settled, shipped, rotted>>
  BY <1>1 DEF Settled, Valid
<1>3. PICK l \in {"restore", "build", "store", "lookup", "copy_in", "compare", "failed"} : Goto(b, l)
  BY <1>1
<1>4. pc'[b] = l /\ \A c \in Builds \ {b} : pc'[c] = pc[c] /\ run'[c] = run[c]
  BY <1>1, <1>3, OthersStay
<1>5. Taken(b)' = None
  BY <1>4, TakenAt DEF Recording
<1> QED
  BY <1>2, <1>4, <1>5, KeepsOrGivesUp

LEMMA RestoredOut ==
  ASSUME NEW trees \in Run, NEW copy
  PROVE  [trees EXCEPT !.out = copy, !.status = "hit", !.temp = None].out = copy
BY DEF Run

\* A build that asks takes the key's output.
LEMMA TakesOutput ==
  ASSUME AllTrees, NEW b \in Builds, UNCHANGED <<entry, shipped, rotted>>, Valid,
         \A c \in Builds \ {b} : pc'[c] = pc[c] /\ run'[c] = run[c],
         Taken(b) = None, Taken(b)' = entry.payload
  PROVE  [Output!Next]_Outcome
<1>1. Settled = entry.payload /\ Settled # None /\ UNCHANGED Settled
  BY CacheConstantsOK DEF Settled, Valid
<1>2. Holding[b] = None /\ Holding' = [Holding EXCEPT ![b] = Settled]
  BY <1>1, HoldingMoves DEF Holding
<1>3. Output!Take(b)
  BY <1>1, <1>2 DEF Output!Take, Settled, Holding
<1> QED
  BY <1>3 DEF Output!Next

LEMMA OutcomeStep ==
  ASSUME TypeOK, CacheInv, [Next]_vars
  PROVE  [Output!Next]_Outcome
<1> USE DEF Recording
<1>0. AllTrees /\ AllHold
  BY DEF CacheInv, AllTrees, AllHold
<1>1. ASSUME NEW b \in Builds,
             Start(b) \/ KeyLock(b) \/ Build(b) \/ CopyIn(b) \/ RollBack(b) \/ Kill(b)
      PROVE  [Output!Next]_Outcome
  BY <1>0, <1>1, QuietOutcome
<1>2. ASSUME NEW b \in Builds, Lookup(b)
      PROVE  [Output!Next]_Outcome
  <2>1. CASE Miss(b)
    <3>1. /\ pc[b] = "lookup" /\ pc'[b] = "build" /\ ~Valid /\ entry' = None
          /\ UNCHANGED <<shipped, rotted>>
      BY <1>2, <2>1, OthersStay DEF Lookup, Miss, History
    <3>2. UNCHANGED Settled
      BY <3>1 DEF Settled, Valid
    <3>3. \A c \in Builds \ {b} : pc'[c] = pc[c] /\ run'[c] = run[c]
      BY <2>1, OthersStay DEF Miss
    <3>4. Taken(b)' = None
      BY <1>0, <3>1, TakenAt
    <3> QED
      BY <3>1, <3>2, <3>3, <3>4, KeepsOrGivesUp
  <2>2. CASE Hit(b)
    <3>1. pc[b] = "lookup" /\ Valid /\ UNCHANGED <<entry, shipped, rotted>>
      BY <1>2, <2>2 DEF Lookup, Hit, History
    <3>2. pc'[b] = "copy_out" /\ \A c \in Builds \ {b} : pc'[c] = pc[c] /\ run'[c] = run[c]
      BY <2>2, OthersStay DEF Hit
    <3>3. run'[b] = [run[b] EXCEPT !.manifest = entry.manifest] /\ run[b] \in Run
      BY <2>2, SameRun DEF Hit, TypeOK
    <3>4. run'[b].manifest = entry.payload
      BY <3>1, <3>3 DEF Valid, Run
    <3>5. Taken(b) = None /\ Taken(b)' = entry.payload
      BY <1>0, <3>1, <3>2, <3>4, TakenAt
    <3> QED
      BY <1>0, <3>1, <3>2, <3>5, TakesOutput
  <2> QED
    BY <1>2, <2>1, <2>2 DEF Lookup
<1>3. ASSUME NEW b \in Builds, CopyOut(b)
      PROVE  [Output!Next]_Outcome
  <2>1. /\ pc[b] = "copy_out" /\ pc'[b] = "verify_restored" /\ UNCHANGED <<entry, shipped, rotted>>
        /\ \A c \in Builds \ {b} : pc'[c] = pc[c] /\ run'[c] = run[c]
    BY <1>3, OthersStay DEF CopyOut
  <2>2. run'[b] = [run[b] EXCEPT !.temp = entry.payload] /\ run[b] \in Run
    BY <1>3, SameRun DEF CopyOut, TypeOK
  <2>3. run'[b].manifest = run[b].manifest
    BY <2>2 DEF Run
  <2>4. Taken(b)' = Taken(b) /\ UNCHANGED Settled
    BY <1>0, <2>1, <2>3, TakenAt DEF Settled, Valid
  <2> QED
    BY <2>1, <2>4, KeepsOrGivesUp
<1>4. ASSUME NEW b \in Builds, VerifyRestored(b)
      PROVE  [Output!Next]_Outcome
  <2>1. /\ pc[b] = "verify_restored" /\ UNCHANGED <<entry, shipped, rotted>> /\ run[b] \in Run
        /\ UNCHANGED Settled
        /\ \A c \in Builds \ {b} : pc'[c] = pc[c] /\ run'[c] = run[c]
    BY <1>4, OthersStay DEF VerifyRestored, TypeOK, Settled, Valid
  <2>2. CASE run[b].temp = run[b].manifest
    <3>1. /\ pc'[b] = "materialize"
          /\ run'[b] = [run[b] EXCEPT !.out = run[b].temp, !.status = "hit", !.temp = None]
      BY <1>4, <2>2, SameRun, OthersStay DEF VerifyRestored
    <3>2. run'[b].out = run[b].manifest
      BY <2>1, <2>2, <3>1, RestoredOut
    <3>3. Taken(b) = run[b].manifest
      BY <1>0, <2>1, TakenAt
    <3>4. Taken(b)' = run'[b].out
      <4>1. pc'[b] \in Recording
        BY <3>1
      <4> QED
        BY <1>0, <4>1, TakenAt
    <3> QED
      BY <2>1, <3>2, <3>3, <3>4, KeepsOrGivesUp
  <2>3. CASE run[b].temp # run[b].manifest
    <3>1. pc'[b] = "failed"
      BY <1>4, <2>3, OthersStay DEF VerifyRestored
    <3>2. Taken(b)' = None
      BY <1>0, <3>1, TakenAt
    <3> QED
      BY <2>1, <3>2, KeepsOrGivesUp
  <2> QED
    BY <2>2, <2>3
<1>5. ASSUME NEW b \in Builds, Compare(b)
      PROVE  [Output!Next]_Outcome
  <2>1. pc[b] = "compare" /\ UNCHANGED <<entry, run, shipped, rotted>> /\ UNCHANGED Settled
    BY <1>5 DEF Compare, Settled, Valid
  <2>2. \A c \in Builds \ {b} : pc'[c] = pc[c] /\ run'[c] = run[c]
    BY <1>5, OthersStay DEF Compare, Exists, Nondeterministic
  <2>3. CASE Exists(b)
    <3>1. Valid /\ entry.manifest = run[b].manifest /\ pc'[b] = "materialize"
      BY <2>1, <2>3, OthersStay DEF Exists
    <3>2. run[b].out = entry.payload /\ run'[b] = run[b]
      BY <1>0, <2>1, <3>1 DEF AllTrees, Trees, Storing, Valid
    <3>3. Taken(b) = None /\ Taken(b)' = entry.payload
      BY <1>0, <2>1, <3>1, <3>2, TakenAt
    <3> QED
      BY <1>0, <2>1, <2>2, <3>1, <3>3, TakesOutput
  <2>4. CASE ~ Exists(b)
    <3>1. pc'[b] \in {"refused", "quarantine"}
      BY <1>5, <2>1, <2>4, OthersStay DEF Compare, Nondeterministic
    <3>2. Taken(b)' = None
      BY <1>0, <3>1, TakenAt
    <3> QED
      BY <2>1, <2>2, <3>2, KeepsOrGivesUp
  <2> QED
    BY <2>3, <2>4
<1>6. ASSUME NEW b \in Builds, Quarantine(b)
      PROVE  [Output!Next]_Outcome
  <2>1. /\ pc[b] = "quarantine" /\ pc'[b] = "commit" /\ entry' = None
        /\ UNCHANGED <<run, shipped, rotted>>
        /\ \A c \in Builds \ {b} : pc'[c] = pc[c] /\ run'[c] = run[c]
    BY <1>6, OthersStay DEF Quarantine
  <2>2. UNCHANGED Settled
    BY <1>0, <2>1 DEF AllHold, Holds, Settled, Valid
  <2>3. Taken(b)' = None
    BY <1>0, <2>1, TakenAt
  <2> QED
    BY <2>1, <2>2, <2>3, KeepsOrGivesUp
<1>7. ASSUME NEW b \in Builds, Commit(b)
      PROVE  [Output!Next]_Outcome
  <2>1. /\ pc[b] = "commit" /\ pc'[b] = "verify_stored" /\ entry = None
        /\ entry' = [payload |-> run[b].temp, manifest |-> run[b].manifest]
        /\ UNCHANGED <<run, shipped, rotted>>
        /\ \A c \in Builds \ {b} : pc'[c] = pc[c] /\ run'[c] = run[c]
    BY <1>7, OthersStay DEF Commit
  <2>2. run[b].out \in Outputs /\ run[b].temp = run[b].out /\ run[b].manifest = run[b].out
    BY <1>0, <2>1 DEF AllTrees, Trees, Storing
  <2>3. entry'.payload = run[b].out /\ entry'.manifest = run[b].out /\ entry' # None
    BY <2>1, <2>2, CacheConstantsOK
  <2>4. Settled = None /\ Settled' \in Outputs
    BY <2>1, <2>2, <2>3 DEF Settled, Valid
  <2>5. UNCHANGED Holding
    BY <1>0, <2>1, TakenAt, HoldingMoves
  <2>6. Output!Settle
    BY <2>1, <2>4, <2>5 DEF Output!Settle, Settled, Holding
  <2> QED
    BY <2>6 DEF Output!Next
<1>8. ASSUME NEW b \in Builds, VerifyStored(b)
      PROVE  [Output!Next]_Outcome
  <2>1. /\ pc[b] = "verify_stored" /\ UNCHANGED <<run, shipped, rotted>>
        /\ \A c \in Builds \ {b} : pc'[c] = pc[c] /\ run'[c] = run[c]
    BY <1>8, OthersStay DEF VerifyStored
  <2>2. CASE Valid
    <3>1. entry.manifest = run[b].manifest /\ run[b].manifest = run[b].out
      BY <1>0, <2>1, <2>2 DEF AllHold, Holds, AllTrees, Trees, Storing
    <3>2. pc'[b] = "materialize" /\ UNCHANGED entry
      BY <1>8, <2>2, <3>1, OthersStay DEF VerifyStored
    <3>3. Taken(b) = None /\ Taken(b)' = entry.payload
      BY <1>0, <2>1, <2>2, <3>1, <3>2, TakenAt DEF Valid
    <3> QED
      BY <1>0, <2>1, <2>2, <3>2, <3>3, TakesOutput
  <2>3. CASE ~ Valid
    <3>1. pc'[b] = "failed" /\ entry' = None
      BY <1>8, <2>3, OthersStay DEF VerifyStored
    <3>2. UNCHANGED Settled /\ Taken(b)' = None
      BY <1>0, <2>3, <3>1, TakenAt DEF Settled, Valid
    <3> QED
      BY <2>1, <3>2, KeepsOrGivesUp
  <2> QED
    BY <2>2, <2>3
<1>9. ASSUME NEW b \in Builds, Materialize(b) \/ PublishRoot(b)
      PROVE  [Output!Next]_Outcome
  <2>1. /\ pc[b] \in Recording /\ pc'[b] \in Recording /\ UNCHANGED <<entry, shipped, rotted>>
        /\ UNCHANGED Settled /\ run[b] \in Run
        /\ \A c \in Builds \ {b} : pc'[c] = pc[c] /\ run'[c] = run[c]
    BY <1>9, OthersStay DEF Materialize, PublishRoot, TypeOK, Settled, Valid
  <2>2. \/ run'[b] = [run[b] EXCEPT !.temp = run[b].out, !.manifest = run[b].out]
        \/ run'[b] = [run[b] EXCEPT !.root = run[b].temp, !.temp = None]
    BY <1>9, SameRun DEF Materialize, PublishRoot
  <2>3. run'[b].out = run[b].out
    BY <2>1, <2>2 DEF Run
  <2>4. Taken(b)' = Taken(b)
    BY <1>0, <2>1, <2>3, TakenAt
  <2> QED
    BY <2>1, <2>4, KeepsOrGivesUp
<1>10. ASSUME NEW b \in Builds, PublishRecord(b)
       PROVE  [Output!Next]_Outcome
  <2>1. /\ pc[b] = "publish_record" /\ pc'[b] = "complete" /\ UNCHANGED <<entry, rotted>>
        /\ shipped' = shipped \cup {run[b].manifest}
        /\ \A c \in Builds \ {b} : pc'[c] = pc[c] /\ run'[c] = run[c]
    BY <1>10, OthersStay DEF PublishRecord
  <2>2. run[b].manifest = run[b].out /\ run[b].out \in Outputs
    BY <1>0, <2>1 DEF AllTrees, Trees
  <2>3. Holding[b] = run[b].out /\ Holding[b] # None
    BY <1>0, <2>1, <2>2, TakenAt, CacheConstantsOK DEF Holding
  <2>4. Holding' = [Holding EXCEPT ![b] = None] /\ UNCHANGED Settled
    BY <1>0, <2>1, TakenAt, HoldingMoves DEF Settled, Valid
  <2>5. Output!Ship(b)
    BY <2>1, <2>2, <2>3, <2>4 DEF Output!Ship, Settled, Holding
  <2> QED
    BY <2>5 DEF Output!Next
<1>11. CASE Decay
  <2>1. /\ entry # None /\ rotted' = TRUE /\ UNCHANGED <<pc, run, shipped>>
        /\ \/ entry' = [entry EXCEPT !.payload = Damaged]
           \/ entry' = [entry EXCEPT !.manifest = Damaged]
    BY <1>11 DEF Decay
  <2>2. entry \in Entry
    BY <2>1 DEF TypeOK
  <2>3. entry' \in Entry /\ (entry'.payload = Damaged \/ entry'.manifest = Damaged)
    BY <2>1, <2>2 DEF Entry, Tree
  <2>4. Settled' = None
    BY <2>3, CacheConstantsOK DEF Settled, Valid, Entry, Tree
  <2>5. UNCHANGED Holding
    BY <2>1 DEF Holding, Taken
  <2>6. CASE Valid
    <3>1. Settled # None
      BY <2>6, CacheConstantsOK DEF Settled, Valid
    <3>2. Output!Spoil
      BY <2>1, <2>4, <2>5, <3>1 DEF Output!Spoil, Settled, Holding
    <3> QED
      BY <3>2 DEF Output!Next
  <2>7. CASE ~ Valid
    <3>1. rotted
      BY <2>1, <2>7 DEF CacheInv, Agreement
    <3>2. UNCHANGED Outcome
      BY <2>1, <2>4, <2>5, <2>7, <3>1 DEF Outcome, Settled, TypeOK
    <3> QED
      BY <3>2
  <2> QED
    BY <2>6, <2>7
<1>12. CASE BecomeCalm \/ UNCHANGED vars
  BY <1>12 DEF BecomeCalm, vars, Outcome, Settled, Valid, Holding, Taken
<1> QED
  BY <1>1, <1>2, <1>3, <1>4, <1>5, <1>6, <1>7, <1>8, <1>9, <1>10, <1>11, <1>12, Steps

\* However builds race, die and decay undoes their entries, each records an output that was
\* the key's when it asked, and nothing but decay makes room for another (the lock, the
\* comparison and the renames of _restore and _store together).
THEOREM OutputSettled == Spec => ImplementsOutput
<1>1. Init => Output!Init
  BY DEF Init, Output!Init, Valid, Taken, Recording
<1>2. TypeOK /\ CacheInv /\ [Next]_vars => [Output!Next]_Outcome
  BY OutcomeStep
<1>3. [Output!Next]_Outcome => [Output!Next]_(Output!vars)
  BY DEF Outcome, Output!vars, Settled, Holding
<1> QED
  BY <1>1, <1>2, <1>3, CacheSafe, PTL DEF Spec, ImplementsOutput, Output!Spec

=============================================================================
