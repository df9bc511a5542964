--------------------------- MODULE KaeruMigration ---------------------------
(***************************************************************************)
(* The kit tools/radar-kaeru-migration: migrate.sh and gpt-fix.py convert a *)
(* unit from the old boot chain to the Kaeru chain and from the `_x`        *)
(* partition table to the plain one, over adb from the running old system.  *)
(*                                                                          *)
(* A run can be killed and a write cut at any point, the unit can lose      *)
(* power or be rebooted without the run noticing, and the kit takes no      *)
(* lock.  The old system answers `adb reboot bootloader` by writing a       *)
(* marker over expdb, where the Kaeru payload lives, unless the kit's guard *)
(* stands in the way.                                                       *)
(***************************************************************************)
EXTENDS Naturals, Sequences

CONSTANTS
  Procs,      \* runs of migrate.sh that may be alive at the same time
  Origins,    \* flash contents and tables units come with
  None

VARIABLES
  flash,      \* what each part of the boot chain holds
  table,      \* the two copies of the partition table
  misc,       \* misc holds the force-fastboot marker
  mode,       \* what the unit runs
  guard, ro,  \* until the next boot: reboot requests are blocked, expdb is read-only
  work,       \* on the host, for all runs: gpt-work/*.bin, the table as last fetched
  saved,      \* backup/gpt-*-orig.bin
  manifest,   \* the files of saved that backup/GPT-MANIFEST.sha256 lists
  pc, run,    \* each run's next step and its locals
  cut,        \* history: what has ever been broken off, "keep" and "restore" of tables
  calm        \* TRUE once nothing fails and the operator does what the kit says

unitVars == <<flash, table, misc, mode, guard, ro>>
hostVars == <<work, saved, manifest>>
vars == <<unitVars, hostVars, pc, run, cut, calm>>

\* A fault, and the kit's writes in their order.
PreloaderFirst == <<"preloader", "lk_a", "lk_b", "tee1", "tee2", "expdb">>
Order == <<"lk_a", "lk_b", "tee1", "tee2", "expdb", "preloader">>
Chain == {Order[n] : n \in 1 .. Len(Order)}
\* A write that was cut leaves less than the whole ("half"); in expdb that is the LK header
\* without the Kaeru header, or both headers but not the whole payload ("short").  A
\* clobbered expdb has only lost its head.
Contents == {"old", "half", "short", "new", "clobbered"}
Later == [old |-> {"old", "half", "short", "new"}, half |-> {"half", "short", "new"},
          short |-> {"short", "new"}, new |-> {"new"},
          clobbered |-> {"clobbered", "half", "short", "new"}]

\* A table names areas of the flash; `_x` tables have two more areas behind userdata.
Entry(name, area) == [name |-> name, area |-> area]
Fixed == {Entry("lk_a", "p3"), Entry("expdb", "p7"), Entry("userdata", "p16")}
Legacy == Fixed \cup {Entry("boot_a_x", "p10"), Entry("boot_b_x", "p11"),
                      Entry("boot_a", "p17"), Entry("boot_b", "p18")}
Areas(t) == {e.area : e \in t}
Names(t) == {e.name : e \in t}

Renamed(e) ==
  CASE e.name = "boot_a_x" -> Entry("boot_a", e.area)
    [] e.name = "boot_b_x" -> Entry("boot_b", e.area)
    [] OTHER -> e
\* A fault: the wrappers are dropped after the renaming.
ConvertSwapped(t) == {e \in {Renamed(f) : f \in t} : e.name \notin {"boot_a", "boot_b"}}
\* The wrappers' entries go, and only then the stores are renamed.
Convert(t) == {Renamed(e) : e \in {f \in t : f.name \notin {"boot_a", "boot_b"}}}
Plain == Fixed \cup {Entry("boot_a", "p10"), Entry("boot_b", "p11")}

Copies == {"backup", "primary"}
Both(t) == [c \in Copies |-> t]
Torn == {}                     \* a table whose checksum is wrong
Tables == SUBSET [name : Names(Legacy), area : Areas(Legacy)]
\* A file with a table, or with the beginning of one.
Files == [table : Tables, whole : BOOLEAN]
Whole(t) == [table |-> t, whole |-> TRUE]
Short(t) == [table |-> t, whole |-> FALSE]
NoFile == [c \in Copies |-> None]
Kinds == {"full", "forced", "no-gpt-fix", "gpt-fix", "gpt-restore"}
Run == [kind : Kinds, dry : BOOLEAN, n : 1 .. Len(Order),
        new : [Copies -> Files \cup {None}]]
Labels == {"idle", "gate", "guard", "write", "table", "keep_primary", "keep_backup", "manifest",
           "backup", "primary", "lock", "mark", "reboot", "bare"}

ASSUME NoneOK == None \notin Files

\* The kit is for units that come with a whole table.
ASSUME OriginsOK ==
  \A o \in Origins : o.flash \in [Chain -> Contents] /\ o.table \in {Both(Legacy), Both(Plain)}

Init ==
  /\ \E o \in Origins : flash = o.flash /\ table = o.table
  /\ misc = FALSE /\ mode = "system" /\ guard = FALSE /\ ro = FALSE
  /\ work = NoFile /\ saved = NoFile /\ manifest = NoFile
  /\ pc = [p \in Procs |-> "idle"] /\ run = [p \in Procs |-> None]
  /\ cut = {} /\ calm = FALSE

At(p, label) == pc[p] = label
Alone == \A p \in Procs : At(p, "idle")
\* The next call finds the unit on adb.
Call(p, label) == At(p, label) /\ mode = "system"
GoOn(p, label) == pc' = [pc EXCEPT ![p] = label] /\ UNCHANGED <<run, calm>>
Goto(p, label) == GoOn(p, label) /\ UNCHANGED cut
Stop(p) ==
  pc' = [pc EXCEPT ![p] = "idle"] /\ run' = [run EXCEPT ![p] = None] /\ UNCHANGED calm
End(p) == Stop(p) /\ UNCHANGED cut

\* expdb_chain_ok: both headers are there.
ChainOk == flash["expdb"] \in {"short", "new"}
AllNew == \A x \in Chain : flash[x] = "new"

-----------------------------------------------------------------------------
(* The unit *)

\* What a chain boots into.  Nobody knows what a chain of old and new parts does.
Boots(f, t, marker) ==
  CASE \A c \in Copies : t[c] = Torn -> {"dead"}
    [] \A x \in Chain : f[x] = "old" -> {"system", "fastboot"}
    [] \A x \in Chain : f[x] = "new" -> IF marker THEN {"fastboot"} ELSE {"system"}
    [] f["preloader"] = "new" /\ f["expdb"] # "new" -> {"dead"}
    [] OTHER -> {"system", "fastboot", "dead"}
\* /tmp and the read-only flag do not survive a boot.
Boot == mode' \in Boots(flash', table', misc') /\ guard' = FALSE /\ ro' = FALSE

PowerCut ==
  /\ ~calm /\ mode # "dead"
  /\ UNCHANGED <<flash, table, misc>> /\ Boot /\ UNCHANGED <<hostVars, pc, run, cut, calm>>

\* `adb reboot bootloader` on the old system.
Marked(v) == IF v \in {"old", "half"} THEN "old" ELSE "clobbered"
AdbReboot ==
  /\ ~calm /\ mode = "system" /\ ~guard
  /\ flash' = IF ro THEN flash ELSE [flash EXCEPT !["expdb"] = Marked(@)]
  /\ UNCHANGED <<table, misc>> /\ Boot /\ UNCHANGED <<hostVars, pc, run, cut, calm>>

-----------------------------------------------------------------------------
(* A run *)

\* Once calm, the operator finishes what was begun.
Advised == IF ChainOk THEN "gpt-fix" ELSE "full"
Begin(p, kind, dry) ==
  /\ At(p, "idle") /\ mode = "system"
  /\ calm => Alone /\ kind = Advised /\ ~dry
  /\ pc' = [pc EXCEPT ![p] = "gate"]
  /\ run' = [run EXCEPT ![p] =
               [kind |-> kind, dry |-> dry, n |-> 1, new |-> NoFile]]
  /\ UNCHANGED <<unitVars, hostVars, cut, calm>>

\* A fault: lk_a without the old chain's strings is an error and not a warning.
OpenByStrings(kind) ==
  IF kind = "full" THEN flash["expdb"] = "old" /\ flash["lk_a"] = "old"
  ELSE kind = "gpt-fix" /\ ChainOk
\* Both files are there and `sha256sum -c` finds those that are listed, at least one, as
\* listed.
SavedPass ==
  /\ \A c \in Copies : saved[c] # None /\ manifest[c] \in {None, saved[c]}
  /\ \E c \in Copies : manifest[c] # None
\* Which chain expdb says the unit has.  A head without the rest is nobody's.
Open(kind) ==
  CASE kind = "gpt-restore" -> SavedPass
    [] kind = "gpt-fix" -> ChainOk
    [] kind = "forced" -> ChainOk \/ flash["expdb"] = "old"
    [] OTHER -> flash["expdb"] = "old"
AfterGate(r) ==
  CASE ~r.dry -> "guard"
    [] r.dry /\ r.kind \in {"full", "forced", "gpt-fix"} -> "table"
    [] OTHER -> "idle"
Gate(p) ==
  /\ Call(p, "gate")
  /\ IF Open(run[p].kind) /\ AfterGate(run[p]) # "idle" THEN Goto(p, AfterGate(run[p])) ELSE End(p)
  /\ UNCHANGED <<unitVars, hostVars>>

\* The guard directory; then the backups, which nothing reads.
Guard(p) ==
  /\ Call(p, "guard") /\ guard' = TRUE
  /\ CASE run[p].kind = "gpt-fix" -> Goto(p, "table")
       [] run[p].kind = "gpt-restore" ->
            /\ pc' = [pc EXCEPT ![p] = "backup"]
            /\ run' = [run EXCEPT ![p].new = saved] /\ UNCHANGED <<cut, calm>>
       [] OTHER -> Goto(p, "write")
  /\ UNCHANGED <<flash, table, misc, mode, ro, hostVars>>

\* dd and its readback; the next part, or what follows the chain.
Write(p) ==
  LET part == Order[run[p].n]
  IN  /\ Call(p, "write")
      /\ \/ /\ flash' = [flash EXCEPT ![part] = "new"]
            /\ IF run[p].n < Len(Order)
               THEN run' = [run EXCEPT ![p].n = @ + 1] /\ UNCHANGED <<pc, cut, calm>>
               ELSE Goto(p, IF run[p].kind = "no-gpt-fix" THEN "lock" ELSE "table")
         \/ /\ ~calm /\ End(p)
            /\ \E v \in Later[flash[part]] :
                 (v = "short" => part = "expdb") /\ flash' = [flash EXCEPT ![part] = v]
      /\ UNCHANGED <<table, misc, mode, guard, ro, hostVars>>

\* gpt-fix.py converts a whole `_x` table whose copies agree, and refuses any other but a
\* plain one.
Agree == table["primary"] = table["backup"]
NeedsFix == Agree /\ table["primary"] # Torn /\ {"boot_a_x", "boot_b_x"} \cap Names(table["primary"]) # {}
AlreadyPlain == Agree /\ table["primary"] # Torn /\ ~NeedsFix
Converted(p) ==
  /\ pc' = [pc EXCEPT ![p] = "keep_primary"]
  /\ run' = [run EXCEPT ![p].new = [c \in Copies |-> Whole(Convert(table[c]))]]
  /\ UNCHANGED <<cut, calm>>
\* A fault: a plain table goes the way of one that is converted.
GptStepKeepsFirst(p) ==
  /\ Call(p, "table") /\ work' = table
  /\ IF NeedsFix \/ AlreadyPlain THEN Converted(p) ELSE End(p)
  /\ UNCHANGED <<unitVars, saved, manifest>>
\* The table is fetched and looked at.
GptStep(p) ==
  /\ Call(p, "table") /\ work' = table
  /\ IF NeedsFix THEN Converted(p)
     ELSE IF AlreadyPlain /\ ~run[p].dry THEN Goto(p, "lock") ELSE End(p)
  /\ UNCHANGED <<unitVars, saved, manifest>>

\* One cp into backup/.  It may fail before or after it has made the file, and the run goes
\* on; or the run is killed in it.
Keep(p, copy, next) ==
  /\ \/ saved' = [saved EXCEPT ![copy] = Whole(work[copy])] /\ Goto(p, next)
     \/ /\ ~calm /\ cut' = cut \cup {"keep"}
        /\ \/ UNCHANGED saved /\ GoOn(p, next)
           \/ /\ saved' = [saved EXCEPT ![copy] = Short(work[copy])]
              /\ GoOn(p, next) \/ Stop(p)
  /\ UNCHANGED <<unitVars, work, manifest>>
\* Both copies are kept unless there is a file of the primary.
KeepPrimary(p) ==
  /\ At(p, "keep_primary")
  /\ IF saved["primary"] = None THEN Keep(p, "primary", "keep_backup")
     ELSE Goto(p, "manifest") /\ UNCHANGED <<unitVars, hostVars>>
KeepBackup(p) == At(p, "keep_backup") /\ Keep(p, "backup", "manifest")
\* The manifest is made anew of the files that are there, whatever they hold.
Manifest(p) ==
  /\ At(p, "manifest")
  /\ \/ manifest' = saved /\ (IF run[p].dry THEN End(p) ELSE Goto(p, "backup"))
     \/ /\ ~calm /\ manifest' = NoFile
        /\ \/ End(p)
           \/ ~run[p].dry /\ GoOn(p, "backup") /\ cut' = cut \cup {"keep"}
  /\ UNCHANGED <<unitVars, work, saved>>

\* Writing what is there already changes nothing, however much of it is written.
Cut(old, new) == IF old = new THEN {old} ELSE {old, Torn, new}
\* A fault: nothing is read back.
WriteCopyBlind(p, copy, next) ==
  /\ Call(p, copy) /\ Goto(p, next)
  /\ \E t \in Cut(table[copy], run[p].new[copy].table) : table' = [table EXCEPT ![copy] = t]
  /\ UNCHANGED <<flash, misc, mode, guard, ro, hostVars>>
\* A copy and its readback: the primary only once the backup is right.  All sectors of the
\* copy are read back, so a file that is short never agrees with them.
WriteCopy(p, copy, next) ==
  LET file == run[p].new[copy]
  IN  /\ Call(p, copy)
      /\ \/ /\ file.whole /\ Goto(p, next)
            /\ table' = [table EXCEPT ![copy] = file.table]
         \/ /\ (~calm \/ ~file.whole) /\ Stop(p)
            /\ cut' = IF run[p].kind = "gpt-restore" THEN cut \cup {"restore"} ELSE cut
            /\ \E t \in Cut(table[copy], file.table) : table' = [table EXCEPT ![copy] = t]
      /\ UNCHANGED <<flash, misc, mode, guard, ro, hostVars>>
GptWrite(p) == WriteCopy(p, "backup", "primary") \/ WriteCopy(p, "primary", "lock")

\* safe_finish: the chain is looked at, expdb made read-only if that works, and the guard
\* looked at.  --gpt-restore reboots a unit without Kaeru chain as it is.
Lock(p) ==
  /\ Call(p, "lock")
  /\ IF ChainOk
     THEN ro' \in {ro, TRUE} /\ (IF guard THEN Goto(p, "mark") ELSE End(p))
     ELSE UNCHANGED ro /\ (IF run[p].kind = "gpt-restore" THEN Goto(p, "bare") ELSE End(p))
  /\ UNCHANGED <<flash, table, misc, mode, guard, hostVars>>
Mark(p) ==
  /\ Call(p, "mark")
  /\ \/ misc' = TRUE /\ Goto(p, "reboot")
     \/ ~calm /\ misc' \in {misc, TRUE} /\ End(p)
  /\ UNCHANGED <<flash, table, mode, guard, ro, hostVars>>

RebootNow(p) ==
  UNCHANGED <<flash, table, misc>> /\ Boot /\ End(p) /\ UNCHANGED hostVars
\* The chain is looked at once more.
SafeReboot(p) ==
  \/ ((Call(p, "reboot") /\ ChainOk) \/ Call(p, "bare")) /\ RebootNow(p)
  \/ Call(p, "reboot") /\ ~ChainOk /\ End(p) /\ UNCHANGED <<unitVars, hostVars>>

RunStep(p) ==
  \/ Gate(p) \/ Guard(p) \/ Write(p)
  \/ GptStep(p) \/ KeepPrimary(p) \/ KeepBackup(p) \/ Manifest(p) \/ GptWrite(p)
  \/ Lock(p) \/ Mark(p) \/ SafeReboot(p)

\* The run is killed, between the two cp's too, or a call finds no unit.
Abort(p) ==
  /\ ~At(p, "idle") /\ (calm => mode # "system") /\ Stop(p)
  /\ cut' = IF At(p, "keep_backup") THEN cut \cup {"keep"} ELSE cut
  /\ UNCHANGED <<unitVars, hostVars>>
BecomeCalm ==
  /\ ~calm /\ Alone /\ calm' = TRUE /\ UNCHANGED <<unitVars, hostVars, pc, run, cut>>

Operator == \E p \in Procs, kind \in Kinds, dry \in BOOLEAN : Begin(p, kind, dry)
Next ==
  \/ Operator \/ PowerCut \/ AdbReboot \/ BecomeCalm
  \/ \E p \in Procs : RunStep(p) \/ Abort(p)
Spec == Init /\ [][Next]_vars
LiveSpec == Spec /\ WF_vars(Operator) /\ \A p \in Procs : WF_vars(RunStep(p))

-----------------------------------------------------------------------------
(* Properties *)

TypeOK ==
  /\ flash \in [Chain -> Contents] /\ table \in [Copies -> Tables]
  /\ misc \in BOOLEAN /\ mode \in {"system", "fastboot", "dead"}
  /\ guard \in BOOLEAN /\ ro \in BOOLEAN
  /\ work \in [Copies -> Tables \cup {None}]
  /\ saved \in [Copies -> Files \cup {None}] /\ manifest \in [Copies -> Files \cup {None}]
  /\ pc \in [Procs -> Labels] /\ run \in [Procs -> Run \cup {None}]
  /\ \A p \in Procs : IF At(p, "idle") THEN run[p] = None ELSE run[p] \in Run
  /\ cut \subseteq {"keep", "restore"} /\ calm \in BOOLEAN

\* What --gpt-restore is let to write back is whole.  This is so until a cp is broken off,
\* see SavedIsLegacy.
RestoreIsWhole == SavedPass => \A c \in Copies : saved[c].whole
\* A table is converted only while --gpt-restore would put the original back.
Converting(p) ==
  (At(p, "backup") \/ At(p, "primary")) /\ run[p].kind # "gpt-restore"
RestoreIsOpen == \A p \in Procs : Converting(p) => SavedPass
\* A run in which nothing fails converts a table only when both copies of the original are
\* in backup/, whatever became of the runs before it.  The kit's README says so and the code
\* does not: KeepPrimary looks for the first copy only.  No run checks it.
OriginalKept ==
  calm => \A p \in Procs : Converting(p) => \A c \in Copies : saved[c] # None

\* Of one run at a time, however often runs are interrupted and rerun and whatever table
\* they find: nothing but the `_x` table is ever kept as the original.  It is whole and can
\* be restored before a table is converted, unless the keeping itself was broken off.
SavedIsLegacy ==
  /\ \A c \in Copies : saved[c] # None => saved[c].table = Legacy
  /\ "keep" \in cut \/ (RestoreIsWhole /\ RestoreIsOpen)

\* Every table a unit may be left with still has the installed system, under the
\* partitions it is on, and userdata.
SystemKept ==
  \A c \in Copies : table[c] # Torn => {"p10", "p11", "p16"} \subseteq Areas(table[c])

\* The new preloader is only written over the complete chain it loads, unless the unit
\* was rebooted under the run.
PreloaderLast ==
  [][flash'["preloader"] # flash["preloader"] /\ guard =>
       \A x \in Chain \ {"preloader"} : flash[x] = "new"]_vars

\* As long as one run is alive at a time, no interruption leaves the unit without a whole
\* table: only a restore that did not get through its writes may.
ATableIsWhole == "restore" \in cut \/ \E c \in Copies : table[c] # Torn

\* A conversion that was interrupted anywhere before the Kaeru payload, or after all
\* parts and between the tables, is finished by running the kit again as it says.
Ready ==
  /\ flash["expdb"] = "old" \/ AllNew
  /\ Agree /\ table["primary"] # Torn
Finished == mode = "fastboot" /\ AllNew /\ \A c \in Copies : table[c] = Plain
Completes == calm /\ Alone /\ mode = "system" /\ Ready ~> Finished
=============================================================================
