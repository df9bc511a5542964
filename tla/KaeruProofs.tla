----------------------------- MODULE KaeruProofs -----------------------------
(***************************************************************************)
(* What the migration kit keeps: for any number of runs, the tables a unit  *)
(* may be left with; and for one run at a time, the table that is kept for  *)
(* --gpt-restore, that a table stays whole, and that the preloader goes     *)
(* last.                                                                    *)
(***************************************************************************)
EXTENDS KaeruMigration, TLAPS

\* Each step of the system, by name.
LEMMA Steps ==
  ASSUME [Next]_vars
  PROVE  \/ \E p \in Procs :
              \/ \E kind \in Kinds, dry \in BOOLEAN : Begin(p, kind, dry)
              \/ Gate(p) \/ Guard(p) \/ Write(p)
              \/ GptStep(p) \/ KeepPrimary(p) \/ KeepBackup(p) \/ Manifest(p)
              \/ WriteCopy(p, "backup", "primary") \/ WriteCopy(p, "primary", "lock")
              \/ Lock(p) \/ Mark(p) \/ SafeReboot(p) \/ Abort(p)
         \/ PowerCut \/ AdbReboot \/ BecomeCalm \/ UNCHANGED vars
BY DEF Next, Operator, RunStep, GptWrite

-----------------------------------------------------------------------------
(* The parts of the chain and the tables *)

\* The parts in their order: six, all different, the preloader last.
LEMMA OrderFacts ==
  /\ Len(Order) = 6 /\ Order[6] = "preloader"
  /\ \A n \in 1 .. 6 : Order[n] \in Chain
  /\ \A n \in 1 .. 5 : Order[n] # "preloader"
  /\ \A x \in Chain : \E n \in 1 .. 6 : x = Order[n]
  /\ "expdb" \in Chain /\ "preloader" \in Chain
<1>1. Len(Order) = 6
  BY DEF Order
<1>2. /\ Order[1] = "lk_a" /\ Order[2] = "lk_b" /\ Order[3] = "tee1" /\ Order[4] = "tee2"
      /\ Order[5] = "expdb" /\ Order[6] = "preloader"
  BY DEF Order
<1>3. Chain = {Order[n] : n \in 1 .. 6}
  BY <1>1 DEF Chain
<1>4. \A n \in 1 .. 5 : n = 1 \/ n = 2 \/ n = 3 \/ n = 4 \/ n = 5
  OBVIOUS
<1>5. 5 \in 1 .. 6 /\ 6 \in 1 .. 6
  OBVIOUS
<1> QED
  BY <1>1, <1>2, <1>3, <1>4, <1>5

\* The plain table is the `_x` table converted; both are tables, and not torn.
LEMMA TableFacts ==
  /\ Legacy \in Tables /\ Plain \in Tables /\ Torn \in Tables
  /\ Legacy # Torn /\ Plain # Torn
  /\ Convert(Legacy) = Plain
  /\ {"boot_a_x", "boot_b_x"} \cap Names(Plain) = {}
<1>1. Legacy \in Tables
  BY DEF Legacy, Tables, Fixed, Entry, Names, Areas
<1>2. /\ "lk_a" \in Names(Legacy) /\ "expdb" \in Names(Legacy) /\ "userdata" \in Names(Legacy)
      /\ "boot_a" \in Names(Legacy) /\ "boot_b" \in Names(Legacy)
      /\ {"p3", "p7", "p16", "p10", "p11"} \subseteq Areas(Legacy)
  BY DEF Legacy, Fixed, Entry, Names, Areas
<1>3. Plain \in Tables
  BY <1>2 DEF Plain, Tables, Fixed, Entry
<1>4. Torn \in Tables /\ Legacy # Torn /\ Plain # Torn
  BY DEF Torn, Tables, Legacy, Plain, Fixed
<1>5. Convert(Legacy) = Plain
  <2> DEFINE stay == {f \in Legacy : f.name \notin {"boot_a", "boot_b"}}
  <2>1. stay = Fixed \cup {Entry("boot_a_x", "p10"), Entry("boot_b_x", "p11")}
    BY DEF Legacy, Fixed, Entry
  <2>2. /\ Renamed(Entry("boot_a_x", "p10")) = Entry("boot_a", "p10")
        /\ Renamed(Entry("boot_b_x", "p11")) = Entry("boot_b", "p11")
        /\ \A f \in Fixed : Renamed(f) = f
    BY DEF Renamed, Fixed, Entry
  <2>3. Convert(Legacy) = {Renamed(e) : e \in stay}
    BY DEF Convert
  <2> QED
    BY <2>1, <2>2, <2>3 DEF Plain
<1>6. {"boot_a_x", "boot_b_x"} \cap Names(Plain) = {}
  BY DEF Plain, Fixed, Entry, Names
<1> QED
  BY <1>1, <1>3, <1>4, <1>5, <1>6

\* Either table has the installed system and userdata.
LEMMA SystemIn ==
  \A t \in {Legacy, Plain} : {"p10", "p11", "p16"} \subseteq Areas(t)
<1>1. /\ Entry("boot_a_x", "p10") \in Legacy /\ Entry("boot_b_x", "p11") \in Legacy
      /\ Entry("boot_a", "p10") \in Plain /\ Entry("boot_b", "p11") \in Plain
      /\ Entry("userdata", "p16") \in Legacy \cap Plain
  BY DEF Legacy, Plain, Fixed
<1>2. \A t, n, x : Entry(n, x) \in t => x \in Areas(t)
  BY DEF Areas, Entry
<1> QED
  BY <1>1, <1>2

-----------------------------------------------------------------------------
(* The types *)

\* A change of one run's locals to locals keeps the type of run.
LEMMA TypedRun ==
  ASSUME TypeOK, NEW p \in Procs, NEW r \in Run \cup {None}, run' = [run EXCEPT ![p] = r]
  PROVE  run' \in [Procs -> Run \cup {None}] /\ run'[p] = r
BY DEF TypeOK

\* A run that ends leaves no locals.
LEMMA Ends ==
  ASSUME TypeOK, NEW p \in Procs, Stop(p)
  PROVE  /\ pc' \in [Procs -> Labels] /\ run' \in [Procs -> Run \cup {None}]
         /\ \A q \in Procs : IF At(q, "idle")' THEN run'[q] = None ELSE run'[q] \in Run
         /\ calm' = calm
BY DEF TypeOK, Stop, At, Labels

\* A run that goes on keeps its locals.
LEMMA Goes ==
  ASSUME TypeOK, NEW p \in Procs, ~At(p, "idle"), NEW label \in Labels \ {"idle"}, GoOn(p, label)
  PROVE  /\ pc' \in [Procs -> Labels] /\ run' \in [Procs -> Run \cup {None}]
         /\ \A q \in Procs : IF At(q, "idle")' THEN run'[q] = None ELSE run'[q] \in Run
         /\ calm' = calm
BY DEF TypeOK, GoOn, At, Labels

\* A run that goes on with other locals.
LEMMA Changes ==
  ASSUME TypeOK, NEW p \in Procs, NEW label \in Labels \ {"idle"}, NEW r \in Run,
         pc' = [pc EXCEPT ![p] = label], run' = [run EXCEPT ![p] = r]
  PROVE  /\ pc' \in [Procs -> Labels] /\ run' \in [Procs -> Run \cup {None}]
         /\ \A q \in Procs : IF At(q, "idle")' THEN run'[q] = None ELSE run'[q] \in Run
         /\ run'[p] = r
BY DEF TypeOK, At, Labels

\* A boot leaves the unit in one of its modes.
LEMMA Booted ==
  ASSUME Boot
  PROVE  mode' \in {"system", "fastboot", "dead"} /\ guard' \in BOOLEAN /\ ro' \in BOOLEAN
BY DEF Boot, Boots

\* A copy of the table is never anything but the `_x` table, the plain one, or torn.
TablesNamed == \A c \in Copies : table[c] \in {Legacy, Plain, Torn}

\* What gpt-fix.py converts is the `_x` table, in both copies.
LEMMA LegacyOnly ==
  ASSUME TablesNamed, NeedsFix
  PROVE  \A c \in Copies : table[c] = Legacy
BY TableFacts DEF TablesNamed, NeedsFix, Agree, Copies

\* The tables on the host are named too, and nothing but None is no file.
Named == {Legacy, Plain, Torn}
HostNamed ==
  /\ \A c \in Copies : work[c] \in Named \cup {None}
  /\ \A c \in Copies : saved[c] # None => saved[c].table \in Named

\* A run that keeps the table has fetched one; and what a run writes, or will once it has
\* kept the table, is a file with a table.
Keeping(p) == At(p, "keep_primary") \/ At(p, "keep_backup")
Writing(p) == At(p, "backup") \/ At(p, "primary")
Prepared(p) == Keeping(p) \/ At(p, "manifest") \/ Writing(p)
Fetched == \A p \in Procs : Keeping(p) => \A c \in Copies : work[c] \in Named
NewNamed ==
  \A p \in Procs : Prepared(p) =>
    \A c \in Copies : run[p].new[c] \in Files /\ run[p].new[c].table \in Named

\* A run that is about to restore has both files.
Held ==
  \A p \in Procs : At(p, "guard") /\ run[p].kind = "gpt-restore" =>
    \A c \in Copies : saved[c] # None

\* Every step keeps the types.
LEMMA TypeStep ==
  ASSUME TypeOK, TablesNamed, Fetched, NewNamed, [Next]_vars
  PROVE  TypeOK'
<1> USE DEF Labels
<1>1. ASSUME NEW p \in Procs, NEW kind \in Kinds, NEW dry \in BOOLEAN, Begin(p, kind, dry)
      PROVE  TypeOK'
  <2> DEFINE r == [kind |-> kind, dry |-> dry, n |-> 1, new |-> NoFile]
  <2>1. r \in Run
    BY OrderFacts DEF Run, NoFile
  <2>2. pc' = [pc EXCEPT ![p] = "gate"] /\ run' = [run EXCEPT ![p] = r]
    BY <1>1 DEF Begin
  <2> QED
    BY <1>1, <2>1, <2>2, Changes DEF Begin, TypeOK, unitVars, hostVars
<1>2. ASSUME NEW p \in Procs, Gate(p)
      PROVE  TypeOK'
  <2>1. CASE Goto(p, AfterGate(run[p])) /\ AfterGate(run[p]) # "idle"
    <3>1. AfterGate(run[p]) \in Labels \ {"idle"} /\ ~At(p, "idle")
      BY <1>2, <2>1 DEF AfterGate, Gate, Call, At
    <3> QED
      BY <1>2, <2>1, <3>1, Goes DEF Gate, Goto, TypeOK, unitVars, hostVars
  <2>2. CASE End(p)
    BY <1>2, <2>2, Ends DEF Gate, End, TypeOK, unitVars, hostVars
  <2> QED
    BY <1>2, <2>1, <2>2 DEF Gate
<1>3. ASSUME NEW p \in Procs, Guard(p)
      PROVE  TypeOK'
  <2>1. run[p] \in Run /\ ~At(p, "idle")
    BY <1>3 DEF Guard, Call, At, TypeOK
  <2>2. CASE \E label \in Labels \ {"idle"} : Goto(p, label)
    BY <1>3, <2>1, <2>2, Goes DEF Guard, Goto, TypeOK, hostVars
  <2>3. CASE run[p].kind = "gpt-restore"
    <3>1. [run[p] EXCEPT !.new = saved] \in Run
      BY <2>1 DEF Run, TypeOK
    <3>2. /\ pc' = [pc EXCEPT ![p] = "backup"]
          /\ run' = [run EXCEPT ![p] = [run[p] EXCEPT !.new = saved]]
          /\ UNCHANGED <<cut, calm>>
      BY <1>3, <2>3 DEF Guard
    <3> QED
      BY <1>3, <3>1, <3>2, Changes DEF Guard, TypeOK, hostVars
  <2>4. Goto(p, "table") \/ Goto(p, "write") \/ run[p].kind = "gpt-restore"
    BY <1>3 DEF Guard
  <2>5. "table" \in Labels \ {"idle"} /\ "write" \in Labels \ {"idle"}
    OBVIOUS
  <2> QED
    BY <2>2, <2>3, <2>4, <2>5
<1>4. ASSUME NEW p \in Procs, Write(p)
      PROVE  TypeOK'
  <2> DEFINE part == Order[run[p].n]
  <2>1. run[p] \in Run /\ ~At(p, "idle") /\ run[p].n \in 1 .. 6 /\ part \in Chain
    BY <1>4, OrderFacts DEF Write, Call, At, TypeOK, Run
  <2>2. flash[part] \in Contents /\ Later[flash[part]] \subseteq Contents /\ "new" \in Contents
    <3>1. flash[part] \in Contents
      BY <2>1 DEF TypeOK
    <3> QED
      BY <3>1 DEF Later, Contents
  <2>3. flash' \in [Chain -> Contents]
    <3>1. \E v \in Contents : flash' = [flash EXCEPT ![part] = v]
      BY <1>4, <2>2 DEF Write
    <3> QED
      BY <3>1, <2>1 DEF TypeOK
  <2>4. CASE run' = [run EXCEPT ![p].n = @ + 1] /\ UNCHANGED <<pc, cut, calm>> /\ run[p].n < Len(Order)
    <3>1. [run[p] EXCEPT !.n = @ + 1] \in Run
      BY <2>1, <2>4, OrderFacts DEF Run
    <3>2. run' = [run EXCEPT ![p] = [run[p] EXCEPT !.n = @ + 1]]
      BY <2>4
    <3>3. run' \in [Procs -> Run \cup {None}] /\ run'[p] \in Run
      BY <3>1, <3>2, TypedRun
    <3> QED
      BY <1>4, <2>1, <2>3, <2>4, <3>2, <3>3 DEF Write, TypeOK, At, hostVars
  <2>5. CASE Goto(p, "lock") \/ Goto(p, "table")
    <3>1. "table" \in Labels \ {"idle"} /\ "lock" \in Labels \ {"idle"}
      OBVIOUS
    <3> QED
      BY <1>4, <2>1, <2>3, <2>5, <3>1, Goes DEF Write, Goto, TypeOK, hostVars
  <2>6. CASE End(p)
    BY <1>4, <2>3, <2>6, Ends DEF Write, End, TypeOK, hostVars
  <2> QED
    BY <1>4, <2>4, <2>5, <2>6 DEF Write
<1>5. ASSUME NEW p \in Procs, GptStep(p)
      PROVE  TypeOK'
  <2>1. run[p] \in Run /\ ~At(p, "idle")
    BY <1>5 DEF GptStep, Call, At, TypeOK
  <2>2. work' \in [Copies -> Tables \cup {None}]
    BY <1>5 DEF GptStep, TypeOK
  <2>3. CASE End(p)
    BY <1>5, <2>2, <2>3, Ends DEF GptStep, End, TypeOK, unitVars
  <2>4. CASE Goto(p, "lock")
    <3>1. "lock" \in Labels \ {"idle"}
      OBVIOUS
    <3> QED
      BY <1>5, <2>1, <2>2, <2>4, <3>1, Goes DEF GptStep, Goto, TypeOK, unitVars
  <2> DEFINE new == [c \in Copies |-> Whole(Convert(table[c]))]
  <2>5. CASE NeedsFix /\ Converted(p)
    <3>1. new \in [Copies -> Files]
      BY <2>5, TablesNamed, LegacyOnly, TableFacts DEF Copies, Whole, Files
    <3>2. [run[p] EXCEPT !.new = new] \in Run
      BY <2>1, <3>1 DEF Run
    <3>3. /\ pc' = [pc EXCEPT ![p] = "keep_primary"] /\ UNCHANGED <<cut, calm>>
          /\ run' = [run EXCEPT ![p] = [run[p] EXCEPT !.new = new]]
      BY <2>5 DEF Converted
    <3> QED
      BY <1>5, <2>2, <3>2, <3>3, Changes DEF GptStep, TypeOK, unitVars
  <2> QED
    BY <1>5, <2>3, <2>4, <2>5 DEF GptStep
<1>6. ASSUME NEW p \in Procs, NEW copy \in Copies, NEW next \in Labels \ {"idle"},
             Keeping(p), Keep(p, copy, next)
      PROVE  TypeOK'
  <2>1. ~At(p, "idle")
    BY <1>6 DEF Keeping, At
  <2>2. Whole(work[copy]) \in Files /\ Short(work[copy]) \in Files
    BY <1>6, TableFacts DEF Fetched, Named, Whole, Short, Files
  <2>3. saved' \in [Copies -> Files \cup {None}]
    BY <1>6, <2>2 DEF Keep, TypeOK
  <2>4. cut' \subseteq {"keep", "restore"}
    BY <1>6 DEF Keep, Goto, TypeOK
  <2>5. CASE GoOn(p, next)
    BY <1>6, <2>1, <2>3, <2>4, <2>5, Goes DEF Keep, TypeOK, unitVars
  <2>6. CASE Stop(p)
    BY <1>6, <2>3, <2>4, <2>6, Ends DEF Keep, TypeOK, unitVars
  <2> QED
    BY <1>6, <2>5, <2>6 DEF Keep, Goto
<1>7. ASSUME NEW p \in Procs, KeepPrimary(p) \/ KeepBackup(p)
      PROVE  TypeOK'
  <2>1. Keeping(p) /\ ~At(p, "idle")
    BY <1>7 DEF KeepPrimary, KeepBackup, Keeping, At
  <2>2. CASE Keep(p, "primary", "keep_backup") \/ Keep(p, "backup", "manifest")
    BY <1>6, <2>1, <2>2 DEF Copies
  <2>3. CASE Goto(p, "manifest") /\ UNCHANGED <<unitVars, hostVars>>
    <3>1. "manifest" \in Labels \ {"idle"}
      OBVIOUS
    <3> QED
      BY <2>1, <2>3, <3>1, Goes DEF Goto, TypeOK, unitVars, hostVars
  <2> QED
    BY <1>7, <2>2, <2>3 DEF KeepPrimary, KeepBackup
<1>8. ASSUME NEW p \in Procs, Manifest(p)
      PROVE  TypeOK'
  <2>1. ~At(p, "idle") /\ manifest' \in [Copies -> Files \cup {None}]
    BY <1>8 DEF Manifest, At, TypeOK, NoFile
  <2>2. cut' \subseteq {"keep", "restore"}
    BY <1>8 DEF Manifest, Goto, End, TypeOK
  <2>3. CASE GoOn(p, "backup")
    <3>1. "backup" \in Labels \ {"idle"}
      OBVIOUS
    <3> QED
      BY <1>8, <2>1, <2>2, <2>3, <3>1, Goes DEF Manifest, TypeOK, unitVars
  <2>4. CASE Stop(p)
    BY <1>8, <2>1, <2>2, <2>4, Ends DEF Manifest, TypeOK, unitVars
  <2> QED
    BY <1>8, <2>3, <2>4 DEF Manifest, Goto, End
<1>9. ASSUME NEW p \in Procs, NEW copy \in Copies, NEW next \in Labels \ {"idle"},
             copy \in Labels \ {"idle"}, Writing(p), WriteCopy(p, copy, next)
      PROVE  TypeOK'
  <2>1. ~At(p, "idle")
    BY <1>9 DEF WriteCopy, Call, At
  <2>2. run[p].new[copy].table \in Tables /\ table[copy] \in Tables
    BY <1>9 DEF NewNamed, Prepared, Files, TypeOK
  <2>3. table' \in [Copies -> Tables]
    <3>1. \E t \in Tables : table' = [table EXCEPT ![copy] = t]
      BY <1>9, <2>2, TableFacts DEF WriteCopy, Cut
    <3> QED
      BY <3>1 DEF TypeOK
  <2>4. CASE Goto(p, next)
    BY <1>9, <2>1, <2>3, <2>4, Goes DEF WriteCopy, Goto, TypeOK, hostVars
  <2>5. CASE Stop(p) /\ cut' \in {cut, cut \cup {"restore"}}
    BY <1>9, <2>3, <2>5, Ends DEF WriteCopy, TypeOK, hostVars
  <2> QED
    BY <1>9, <2>4, <2>5 DEF WriteCopy
<1>10. ASSUME NEW p \in Procs,
             WriteCopy(p, "backup", "primary") \/ WriteCopy(p, "primary", "lock")
      PROVE  TypeOK'
  BY <1>9, <1>10 DEF Copies, WriteCopy, Call, Writing
<1>11. ASSUME NEW p \in Procs, Lock(p)
      PROVE  TypeOK'
  <2>1. ro' \in BOOLEAN /\ ~At(p, "idle")
    BY <1>11 DEF Lock, Call, At, TypeOK
  <2>2. CASE Goto(p, "mark") \/ Goto(p, "bare")
    BY <1>11, <2>1, <2>2, Goes DEF Lock, Goto, TypeOK, hostVars
  <2>3. CASE End(p)
    BY <1>11, <2>1, <2>3, Ends DEF Lock, End, TypeOK, hostVars
  <2> QED
    BY <1>11, <2>2, <2>3 DEF Lock
<1>12. ASSUME NEW p \in Procs, Mark(p)
      PROVE  TypeOK'
  <2>1. misc' \in BOOLEAN /\ ~At(p, "idle")
    BY <1>12 DEF Mark, Call, At, TypeOK
  <2>2. CASE Goto(p, "reboot")
    BY <1>12, <2>1, <2>2, Goes DEF Mark, Goto, TypeOK, hostVars
  <2>3. CASE End(p)
    BY <1>12, <2>1, <2>3, Ends DEF Mark, End, TypeOK, hostVars
  <2> QED
    BY <1>12, <2>2, <2>3 DEF Mark
<1>13. ASSUME NEW p \in Procs, SafeReboot(p)
       PROVE  TypeOK'
  <2>1. CASE RebootNow(p)
    BY <2>1, Ends, Booted DEF RebootNow, End, TypeOK, hostVars
  <2>2. CASE End(p) /\ UNCHANGED <<unitVars, hostVars>>
    BY <2>2, Ends DEF End, TypeOK, unitVars, hostVars
  <2> QED
    BY <1>13, <2>1, <2>2 DEF SafeReboot
<1>14. ASSUME NEW p \in Procs, Abort(p)
       PROVE  TypeOK'
  BY <1>14, Ends DEF Abort, TypeOK, unitVars, hostVars
<1>15. ASSUME PowerCut
       PROVE  TypeOK'
  BY <1>15, Booted DEF PowerCut, TypeOK, At, hostVars
<1>16. ASSUME AdbReboot
       PROVE  TypeOK'
  <2>1. flash["expdb"] \in Contents
    BY OrderFacts DEF TypeOK
  <2>2. Marked(flash["expdb"]) \in Contents
    BY <2>1 DEF Marked, Contents
  <2>3. flash' \in [Chain -> Contents]
    BY <1>16, <2>2 DEF AdbReboot, TypeOK
  <2> QED
    BY <1>16, <2>3, Booted DEF AdbReboot, TypeOK, At, hostVars
<1>17. ASSUME BecomeCalm \/ UNCHANGED vars
       PROVE  TypeOK'
  BY <1>17 DEF BecomeCalm, TypeOK, At, vars, unitVars, hostVars
<1> QED
  BY <1>1, <1>2, <1>3, <1>4, <1>5, <1>7, <1>8, <1>10, <1>11, <1>12, <1>13, <1>14, <1>15, <1>16,
     <1>17, Steps

-----------------------------------------------------------------------------
(* Tables *)

KaeruInv == TypeOK /\ TablesNamed /\ HostNamed /\ Fetched /\ NewNamed /\ Held

\* Units come with a whole table, and no run has begun.
LEMMA KaeruInvInit ==
  ASSUME OriginsOK, Init
  PROVE  KaeruInv
<1>1. flash \in [Chain -> Contents] /\ table \in {Both(Legacy), Both(Plain)}
  BY DEF Init, OriginsOK
<1>2. table \in [Copies -> Tables] /\ TablesNamed
  BY <1>1, TableFacts DEF Both, TablesNamed
<1>3. TypeOK
  BY <1>1, <1>2 DEF Init, TypeOK, At, Labels, NoFile
<1>4. HostNamed
  BY DEF Init, HostNamed, NoFile
<1> QED
  BY <1>2, <1>3, <1>4 DEF KaeruInv, Init, Fetched, NewNamed, Prepared, Keeping, Writing, Held, At

\* A table is only changed by writing a copy, and then to a named one.
LEMMA TablesStep ==
  ASSUME TypeOK, TablesNamed, NewNamed, [Next]_vars
  PROVE  TablesNamed'
<1>1. ASSUME NEW p \in Procs, NEW copy \in Copies, NEW next, Writing(p), WriteCopy(p, copy, next)
      PROVE  TablesNamed'
  <2>1. run[p].new[copy].table \in {Legacy, Plain, Torn}
    BY <1>1 DEF NewNamed, Prepared, Named
  <2>2. \E t \in {Legacy, Plain, Torn} : table' = [table EXCEPT ![copy] = t]
    BY <1>1, <2>1 DEF WriteCopy, Cut, TablesNamed
  <2> QED
    BY <2>2 DEF TablesNamed, TypeOK
<1>2. CASE \E p \in Procs : WriteCopy(p, "backup", "primary") \/ WriteCopy(p, "primary", "lock")
  BY <1>1, <1>2 DEF Copies, WriteCopy, Call, Writing
<1>3. CASE UNCHANGED table
  BY <1>3 DEF TablesNamed
<1> QED
  BY <1>2, <1>3, Steps DEF Begin, Gate, Guard, Write, GptStep, KeepPrimary, KeepBackup, Keep, Manifest,
     Lock, Mark, SafeReboot, RebootNow, Abort, PowerCut, AdbReboot, BecomeCalm, vars, unitVars

\* The files on the host only change where the table is fetched and kept.
LEMMA HostSteps ==
  ASSUME [Next]_vars
  PROVE  \/ UNCHANGED <<work, saved>>
         \/ \E p \in Procs : GptStep(p)
         \/ \E p \in Procs :
              \/ At(p, "keep_primary") /\ saved["primary"] = None /\ Keep(p, "primary", "keep_backup")
              \/ At(p, "keep_backup") /\ Keep(p, "backup", "manifest")
BY Steps DEF Begin, Gate, Guard, Write, KeepPrimary, KeepBackup, Manifest, WriteCopy, Lock, Mark,
   SafeReboot, RebootNow, Abort, PowerCut, AdbReboot, BecomeCalm, vars, unitVars, hostVars

\* What cp makes of a named table holds a named table, and a kept file stays one.
LEMMA HostStep ==
  ASSUME TypeOK, TablesNamed, HostNamed, Fetched, [Next]_vars
  PROVE  /\ HostNamed'
         /\ \A c \in Copies : saved[c] # None => saved'[c] # None
         /\ \A c \in Copies : work[c] \in Named => work'[c] \in Named
<1>1. ASSUME NEW p \in Procs, GptStep(p)
      PROVE  work' = table /\ saved' = saved
  BY <1>1 DEF GptStep
<1>2. ASSUME NEW p \in Procs, NEW copy \in Copies, NEW next, Keeping(p), Keep(p, copy, next)
      PROVE  /\ work' = work
             /\ \E file \in Files : file.table \in Named
                  /\ saved' \in {saved, [saved EXCEPT ![copy] = file]}
  <2>1. work[copy] \in Named /\ Named \subseteq Tables
    BY <1>2, TableFacts DEF Fetched, Named
  <2>2. /\ Whole(work[copy]) \in Files /\ Whole(work[copy]).table \in Named
        /\ Short(work[copy]) \in Files /\ Short(work[copy]).table \in Named
    BY <2>1 DEF Whole, Short, Files
  <2> QED
    BY <1>2, <2>2 DEF Keep
<1>3. CASE \E p \in Procs : GptStep(p)
  BY <1>1, <1>3 DEF HostNamed, TablesNamed, Named
<1>4. CASE \E p \in Procs, copy \in Copies, next \in Labels : Keeping(p) /\ Keep(p, copy, next)
  BY <1>2, <1>4, NoneOK DEF HostNamed, TypeOK
<1>5. CASE UNCHANGED <<work, saved>>
  BY <1>5 DEF HostNamed
<1>6. Copies = {"backup", "primary"} /\ {"keep_backup", "manifest"} \subseteq Labels
  BY DEF Copies, Labels
<1> QED
  BY <1>3, <1>4, <1>5, <1>6, HostSteps DEF Keeping

\* How a run comes to its guard, to keeping and to writing.
LEMMA Comes ==
  ASSUME TypeOK, [Next]_vars, NEW q \in Procs
  PROVE  /\ At(q, "guard")' => Gate(q) \/ (At(q, "guard") /\ run'[q] = run[q])
         /\ Keeping(q)' => GptStep(q) \/ (Keeping(q) /\ run'[q] = run[q])
         /\ Prepared(q)' => GptStep(q) \/ Guard(q) \/ (Prepared(q) /\ run'[q] = run[q])
<1> USE DEF Keeping, Prepared, Writing, At
<1>1. ASSUME NEW p \in Procs, q # p,
             \/ \E kind \in Kinds, dry \in BOOLEAN : Begin(p, kind, dry)
             \/ Gate(p) \/ Guard(p) \/ Write(p) \/ GptStep(p)
      PROVE  pc'[q] = pc[q] /\ run'[q] = run[q]
  BY <1>1 DEF Begin, Gate, Guard, Write, GptStep, Converted, Goto, GoOn, End, Stop, TypeOK
<1>2. ASSUME NEW p \in Procs, q # p,
             \/ KeepPrimary(p) \/ KeepBackup(p) \/ Manifest(p)
             \/ WriteCopy(p, "backup", "primary") \/ WriteCopy(p, "primary", "lock")
             \/ Lock(p) \/ Mark(p) \/ SafeReboot(p) \/ Abort(p)
      PROVE  pc'[q] = pc[q] /\ run'[q] = run[q]
  BY <1>2 DEF KeepPrimary, KeepBackup, Keep, Manifest, WriteCopy, Lock, Mark, SafeReboot, RebootNow,
     Abort, Goto, GoOn, End, Stop, TypeOK
<1>3. CASE \E kind \in Kinds, dry \in BOOLEAN : Begin(q, kind, dry)
  <2>1. pc'[q] = "gate"
    BY <1>3 DEF Begin, TypeOK
  <2> QED
    BY <2>1
<1>4. CASE Gate(q) \/ Write(q)
  <2>1. Gate(q) \/ pc'[q] \in {"write", "lock", "table", "idle"}
    BY <1>4 DEF Write, Call, Goto, GoOn, End, Stop, TypeOK
  <2>2. Gate(q) => pc'[q] \in {"guard", "table", "idle"}
    BY DEF Gate, AfterGate, Goto, GoOn, End, Stop, TypeOK
  <2> QED
    BY <2>1, <2>2
<1>5. CASE Guard(q) \/ GptStep(q)
  <2>1. Guard(q) => pc'[q] \in {"table", "backup", "write"}
    BY DEF Guard, Goto, GoOn, TypeOK
  <2>2. GptStep(q) => pc'[q] \in {"keep_primary", "lock", "idle"}
    BY DEF GptStep, Converted, Goto, GoOn, End, Stop, TypeOK
  <2> QED
    BY <1>5, <2>1, <2>2
<1>6. CASE KeepPrimary(q) \/ KeepBackup(q)
  <2>1. /\ Keeping(q)
        /\ \/ pc'[q] = "idle"
           \/ pc'[q] \in {"keep_backup", "manifest"} /\ run' = run
    BY <1>6 DEF KeepPrimary, KeepBackup, Keep, Goto, GoOn, Stop, TypeOK
  <2> QED
    BY <2>1
<1>7. CASE Manifest(q) \/ WriteCopy(q, "backup", "primary") \/ WriteCopy(q, "primary", "lock")
  <2>1. /\ Prepared(q)
        /\ \/ pc'[q] \in {"idle", "lock"}
           \/ pc'[q] \in {"backup", "primary"} /\ run' = run
    BY <1>7 DEF Manifest, WriteCopy, Call, Goto, GoOn, End, Stop, TypeOK
  <2> QED
    BY <2>1
<1>8. CASE Lock(q) \/ Mark(q) \/ SafeReboot(q) \/ Abort(q)
  <2>1. pc'[q] \in {"mark", "bare", "reboot", "idle"}
    BY <1>8 DEF Lock, Mark, SafeReboot, RebootNow, Abort, Goto, GoOn, End, Stop, TypeOK
  <2> QED
    BY <2>1
<1>9. CASE PowerCut \/ AdbReboot \/ BecomeCalm \/ UNCHANGED vars
  BY <1>9 DEF PowerCut, AdbReboot, BecomeCalm, vars
<1> QED
  BY <1>1, <1>2, <1>3, <1>4, <1>5, <1>6, <1>7, <1>8, <1>9, Steps

\* What gpt-fix.py converts to.
LEMMA ConvertedTo ==
  ASSUME TypeOK, TablesNamed, NeedsFix, NEW p \in Procs, ~At(p, "idle"), Converted(p)
  PROVE  \A c \in Copies : run'[p].new[c] = Whole(Plain)
<1>1. run[p] \in Run
  BY DEF TypeOK
<1>2. \A c \in Copies : Convert(table[c]) = Plain
  BY LegacyOnly, TableFacts
<1>3. run'[p].new = [c \in Copies |-> Whole(Convert(table[c]))]
  BY <1>1 DEF Converted, TypeOK, Run
<1> QED
  BY <1>2, <1>3

\* A run comes to its guard over the gate that looked for both files.
LEMMA HeldStep ==
  ASSUME TypeOK, TablesNamed, HostNamed, Fetched, Held, [Next]_vars
  PROVE  Held'
<1> SUFFICES ASSUME NEW q \in Procs, At(q, "guard")', run'[q].kind = "gpt-restore", NEW c \in Copies
             PROVE  saved'[c] # None
  BY DEF Held, At
<1>1. CASE At(q, "guard") /\ run'[q] = run[q]
  BY <1>1, HostStep DEF Held
<1>2. CASE Gate(q)
  <2>1. Open(run[q].kind) /\ run' = run
    BY <1>2 DEF Gate, End, Stop, Goto, GoOn, At, TypeOK
  <2> QED
    BY <1>2, <2>1 DEF Gate, Open, SavedPass, hostVars
<1> QED
  BY <1>1, <1>2, Comes

\* A run keeps what it has fetched, and writes what it has converted or what was kept.
LEMMA PreparedStep ==
  ASSUME KaeruInv, [Next]_vars
  PROVE  Fetched' /\ NewNamed'
<1>1. ASSUME NEW q \in Procs, Keeping(q)', NEW c \in Copies
      PROVE  work'[c] \in Named
  <2>1. CASE GptStep(q)
    BY <2>1 DEF GptStep, KaeruInv, TablesNamed, Named
  <2>2. CASE Keeping(q)
    BY <2>2, HostStep DEF KaeruInv, Fetched
  <2> QED
    BY <1>1, <2>1, <2>2, Comes DEF KaeruInv
<1>2. ASSUME NEW q \in Procs, Prepared(q)', NEW c \in Copies
      PROVE  run'[q].new[c] \in Files /\ run'[q].new[c].table \in Named
  <2>1. CASE GptStep(q)
    <3>1. NeedsFix /\ Converted(q) /\ ~At(q, "idle")
      BY <1>2, <2>1 DEF GptStep, Goto, GoOn, End, Stop, Call, At, Prepared, Keeping, Writing, KaeruInv, TypeOK
    <3>2. run'[q].new[c] = Whole(Plain)
      BY <3>1, ConvertedTo DEF KaeruInv
    <3> QED
      BY <3>2, TableFacts DEF Whole, Files, Named
  <2>2. CASE Guard(q)
    <3>1. /\ run[q].kind = "gpt-restore" /\ At(q, "guard") /\ run[q] \in Run
          /\ run' = [run EXCEPT ![q].new = saved]
      BY <1>2, <2>2 DEF Guard, Goto, GoOn, Call, At, Prepared, Keeping, Writing, KaeruInv, TypeOK
    <3>2. run'[q].new[c] = saved[c] /\ saved[c] # None
      BY <3>1 DEF KaeruInv, TypeOK, Run, Held
    <3> QED
      BY <3>2 DEF KaeruInv, HostNamed, TypeOK
  <2>3. CASE Prepared(q) /\ run'[q] = run[q]
    BY <2>3 DEF KaeruInv, NewNamed
  <2> QED
    BY <1>2, <2>1, <2>2, <2>3, Comes DEF KaeruInv
<1> QED
  BY <1>1, <1>2 DEF Fetched, NewNamed, Keeping, Prepared, Writing, At

\* All of it stays.
LEMMA KaeruInvStep ==
  ASSUME KaeruInv, [Next]_vars
  PROVE  KaeruInv'
BY TypeStep, TablesStep, HostStep, HeldStep, PreparedStep DEF KaeruInv

\* However many runs convert, restore, fail and are cut: types, tables and locals are as
\* KaeruInv says.
THEOREM KaeruSafe == Spec => []KaeruInv
<1>1. Init => KaeruInv
  BY KaeruInvInit, OriginsOK
<1>2. KaeruInv /\ [Next]_vars => KaeruInv'
  BY KaeruInvStep
<1> QED
  BY <1>1, <1>2, PTL DEF Spec

\* For any number of runs, no table a unit is left with has lost the installed system or
\* userdata.
THEOREM SystemStays == Spec => []SystemKept
<1>1. KaeruInv => SystemKept
  BY SystemIn DEF KaeruInv, TablesNamed, SystemKept
<1> QED
  BY <1>1, KaeruSafe, PTL

-----------------------------------------------------------------------------
(* One run at a time *)

OneRun == \A p, q \in Procs : p = q

\* The only run keeps what gpt-fix.py would convert, and nothing else.
OnlyOriginal ==
  /\ \A c \in Copies : saved[c] # None => saved[c].table = Legacy
  /\ \A p \in Procs : Keeping(p) => \A c \in Copies : work[c] = Legacy
  /\ \A p \in Procs : Prepared(p) => \A c \in Copies : run[p].new[c].table # Torn

\* As long as no keeping has been broken off: the primary is only kept together with the
\* backup, and the run has them and their manifest before it writes.
KeptWhole ==
  "keep" \notin cut =>
    /\ \A c \in Copies : saved[c] \in {None, Whole(Legacy)}
    /\ saved["primary"] # None /\ saved["backup"] = None => \E p \in Procs : At(p, "keep_backup")
    /\ \A p \in Procs : At(p, "keep_backup") => saved["primary"] # None
    /\ \A p \in Procs : At(p, "manifest") => \A c \in Copies : saved[c] # None
    /\ RestoreIsOpen

\* Whatever happens to a conversion, one copy is whole: the backup is written over a whole
\* primary, and the primary over the backup just written.
CopyLeft ==
  /\ ATableIsWhole
  /\ \A p \in Procs :
       /\ Keeping(p) \/ At(p, "manifest") \/ (At(p, "backup") /\ run[p].kind # "gpt-restore")
            => table["primary"] # Torn
       /\ At(p, "primary") => table["backup"] = run[p].new["backup"].table

\* A run that writes the chain under its guard has written all parts before the next one.
WrittenSoFar ==
  \A p \in Procs :
    /\ At(p, "gate") \/ At(p, "guard") => run[p].n = 1
    /\ At(p, "write") /\ guard => \A m \in 1 .. 5 : m < run[p].n => flash[Order[m]] = "new"

\* The kept table through a step of the only run: what is fetched is whole and legacy, or it
\* is not kept.
LEMMA OnlyOriginalStep ==
  ASSUME OneRun, KaeruInv, OnlyOriginal, [Next]_vars
  PROVE  OnlyOriginal'
<1>0. TypeOK /\ TablesNamed /\ Copies = {"backup", "primary"}
  BY DEF KaeruInv, Copies
<1>1. ASSUME NEW p \in Procs, GptStep(p), Prepared(p)'
      PROVE  /\ \A c \in Copies : work'[c] = Legacy
             /\ \A c \in Copies : run'[p].new[c].table # Torn
  <2>1. NeedsFix /\ Converted(p) /\ ~At(p, "idle")
    BY <1>0, <1>1 DEF GptStep, Goto, GoOn, End, Stop, Call, At, Prepared, Keeping, Writing, TypeOK
  <2> QED
    BY <1>0, <1>1, <2>1, LegacyOnly, ConvertedTo, TableFacts DEF GptStep, Whole
<1>2. ASSUME NEW c \in Copies, saved'[c] # None
      PROVE  saved'[c].table = Legacy
  <2>1. ASSUME NEW p \in Procs, NEW copy \in Copies, NEW next, Keeping(p), Keep(p, copy, next)
        PROVE  saved'[c].table = Legacy
    <3>1. saved'[c] \in {saved[c], Whole(Legacy), Short(Legacy)}
      BY <1>0, <2>1 DEF Keep, OnlyOriginal, TypeOK
    <3> QED
      BY <1>2, <3>1 DEF OnlyOriginal, Whole, Short
  <2>2. CASE saved' = saved
    BY <1>2, <2>2 DEF OnlyOriginal
  <2> QED
    BY <1>0, <2>1, <2>2, HostSteps DEF Keeping, GptStep
<1>3. ASSUME NEW q \in Procs, Keeping(q)', NEW c \in Copies
      PROVE  work'[c] = Legacy
  <2>1. CASE GptStep(q)
    BY <1>1, <1>3, <2>1 DEF Prepared
  <2>2. CASE Keeping(q)
    <3>1. ~GptStep(q) /\ \A p \in Procs : p = q
      BY <2>2 DEF OneRun, Keeping, GptStep, Call, At
    <3>2. work' = work
      BY <3>1, HostSteps DEF Keep
    <3> QED
      BY <2>2, <3>2 DEF OnlyOriginal
  <2> QED
    BY <1>0, <1>3, <2>1, <2>2, Comes
<1>4. ASSUME NEW q \in Procs, Prepared(q)', NEW c \in Copies
      PROVE  run'[q].new[c].table # Torn
  <2>1. CASE GptStep(q)
    BY <1>1, <1>4, <2>1
  <2>2. CASE Guard(q)
    <3>1. /\ run[q].kind = "gpt-restore" /\ At(q, "guard") /\ run[q] \in Run
          /\ run' = [run EXCEPT ![q].new = saved]
      BY <1>0, <1>4, <2>2 DEF Guard, Goto, GoOn, Call, At, Prepared, Keeping, Writing, TypeOK
    <3>2. run'[q].new[c] = saved[c] /\ saved[c] # None
      BY <1>0, <3>1 DEF KaeruInv, TypeOK, Run, Held
    <3> QED
      BY <3>2, TableFacts DEF OnlyOriginal
  <2>3. CASE Prepared(q) /\ run'[q] = run[q]
    BY <2>3 DEF OnlyOriginal
  <2> QED
    BY <1>0, <1>4, <2>1, <2>2, <2>3, Comes
<1> QED
  BY <1>2, <1>3, <1>4 DEF OnlyOriginal, Keeping, Prepared, Writing, At

\* A keeping that has been broken off stays so.
LEMMA CutStays ==
  ASSUME [Next]_vars
  PROVE  cut \subseteq cut'
<1>1. ASSUME NEW p \in Procs,
             \/ \E kind \in Kinds, dry \in BOOLEAN : Begin(p, kind, dry)
             \/ Gate(p) \/ Guard(p) \/ Write(p) \/ GptStep(p)
      PROVE  UNCHANGED cut
  BY <1>1 DEF Begin, Gate, Guard, Write, GptStep, Converted, Goto, End
<1>2. ASSUME NEW p \in Procs, KeepPrimary(p) \/ KeepBackup(p) \/ Manifest(p)
      PROVE  cut \subseteq cut'
  BY <1>2 DEF KeepPrimary, KeepBackup, Keep, Manifest, Goto, End
<1>3. ASSUME NEW p \in Procs,
             \/ WriteCopy(p, "backup", "primary") \/ WriteCopy(p, "primary", "lock")
      PROVE  cut \subseteq cut'
  BY <1>3 DEF WriteCopy, Goto
<1>4. ASSUME NEW p \in Procs, Lock(p) \/ Mark(p) \/ SafeReboot(p) \/ Abort(p)
      PROVE  cut \subseteq cut'
  BY <1>4 DEF Lock, Mark, SafeReboot, RebootNow, Abort, Goto, End
<1>5. ASSUME PowerCut \/ AdbReboot \/ BecomeCalm \/ UNCHANGED vars
      PROVE  UNCHANGED cut
  BY <1>5 DEF PowerCut, AdbReboot, BecomeCalm, vars
<1> QED
  BY <1>1, <1>2, <1>3, <1>4, <1>5, Steps

\* The kept files through a step of the only run.
LEMMA KeptWholeStep ==
  ASSUME OneRun, KaeruInv, OnlyOriginal, KeptWhole, [Next]_vars
  PROVE  KeptWhole'
<1> SUFFICES ASSUME "keep" \notin cut'
             PROVE  KeptWhole'
  BY DEF KeptWhole
<1> USE DEF At
<1>0. /\ TypeOK /\ Copies = {"backup", "primary"} /\ "keep" \notin cut
      /\ Whole(Legacy) # None
  <2>1. Whole(Legacy) \in Files
    BY TableFacts DEF Whole, Files
  <2> QED
    BY <2>1, CutStays, NoneOK DEF KaeruInv, Copies
<1>1. ASSUME NEW p \in Procs, KeepPrimary(p)
      PROVE  KeptWhole'
  <2>1. (\A q \in Procs : q = p) /\ pc[p] = "keep_primary"
    BY <1>1 DEF OneRun, KeepPrimary
  <2>2. CASE saved["primary"] = None
    <3>1. saved' = [saved EXCEPT !["primary"] = Whole(Legacy)] /\ pc'[p] = "keep_backup"
      BY <1>0, <1>1, <2>1, <2>2 DEF KeepPrimary, Keep, Goto, GoOn, OnlyOriginal, Keeping, TypeOK
    <3> QED
      BY <1>0, <2>1, <3>1 DEF KeptWhole, TypeOK, RestoreIsOpen, Converting
  <2>3. CASE saved["primary"] # None
    <3>1. saved' = saved /\ pc'[p] = "manifest" /\ saved["backup"] # None
      BY <1>0, <1>1, <2>1, <2>3 DEF KeepPrimary, Goto, GoOn, TypeOK, hostVars, KeptWhole
    <3> QED
      BY <1>0, <2>1, <2>3, <3>1 DEF KeptWhole, RestoreIsOpen, Converting
  <2> QED
    BY <2>2, <2>3
<1>2. ASSUME NEW p \in Procs, KeepBackup(p)
      PROVE  KeptWhole'
  <2>1. (\A q \in Procs : q = p) /\ pc[p] = "keep_backup"
    BY <1>2 DEF OneRun, KeepBackup
  <2>2. saved' = [saved EXCEPT !["backup"] = Whole(Legacy)] /\ pc'[p] = "manifest"
    BY <1>0, <1>2, <2>1 DEF KeepBackup, Keep, Goto, GoOn, OnlyOriginal, Keeping, TypeOK
  <2> QED
    BY <1>0, <2>1, <2>2 DEF KeptWhole, TypeOK, RestoreIsOpen, Converting
<1>3. ASSUME NEW p \in Procs, Manifest(p)
      PROVE  KeptWhole'
  <2>1. (\A q \in Procs : q = p) /\ pc[p] = "manifest" /\ saved' = saved
    BY <1>3 DEF OneRun, Manifest
  <2>2. pc'[p] = "idle" \/ (pc'[p] = "backup" /\ manifest' = saved)
    BY <1>0, <1>3, <2>1 DEF Manifest, End, Stop, Goto, GoOn, TypeOK
  <2> QED
    BY <1>0, <2>1, <2>2 DEF KeptWhole, RestoreIsOpen, Converting, SavedPass
<1>4. ASSUME NEW p \in Procs, Abort(p)
      PROVE  KeptWhole'
  <2>1. (\A q \in Procs : q = p) /\ pc[p] # "keep_backup" /\ pc'[p] = "idle" /\ saved' = saved
    BY <1>0, <1>4 DEF OneRun, Abort, Stop, TypeOK, hostVars
  <2> QED
    BY <1>0, <2>1 DEF KeptWhole, RestoreIsOpen, Converting
<1>5. CASE /\ UNCHANGED <<saved, manifest>>
           /\ \A q \in Procs :
                /\ At(q, "keep_backup")' <=> At(q, "keep_backup")
                /\ At(q, "manifest")' => At(q, "manifest")
                /\ Converting(q)' => Converting(q)
  BY <1>0, <1>5 DEF KeptWhole, RestoreIsOpen, SavedPass
<1>6. ASSUME NEW p \in Procs,
             \/ \E kind \in Kinds, dry \in BOOLEAN : Begin(p, kind, dry)
             \/ Gate(p) \/ Guard(p) \/ Write(p) \/ GptStep(p)
      PROVE  KeptWhole'
  <2>1. (\A q \in Procs : q = p) /\ UNCHANGED <<saved, manifest>>
    BY <1>6 DEF OneRun, Begin, Gate, Guard, Write, GptStep, hostVars
  <2>2. pc[p] \in {"idle", "gate", "guard", "write", "table"}
    BY <1>6 DEF Begin, Gate, Guard, Write, GptStep, Call
  <2>3. \/ pc'[p] \in {"idle", "gate", "guard", "write", "table", "keep_primary", "lock"}
        \/ pc'[p] = "backup" /\ run'[p].kind = "gpt-restore"
    <3>1. Guard(p) => run[p] \in Run
      BY <1>0 DEF Guard, Call, TypeOK
    <3> QED
      BY <1>0, <1>6, <3>1 DEF Begin, Gate, AfterGate, Guard, Write, GptStep, Converted, Call, Goto, GoOn,
         End, Stop, TypeOK, Run
  <2> QED
    BY <1>5, <2>1, <2>2, <2>3 DEF Converting
<1>7. ASSUME NEW p \in Procs,
             \/ WriteCopy(p, "backup", "primary") \/ WriteCopy(p, "primary", "lock")
             \/ Lock(p) \/ Mark(p) \/ SafeReboot(p)
      PROVE  KeptWhole'
  <2>1. (\A q \in Procs : q = p) /\ UNCHANGED <<saved, manifest>>
    BY <1>7 DEF OneRun, WriteCopy, Lock, Mark, SafeReboot, RebootNow, hostVars
  <2>2. pc[p] \in {"backup", "primary", "lock", "mark", "reboot", "bare"}
    BY <1>7 DEF WriteCopy, Lock, Mark, SafeReboot, Call
  <2>3. \/ pc'[p] \in {"idle", "lock", "mark", "reboot", "bare"}
        \/ pc[p] = "backup" /\ pc'[p] = "primary" /\ run' = run
    BY <1>0, <1>7 DEF WriteCopy, Lock, Mark, SafeReboot, RebootNow, Call, Goto, GoOn, End, Stop, TypeOK
  <2> QED
    BY <1>5, <2>1, <2>2, <2>3 DEF Converting
<1>8. ASSUME PowerCut \/ AdbReboot \/ BecomeCalm \/ UNCHANGED vars
      PROVE  KeptWhole'
  BY <1>5, <1>8 DEF PowerCut, AdbReboot, BecomeCalm, vars, hostVars, Converting
<1> QED
  BY <1>1, <1>2, <1>3, <1>4, <1>6, <1>7, <1>8, Steps

\* The copies through a step of the only run.
LEMMA CopyLeftStep ==
  ASSUME OneRun, KaeruInv, OnlyOriginal, CopyLeft, [Next]_vars
  PROVE  CopyLeft'
<1> USE DEF Keeping, At
<1>0. TypeOK /\ Copies = {"backup", "primary"}
  BY DEF KaeruInv, Copies
<1>1. ASSUME NEW p \in Procs, GptStep(p)
      PROVE  CopyLeft'
  <2>1. \A q \in Procs : q = p
    BY DEF OneRun
  <2>2. table' = table /\ cut' = cut /\ pc'[p] \in {"keep_primary", "lock", "idle"}
    BY <1>0, <1>1 DEF GptStep, Converted, Goto, GoOn, End, Stop, unitVars, TypeOK
  <2>3. pc'[p] = "keep_primary" => table["primary"] # Torn
    BY <1>0, <1>1 DEF GptStep, Goto, GoOn, End, Stop, TypeOK, NeedsFix
  <2> QED
    BY <2>1, <2>2, <2>3 DEF CopyLeft, ATableIsWhole
<1>2. ASSUME NEW p \in Procs, KeepPrimary(p) \/ KeepBackup(p) \/ Manifest(p)
      PROVE  CopyLeft'
  <2>1. \A q \in Procs : q = p
    BY DEF OneRun
  <2>2. table' = table /\ cut \subseteq cut'
    BY <1>2, CutStays DEF KeepPrimary, KeepBackup, Keep, Manifest, unitVars
  <2>3. table["primary"] # Torn /\ pc'[p] # "primary"
    BY <1>0, <1>2 DEF KeepPrimary, KeepBackup, Keep, Manifest, Goto, GoOn, End, Stop, TypeOK, CopyLeft
  <2> QED
    BY <2>1, <2>2, <2>3 DEF CopyLeft, ATableIsWhole
<1>3. ASSUME NEW p \in Procs, WriteCopy(p, "backup", "primary")
      PROVE  CopyLeft'
  <2>1. (\A q \in Procs : q = p) /\ pc[p] = "backup"
    BY <1>3 DEF OneRun, WriteCopy, Call
  <2> DEFINE new == run[p].new["backup"].table
  <2>2. new # Torn
    BY <1>0, <2>1 DEF OnlyOriginal, Prepared, Writing
  <2>3. CASE table' = [table EXCEPT !["backup"] = new] /\ Goto(p, "primary")
    <3>1. pc'[p] = "primary" /\ run' = run /\ table'["backup"] = new
      BY <1>0, <2>3 DEF Goto, GoOn, TypeOK
    <3> QED
      BY <1>0, <2>1, <2>2, <3>1 DEF CopyLeft, ATableIsWhole
  <2>4. CASE /\ Stop(p)
             /\ cut' = IF run[p].kind = "gpt-restore" THEN cut \cup {"restore"} ELSE cut
             /\ \E t \in Cut(table["backup"], new) : table' = [table EXCEPT !["backup"] = t]
    <3>1. pc'[p] = "idle" /\ table'["primary"] = table["primary"]
      BY <1>0, <2>4 DEF Stop, TypeOK
    <3>2. "restore" \in cut' \/ table["primary"] # Torn
      BY <2>1, <2>4 DEF CopyLeft
    <3> QED
      BY <1>0, <2>1, <3>1, <3>2 DEF CopyLeft, ATableIsWhole
  <2> QED
    BY <1>3, <2>3, <2>4 DEF WriteCopy
<1>4. ASSUME NEW p \in Procs, WriteCopy(p, "primary", "lock")
      PROVE  CopyLeft'
  <2>1. (\A q \in Procs : q = p) /\ pc[p] = "primary"
    BY <1>4 DEF OneRun, WriteCopy, Call
  <2>2. table["backup"] # Torn
    BY <1>0, <2>1 DEF OnlyOriginal, Prepared, Writing, CopyLeft
  <2>3. table'["backup"] = table["backup"] /\ pc'[p] \in {"lock", "idle"}
    BY <1>0, <1>4 DEF WriteCopy, Goto, GoOn, Stop, TypeOK
  <2> QED
    BY <1>0, <2>1, <2>2, <2>3 DEF CopyLeft, ATableIsWhole
<1>5. ASSUME NEW p \in Procs, Guard(p)
      PROVE  CopyLeft'
  <2>1. (\A q \in Procs : q = p) /\ run[p] \in Run
    BY <1>0, <1>5 DEF OneRun, Guard, Call, TypeOK
  <2>2. /\ table' = table /\ cut' = cut
        /\ \/ pc'[p] \in {"table", "write"}
           \/ pc'[p] = "backup" /\ run'[p].kind = "gpt-restore"
    BY <1>0, <1>5, <2>1 DEF Guard, Goto, GoOn, TypeOK, Run
  <2> QED
    BY <2>1, <2>2 DEF CopyLeft, ATableIsWhole
<1>6. CASE /\ UNCHANGED table /\ cut \subseteq cut'
           /\ \A q \in Procs : \/ pc'[q] = pc[q] /\ run'[q] = run[q]
                              \/ pc'[q] \notin {"keep_primary", "keep_backup", "manifest", "backup", "primary"}
  BY <1>6 DEF CopyLeft, ATableIsWhole
<1>7. ASSUME NEW p \in Procs, NEW label,
             label \notin {"keep_primary", "keep_backup", "manifest", "backup", "primary"},
             Goto(p, label) \/ End(p)
      PROVE  \A q \in Procs : \/ pc'[q] = pc[q] /\ run'[q] = run[q]
                             \/ pc'[q] \notin {"keep_primary", "keep_backup", "manifest", "backup", "primary"}
  BY <1>0, <1>7 DEF Goto, GoOn, End, Stop, TypeOK
<1>8. ASSUME NEW p \in Procs,
             \/ \E kind \in Kinds, dry \in BOOLEAN : Begin(p, kind, dry)
             \/ Gate(p) \/ Write(p)
      PROVE  CopyLeft'
  <2>1. UNCHANGED table
    BY <1>8 DEF Begin, Gate, Write, unitVars
  <2>2. \A q \in Procs : \/ pc'[q] = pc[q] /\ run'[q] = run[q]
                         \/ pc'[q] \notin {"keep_primary", "keep_backup", "manifest", "backup", "primary"}
    <3>1. CASE \E kind \in Kinds, dry \in BOOLEAN : Begin(p, kind, dry)
      BY <1>0, <3>1 DEF Begin, TypeOK
    <3>2. CASE Gate(p)
      <4>1. AfterGate(run[p]) \notin {"keep_primary", "keep_backup", "manifest", "backup", "primary"}
        BY DEF AfterGate
      <4> QED
        BY <1>7, <3>2, <4>1 DEF Gate
    <3>3. CASE Write(p)
      BY <1>0, <3>3 DEF Write, Goto, GoOn, End, Stop, TypeOK, Call, At
    <3> QED
      BY <1>8, <3>1, <3>2, <3>3
  <2> QED
    BY <1>6, <2>1, <2>2, CutStays
<1>9. ASSUME NEW p \in Procs, Lock(p) \/ Mark(p) \/ SafeReboot(p) \/ Abort(p)
      PROVE  CopyLeft'
  <2>1. UNCHANGED table
    BY <1>9 DEF Lock, Mark, SafeReboot, RebootNow, Abort, unitVars
  <2>2. \A q \in Procs : \/ pc'[q] = pc[q] /\ run'[q] = run[q]
                         \/ pc'[q] \notin {"keep_primary", "keep_backup", "manifest", "backup", "primary"}
    <3>1. CASE Lock(p) \/ Mark(p)
      <4>1. Goto(p, "mark") \/ Goto(p, "bare") \/ Goto(p, "reboot") \/ End(p)
        BY <3>1 DEF Lock, Mark
      <4> QED
        BY <1>7, <4>1
    <3>2. CASE SafeReboot(p)
      <4>1. End(p)
        BY <3>2 DEF SafeReboot, RebootNow
      <4> QED
        BY <1>0, <4>1 DEF End, Stop, TypeOK
    <3>3. CASE Abort(p)
      BY <1>0, <3>3 DEF Abort, Stop, TypeOK
    <3> QED
      BY <1>9, <3>1, <3>2, <3>3
  <2> QED
    BY <1>6, <2>1, <2>2, CutStays
<1>10. ASSUME PowerCut \/ AdbReboot \/ BecomeCalm \/ UNCHANGED vars
      PROVE  CopyLeft'
  BY <1>6, <1>10 DEF PowerCut, AdbReboot, BecomeCalm, vars, unitVars
<1> QED
  BY <1>1, <1>2, <1>3, <1>4, <1>5, <1>8, <1>9, <1>10, Steps

\* The chain through a step of the only run.
LEMMA WrittenStep ==
  ASSUME OneRun, KaeruInv, WrittenSoFar, [Next]_vars
  PROVE  WrittenSoFar'
<1>0. TypeOK
  BY DEF KaeruInv
<1>1. ASSUME NEW p \in Procs, \E kind \in Kinds, dry \in BOOLEAN : Begin(p, kind, dry)
      PROVE  WrittenSoFar'
  <2>1. (\A q \in Procs : q = p) /\ pc'[p] = "gate" /\ run'[p].n = 1
    BY <1>0, <1>1 DEF OneRun, Begin, TypeOK
  <2> QED
    BY <2>1 DEF WrittenSoFar, At
<1>2. ASSUME NEW p \in Procs, Gate(p)
      PROVE  WrittenSoFar'
  <2>1. (\A q \in Procs : q = p) /\ pc'[p] # "write" /\ (run'[p].n = 1 \/ pc'[p] = "idle")
    BY <1>0, <1>2 DEF OneRun, Gate, AfterGate, Goto, GoOn, End, Stop, TypeOK, WrittenSoFar, Call
  <2> QED
    BY <2>1 DEF WrittenSoFar, At
<1>3. ASSUME NEW p \in Procs, Guard(p)
      PROVE  WrittenSoFar'
  <2>1. (\A q \in Procs : q = p) /\ run[p] \in Run /\ run[p].n = 1
    BY <1>0, <1>3 DEF OneRun, Guard, TypeOK, WrittenSoFar, Call, At
  <2>2. run'[p].n = 1 /\ pc'[p] \in {"table", "backup", "write"}
    BY <1>0, <1>3, <2>1 DEF Guard, Goto, GoOn, TypeOK, Run
  <2> QED
    BY <2>1, <2>2 DEF WrittenSoFar, At
<1>4. ASSUME NEW p \in Procs, Write(p)
      PROVE  WrittenSoFar'
  <2>1. /\ \A q \in Procs : q = p
        /\ run[p] \in Run /\ run[p].n \in 1 .. 6 /\ pc[p] = "write" /\ guard' = guard
    BY <1>0, <1>4, OrderFacts DEF OneRun, Write, TypeOK, Call, At, Run
  <2>2. CASE pc'[p] # "write"
    <3>1. pc'[p] \in {"idle", "lock", "table"}
      BY <1>0, <1>4, <2>1, <2>2 DEF Write, Goto, GoOn, End, Stop, TypeOK
    <3> QED
      BY <2>1, <3>1 DEF WrittenSoFar, At
  <2>3. CASE pc'[p] = "write"
    <3>1. /\ flash' = [flash EXCEPT ![Order[run[p].n]] = "new"]
          /\ run' = [run EXCEPT ![p].n = @ + 1]
      BY <1>0, <1>4, <2>1, <2>3 DEF Write, Goto, GoOn, End, Stop, TypeOK
    <3>2. run'[p].n = run[p].n + 1
      BY <1>0, <2>1, <3>1 DEF TypeOK, Run
    <3>3. ASSUME guard, NEW m \in 1 .. 5, m < run'[p].n
          PROVE  flash'[Order[m]] = "new"
      <4>1. Order[m] \in Chain /\ (m = run[p].n \/ m < run[p].n)
        BY <2>1, <3>2, <3>3, OrderFacts
      <4>2. m < run[p].n => flash[Order[m]] = "new"
        BY <2>1, <3>3 DEF WrittenSoFar, At
      <4> QED
        BY <1>0, <3>1, <4>1, <4>2 DEF TypeOK
    <3> QED
      BY <2>1, <2>3, <3>3 DEF WrittenSoFar, At
  <2> QED
    BY <2>2, <2>3
<1>5. CASE /\ flash' = flash /\ (guard' => guard)
           /\ \A q \in Procs : \/ pc'[q] = pc[q] /\ run'[q] = run[q]
                              \/ pc'[q] \notin {"gate", "guard", "write"}
  BY <1>5 DEF WrittenSoFar, At
<1>6. ASSUME NEW p \in Procs,
             \/ GptStep(p) \/ KeepPrimary(p) \/ KeepBackup(p) \/ Manifest(p)
             \/ WriteCopy(p, "backup", "primary") \/ WriteCopy(p, "primary", "lock")
      PROVE  WrittenSoFar'
  <2>1. flash' = flash /\ guard' = guard
    BY <1>6 DEF GptStep, KeepPrimary, KeepBackup, Keep, Manifest, WriteCopy, unitVars
  <2>2. \A q \in Procs : \/ pc'[q] = pc[q] /\ run'[q] = run[q]
                         \/ pc'[q] \notin {"gate", "guard", "write"}
    BY <1>0, <1>6 DEF GptStep, Converted, KeepPrimary, KeepBackup, Keep, Manifest, WriteCopy, Goto, GoOn, End, Stop, TypeOK, Call, At
  <2> QED
    BY <1>5, <2>1, <2>2
<1>7. ASSUME NEW p \in Procs, Lock(p) \/ Mark(p) \/ SafeReboot(p) \/ Abort(p)
      PROVE  WrittenSoFar'
  <2>1. flash' = flash /\ (guard' => guard)
    <3>1. flash' = flash /\ (guard' = guard \/ guard' = FALSE)
      BY <1>7 DEF Lock, Mark, SafeReboot, RebootNow, Boot, Abort, unitVars
    <3> QED
      BY <3>1
  <2>2. \A q \in Procs : \/ pc'[q] = pc[q] /\ run'[q] = run[q]
                         \/ pc'[q] \notin {"gate", "guard", "write"}
    BY <1>0, <1>7 DEF Lock, Mark, SafeReboot, RebootNow, Abort, Goto, GoOn, End, Stop, TypeOK, Call, At
  <2> QED
    BY <1>5, <2>1, <2>2
<1>8. ASSUME PowerCut \/ AdbReboot
      PROVE  WrittenSoFar'
  BY <1>8 DEF PowerCut, AdbReboot, Boot, WrittenSoFar, At
<1>9. ASSUME BecomeCalm \/ UNCHANGED vars
      PROVE  WrittenSoFar'
  BY <1>5, <1>9 DEF BecomeCalm, vars, unitVars
<1> QED
  BY <1>1, <1>2, <1>3, <1>4, <1>6, <1>7, <1>8, <1>9, Steps

\* A step that writes the preloader finds the rest of the chain new.
LEMMA PreloaderStep ==
  ASSUME TypeOK, WrittenSoFar, [Next]_vars, flash'["preloader"] # flash["preloader"], guard
  PROVE  \A x \in Chain \ {"preloader"} : flash[x] = "new"
<1>1. PICK p \in Procs : Write(p)
  <2>1. flash' # flash
    OBVIOUS
  <2>2. ~PowerCut /\ ~AdbReboot /\ ~BecomeCalm /\ ~UNCHANGED vars
    BY <2>1 DEF PowerCut, AdbReboot, BecomeCalm, vars, unitVars
  <2> QED
    BY <2>1, <2>2, Steps DEF Begin, Gate, Guard, GptStep, KeepPrimary, KeepBackup, Keep, Manifest,
       WriteCopy, Lock, Mark, SafeReboot,
       RebootNow, Abort, unitVars
<1>2. run[p].n \in 1 .. 6 /\ At(p, "write")
  BY <1>1, OrderFacts DEF Write, Call, At, TypeOK, Run
<1>3. Order[run[p].n] = "preloader"
  <2>1. \E v : flash' = [flash EXCEPT ![Order[run[p].n]] = v]
    BY <1>1 DEF Write
  <2> QED
    BY <2>1, OrderFacts DEF TypeOK
<1>4. run[p].n = 6
  BY <1>2, <1>3, OrderFacts
<1>5. \A m \in 1 .. 5 : flash[Order[m]] = "new"
  BY <1>2, <1>4 DEF WrittenSoFar
<1>6. ASSUME NEW x \in Chain \ {"preloader"}
      PROVE  flash[x] = "new"
  <2>1. PICK n \in 1 .. 6 : x = Order[n]
    BY OrderFacts
  <2>2. n \in 1 .. 5
    BY <2>1, OrderFacts
  <2> QED
    BY <1>5, <2>1, <2>2
<1> QED
  BY <1>6

\* With one run at a time, nothing but the `_x` table is ever kept for --gpt-restore,
\* whatever table a run or a rerun finds and wherever it is cut; and as long as the two cp's
\* and the manifest get through, the original is there whole before a table is converted.
THEOREM RestoresOriginal == ASSUME OneRun PROVE Spec => []SavedIsLegacy
<1>1. Init => KaeruInv /\ OnlyOriginal /\ KeptWhole
  <2>1. Init => OnlyOriginal /\ KeptWhole
    BY DEF Init, OnlyOriginal, KeptWhole, RestoreIsOpen, Converting, Prepared, Keeping, Writing, At,
       Copies, NoFile
  <2> QED
    BY <2>1, KaeruInvInit, OriginsOK
<1>2. KaeruInv /\ OnlyOriginal /\ KeptWhole /\ [Next]_vars => KaeruInv' /\ OnlyOriginal' /\ KeptWhole'
  BY OneRun, KaeruInvStep, OnlyOriginalStep, KeptWholeStep
<1>3. OnlyOriginal /\ KeptWhole => SavedIsLegacy
  BY DEF OnlyOriginal, KeptWhole, SavedIsLegacy, RestoreIsWhole, SavedPass, Whole
<1> QED
  BY <1>1, <1>2, <1>3, PTL DEF Spec

\* With one run at a time, no interruption of a conversion leaves the unit without a whole
\* copy of its partition table.
THEOREM TableStays == ASSUME OneRun PROVE Spec => []ATableIsWhole
<1>1. Init => KaeruInv /\ OnlyOriginal /\ CopyLeft
  <2>1. ASSUME Init
        PROVE  CopyLeft /\ OnlyOriginal
    <3>1. "primary" \in Copies /\ table["primary"] # Torn
      BY <2>1, OriginsOK, TableFacts DEF Init, Both, Copies
    <3> QED
      BY <2>1, <3>1 DEF CopyLeft, ATableIsWhole, OnlyOriginal, Prepared, Keeping, Writing, Init, At, NoFile
  <2> QED
    BY <2>1, KaeruInvInit, OriginsOK
<1>2. KaeruInv /\ OnlyOriginal /\ CopyLeft /\ [Next]_vars => KaeruInv' /\ OnlyOriginal' /\ CopyLeft'
  BY OneRun, KaeruInvStep, OnlyOriginalStep, CopyLeftStep
<1>3. KaeruInv /\ CopyLeft => ATableIsWhole
  BY DEF CopyLeft
<1> QED
  BY <1>1, <1>2, <1>3, PTL DEF Spec

\* With one run at a time, the new preloader is only written over the rest of the new
\* chain, unless the unit was rebooted under the run.
THEOREM PreloaderIsLast == ASSUME OneRun PROVE Spec => PreloaderLast
<1>1. Init => KaeruInv /\ WrittenSoFar
  BY KaeruInvInit, OriginsOK DEF Init, WrittenSoFar, At
<1>2. KaeruInv /\ WrittenSoFar /\ [Next]_vars => KaeruInv' /\ WrittenSoFar'
  BY OneRun, KaeruInvStep, WrittenStep
<1>3. KaeruInv /\ WrittenSoFar /\ [Next]_vars =>
        [flash'["preloader"] # flash["preloader"] /\ guard =>
           \A x \in Chain \ {"preloader"} : flash[x] = "new"]_vars
  BY PreloaderStep DEF KaeruInv
<1> QED
  BY <1>1, <1>2, <1>3, PTL DEF Spec, PreloaderLast
=============================================================================
