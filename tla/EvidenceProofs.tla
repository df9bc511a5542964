--------------------------- MODULE EvidenceProofs ---------------------------
(***************************************************************************)
(* A state file never runs ahead of the unit it is bound to, for any number *)
(* of units, install ids, releases and invocations that share one cache     *)
(* root.  The invariant says of each file what it is evidence of, and of    *)
(* each live run, place by place, what it knows of the file it writes and   *)
(* of the unit it works on.                                                 *)
(***************************************************************************)
EXTENDS InstallerProofs

-----------------------------------------------------------------------------
(* What a state file is evidence of, and what a run knows of the file it    *)
(* writes and of the unit it works on.                                      *)

\* The states earlier installers left record no format, and what they say they flashed is
\* on every unit they may be bound to.
EarlyFits ==
  \A o \in Origins, i \in Ids :
    o[1][i] # None =>
      /\ ~o[1][i].fmt
      /\ o[1][i].phase \in Flashed =>
           \A d \in Devices : o[1][i].dev \in {d, None} => o[2][d].boot = o[1][i].rel

Own(i, d) == writers[d] \subseteq {i}
Evidence(i, st) == st # None =>
  /\ st.phase \in {"RELEASE_READY"} \cup Unreconciled => ~st.fmt
  /\ st.phase \in Flashed =>
       \A d \in Devices : st.dev \in {d, None} /\ Own(i, d) => dev[d].boot = st.rel
  /\ st.fmt =>
       /\ st.dev # None
       /\ Own(i, st.dev) =>
            /\ dev[st.dev].udata = "formatted"
            /\ st.phase \in Staged => \/ dev[st.dev].feat = st.rel
                                      \/ st.rel \in V3Releases /\ dev[st.dev].gen = st.rel
Files == \A i \in Ids : Evidence(i, saved[i])

\* The places where the file names the run's release and unit; where no format is on
\* record, and where one is; and what phases they go with.
Binding ==
  {"format", "format_done", "geometry", "flash", "flashed", "reboot", "await_adb", "readback", "stage",
   "staged", "finish", "deliver", "final", "await_ready", "complete", "co_verify", "co_readback",
   "co_features", "re_reboot", "re_wait", "re_format", "re_done", "re_boot", "re_await"}
Before ==
  {"select", "claim_check", "claim_write", "submit", "send", "reconcile", "reconciling", "handoff",
   "co_handoff", "format", "re_select", "re_reboot", "re_wait", "re_format", "re_done"}
After ==
  {"geometry", "flash", "flashed", "reboot", "await_adb", "readback", "stage", "staged", "finish", "deliver",
   "final", "await_ready", "complete", "co_resume", "co_resuming", "co_attach", "co_booting",
   "co_readback", "co_features", "re_boot", "re_await"}
Unflashed == {"co_bind", "co_verify", "format", "format_done", "geometry", "flash"}
Repairing == {"re_select", "re_reboot", "re_wait", "re_format", "re_done"}
Finishing == {"co_features", "finish", "deliver", "final", "await_ready", "complete"}
Fresh == {"os_check", "enter", "entering", "ready", "select", "claim_check", "claim_write", "submit", "send"}
Booted == {"flashed", "reboot", "await_adb", "stage", "staged", "co_features"}
\* Of a run r at l whose id's file is st; a continuation writes what it read, and binds it.
Reread(l, r) == l \in Resuming \/ (l \in {"reconcile", "reconciling"} /\ r.st # None)
Fact(l, r, st) ==
  /\ l \in Before /\ st # None => ~st.fmt
  /\ l \in Binding => r.dev \in Devices /\ st # None /\ st.rel = r.rel /\ st.dev = r.dev
  /\ l \in After => st # None /\ st.fmt
  /\ l \in Unflashed => st # None /\ st.phase \notin Flashed
  /\ l \in Repairing => st # None /\ st.phase \in Flashed
  /\ l \in Finishing => st # None /\ st.phase \in Staged
  /\ l \in Fresh => r.st = None
  /\ l = "stage" => st.phase \notin Staged
  /\ l \in {"format_done", "re_done"} => (Own(r.id, r.dev) => dev[r.dev].udata = "formatted")
  /\ l \in Booted => dev[r.dev].boot = r.rel
  /\ l = "staged" => dev[r.dev].feat = r.rel
  /\ Reread(l, r) =>
       /\ r.dev \in Devices /\ r.st # None /\ r.st.rel = r.rel /\ r.st.dev \in {None, r.dev}
       /\ st = r.st \/ st = [r.st EXCEPT !.dev = r.dev]
EvidenceInv ==
  /\ Locked /\ Files
  /\ \A p \in Procs : pc[p] # "idle" => Fact(pc[p], run[p], saved[run[p].id])

\* What a unit holds, as far as state files speak of it.
SameContents ==
  /\ UNCHANGED writers
  /\ \A d \in Devices : /\ dev'[d].udata = dev[d].udata /\ dev'[d].boot = dev[d].boot
                        /\ dev'[d].feat = dev[d].feat /\ dev'[d].gen = dev[d].gen

LEMMA EvidenceFrame ==
  ASSUME SameContents, NEW i, NEW st \in State \cup {None}, Evidence(i, st)
  PROVE  Evidence(i, st)'
BY DEF SameContents, Evidence, Own, State

LEMMA FactFrame ==
  ASSUME SameContents, NEW l, NEW r, NEW st, Fact(l, r, st)
  PROVE  Fact(l, r, st)'
<1>1. l \in Booted \cup {"staged", "format_done", "re_done"} => r.dev \in Devices
  BY DEF Fact, Binding, Booted
<1> QED
  BY <1>1 DEF SameContents, Fact, Own, Reread

LEMMA MoveContents ==
  ASSUME UnitsOK, NEW d, NEW m, Move(d, m)
  PROVE  SameContents
<1>1. d \in Devices => /\ Moved(d, m).udata = dev[d].udata /\ Moved(d, m).boot = dev[d].boot
                       /\ Moved(d, m).feat = dev[d].feat /\ Moved(d, m).gen = dev[d].gen
  BY DEF Moved, UnitsOK, Device
<1> QED
  BY <1>1 DEF Move, SameContents, UnitsOK

LEMMA UnitsContents ==
  ASSUME UNCHANGED units
  PROVE  SameContents
BY DEF units, SameContents

-----------------------------------------------------------------------------
(* The kinds of steps of the one live run *)

LEMMA GoStep ==
  ASSUME OneCacheRoot, TypeOK, EvidenceInv, NEW p \in Procs, NEW l, NEW r \in Run, pc[p] # "idle",
         UNCHANGED lock, Goto(p, l), run' = [run EXCEPT ![p] = r], Files',
         Fact(l, r, saved[r.id])'
  PROVE  EvidenceInv'
<1>1. Locked' /\ \A q \in Procs : q # p => pc'[q] = "idle"
  BY Alone DEF EvidenceInv, TypeOK
<1>2. pc'[p] = l /\ run'[p] = r
  BY DEF Goto, TypeOK, ProcsOK
<1>3. Fact(pc[p], run[p], saved[run[p].id])'
  BY <1>2
<1> QED
  BY <1>1, <1>3 DEF EvidenceInv

LEMMA EndStep ==
  ASSUME OneCacheRoot, TypeOK, EvidenceInv, NEW p \in Procs, pc[p] # "idle", Leave(p), Files'
  PROVE  EvidenceInv'
<1>1. Locked' /\ \A q \in Procs : q # p => pc'[q] = "idle"
  BY Alone DEF EvidenceInv, TypeOK
<1>2. pc'[p] = "idle"
  BY DEF Leave, TypeOK, ProcsOK
<1> QED
  BY <1>1, <1>2 DEF EvidenceInv

\* It writes nothing.
LEMMA FilesFrame ==
  ASSUME HostOK, Files, SameContents, UNCHANGED saved
  PROVE  Files'
<1> SUFFICES ASSUME NEW i \in Ids
             PROVE  Evidence(i, saved[i])'
  BY DEF Files
<1>1. saved[i] \in State \cup {None} /\ Evidence(i, saved[i]) /\ saved'[i] = saved[i]
  BY DEF Files, HostOK
<1>2. PICK st \in State \cup {None} : st = saved[i]
  BY <1>1
<1>3. Evidence(i, st)'
  BY <1>1, <1>2, EvidenceFrame
<1> QED
  BY <1>1, <1>2, <1>3

LEMMA PassStep ==
  ASSUME OneCacheRoot, TypeOK, EvidenceInv, NEW p \in Procs, NEW l, NEW r \in Run, pc[p] # "idle",
         UNCHANGED <<lock, saved>>, SameContents, Goto(p, l), run' = [run EXCEPT ![p] = r],
         Fact(l, r, saved[r.id])
  PROVE  EvidenceInv'
<1>1. Files'
  BY FilesFrame DEF EvidenceInv, TypeOK
<1>2. PICK st : st = saved[r.id]
  OBVIOUS
<1>3. Fact(l, r, st)'
  BY <1>2, FactFrame
<1>4. Fact(l, r, saved[r.id])'
  BY <1>2, <1>3
<1> QED
  BY <1>1, <1>4, GoStep

LEMMA StayStep ==
  ASSUME OneCacheRoot, TypeOK, EvidenceInv, NEW p \in Procs, NEW l, pc[p] # "idle",
         UNCHANGED saved, SameContents, Stay(p, l), Fact(l, run[p], saved[run[p].id])
  PROVE  EvidenceInv'
<1>1. run[p] \in Run
  BY DEF TypeOK, ProcsOK, RunOK
<1>2. run' = [run EXCEPT ![p] = run[p]]
  BY DEF Stay, TypeOK, ProcsOK
<1> QED
  BY <1>1, <1>2, PassStep DEF Stay

LEMMA FailedStep ==
  ASSUME OneCacheRoot, TypeOK, EvidenceInv, NEW p \in Procs, pc[p] # "idle", Fail(p)
  PROVE  EvidenceInv'
BY EndStep, FilesFrame, UnitsContents DEF Fail, host, EvidenceInv, TypeOK

\* It writes its id's file.
LEMMA FileWritten ==
  ASSUME HostOK, Files, SameContents, NEW i \in Ids, NEW s \in State \cup {None}, Evidence(i, s),
         saved' = [saved EXCEPT ![i] = s]
  PROVE  Files'
<1> SUFFICES ASSUME NEW j \in Ids
             PROVE  Evidence(j, saved[j])'
  BY DEF Files
<1>1. PICK st \in State \cup {None} : st = saved'[j] /\ Evidence(j, st)
  BY DEF Files, HostOK
<1>2. Evidence(j, st)'
  BY <1>1, EvidenceFrame
<1> QED
  BY <1>1, <1>2

LEMMA SaveStep ==
  ASSUME OneCacheRoot, TypeOK, EvidenceInv, NEW p \in Procs, NEW l, NEW r \in Run, NEW s \in State,
         pc[p] # "idle", UNCHANGED <<lock, units>>, Goto(p, l), run' = [run EXCEPT ![p] = r],
         r.id = run[p].id, Save(p, s), Evidence(r.id, s), Fact(l, r, s)
  PROVE  EvidenceInv'
<1>1. SameContents /\ r.id \in Ids /\ saved' = [saved EXCEPT ![r.id] = s]
  BY UnitsContents DEF Run, Save
<1>2. Files'
  BY <1>1, FileWritten DEF EvidenceInv, TypeOK
<1>3. saved'[r.id] = s
  BY <1>1 DEF TypeOK, HostOK
<1>4. Fact(l, r, s)'
  BY <1>1, FactFrame
<1>5. Fact(l, r, saved[r.id])'
  BY <1>3, <1>4
<1> QED
  BY <1>2, <1>5, GoStep

LEMMA SaveStayStep ==
  ASSUME OneCacheRoot, TypeOK, EvidenceInv, NEW p \in Procs, NEW l, NEW s \in State,
         pc[p] # "idle", UNCHANGED units, Stay(p, l), Save(p, s), Evidence(run[p].id, s),
         Fact(l, run[p], s)
  PROVE  EvidenceInv'
<1>1. run[p] \in Run
  BY DEF TypeOK, ProcsOK, RunOK
<1>2. run' = [run EXCEPT ![p] = run[p]]
  BY DEF Stay, TypeOK, ProcsOK
<1> QED
  BY <1>1, <1>2, SaveStep DEF Stay

\* It writes the unit: no other id's file speaks of the unit any more.
LEMMA UnitWritten ==
  ASSUME TypeOK, Files, NEW p \in Procs, NEW i \in Ids, run[p].id = i, NEW d \in Devices, NEW v,
         UNCHANGED saved, Write(p, d, v), Evidence(i, saved[i])'
  PROVE  Files'
<1> SUFFICES ASSUME NEW j \in Ids
             PROVE  Evidence(j, saved[j])'
  BY DEF Files
<1>1. i \in writers'[d] /\ \A e \in Devices : e # d => dev'[e] = dev[e] /\ writers'[e] = writers[e]
  BY DEF Write, TypeOK, UnitsOK
<1>2. CASE j = i
  BY <1>2
<1>3. CASE j # i
  <2>1. Evidence(j, saved[j]) /\ saved[j] \in State \cup {None} /\ saved'[j] = saved[j]
    BY DEF Files, TypeOK, HostOK
  <2>2. ~Own(j, d)'
    BY <1>1, <1>3 DEF Own
  <2> QED
    BY <1>1, <2>1, <2>2 DEF Evidence, Own, State
<1> QED
  BY <1>2, <1>3

-----------------------------------------------------------------------------
(* one_shot *)

LEMMA Known ==
  ASSUME TypeOK, EvidenceInv, NEW p \in Procs, pc[p] # "idle"
  PROVE  /\ RunOK(p) /\ run[p] \in Run /\ run[p].id \in Ids /\ run[p].rel \in Releases
         /\ saved[run[p].id] \in State \cup {None}
         /\ Fact(pc[p], run[p], saved[run[p].id]) /\ Evidence(run[p].id, saved[run[p].id])
<1>1. RunOK(p) /\ run[p] \in Run
  BY DEF TypeOK, ProcsOK, RunOK
<1>2. run[p].id \in Ids /\ run[p].rel \in Releases
  BY <1>1 DEF Run
<1> QED
  BY <1>1, <1>2 DEF EvidenceInv, Files, TypeOK, HostOK

\* The file of a run that has bound its unit gets another phase.
LEMMA PhaseStep ==
  ASSUME OneCacheRoot, TypeOK, EvidenceInv, NEW p \in Procs, NEW l, NEW ph \in Phases,
         pc[p] \in Binding, pc[p] # "idle", UNCHANGED units, SavePhase(p, ph),
         Evidence(run[p].id, [saved[run[p].id] EXCEPT !.phase = ph]),
         Stay(p, l) => Fact(l, run[p], [saved[run[p].id] EXCEPT !.phase = ph]),
         Stay(p, l) \/ Leave(p)
  PROVE  EvidenceInv'
<1> DEFINE old == saved[run[p].id]
           s == [old EXCEPT !.phase = ph]
<1>1. old \in State /\ old.rel = run[p].rel /\ run[p].id \in Ids
  BY Known DEF Fact
<1>2. s \in State
  BY <1>1 DEF State
<1>3. Carry(p) = old
  BY <1>1, ConstantsOK DEF Carry
<1>4. Save(p, s)
  BY <1>3 DEF SavePhase
<1>5. CASE Leave(p)
  <2>1. Files'
    BY <1>1, <1>2, <1>4, UnitsContents, FileWritten DEF Save, EvidenceInv, TypeOK
  <2> QED
    BY <1>5, <2>1, EndStep
<1>6. CASE Stay(p, l)
  BY <1>2, <1>4, <1>6, SaveStayStep
<1> QED
  BY <1>5, <1>6

LEMMA FormatEvidence ==
  ASSUME OneCacheRoot, TypeOK, EvidenceInv, NEW p \in Procs,
         Format(p, "format", "format_done") \/ Format(p, "re_format", "re_done")
  PROVE  EvidenceInv'
<1> DEFINE i == run[p].id
           d == run[p].dev
           st == saved[i]
<1>1. PICK from, to : /\ Format(p, from, to)
                      /\ <<from, to>> \in {<<"format", "format_done">>, <<"re_format", "re_done">>}
  OBVIOUS
<1>2. pc[p] = from /\ pc[p] # "idle"
  BY <1>1 DEF Format, At
<1>3. CASE Fail(p)
  BY <1>2, <1>3, FailedStep
<1>4. CASE ~Fail(p)
  <2>1. /\ i \in Ids /\ st \in State /\ d \in Devices /\ ~st.fmt /\ st.rel = run[p].rel /\ st.dev = d
        /\ Fact(from, run[p], st) /\ Evidence(i, st) /\ run[p] \in Run
    BY <1>1, <1>2, Known DEF Fact, Before, Binding
  <2>2. PICK v : /\ Write(p, d, v) /\ v.boot = dev[d].boot /\ UNCHANGED host
                 /\ Leave(p) \/ (Stay(p, to) /\ v.udata = "formatted")
    <3> DEFINE w == [dev[d] EXCEPT !.feat = "none", !.gen = None, !.prov = "none"]
    <3>1. dev[d] \in Device
      BY <2>1 DEF TypeOK, UnitsOK
    <3>2. \A u : [w EXCEPT !.udata = u].boot = dev[d].boot /\ [w EXCEPT !.udata = u].udata = u
      BY <3>1 DEF Device
    <3> QED
      BY <1>1, <1>4, <3>2 DEF Format
  <2>3. /\ dev'[d] = v /\ \A e \in Devices : e # d => dev'[e] = dev[e]
        /\ \A e \in Devices : writers[e] \subseteq writers'[e]
        /\ saved' = saved
    BY <2>1, <2>2 DEF Write, TypeOK, UnitsOK, host
  <2>4. PICK j \in Ids : j = i
    BY <2>1
  <2>5. Evidence(j, saved[j])'
    BY <2>1, <2>2, <2>3, <2>4 DEF Evidence, Own
  <2>6. Files'
    BY <2>1, <2>2, <2>3, <2>4, <2>5, UnitWritten DEF EvidenceInv
  <2>7. CASE Leave(p)
    BY <1>2, <2>6, <2>7, EndStep
  <2>8. CASE Stay(p, to) /\ v.udata = "formatted"
    <3>1. PICK r \in Run : r = run[p]
      BY <2>1
    <3>2. Fact(to, r, saved[r.id])'
      BY <1>1, <2>1, <2>3, <2>8, <3>1 DEF Fact, Before, Binding, After, Unflashed, Repairing, Finishing,
         Fresh, Booted, Reread, Resuming
    <3>3. run' = [run EXCEPT ![p] = r]
      BY <2>8, <3>1 DEF Stay, TypeOK, ProcsOK
    <3> QED
      BY <1>2, <2>6, <2>8, <3>2, <3>3, GoStep DEF Stay
  <2> QED
    BY <2>2, <2>7, <2>8
<1> QED
  BY <1>3, <1>4

-----------------------------------------------------------------------------
(* The brick and the steps before the format *)

\* What the sets of places are, for the steps that only move on.
LEMMA ContentsSame ==
  ASSUME TypeOK
  PROVE  /\ UNCHANGED units => SameContents
         /\ \A d, m : Move(d, m) => SameContents
BY UnitsContents, MoveContents DEF TypeOK

LEMMA BrickEvidence ==
  ASSUME OneCacheRoot, TypeOK, EvidenceInv, NEW p \in Procs, BrickStep(p)
  PROVE  EvidenceInv'
<1> USE DEF At
<1>0. pc[p] # "idle"
  BY DEF BrickStep, ClaimCheck, ClaimWrite, SubmitBrick, SendBrick, Reconcile, WriteHandoff
<1>1. /\ run[p] \in Run /\ run[p].id \in Ids /\ run[p].rel \in Releases
      /\ saved[run[p].id] \in State \cup {None}
      /\ Fact(pc[p], run[p], saved[run[p].id])
  BY <1>0, Known
<1>2. CASE ClaimCheck(p)
  <2>1. CASE Fail(p)
    BY <1>0, <2>1, FailedStep
  <2>2. CASE Stay(p, "claim_write") /\ UNCHANGED <<host, units>>
    <3>1. Fact("claim_write", run[p], saved[run[p].id])
      BY <1>1, <1>2 DEF ClaimCheck, Fact, Before, Binding, After, Unflashed, Repairing, Finishing, Fresh,
         Booted, Reread, Resuming
    <3> QED
      BY <1>0, <2>2, <3>1, StayStep, ContentsSame DEF host
  <2> QED
    BY <1>2, <2>1, <2>2 DEF ClaimCheck
<1>3. CASE ClaimWrite(p)
  <2>1. Fact("submit", run[p], saved[run[p].id])
    BY <1>1, <1>3 DEF ClaimWrite, Fact, Before, Binding, After, Unflashed, Repairing, Finishing, Fresh,
       Booted, Reread, Resuming
  <2> QED
    BY <1>0, <1>3, <2>1, StayStep, ContentsSame DEF ClaimWrite
<1>4. CASE SubmitBrick(p)
  <2> DEFINE s == [phase |-> "BRICK_SUBMITTED", rel |-> run[p].rel, fmt |-> FALSE, dev |-> run[p].dev]
  <2>1. s \in State
    BY <1>1 DEF State, Run, Phases
  <2>2. Evidence(run[p].id, s)
    BY DEF Evidence, Flashed, Staged
  <2>3. Fact("send", run[p], s)
    BY <1>1, <1>4 DEF SubmitBrick, Fact, Before, Binding, After, Unflashed, Repairing, Finishing, Fresh,
       Booted, Reread, Resuming
  <2> HIDE DEF s
  <2>4. Save(p, s) /\ Stay(p, "send") /\ UNCHANGED units
    BY <1>4 DEF SubmitBrick, s
  <2> QED
    BY <1>0, <2>1, <2>2, <2>3, <2>4, SaveStayStep
<1>5. CASE SendBrick(p)
  <2> DEFINE d == run[p].dev
  <2>1. UNCHANGED saved /\ (Stay(p, "reconcile") \/ Leave(p))
    BY <1>5 DEF SendBrick, host
  <2>2. SameContents
    <3>1. PICK v \in BrickEffect(d) : dev' = [dev EXCEPT ![d] = v]
      BY <1>5 DEF SendBrick
    <3>2. d \in Devices => dev[d] \in Device
      BY DEF TypeOK, UnitsOK
    <3>3. d \in Devices => /\ v.udata = dev[d].udata /\ v.boot = dev[d].boot
                           /\ v.feat = dev[d].feat /\ v.gen = dev[d].gen
      BY <3>2 DEF BrickEffect, Moved, Device
    <3> QED
      BY <1>5, <3>1, <3>3 DEF SendBrick, SameContents, TypeOK, UnitsOK
  <2>3. Fact("reconcile", run[p], saved[run[p].id])
    BY <1>1, <1>5 DEF SendBrick, Fact, Before, Binding, After, Unflashed, Repairing, Finishing, Fresh,
       Booted, Reread, Resuming
  <2>4. CASE Stay(p, "reconcile")
    BY <1>0, <2>1, <2>2, <2>3, <2>4, StayStep
  <2>5. CASE Leave(p)
    BY <1>0, <2>1, <2>2, <2>5, EndStep, FilesFrame DEF EvidenceInv, TypeOK
  <2> QED
    BY <2>1, <2>4, <2>5
<1>6. CASE Reconcile(p)
  <2>1. PICK l \in {"handoff", "co_handoff", "reconciling"} :
          /\ Stay(p, l) /\ (l = "handoff" => run[p].st = None) /\ (l = "co_handoff" => run[p].st # None)
          /\ SameContents /\ UNCHANGED saved
    BY <1>6, ContentsSame DEF Reconcile, host
  <2>2. Fact(l, run[p], saved[run[p].id])
    BY <1>1, <1>6, <2>1 DEF Reconcile, Fact, Before, Binding, After, Unflashed, Repairing, Finishing,
       Fresh, Booted, Reread, Resuming
  <2> QED
    BY <1>0, <2>1, <2>2, StayStep
<1>7. CASE WriteHandoff(p)
  <2> DEFINE s == [Carry(p) EXCEPT !.phase = "AMONET_HANDOFF", !.dev = run[p].dev]
  <2>1. Carry(p) \in State /\ ~Carry(p).fmt
    <3>1. saved[run[p].id] # None => ~saved[run[p].id].fmt
      BY <1>1, <1>7 DEF WriteHandoff, Fact, Before
    <3> QED
      BY <1>1, <3>1 DEF Carry, Blank, State, Phases
  <2>2. s \in State /\ s.phase = "AMONET_HANDOFF" /\ ~s.fmt
    BY <1>1, <2>1 DEF State, Run, Phases
  <2>3. Evidence(run[p].id, s)
    BY <2>2 DEF Evidence, Flashed, Staged
  <2>4. Fact("bind", run[p], s)
    BY DEF Fact, Before, Binding, After, Unflashed, Repairing, Finishing, Fresh, Booted, Reread, Resuming
  <2> HIDE DEF s
  <2>5. Save(p, s) /\ Stay(p, "bind") /\ UNCHANGED units
    BY <1>7 DEF WriteHandoff, s
  <2> QED
    BY <1>0, <2>2, <2>3, <2>4, <2>5, SaveStayStep
<1> QED
  BY <1>2, <1>3, <1>4, <1>5, <1>6, <1>7 DEF BrickStep

\* A run that has read no state and has written none, at a place before the brick.
LEMMA FreshFact ==
  ASSUME NEW l \in {"enter", "entering", "ready"}, NEW r, r.st = None, NEW st
  PROVE  Fact(l, r, st)
BY DEF Fact, Before, Binding, After, Unflashed, Repairing, Finishing, Fresh, Booted, Reread, Resuming

LEMMA OpeningEvidence ==
  ASSUME OneCacheRoot, TypeOK, EvidenceInv, NEW p \in Procs,
         \/ InstallReady(p) \/ OneShotCheck(p) \/ EnterFastboot(p) \/ EnteringFastboot(p)
         \/ WriteReady(p) \/ SelectDevice(p) \/ BindDevice(p)
  PROVE  EvidenceInv'
<1> USE DEF At
<1>0. pc[p] # "idle"
  BY DEF InstallReady, OneShotCheck, EnterFastboot, EnteringFastboot, WriteReady, SelectDevice, BindDevice
<1> DEFINE i == run[p].id
<1>1. /\ run[p] \in Run /\ i \in Ids /\ run[p].rel \in Releases
      /\ saved[i] \in State \cup {None}
      /\ Fact(pc[p], run[p], saved[i])
  BY <1>0, Known
<1>2. Blank(run[p].rel) \in State /\ ~Blank(run[p].rel).fmt /\ Evidence(i, Blank(run[p].rel))
  BY <1>1 DEF Blank, State, Phases, Evidence, Flashed, Staged
<1>3. CASE InstallReady(p)
  <2>1. SameContents /\ saved' = [saved EXCEPT ![i] = Blank(run[p].rel)]
    BY <1>3, ContentsSame DEF InstallReady, Save
  <2>2. PICK j \in Ids : j = i
    BY <1>1
  <2>3. Files'
    BY <1>2, <2>1, <2>2, FileWritten DEF EvidenceInv, TypeOK
  <2> QED
    BY <1>0, <1>3, <2>3, EndStep DEF InstallReady
<1>4. CASE OneShotCheck(p)
  <2>1. run[p].st = None
    BY <1>1, <1>4 DEF OneShotCheck, Fact, Fresh
  <2>2. CASE Fail(p)
    BY <1>0, <2>2, FailedStep
  <2>3. ASSUME NEW l \in {"enter", "ready"}, Stay(p, l), UNCHANGED <<host, units>>
        PROVE  EvidenceInv'
    BY <1>0, <2>1, <2>3, FreshFact, StayStep, ContentsSame DEF host
  <2>4. CASE /\ saved' = [saved EXCEPT ![i] = None] /\ Goto(p, "enter") /\ UNCHANGED <<lock, units>>
             /\ \E q : run' = [run EXCEPT ![p] = [run[p] EXCEPT !.again = TRUE, !.req = q]]
                       /\ q \in Requests
    <3>1. PICK q \in Requests : run' = [run EXCEPT ![p] = [run[p] EXCEPT !.again = TRUE, !.req = q]]
      BY <2>4
    <3>2. PICK r : r = [run[p] EXCEPT !.again = TRUE, !.req = q]
      OBVIOUS
    <3>3. r \in Run /\ r.st = None /\ r.id = i
      BY <1>1, <2>1, <2>4, <3>1, <3>2 DEF Run, Requests
    <3>4. PICK j \in Ids : j = i
      BY <1>1
    <3>5. SameContents /\ Evidence(j, None)
      BY <2>4, ContentsSame DEF Evidence
    <3>6. Files'
      BY <2>4, <3>4, <3>5, FileWritten DEF EvidenceInv, TypeOK
    <3>7. Fact("enter", r, saved[r.id])'
      BY <3>3 DEF Fact, Before, Binding, After, Unflashed, Repairing, Finishing, Fresh, Booted,
         Reread, Resuming
    <3>8. run' = [run EXCEPT ![p] = r]
      BY <3>1, <3>2
    <3> QED
      BY <1>0, <2>4, <3>6, <3>7, <3>8, <3>3, GoStep
  <2>5. \/ Fail(p)
        \/ \E l \in {"enter", "ready"} : Stay(p, l) /\ UNCHANGED <<host, units>>
        \/ /\ saved' = [saved EXCEPT ![i] = None] /\ Goto(p, "enter") /\ UNCHANGED <<lock, units>>
           /\ \E q : run' = [run EXCEPT ![p] = [run[p] EXCEPT !.again = TRUE, !.req = q]]
                     /\ q \in Requests
    <3> DEFINE st == saved[i]
               q == IF run[p].req = AutoSerial /\ st.dev # None THEN st.dev ELSE run[p].req
               go == Goto(p, "enter")
    <3>1. CASE Fail(p) \/ \E l \in {"enter", "ready"} : Stay(p, l) /\ UNCHANGED <<host, units>>
      BY <3>1
    <3>2. CASE /\ st # None /\ ArchiveState(p, st)
               /\ run' = [run EXCEPT ![p].again = TRUE,
                            ![p].req = IF @ = AutoSerial /\ st.dev # None THEN st.dev ELSE @]
               /\ go /\ UNCHANGED <<lock, units>>
      <4>1. q \in Requests
        BY <1>1, <3>2 DEF Run, State, Requests
      <4>2. run' = [run EXCEPT ![p] = [run[p] EXCEPT !.again = TRUE, !.req = q]]
        BY <3>2 DEF TypeOK, ProcsOK
      <4> QED
        BY <3>2, <4>1, <4>2 DEF ArchiveState
    <3> QED
      BY <1>4, <3>1, <3>2 DEF OneShotCheck
  <2> QED
    BY <2>2, <2>3, <2>4, <2>5
<1>5. CASE EnterFastboot(p)
  <2>1. run[p].st = None
    BY <1>1, <1>5 DEF EnterFastboot, Fact, Fresh
  <2>2. CASE Fail(p)
    BY <1>0, <2>2, FailedStep
  <2>3. CASE Stay(p, "ready") /\ UNCHANGED <<host, units>>
    BY <1>0, <2>1, <2>3, FreshFact, StayStep, ContentsSame DEF host
  <2>4. ASSUME NEW d \in Devices, Move(d, "toFastboot"), run' = [run EXCEPT ![p].dev = d],
               Goto(p, "entering"), UNCHANGED <<lock, host>>
        PROVE  EvidenceInv'
    <3>1. PICK r : r = [run[p] EXCEPT !.dev = d]
      OBVIOUS
    <3>2. r \in Run /\ r.st = None
      BY <1>1, <2>1, <3>1 DEF Run
    <3>3. run' = [run EXCEPT ![p] = r]
      BY <2>4, <3>1
    <3>4. SameContents /\ UNCHANGED saved
      BY <2>4, ContentsSame DEF host
    <3> QED
      BY <1>0, <2>4, <3>3, <3>4, <3>2, FreshFact, PassStep
  <2> QED
    BY <1>5, <2>2, <2>3, <2>4 DEF EnterFastboot, Select, InAdb
<1>6. CASE EnteringFastboot(p)
  <2>1. run[p].st = None
    BY <1>1, <1>6 DEF EnteringFastboot, Fact, Fresh
  <2> QED
    BY <1>0, <1>6, <2>1, FreshFact, StayStep, ContentsSame DEF EnteringFastboot, host
<1>7. CASE WriteReady(p)
  <2>1. Fact("select", run[p], Blank(run[p].rel))
    BY <1>1, <1>2, <1>7 DEF WriteReady, Fact, Before, Binding, After, Unflashed, Repairing, Finishing,
       Fresh, Booted, Reread, Resuming
  <2>2. PICK s \in State : s = Blank(run[p].rel)
    BY <1>2
  <2> QED
    BY <1>0, <1>2, <1>7, <2>1, <2>2, SaveStayStep DEF WriteReady
<1>8. CASE SelectDevice(p)
  <2>1. CASE Fail(p)
    BY <1>0, <2>1, FailedStep
  <2>2. ASSUME NEW d \in Devices, run' = [run EXCEPT ![p].dev = d], NEW l \in {"claim_check", "handoff"},
               Goto(p, l), UNCHANGED <<lock, host, units>>
        PROVE  EvidenceInv'
    <3>1. PICK r : r = [run[p] EXCEPT !.dev = d]
      OBVIOUS
    <3>2. r \in Run /\ r.st = run[p].st /\ r.id = i
      BY <1>1, <3>1 DEF Run
    <3>3. run' = [run EXCEPT ![p] = r]
      BY <2>2, <3>1
    <3>4. Fact(l, r, saved[r.id])
      BY <1>1, <1>8, <2>2, <3>2 DEF SelectDevice, Fact, Before, Binding, After, Unflashed, Repairing,
         Finishing, Fresh, Booted, Reread, Resuming
    <3> QED
      BY <1>0, <2>2, <3>3, <3>4, <3>2, PassStep, ContentsSame DEF host
  <2> QED
    BY <1>8, <2>1, <2>2 DEF SelectDevice, Select, InFastboot
<1>9. CASE BindDevice(p)
  <2>1. PICK d \in Devices :
          /\ Save(p, [Carry(p) EXCEPT !.phase = "AMONET_HANDOFF", !.fmt = FALSE, !.dev = d])
          /\ run' = [run EXCEPT ![p].dev = d]
    BY <1>9 DEF BindDevice, Select, InFastboot
  <2>2. Carry(p) \in State /\ Carry(p).rel = run[p].rel
    BY <1>1 DEF Carry, Blank, State, Phases
  <2>3. PICK s : s = [Carry(p) EXCEPT !.phase = "AMONET_HANDOFF", !.fmt = FALSE, !.dev = d]
    OBVIOUS
  <2>4. s \in State /\ s.phase = "AMONET_HANDOFF" /\ ~s.fmt /\ s.dev = d /\ s.rel = run[p].rel
    BY <2>2, <2>3 DEF State, Phases
  <2>5. PICK r : r = [run[p] EXCEPT !.dev = d]
    OBVIOUS
  <2>6. r \in Run /\ r.dev = d /\ r.id = i /\ r.rel = run[p].rel
    BY <1>1, <2>5 DEF Run
  <2>7. run' = [run EXCEPT ![p] = r]
    BY <2>1, <2>5
  <2>8. Evidence(r.id, s)
    BY <2>4 DEF Evidence, Flashed, Staged, Unreconciled
  <2>9. s # None
    BY <2>4, ConstantsOK
  <2>10. Fact("format", r, s)
    BY <2>4, <2>6, <2>9 DEF Fact, Before, Binding, After, Unflashed, Repairing, Finishing, Fresh, Booted,
       Reread, Resuming, Flashed, Staged
  <2>11. Save(p, s) /\ Goto(p, "format") /\ UNCHANGED <<lock, units>>
    BY <1>9, <2>1, <2>3 DEF BindDevice
  <2> QED
    BY <1>0, <2>4, <2>6, <2>7, <2>8, <2>10, <2>11, SaveStep
<1> QED
  BY <1>3, <1>4, <1>5, <1>6, <1>7, <1>8, <1>9

-----------------------------------------------------------------------------
(* The steps from the format to the hand-off *)

\* A run moves on, or a step of its transport fails, without touching what files speak of.
LEMMA MoveOnStep ==
  ASSUME OneCacheRoot, TypeOK, EvidenceInv, NEW p \in Procs, pc[p] # "idle", NEW l,
         UNCHANGED host, UNCHANGED units \/ (\E d, m : Move(d, m)),
         Stay(p, l), Fact(l, run[p], saved[run[p].id])
  PROVE  EvidenceInv'
BY StayStep, ContentsSame DEF host

LEMMA RebootEvidence ==
  ASSUME OneCacheRoot, TypeOK, EvidenceInv, NEW p \in Procs,
         RebootInstalled(p, "reboot", "await_adb") \/ RebootInstalled(p, "re_boot", "re_await")
  PROVE  EvidenceInv'
<1>1. PICK from, to : /\ RebootInstalled(p, from, to)
                      /\ <<from, to>> \in {<<"reboot", "await_adb">>, <<"re_boot", "re_await">>}
  OBVIOUS
<1>2. pc[p] = from /\ pc[p] # "idle"
  BY <1>1 DEF RebootInstalled, At
<1>3. Fact(from, run[p], saved[run[p].id])
  BY <1>2, Known
<1>4. Fact(to, run[p], saved[run[p].id])
  BY <1>1, <1>3 DEF Fact, Before, Binding, After, Unflashed, Repairing, Finishing, Fresh, Booted, Reread,
     Resuming
<1>5. Stay(p, to) /\ UNCHANGED host /\ (UNCHANGED units \/ \E d, m : Move(d, m))
  BY <1>1 DEF RebootInstalled
<1> QED
  BY <1>2, <1>4, <1>5, MoveOnStep

LEMMA FlashEvidence ==
  ASSUME OneCacheRoot, TypeOK, EvidenceInv, NEW p \in Procs, FlashBoot(p) \/ StageFeatures(p)
  PROVE  EvidenceInv'
<1> USE DEF At
<1> DEFINE i == run[p].id
           d == run[p].dev
           st == saved[i]
<1>1. pc[p] \in {"flash", "stage"}
  BY DEF FlashBoot, StageFeatures
<1>2. CASE Fail(p)
  BY <1>1, <1>2, FailedStep
<1>3. CASE ~Fail(p)
  <2>1. /\ run[p] \in Run /\ i \in Ids /\ st \in State /\ d \in Devices /\ st.dev = d /\ st.rel = run[p].rel
        /\ Fact(pc[p], run[p], st) /\ Evidence(i, st)
    BY <1>1, Known DEF Fact, Binding
  <2>2. PICK v : /\ Write(p, d, v) /\ UNCHANGED host /\ v.udata = dev[d].udata
                 /\ pc[p] = "stage" => v.boot = dev[d].boot
                 /\ \/ Leave(p)
                    \/ pc[p] = "flash" /\ Stay(p, "flashed") /\ v.boot = run[p].rel
                    \/ pc[p] = "stage" /\ Stay(p, "staged") /\ v.feat = run[p].rel
    <3>1. dev[d] \in Device
      BY <2>1 DEF TypeOK, UnitsOK
    <3>2. CASE FlashBoot(p)
      <4>1. \A b : [dev[d] EXCEPT !.boot = b].udata = dev[d].udata /\ [dev[d] EXCEPT !.boot = b].boot = b
        BY <3>1 DEF Device
      <4> QED
        BY <1>3, <3>2, <4>1 DEF FlashBoot
    <3>3. CASE StageFeatures(p)
      <4>1. \A f : /\ [dev[d] EXCEPT !.feat = f].udata = dev[d].udata /\ [dev[d] EXCEPT !.feat = f].feat = f
                   /\ [dev[d] EXCEPT !.feat = f].boot = dev[d].boot
        BY <3>1 DEF Device
      <4> QED
        BY <1>3, <3>3, <4>1 DEF StageFeatures
    <3> QED
      BY <3>2, <3>3
  <2>3. /\ dev'[d] = v /\ \A e \in Devices : e # d => dev'[e] = dev[e]
        /\ \A e \in Devices : writers[e] \subseteq writers'[e]
        /\ saved' = saved
    BY <2>1, <2>2 DEF Write, TypeOK, UnitsOK, host
  <2>4. PICK j \in Ids : j = i
    BY <2>1
  <2>5. /\ pc[p] = "flash" => st.phase \notin Flashed
        /\ pc[p] = "stage" => st.phase \notin Staged
    BY <2>1 DEF Fact, Unflashed
  <2>6. Staged \subseteq Flashed /\ d # None
    BY <2>1, ConstantsOK DEF Flashed
  <2>7. Evidence(j, saved[j])'
    BY <1>1, <2>1, <2>2, <2>3, <2>4, <2>5, <2>6 DEF Evidence, Own
  <2>8. Files'
    BY <2>1, <2>2, <2>3, <2>4, <2>7, UnitWritten DEF EvidenceInv, host
  <2>9. CASE Leave(p)
    BY <1>1, <2>8, <2>9, EndStep
  <2>10. ASSUME NEW l \in {"flashed", "staged"}, Stay(p, l), Fact(l, run[p], saved[run[p].id])'
         PROVE  EvidenceInv'
    <3>1. PICK r \in Run : r = run[p]
      BY <2>1
    <3>2. run' = [run EXCEPT ![p] = r] /\ run'[p] = r
      BY <2>10, <3>1 DEF Stay, TypeOK, ProcsOK
    <3>3. Fact(l, r, saved[r.id])'
      BY <2>10, <3>2
    <3> QED
      BY <1>1, <2>8, <2>10, <3>2, <3>3, GoStep DEF Stay
  <2>11. CASE pc[p] = "flash" /\ Stay(p, "flashed") /\ v.boot = run[p].rel
    <3>1. Fact("flashed", run[p], saved[run[p].id])'
      BY <2>1, <2>3, <2>11 DEF Stay, Fact, Before, Binding, After, Unflashed, Repairing, Finishing, Fresh,
         Booted, Reread, Resuming
    <3> QED
      BY <2>10, <2>11, <3>1
  <2>12. CASE pc[p] = "stage" /\ Stay(p, "staged") /\ v.feat = run[p].rel
    <3>1. Fact("staged", run[p], saved[run[p].id])'
      BY <2>1, <2>2, <2>3, <2>12 DEF Stay, Fact, Before, Binding, After, Unflashed, Repairing, Finishing,
         Fresh, Booted, Reread, Resuming
    <3> QED
      BY <2>10, <2>12, <3>1
  <2> QED
    BY <2>2, <2>9, <2>11, <2>12
<1> QED
  BY <1>2, <1>3

LEMMA TransactEvidence ==
  ASSUME OneCacheRoot, TypeOK, EvidenceInv, NEW p \in Procs,
         \/ RecordFormat(p) \/ WriteFastbootReady(p) \/ WriteBootWritten(p) \/ WriteAdbReady(p)
         \/ Readback(p) \/ WriteFeaturesStaged(p) \/ RecordRepair(p) \/ CompleteInstall(p)
  PROVE  EvidenceInv'
<1> USE DEF At
<1> DEFINE i == run[p].id
           st == saved[i]
<1>1. pc[p] \in {"format_done", "geometry", "flashed", "await_adb", "readback", "staged", "re_done", "complete"}
  BY DEF RecordFormat, WriteFastbootReady, WriteBootWritten, WriteAdbReady, Readback, WriteFeaturesStaged,
         RecordRepair, CompleteInstall
<1>2. /\ run[p] \in Run /\ i \in Ids /\ st \in State /\ st # None /\ run[p].dev \in Devices
      /\ st.rel = run[p].rel /\ st.dev = run[p].dev /\ run[p].dev # None
      /\ Fact(pc[p], run[p], st) /\ Evidence(i, st)
  BY SMTT(30), <1>1, Known, ConstantsOK DEF Fact, Binding
<1>3. pc[p] \in Binding /\ pc[p] # "idle"
  BY <1>1 DEF Binding
<1> USE DEF Phases
<1>4. CASE RecordFormat(p) \/ RecordRepair(p)
  <2>1. PICK ph \in Phases, l \in Labels : 
          /\ SaveFormatted(p, ph) /\ Stay(p, l) /\ UNCHANGED units
          /\ \/ pc[p] = "format_done" /\ ph = "AMONET_HANDOFF" /\ l = "geometry"
             \/ pc[p] = "re_done" /\ ph = "READBACK_VERIFIED" /\ l = "re_boot"
    BY <1>4 DEF RecordFormat, RecordRepair, Labels
  <2>2. PICK s : s = [st EXCEPT !.phase = ph, !.fmt = TRUE]
    OBVIOUS
  <2>3. s \in State /\ s.phase = ph /\ s.fmt /\ s.dev = st.dev /\ s.rel = st.rel
    BY <1>2, <2>2 DEF State
  <2>4. s # None
    BY <2>3, ConstantsOK
  <2>5. Carry(p) = st
    BY <1>2, ConstantsOK DEF Carry
  <2>6. Save(p, s)
    BY <2>1, <2>2, <2>5 DEF SaveFormatted
  <2>7. /\ Own(i, run[p].dev) => dev[run[p].dev].udata = "formatted"
        /\ pc[p] = "re_done" => st.phase \in Flashed
    BY <1>2, <2>1 DEF Fact, Repairing
  <2>8. ph \notin {"RELEASE_READY"} \cup Unreconciled /\ ph \notin Staged
         /\ (ph \in Flashed => st.phase \in Flashed)
    BY <2>1, <2>7 DEF Unreconciled, Flashed, Staged
  <2>9. Evidence(i, s)
    BY <1>2, <2>1, <2>3, <2>7, <2>8 DEF Evidence
  <2>10. Fact(l, run[p], s)
    BY <1>2, <2>1, <2>3, <2>4 DEF Fact, Before, Binding, After, Unflashed, Repairing, Finishing, Fresh,
       Booted, Reread, Resuming, Flashed, Staged
  <2> QED
    BY <1>3, <2>1, <2>3, <2>6, <2>9, <2>10, SaveStayStep
<1>5. ASSUME NEW ph \in Phases, NEW l, SavePhase(p, ph), Stay(p, l), UNCHANGED units,
             \/ pc[p] = "geometry" /\ ph = "FASTBOOT_READY" /\ l = "flash"
             \/ pc[p] = "flashed" /\ ph = "BOOT_WRITTEN" /\ l = "reboot"
             \/ pc[p] = "await_adb" /\ ph = "ADB_READY" /\ l = "readback"
             \/ pc[p] = "readback" /\ ph = "READBACK_VERIFIED" /\ l = "stage" /\ ReadbackOk(p)
             \/ pc[p] = "staged" /\ ph = "FEATURES_STAGED" /\ l = "finish"
      PROVE  EvidenceInv'
  <2>1. PICK s : s = [st EXCEPT !.phase = ph]
    OBVIOUS
  <2>2. s \in State /\ s.phase = ph /\ s.fmt = st.fmt /\ s.dev = st.dev /\ s.rel = st.rel
    BY <1>2, <2>1 DEF State
  <2>3. s # None
    BY <2>2, ConstantsOK
  <2>4. st.fmt
    BY <1>2, <1>5 DEF Fact, After
  <2>5. pc[p] \in {"flashed", "await_adb", "staged"} \/ ReadbackOk(p) => dev[run[p].dev].boot = run[p].rel
    BY <1>2 DEF Fact, Booted, ReadbackOk
  <2>6. pc[p] = "staged" => dev[run[p].dev].feat = run[p].rel
    BY <1>2 DEF Fact
  <2>7. Evidence(i, s)
    <3>1. /\ ph \notin {"RELEASE_READY"} \cup Unreconciled
          /\ ph \in Flashed => pc[p] \in {"flashed", "await_adb", "staged"} \/ ReadbackOk(p)
          /\ ph \in Staged => pc[p] = "staged"
      BY <1>5 DEF Unreconciled, Flashed, Staged
    <3> QED
      BY <1>2, <2>4, <2>5, <2>6, <2>2, <3>1 DEF Evidence
  <2>8. Fact(l, run[p], s)
    BY <1>2, <1>5, <2>3, <2>4, <2>5, <2>2 DEF Fact, Before, Binding, After, Unflashed, Repairing, Finishing, Fresh,
       Booted, Reread, Resuming, Flashed, Staged
  <2> QED
    BY <1>3, <1>5, <2>1, <2>7, <2>8, PhaseStep
<1>6. CASE \/ WriteFastbootReady(p) \/ WriteBootWritten(p) \/ WriteAdbReady(p) \/ WriteFeaturesStaged(p)
  BY <1>5, <1>6 DEF WriteFastbootReady, WriteBootWritten, WriteAdbReady, WriteFeaturesStaged
<1>7. CASE Readback(p)
  BY <1>3, <1>5, <1>7, FailedStep DEF Readback
<1>8. CASE CompleteInstall(p)
  <2>1. CASE Fail(p)
    BY <1>3, <2>1, FailedStep
  <2>2. ASSUME NEW ph \in {"WEBUI_FORWARDED", "SETUP_DELIVERED", "INSTALL_COMPLETE"},
               SavePhase(p, ph), Leave(p), UNCHANGED units
        PROVE  EvidenceInv'
    <3>1. PICK s : s = [st EXCEPT !.phase = ph]
      OBVIOUS
    <3>2. s \in State /\ s.phase = ph /\ s.fmt = st.fmt /\ s.dev = st.dev /\ s.rel = st.rel
      BY <1>2, <2>2, <3>1 DEF State
    <3>3. st.phase \in Staged
      BY <1>2, <1>8 DEF CompleteInstall, Fact, Finishing
    <3>4. Evidence(i, s)
      <4>1. /\ ph \notin {"RELEASE_READY"} \cup Unreconciled /\ ph \in Staged
            /\ Staged \subseteq Flashed
        BY <2>2 DEF Unreconciled, Flashed, Staged
      <4> QED
        BY <1>2, <3>2, <3>3, <4>1 DEF Evidence
    <3>5. Carry(p) = st
      BY <1>2, ConstantsOK DEF Carry
    <3>6. saved' = [saved EXCEPT ![i] = s]
      BY <2>2, <3>1, <3>5 DEF SavePhase, Save
    <3>7. PICK j \in Ids : j = i
      BY <1>2
    <3>8. Files'
      BY <2>2, <3>2, <3>4, <3>6, <3>7, FileWritten, ContentsSame DEF EvidenceInv, TypeOK
    <3> QED
      BY <1>3, <2>2, <3>8, EndStep
  <2> QED
    BY <1>8, <2>1, <2>2 DEF CompleteInstall
<1> QED
  BY <1>4, <1>6, <1>7, <1>8

LEMMA FinishEvidence ==
  ASSUME OneCacheRoot, TypeOK, EvidenceInv, NEW p \in Procs,
         PublishGeneration(p) \/ DeliverSetup(p) \/ FinalReboot(p) \/ AwaitReady(p)
  PROVE  EvidenceInv'
<1> USE DEF At
<1> DEFINE i == run[p].id
           d == run[p].dev
           st == saved[i]
<1>1. pc[p] \in {"finish", "deliver", "final", "await_ready"}
  BY DEF PublishGeneration, DeliverSetup, FinalReboot, AwaitReady
<1>2. /\ run[p] \in Run /\ i \in Ids /\ st \in State /\ st # None /\ d \in Devices
      /\ st.rel = run[p].rel /\ st.dev = d /\ d # None /\ st.phase \in Staged /\ st.fmt
      /\ Fact(pc[p], run[p], st) /\ Evidence(i, st)
  BY <1>1, Known, ConstantsOK DEF Fact, Binding, Finishing, After
<1>3. ASSUME NEW l \in {"deliver", "final", "await_ready", "complete"}, NEW r, r.id = i, r.dev = d,
             r.rel = run[p].rel
      PROVE  Fact(l, r, st)
  BY <1>2, <1>3, ConstantsOK DEF Fact, Before, Binding, After, Unflashed, Repairing, Finishing, Fresh,
     Booted, Reread, Resuming
<1>4. CASE Fail(p)
  BY <1>1, <1>4, FailedStep
<1>5. ASSUME NEW l \in {"deliver", "final", "await_ready", "complete"}, Stay(p, l), UNCHANGED host,
             UNCHANGED units \/ \E e, m : Move(e, m)
      PROVE  EvidenceInv'
  <2>1. Fact(l, run[p], st)
    BY <1>3, <1>5
  <2> QED
    BY <1>1, <1>5, <2>1, MoveOnStep
<1>6. ASSUME NEW l \in {"deliver", "final"}, Goto(p, l), UNCHANGED <<lock, host>>,
             NEW r \in Run, run' = [run EXCEPT ![p] = r], r.id = i, r.dev = d, r.rel = run[p].rel,
             \/ UNCHANGED units
             \/ \E v : /\ Write(p, d, v) /\ v.udata = dev[d].udata /\ v.boot = dev[d].boot
                       /\ \/ v.feat = dev[d].feat /\ v.gen = dev[d].gen
                          \/ run[p].rel \in V3Releases /\ v.gen = run[p].rel
      PROVE  EvidenceInv'
  <2>1. CASE UNCHANGED units
    BY <1>1, <1>3, <1>6, <2>1, PassStep, ContentsSame DEF host
  <2>2. CASE ~UNCHANGED units
    <3>1. PICK v : /\ Write(p, d, v) /\ v.udata = dev[d].udata /\ v.boot = dev[d].boot
                   /\ \/ v.feat = dev[d].feat /\ v.gen = dev[d].gen
                      \/ run[p].rel \in V3Releases /\ v.gen = run[p].rel
      BY <1>6, <2>2
    <3>2. /\ dev'[d] = v /\ \A e \in Devices : e # d => dev'[e] = dev[e]
          /\ \A e \in Devices : writers[e] \subseteq writers'[e]
          /\ saved' = saved
      BY <1>2, <1>6, <3>1 DEF Write, TypeOK, UnitsOK, host
    <3>3. PICK j \in Ids : j = i
      BY <1>2
    <3>4. Staged \subseteq Flashed /\ st.phase \notin {"RELEASE_READY"} \cup Unreconciled
      BY <1>2 DEF Flashed, Staged, Unreconciled
    <3>5. Evidence(j, saved[j])'
      BY ZenonT(60), <1>2, <3>1, <3>2, <3>3, <3>4 DEF Evidence, Own
    <3>6. Files'
      BY <1>2, <1>6, <3>1, <3>3, <3>5, UnitWritten DEF EvidenceInv, host
    <3>7. Fact(l, r, saved[r.id])'
      <4>1. saved'[r.id] = st
        BY <1>6, <3>2
      <4> QED
        BY <1>2, <1>6, <4>1 DEF Fact, Before, Binding, After, Unflashed, Repairing, Finishing, Fresh, Booted,
           Reread, Resuming
    <3> QED
      BY <1>1, <1>6, <3>6, <3>7, GoStep
  <2> QED
    BY <2>1, <2>2
<1>7. dev[d] \in Device
  BY <1>2 DEF TypeOK, UnitsOK
<1>8. CASE PublishGeneration(p)
  <2>1. CASE Fail(p) \/ (Stay(p, "deliver") /\ UNCHANGED <<host, units>>)
    BY <1>4, <1>5, <2>1
  <2>2. CASE /\ Generation(p) /\ Goto(p, "deliver") /\ UNCHANGED <<lock, host>>
             /\ Write(p, d, [dev[d] EXCEPT !.gen = run[p].rel, !.feat = "none"])
             /\ run' = [run EXCEPT ![p].reboot = TRUE]
    <3>1. PICK r : r = [run[p] EXCEPT !.reboot = TRUE]
      OBVIOUS
    <3>2. r \in Run /\ r.id = i /\ r.dev = d /\ r.rel = run[p].rel /\ run' = [run EXCEPT ![p] = r]
      BY <1>2, <2>2, <3>1 DEF Run
    <3>3. PICK v : v = [dev[d] EXCEPT !.gen = run[p].rel, !.feat = "none"]
      OBVIOUS
    <3>4. v.udata = dev[d].udata /\ v.boot = dev[d].boot /\ v.gen = run[p].rel
      BY <1>7, <3>3 DEF Device
    <3> QED
      BY <1>6, <2>2, <3>2, <3>3, <3>4 DEF Generation
  <2> QED
    BY <1>8, <2>1, <2>2 DEF PublishGeneration
<1>9. CASE DeliverSetup(p)
  <2>1. CASE Fail(p) \/ (Stay(p, "final") /\ UNCHANGED <<host, units>>)
    BY <1>4, <1>5, <2>1
  <2>2. CASE /\ run' = [run EXCEPT ![p].out = "already-complete"]
             /\ Goto(p, "final") /\ UNCHANGED <<lock, host, units>>
    <3>1. PICK r : r = [run[p] EXCEPT !.out = "already-complete"]
      OBVIOUS
    <3>2. r \in Run /\ r.id = i /\ r.dev = d /\ r.rel = run[p].rel /\ run' = [run EXCEPT ![p] = r]
      BY <1>2, <2>2, <3>1 DEF Run
    <3> QED
      BY <1>6, <2>2, <3>2
  <2>3. CASE /\ Write(p, d, [dev[d] EXCEPT !.prov = "pending"])
             /\ run' = [run EXCEPT ![p].out = "delivered", ![p].reboot = TRUE]
             /\ Goto(p, "final") /\ UNCHANGED <<lock, host>>
    <3>1. PICK r : r = [run[p] EXCEPT !.out = "delivered", !.reboot = TRUE]
      OBVIOUS
    <3>2. r \in Run /\ r.id = i /\ r.dev = d /\ r.rel = run[p].rel
      BY <1>2, <3>1 DEF Run
    <3>3. run' = [run EXCEPT ![p] = r]
      BY <2>3, <3>1 DEF TypeOK, ProcsOK
    <3>4. PICK v : v = [dev[d] EXCEPT !.prov = "pending"]
      OBVIOUS
    <3>5. v.udata = dev[d].udata /\ v.boot = dev[d].boot /\ v.feat = dev[d].feat /\ v.gen = dev[d].gen
      BY <1>7, <3>4 DEF Device
    <3> QED
      BY <1>6, <2>3, <3>2, <3>3, <3>4, <3>5
  <2> QED
    BY <1>9, <2>1, <2>2, <2>3 DEF DeliverSetup
<1>10. CASE FinalReboot(p)
  BY <1>5, <1>10 DEF FinalReboot
<1>11. CASE AwaitReady(p)
  BY <1>5, <1>11 DEF AwaitReady
<1> QED
  BY <1>8, <1>9, <1>10, <1>11

-----------------------------------------------------------------------------
(* continue_one_shot *)

\* A continuation binds the state it read to the unit it found: that says no more.
LEMMA BoundEvidence ==
  ASSUME TypeOK, NEW i \in Ids, NEW d \in Devices, NEW x \in State, x.dev \in {None, d},
         NEW st, st = x \/ st = [x EXCEPT !.dev = d], Evidence(i, st)
  PROVE  /\ [x EXCEPT !.dev = d] \in State /\ Evidence(i, [x EXCEPT !.dev = d])
         /\ [x EXCEPT !.dev = d].phase = x.phase /\ [x EXCEPT !.dev = d].fmt = x.fmt
         /\ [x EXCEPT !.dev = d].rel = x.rel /\ [x EXCEPT !.dev = d].dev = d
         /\ [x EXCEPT !.dev = d] # None /\ st # None /\ st.phase = x.phase /\ st.fmt = x.fmt
<1>1. PICK y : y = [x EXCEPT !.dev = d]
  OBVIOUS
<1>2. y \in State /\ y.phase = x.phase /\ y.fmt = x.fmt /\ y.rel = x.rel /\ y.dev = d
  BY <1>1 DEF State
<1>3. y # None /\ x # None
  BY <1>2, ConstantsOK
<1>4. Evidence(i, y)
  <2>1. CASE st = y
    BY <2>1
  <2>2. CASE st = x
    BY <1>2, <1>3, <2>2 DEF Evidence
  <2> QED
    BY <1>1, <2>1, <2>2
<1> QED
  BY <1>1, <1>2, <1>3, <1>4

\* It writes what it read, with the phase it has or another one.
LEMMA BoundStep ==
  ASSUME OneCacheRoot, TypeOK, EvidenceInv, NEW p \in Procs, pc[p] \in Resuming,
         NEW ph \in Phases, NEW l \in {"co_verify", "co_readback", "co_features", "stage", "re_reboot"},
         SaveBound(p, ph), Stay(p, l), UNCHANGED units,
         \/ ph = run[p].st.phase
         \/ ph = "READBACK_VERIFIED" /\ l = "stage",
         l \in {"stage", "co_features"} => ReadbackOk(p) /\ pc[p] \in After,
         l \in {"co_features"} <=> l \in {"stage", "co_features"} /\ ph \in Staged,
         l = "co_verify" => pc[p] \in Unflashed,
         l = "co_readback" => pc[p] \in After,
         l = "re_reboot" => pc[p] \in Repairing \cap Before
  PROVE  EvidenceInv'
<1> DEFINE i == run[p].id
           d == run[p].dev
           x == run[p].st
           st == saved[i]
<1>1. /\ pc[p] # "idle" /\ run[p] \in Run /\ i \in Ids /\ st \in State \cup {None}
      /\ Fact(pc[p], run[p], st) /\ Evidence(i, st)
  BY Known DEF Resuming
<1>2. d \in Devices /\ x \in State /\ x.rel = run[p].rel /\ x.dev \in {None, d}
      /\ (st = x \/ st = [x EXCEPT !.dev = d])
  BY <1>1 DEF Fact, Reread, Run
<1>3. PICK y : y = [x EXCEPT !.dev = d]
  OBVIOUS
<1>4. PICK j \in Ids, e \in Devices, z \in State : j = i /\ e = d /\ z = x
  BY <1>1, <1>2
<1>5. /\ y \in State /\ Evidence(j, y) /\ y.phase = x.phase /\ y.fmt = x.fmt /\ y.rel = x.rel /\ y.dev = d
      /\ y # None /\ st # None /\ st.phase = x.phase /\ st.fmt = x.fmt
  BY SMTT(30), <1>1, <1>2, <1>3, <1>4, BoundEvidence
<1>6. PICK s : s = [y EXCEPT !.phase = ph]
  OBVIOUS
<1>7. s \in State /\ s.phase = ph /\ s.fmt = y.fmt /\ s.rel = y.rel /\ s.dev = d
  BY <1>5, <1>6 DEF State
<1>8. s # None
  BY <1>7, ConstantsOK
<1>9. d # None /\ x # None
  BY <1>2, ConstantsOK
<1>10. ph = x.phase => s = y
  BY <1>5, <1>6 DEF State
<1>11. Save(p, s)
  <2>1. s = [x EXCEPT !.phase = ph, !.dev = d]
    BY <1>2, <1>3, <1>6 DEF State
  <2> QED
    BY <2>1 DEF SaveBound
<1>12. (l = "stage" \/ l = "co_features") => dev[d].boot = run[p].rel
  BY DEF ReadbackOk
<1>13. Evidence(j, s)
  <2>1. CASE ph = x.phase
    BY <1>5, <1>10, <2>1
  <2>2. CASE ph = "READBACK_VERIFIED" /\ l = "stage"
    <3>1. ph \notin {"RELEASE_READY"} \cup Unreconciled /\ ph \notin Staged
      BY <2>2 DEF Unreconciled, Staged
    <3> QED
      BY <1>2, <1>5, <1>7, <1>8, <1>12, <1>9, <2>2, <3>1 DEF Evidence
  <2> QED
    BY <2>1, <2>2
<1>14. /\ pc[p] \in After => st.fmt
       /\ pc[p] \in Unflashed => st.phase \notin Flashed
       /\ pc[p] \in Repairing => st.phase \in Flashed
       /\ pc[p] \in Before => ~st.fmt
  BY <1>1, <1>5 DEF Fact
<1> QED
  <2>1. Fact(l, run[p], s)
    <3>1. CASE l = "co_features"
      <4>1. s = [x EXCEPT !.dev = d] /\ s.phase \in Staged /\ s.fmt
        BY <1>3, <1>5, <1>7, <1>14, <1>10, <3>1
      <4> QED
        BY <1>2, <1>5, <1>7, <1>8, <1>12, <1>9, <3>1, <4>1 DEF Fact, Before, Binding, After, Unflashed,
           Repairing, Finishing, Fresh, Booted, Reread, Resuming
    <3>2. CASE l = "stage"
      BY <1>2, <1>5, <1>7, <1>8, <1>12, <1>14, <3>2 DEF Fact, Before, Binding, After, Unflashed, Repairing,
         Finishing, Fresh, Booted, Reread, Resuming
    <3>3. CASE l \in {"co_verify", "co_readback", "re_reboot"}
      <4>1. s = [x EXCEPT !.dev = d]
        BY <1>3, <1>10, <3>3
      <4>2. /\ l = "co_verify" => s.phase \notin Flashed
            /\ l = "co_readback" => s.fmt
            /\ l = "re_reboot" => ~s.fmt /\ s.phase \in Flashed
        BY <1>5, <1>7, <1>14, <1>10, <3>3
      <4> QED
        BY <1>2, <1>5, <1>7, <1>8, <1>9, <3>3, <4>1, <4>2 DEF Fact, Before, Binding, After, Unflashed,
           Repairing, Finishing, Fresh, Booted, Reread, Resuming
    <3> QED
      BY <3>1, <3>2, <3>3
  <2> QED
    BY <1>1, <1>4, <1>7, <1>11, <1>13, <2>1, SaveStayStep

LEMMA ReadEvidence ==
  ASSUME OneCacheRoot, TypeOK, EvidenceInv, NEW p \in Procs, ContinueCheck(p)
  PROVE  EvidenceInv'
<1> USE DEF At
<1> DEFINE i == run[p].id
           st == saved[i]
           bound == IF st.dev # None THEN st.dev ELSE run[p].req
           to == CASE st.phase \in Staged -> "co_resume"
                   [] st.phase \in Unreconciled -> "reconcile"
                   [] NeedsRepair(st) -> "re_select"
                   [] st.phase \in {"AMONET_HANDOFF", "FASTBOOT_READY"} -> "co_bind"
                   [] OTHER -> "co_attach"
<1>1. pc[p] = "co_check" /\ pc[p] # "idle"
  BY DEF ContinueCheck
<1>2. /\ run[p] \in Run /\ i \in Ids /\ run[p].rel \in Releases /\ st \in State \cup {None}
      /\ Evidence(i, st)
  BY <1>1, Known
<1>3. CASE Fail(p)
  BY <1>1, <1>3, FailedStep
<1>4. CASE Continuable(p, st) /\ ~Fail(p)
  <2>1. /\ st # None /\ st \in State /\ st.rel = run[p].rel /\ st.phase # "RELEASE_READY"
        /\ bound \in Devices /\ st.dev \in {None, bound}
        /\ st.phase \in Staged => st.fmt
    BY <1>2, <1>4 DEF Continuable, State, Run
  <2>2. PICK r : r = [run[p] EXCEPT !.st = st, !.req = bound, !.dev = bound]
    OBVIOUS
  <2>3. r \in Run /\ r.id = i /\ r.rel = run[p].rel /\ r.st = st /\ r.dev = bound
    BY <1>2, <2>1, <2>2 DEF Run
  <2>4. run' = [run EXCEPT ![p] = r]
    BY <1>4, <2>2 DEF ContinueCheck, TypeOK, ProcsOK
  <2>5. Goto(p, to) /\ UNCHANGED <<lock, host, units>>
    BY <1>4 DEF ContinueCheck
  <2>6. st.phase \in Unreconciled => ~st.fmt
    BY <1>2, <2>1 DEF Evidence
  <2>7. PICK l : l = to
    OBVIOUS
  <2>8. \/ l = "co_resume" /\ st.fmt
        \/ l = "reconcile" /\ ~st.fmt
        \/ l = "re_select" /\ ~st.fmt /\ st.phase \in Flashed
        \/ l = "co_bind" /\ st.phase \notin Flashed
        \/ l = "co_attach" /\ st.fmt
    <3>1. CASE st.phase \in Staged
      <4>1. st.phase \notin Unreconciled \cup {"AMONET_HANDOFF", "FASTBOOT_READY"} /\ ~NeedsRepair(st)
        BY <3>1 DEF Staged, Unreconciled, NeedsRepair
      <4> QED
        BY <2>1, <2>7, <3>1, <4>1
    <3>2. CASE st.phase \in Unreconciled
      <4>1. st.phase \notin Staged \cup {"AMONET_HANDOFF", "FASTBOOT_READY"} /\ ~NeedsRepair(st)
        BY <3>2 DEF Staged, Unreconciled, NeedsRepair
      <4> QED
        BY <2>6, <2>7, <3>2, <4>1
    <3>3. CASE st.phase \notin Staged \cup Unreconciled
      BY <2>1, <2>7, <3>3 DEF NeedsRepair, State, Phases, Flashed, Staged, Unreconciled
    <3> QED
      BY <3>1, <3>2, <3>3
  <2>9. Fact(l, r, st)
    BY <2>1, <2>3, <2>8 DEF Fact, Before, Binding, After, Unflashed, Repairing, Finishing, Fresh, Booted,
       Reread, Resuming
  <2>10. Fact(l, r, saved[r.id])
    BY <2>3, <2>9
  <2> QED
    BY <1>1, <2>3, <2>4, <2>5, <2>7, <2>10, PassStep, ContentsSame DEF host
<1> QED
  BY <1>3, <1>4 DEF ContinueCheck

LEMMA ContinueEvidence ==
  ASSUME OneCacheRoot, TypeOK, EvidenceInv, NEW p \in Procs,
         \/ ResumeTransport(p) \/ Resumed(p) \/ WriteReconciled(p) \/ ContinueBind(p) \/ ContinueVerify(p)
         \/ Attach(p) \/ PendingBooted(p) \/ ContinueReadback(p) \/ ContinueFeatures(p)
         \/ RepairSelect(p) \/ RepairReboot(p) \/ RepairWait(p) \/ RepairBooted(p)
  PROVE  EvidenceInv'
<1> USE DEF At
<1> DEFINE i == run[p].id
           d == run[p].dev
           st == saved[i]
<1>1. pc[p] \in {"co_resume", "co_resuming", "co_handoff", "co_bind", "co_verify", "co_attach", "co_booting",
                 "co_readback", "co_features", "re_select", "re_reboot", "re_wait", "re_await"}
  BY DEF ResumeTransport, Resumed, WriteReconciled, ContinueBind, ContinueVerify, Attach, PendingBooted,
         ContinueReadback, ContinueFeatures, RepairSelect, RepairReboot, RepairWait, RepairBooted
<1>2. /\ pc[p] # "idle" /\ run[p] \in Run /\ i \in Ids /\ st \in State \cup {None}
      /\ Fact(pc[p], run[p], st) /\ Evidence(i, st)
  BY <1>1, Known
<1>3. pc[p] \in Resuming => run[p].st \in State /\ run[p].st.phase \in Phases
  BY <1>2 DEF Fact, Reread, Run, State
<1>4. CASE Fail(p)
  BY <1>2, <1>4, FailedStep
<1>5. ASSUME NEW l \in {"co_attach", "co_resuming", "co_booting", "re_wait", "re_format", "readback"},
             Stay(p, l), UNCHANGED host, UNCHANGED units \/ \E e, m : Move(e, m),
             l \in {"co_attach", "co_resuming", "co_booting"} => pc[p] \in Resuming \cap After,
             l = "re_wait" => pc[p] = "re_reboot", l = "re_format" => pc[p] = "re_wait",
             l = "readback" => pc[p] = "re_await"
      PROVE  EvidenceInv'
  <2>1. Fact(l, run[p], st)
    BY <1>2, <1>5 DEF Fact, Before, Binding, After, Unflashed, Repairing, Finishing, Fresh, Booted, Reread,
       Resuming
  <2> QED
    BY <1>2, <1>5, <2>1, MoveOnStep
<1>6. CASE ResumeTransport(p)
  BY <1>4, <1>5, <1>6 DEF ResumeTransport, Resuming, After
<1>7. CASE Resumed(p)
  BY <1>5, <1>7 DEF Resumed, Resuming, After
<1>8. CASE WriteReconciled(p)
  <2>1. PICK s : s = [run[p].st EXCEPT !.phase = "AMONET_HANDOFF", !.dev = run[p].dev]
    OBVIOUS
  <2>2. /\ d \in Devices /\ run[p].st \in State /\ run[p].st.rel = run[p].rel
        /\ (st = run[p].st \/ st = [run[p].st EXCEPT !.dev = d]) /\ pc[p] = "co_handoff"
    BY <1>2, <1>3, <1>8 DEF WriteReconciled, Fact, Reread, Resuming
  <2>3. s \in State /\ s.phase = "AMONET_HANDOFF" /\ s.dev = d /\ s.rel = run[p].rel
    BY <2>1, <2>2 DEF State, Phases
  <2>4. s # None
    BY <2>3, ConstantsOK
  <2>5. s.phase \notin Flashed /\ ~s.fmt
    <3>1. st # None
      BY <2>2, ConstantsOK DEF State
    <3>2. ~st.fmt
      BY <1>2, <2>2, <3>1 DEF Fact, Before
    <3>3. s.fmt = st.fmt
      BY <2>1, <2>2 DEF State
    <3> QED
      BY <2>3, <3>2, <3>3 DEF Flashed, Staged
  <2>6. PICK r : r = [run[p] EXCEPT !.st = s]
    OBVIOUS
  <2>7. r \in Run /\ r.id = i /\ r.dev = d /\ r.rel = run[p].rel /\ r.st = s
    BY <1>2, <2>3, <2>6 DEF Run
  <2>8. /\ run' = [run EXCEPT ![p] = r] /\ Goto(p, "co_bind") /\ UNCHANGED <<lock, units>> /\ Save(p, s)
    BY <1>8, <2>1, <2>6 DEF WriteReconciled
  <2>9. Evidence(r.id, s)
    BY <2>5 DEF Evidence
  <2>10. Fact("co_bind", r, s)
    BY <2>2, <2>3, <2>4, <2>5, <2>7 DEF Fact, Before, Binding, After, Unflashed, Repairing, Finishing, Fresh,
       Booted, Reread, Resuming
  <2> QED
    BY <1>2, <2>3, <2>7, <2>8, <2>9, <2>10, SaveStep
<1>9. CASE ContinueBind(p)
  BY <1>3, <1>9, BoundStep DEF ContinueBind, Resuming, Unflashed
<1>10. CASE ContinueVerify(p)
  <2>1. ASSUME NEW l, l = (IF run[p].st.fmt THEN "format_done" ELSE "format"), Stay(p, l),
               UNCHANGED <<host, units>>
        PROVE  EvidenceInv'
    <3>1. /\ pc[p] = "co_verify" /\ d \in Devices /\ run[p].st \in State /\ st # None /\ st.dev = d
          /\ st.fmt = run[p].st.fmt
      BY <1>2, <1>3, <1>10 DEF ContinueVerify, Fact, Binding, Reread, Resuming, State
    <3>2. st.fmt => (Own(i, d) => dev[d].udata = "formatted")
      BY <1>2, <3>1 DEF Evidence
    <3>3. Fact(l, run[p], st)
      BY <1>2, <2>1, <3>1, <3>2 DEF Fact, Before, Binding, After, Unflashed, Repairing, Finishing, Fresh,
         Booted, Reread, Resuming
    <3> QED
      BY <1>2, <2>1, <3>3, MoveOnStep
  <2> QED
    BY <1>4, <1>10, <2>1 DEF ContinueVerify
<1>11. CASE Attach(p)
  <2>1. CASE Stay(p, "co_booting") /\ Move(d, "booting") /\ UNCHANGED host
    BY <1>5, <1>11, <2>1 DEF Attach, Resuming, After
  <2>2. CASE SaveBound(p, run[p].st.phase) /\ Stay(p, "co_readback") /\ UNCHANGED units
    BY <1>3, <1>11, <2>2, BoundStep DEF Attach, Resuming, After
  <2> QED
    BY <1>4, <1>11, <2>1, <2>2 DEF Attach
<1>12. CASE PendingBooted(p)
  BY <1>3, <1>12, BoundStep DEF PendingBooted, Resuming, After
<1>13. CASE ContinueReadback(p)
  <2>1. CASE ~Fail(p)
    <3>1. PICK ph \in Phases, l \in {"stage", "co_features"} :
            /\ SaveBound(p, ph) /\ Stay(p, l) /\ UNCHANGED units /\ ReadbackOk(p)
            /\ \/ l = "co_features" /\ ph = run[p].st.phase /\ ph \in Staged
               \/ l = "stage" /\ ph = "READBACK_VERIFIED" /\ ph \notin Staged
      BY <1>3, <1>13, <2>1 DEF ContinueReadback, Resuming, Staged, Phases
    <3>2. pc[p] = "co_readback"
      BY <1>13 DEF ContinueReadback
    <3> QED
      BY <3>1, <3>2, BoundStep DEF Resuming, After
  <2> QED
    BY <1>4, <2>1
<1>14. CASE ContinueFeatures(p)
  <2>1. CASE Stay(p, "finish") /\ UNCHANGED <<host, units>>
    <3>1. Fact("finish", run[p], st)
      BY <1>2, <1>14, <2>1 DEF ContinueFeatures, Fact, Before, Binding, After, Unflashed, Repairing, Finishing,
         Fresh, Booted, Reread, Resuming
    <3> QED
      BY <1>2, <2>1, <3>1, MoveOnStep
  <2>2. CASE Stay(p, "staged") /\ UNCHANGED <<host, units>> /\ dev[d].feat = run[p].rel
    <3>1. Fact("staged", run[p], st)
      BY <1>2, <1>14, <2>2 DEF ContinueFeatures, Fact, Before, Binding, After, Unflashed, Repairing, Finishing,
         Fresh, Booted, Reread, Resuming
    <3> QED
      BY <1>2, <2>2, <3>1, MoveOnStep
  <2> QED
    BY <1>4, <1>14, <2>1, <2>2 DEF ContinueFeatures
<1>15. CASE RepairSelect(p)
  <2>1. CASE SaveBound(p, run[p].st.phase) /\ Stay(p, "re_reboot") /\ UNCHANGED units
    BY <1>3, <1>15, <2>1, BoundStep DEF RepairSelect, Resuming, Repairing, Before
  <2> QED
    BY <1>4, <1>15, <2>1 DEF RepairSelect
<1>16. CASE RepairReboot(p)
  BY <1>4, <1>5, <1>16 DEF RepairReboot
<1>17. CASE RepairWait(p)
  BY <1>5, <1>17 DEF RepairWait
<1>18. CASE RepairBooted(p)
  BY <1>5, <1>18 DEF RepairBooted
<1> QED
  BY <1>6, <1>7, <1>8, <1>9, <1>10, <1>11, <1>12, <1>13, <1>14, <1>15, <1>16, <1>17, <1>18

-----------------------------------------------------------------------------
(* Every step *)

LEMMA EvidenceStep ==
  ASSUME OneCacheRoot, TypeOK, EvidenceInv, NEW p \in Procs, Step(p) \/ Timeout(p) \/ Abort(p)
  PROVE  EvidenceInv'
<1>1. CASE Timeout(p) \/ Abort(p)
  BY <1>1, FailedStep DEF Timeout, Abort, At
<1>2. CASE BrickStep(p)
  BY <1>2, BrickEvidence
<1>3. CASE OneShotStep(p)
  BY <1>3, OpeningEvidence, FormatEvidence, RebootEvidence, FlashEvidence, TransactEvidence DEF OneShotStep
<1>4. CASE FinishStep(p)
  BY <1>4, FinishEvidence, TransactEvidence DEF FinishStep
<1>5. CASE ContinueStep(p)
  BY <1>5, ReadEvidence, ContinueEvidence, FormatEvidence, RebootEvidence, TransactEvidence DEF ContinueStep
<1> QED
  BY <1>1, <1>2, <1>3, <1>4, <1>5 DEF Step

\* A new run knows nothing yet.
LEMMA CommandEvidence ==
  ASSUME OneCacheRoot, TypeOK, EvidenceInv, NEW p \in Procs, Command(p)
  PROVE  EvidenceInv'
<1>1. Locked' /\ UNCHANGED <<host, units>>
  BY CommandAlone DEF EvidenceInv, Command, OneShot, ContinueOneShot, Install, Begin
<1>2. PICK l \in {"os_check", "co_check", "install"} :
        Goto(p, l) /\ \E v : run' = [run EXCEPT ![p] = v] /\ v.st = None
  <2>1. ASSUME NEW l \in {"os_check", "co_check", "install"}, NEW i, NEW r, NEW req, NEW target, NEW flag,
               Begin(p, l, i, r, req, target, flag)
        PROVE  Goto(p, l) /\ \E v : run' = [run EXCEPT ![p] = v] /\ v.st = None
    <3> DEFINE v == [id |-> i, rel |-> r, req |-> req, target |-> target, flag |-> flag,
                     again |-> FALSE, dev |-> None, st |-> None, reboot |-> FALSE, out |-> "web"]
    <3>1. v.st = None
      OBVIOUS
    <3>2. Goto(p, l) /\ run' = [run EXCEPT ![p] = v]
      BY <2>1 DEF Begin
    <3> HIDE DEF v
    <3> QED
      BY <3>1, <3>2
  <2> QED
    BY <2>1 DEF Command, OneShot, ContinueOneShot, Install
<1>3. Files'
  BY <1>1, FilesFrame, ContentsSame DEF EvidenceInv, TypeOK, host
<1>4. ASSUME NEW q \in Procs, pc'[q] # "idle"
      PROVE  Fact(pc[q], run[q], saved[run[q].id])'
  <2>1. CASE q = p
    <3>1. pc'[p] = l /\ run'[p].st = None
      BY <1>2 DEF Goto, TypeOK, ProcsOK
    <3> QED
      BY <2>1, <3>1 DEF Fact, Before, Binding, After, Unflashed, Repairing, Finishing, Fresh, Booted, Reread,
         Resuming
  <2>2. CASE q # p
    <3>1. pc'[q] = pc[q] /\ run'[q] = run[q]
      BY <1>2, <2>2 DEF Goto, TypeOK, ProcsOK
    <3>2. PICK m, r, st : m = pc[q] /\ r = run[q] /\ st = saved[run[q].id]
      OBVIOUS
    <3>3. Fact(m, r, st)
      BY <1>4, <3>1, <3>2 DEF EvidenceInv
    <3>4. Fact(m, r, st)'
      BY <1>1, <3>3, FactFrame, UnitsContents
    <3> QED
      BY <1>1, <3>1, <3>2, <3>4 DEF host
  <2> QED
    BY <2>1, <2>2
<1> QED
  BY <1>1, <1>3, <1>4 DEF EvidenceInv

\* What the world does to units is not what files speak of.
LEMMA WorldEvidence ==
  ASSUME TypeOK, EvidenceInv, UNCHANGED <<host, lock, pc, run>>, SameContents
  PROVE  EvidenceInv'
<1>1. Files'
  BY FilesFrame DEF EvidenceInv, TypeOK, host
<1>2. ASSUME NEW q \in Procs, pc'[q] # "idle"
      PROVE  Fact(pc[q], run[q], saved[run[q].id])'
  <2>1. PICK m, r, st : m = pc[q] /\ r = run[q] /\ st = saved[run[q].id]
    OBVIOUS
  <2>2. Fact(m, r, st)'
    BY <1>2, <2>1, FactFrame DEF EvidenceInv
  <2> QED
    BY <2>1, <2>2 DEF host
<1>3. Locked'
  BY DEF EvidenceInv, Locked
<1> QED
  BY <1>1, <1>2, <1>3 DEF EvidenceInv

LEMMA WorldContents ==
  ASSUME TypeOK, NEW d \in Devices, World(d)
  PROVE  SameContents
<1>1. dev[d] \in Device
  BY DEF TypeOK, UnitsOK
<1>2. CASE \E m : Move(d, m)
  BY <1>2, ContentsSame
<1>3. CASE BootUp(d)
  <2>1. PICK v : /\ dev' = [dev EXCEPT ![d] = v] /\ UNCHANGED writers
                 /\ v.udata = dev[d].udata /\ v.boot = dev[d].boot /\ v.feat = dev[d].feat /\ v.gen = dev[d].gen
    <3>1. PICK v : /\ dev' = [dev EXCEPT ![d] = v] /\ UNCHANGED writers
                   /\ \/ v = Moved(d, "off")
                      \/ \E g, s : v = [dev[d] EXCEPT !.mode = "system", !.live = g, !.prov = s]
      BY <1>3 DEF BootUp
    <3>2. v.udata = dev[d].udata /\ v.boot = dev[d].boot /\ v.feat = dev[d].feat /\ v.gen = dev[d].gen
      BY <1>1, <3>1 DEF Moved, Device
    <3> QED
      BY <3>1, <3>2
  <2> QED
    BY <2>1 DEF SameContents, TypeOK, UnitsOK
<1>4. CASE FinishWebSetup(d)
  BY <1>1, <1>4 DEF FinishWebSetup, SameContents, TypeOK, UnitsOK, Device
<1> QED
  BY <1>2, <1>3, <1>4 DEF World, FastbootUp, Operate

LEMMA EvidenceInit ==
  ASSUME EarlyFits, Init
  PROVE  EvidenceInv
<1>1. PICK o \in Origins : saved = o[1] /\ dev = o[2]
  BY DEF Init
<1>2. ASSUME NEW i \in Ids PROVE Evidence(i, saved[i])
  BY <1>1, <1>2 DEF EarlyFits, Evidence
<1> QED
  BY <1>2 DEF Init, EvidenceInv, Files, Locked

LEMMA EvidenceNext ==
  ASSUME OneCacheRoot, TypeOK, EvidenceInv, [Next]_vars
  PROVE  EvidenceInv'
<1>1. ASSUME NEW p \in Procs, Command(p) PROVE EvidenceInv'
  BY <1>1, CommandEvidence
<1>2. ASSUME NEW p \in Procs, Step(p) \/ Timeout(p) \/ Abort(p) PROVE EvidenceInv'
  BY <1>2, EvidenceStep
<1>3. ASSUME NEW d \in Devices, World(d) PROVE EvidenceInv'
  BY <1>3, WorldContents, WorldEvidence DEF World
<1>4. CASE BecomeCalm \/ UNCHANGED vars
  BY <1>4, WorldEvidence, ContentsSame DEF BecomeCalm, vars, host, units
<1> QED
  BY <1>1, <1>2, <1>3, <1>4 DEF Next

\* The evidence in a state file never runs ahead of the unit it is bound to (write_state after
\* each transport step, continue_one_shot's writes from what it read), for any number of units,
\* ids, releases and runs under one cache root, whatever failed or crashed since.
THEOREM EvidenceKept ==
  ASSUME OneCacheRoot, EarlyFits
  PROVE  Spec => []EvidenceSound
<1>1. Init => EvidenceInv
  BY EvidenceInit
<1>2. TypeOK /\ EvidenceInv /\ [Next]_vars => EvidenceInv'
  BY EvidenceNext
<1>3. TypeOK /\ EvidenceInv => EvidenceSound
  BY DEF EvidenceInv, Files, Evidence, EvidenceSound, Own, TypeOK, HostOK, State
<1> QED
  BY <1>1, <1>2, <1>3, TypeCorrect, PTL DEF Spec

=============================================================================
