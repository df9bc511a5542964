--------------------------- MODULE InstallerProofs ---------------------------
(***************************************************************************)
(* Proofs about Installer, for any number of units, install ids, releases   *)
(* and invocations: its type invariant, and the promises about the brick    *)
(* payload.  Among invocations that share one cache root a unit is never    *)
(* sent it twice, no unlocked or converted unit is, and, without the        *)
(* command install, an unresolved brick is never forgotten.                 *)
(***************************************************************************)
EXTENDS Installer, TLAPS

-----------------------------------------------------------------------------
(* What the building blocks of the actions preserve *)

\* A run that is not idle stays well formed when only its label moves.
LEMMA StayOK ==
  ASSUME ProcsOK, NEW p \in Procs, NEW l \in Labels, pc[p] # "idle", Stay(p, l),
         l \in Bricking => run[p].dev \in Devices, l \in Resuming => run[p].st # None,
         pc[p] # "install", l # "install"
  PROVE  ProcsOK'
BY DEF ProcsOK, RunOK, Stay, Goto

\* A run that ends leaves the lock and its locals behind.
LEMMA LeaveOK ==
  ASSUME ProcsOK, NEW p \in Procs, Leave(p)
  PROVE  ProcsOK'
BY DEF ProcsOK, RunOK, Leave, Labels

\* A run that moves on with new locals.
LEMMA GotoOK ==
  ASSUME ProcsOK, NEW p \in Procs, NEW l \in Labels, NEW v \in Run,
         Goto(p, l), run' = [run EXCEPT ![p] = v],
         UNCHANGED lock \/ lock' = [lock EXCEPT ![CacheOf[p]] = p],
         l \in Bricking => v.dev \in Devices, l \in Resuming => v.st # None,
         l # "install" => v.target \in Explicit
  PROVE  ProcsOK'
BY DEF ProcsOK, RunOK, Goto

\* A device gets a new value.
LEMMA UnitOK ==
  ASSUME UnitsOK, NEW d, NEW v, d \in Devices => v \in Device,
         dev' = [dev EXCEPT ![d] = v],
         bricks' \in [Devices -> Nat], writers' \in [Devices -> SUBSET Ids]
  PROVE  UnitsOK'
BY DEF UnitsOK

\* Values of a device.
LEMMA WipedOK ==
  ASSUME NEW x \in Device, NEW u \in {"formatted", "torn"}
  PROVE  [[x EXCEPT !.feat = "none", !.gen = None, !.prov = "none"] EXCEPT !.udata = u] \in Device
BY ZenonT(60) DEF Device

LEMMA UpOK ==
  ASSUME NEW x \in Device, NEW g \in Releases \cup {None}, NEW s \in {"none", "pending", "done"}
  PROVE  [x EXCEPT !.mode = "system", !.live = g, !.prov = s] \in Device
<1>1. [x EXCEPT !.mode = "system"] \in Device
  BY DEF Device
<1>2. \A y \in Device : [y EXCEPT !.live = g] \in Device
  BY DEF Device
<1>3. \A y \in Device : [y EXCEPT !.prov = s] \in Device
  BY DEF Device
<1>4. [[[x EXCEPT !.mode = "system"] EXCEPT !.live = g] EXCEPT !.prov = s] \in Device
  BY <1>1, <1>2, <1>3
<1> QED
  BY <1>4

LEMMA MovedOK ==
  ASSUME UnitsOK, NEW d \in Devices,
         NEW m \in {"off", "toFastboot", "fastboot", "recovery", "booting", "system"}
  PROVE  Moved(d, m) \in Device
<1>1. dev[d] \in Device
  BY DEF UnitsOK
<1>2. [dev[d] EXCEPT !.mode = m] \in Device
  BY <1>1 DEF Device
<1> QED
  BY <1>2 DEF Moved, Device

LEMMA MoveOK ==
  ASSUME UnitsOK, NEW d, NEW m \in {"off", "toFastboot", "fastboot", "recovery", "booting", "system"},
         Move(d, m)
  PROVE  UnitsOK'
BY MovedOK, UnitOK DEF Move, UnitsOK

LEMMA WriteOK ==
  ASSUME UnitsOK, NEW p \in Procs, RunOK(p), NEW d, NEW v, d \in Devices => v \in Device,
         Write(p, d, v)
  PROVE  UnitsOK'
<1>1. run[p].id \in Ids
  BY DEF RunOK, Run
<1>2. writers' \in [Devices -> SUBSET Ids]
  BY <1>1 DEF Write, UnitsOK
<1> QED
  BY <1>2, UnitOK DEF Write, UnitsOK

\* The state a run starts a write from, and a state write.
LEMMA CarryOK ==
  ASSUME HostOK, NEW p \in Procs, RunOK(p)
  PROVE  Carry(p) \in State /\ Blank(run[p].rel) \in State
BY DEF HostOK, RunOK, Run, Carry, Blank, State, Phases

LEMMA SaveOK ==
  ASSUME HostOK, NEW p \in Procs, NEW s \in State, Save(p, s)
  PROVE  HostOK'
BY DEF HostOK, Save

LEMMA SavePhaseOK ==
  ASSUME HostOK, NEW p \in Procs, RunOK(p), NEW ph \in Phases, SavePhase(p, ph)
  PROVE  HostOK'
<1>1. [Carry(p) EXCEPT !.phase = ph] \in State
  BY CarryOK DEF State
<1> QED
  BY <1>1, SaveOK DEF SavePhase

LEMMA SaveBoundOK ==
  ASSUME HostOK, NEW p \in Procs, RunOK(p), run[p].st # None, NEW ph \in Phases, SaveBound(p, ph)
  PROVE  HostOK'
<1>1. [run[p].st EXCEPT !.phase = ph, !.dev = run[p].dev] \in State
  BY DEF RunOK, Run, State
<1> QED
  BY <1>1, SaveOK DEF SaveBound

-----------------------------------------------------------------------------
(* What each step preserves *)

Core == HostOK /\ UnitsOK /\ ProcsOK

LEMMA FrameOK ==
  /\ HostOK /\ UNCHANGED host => HostOK'
  /\ UnitsOK /\ UNCHANGED units => UnitsOK'
BY DEF host, units, HostOK, UnitsOK

LEMMA FailOK ==
  ASSUME Core, NEW p \in Procs, Fail(p)
  PROVE  Core'
BY FrameOK, LeaveOK DEF Core, Fail

\* The run that takes a step has its locals.
LEMMA Alive ==
  ASSUME Core, NEW p \in Procs, pc[p] # "idle"
  PROVE  RunOK(p) /\ run[p] \in Run
BY DEF Core, ProcsOK, RunOK

LEMMA BrickStepOK ==
  ASSUME Core, NEW p \in Procs, BrickStep(p)
  PROVE  Core'
<1> USE DEF At
<1>1. CASE ClaimCheck(p)
  BY <1>1, FailOK, FrameOK, StayOK, Alive DEF Core, ClaimCheck, Labels, Resuming, Bricking, RunOK
<1>2. CASE ClaimWrite(p)
  <2>1. pc[p] = "claim_write" /\ run[p].dev \in Devices /\ run[p].rel \in Releases
    BY <1>2, Alive DEF ClaimWrite, RunOK, Bricking, Run
  <2>2. HostOK'
    BY <1>2, <2>1, ConstantsOK DEF Core, HostOK, ClaimWrite, Latch
  <2>3. UnitsOK'
    BY <1>2 DEF ClaimWrite, Core, units, UnitsOK
  <2>4. ProcsOK'
    BY <1>2, <2>1, StayOK DEF ClaimWrite, Core, Labels, Resuming
  <2> QED
    BY <2>2, <2>3, <2>4 DEF Core
<1>3. CASE SubmitBrick(p)
  <2>1. pc[p] = "submit" /\ run[p].dev \in Devices /\ run[p].rel \in Releases
    BY <1>3, Alive DEF SubmitBrick, RunOK, Bricking, Run
  <2>2. [phase |-> "BRICK_SUBMITTED", rel |-> run[p].rel, fmt |-> FALSE, dev |-> run[p].dev] \in State
    BY <2>1 DEF State, Phases
  <2> QED
    BY <1>3, <2>1, <2>2, SaveOK, FrameOK, StayOK DEF Core, SubmitBrick, Labels, Resuming
<1>4. CASE SendBrick(p)
  <2> DEFINE d == run[p].dev
  <2>1. pc[p] = "send" /\ d \in Devices /\ dev[d] \in Device
    BY <1>4, Alive DEF SendBrick, RunOK, Bricking, Core, UnitsOK
  <2>2. \A m \in {"off", "toFastboot", "recovery"} : Moved(d, m) \in Device
    BY <2>1, MovedOK DEF Core
  <2>3. BrickEffect(d) \subseteq Device
    <3>1. ASSUME NEW m \in {"off", "toFastboot", "recovery"}, NEW c \in {"unlocked", "destroyed"}
          PROVE  [Moved(d, m) EXCEPT !.chain = c] \in Device
      BY <2>2 DEF Device
    <3> QED
      BY <2>1, <3>1 DEF BrickEffect
  <2>4. UnitsOK'
    BY <1>4, <2>1, <2>3 DEF SendBrick, Core, UnitsOK
  <2>5. ProcsOK'
    BY <1>4, <2>1, StayOK, LeaveOK DEF SendBrick, Core, Labels, Resuming, Bricking
  <2>6. HostOK'
    BY <1>4 DEF SendBrick, Core, host, HostOK
  <2> QED
    BY <2>4, <2>5, <2>6 DEF Core
<1>5. CASE Reconcile(p)
  <2>1. pc[p] \in {"reconcile", "reconciling"} /\ UNCHANGED host
    BY <1>5 DEF Reconcile
  <2>2. UnitsOK'
    BY <1>5, FrameOK, MoveOK DEF Reconcile, Core
  <2>3. ProcsOK'
    BY <1>5, <2>1, StayOK DEF Reconcile, Core, Labels, Resuming, Bricking
  <2> QED
    BY <2>1, <2>2, <2>3, FrameOK DEF Core
<1>6. CASE WriteHandoff(p)
  <2>1. pc[p] = "handoff" /\ RunOK(p)
    BY <1>6, Alive DEF WriteHandoff
  <2>2. Carry(p) \in State /\ run[p].dev \in Devices \cup {None}
    BY <2>1, CarryOK DEF Core, RunOK, Run
  <2>3. [Carry(p) EXCEPT !.phase = "AMONET_HANDOFF", !.dev = run[p].dev] \in State
    BY <2>2 DEF State, Phases
  <2> QED
    BY <1>6, <2>1, <2>3, SaveOK, FrameOK, StayOK DEF Core, WriteHandoff, Labels, Resuming, Bricking
<1> QED
  BY <1>1, <1>2, <1>3, <1>4, <1>5, <1>6 DEF BrickStep

\* A step that saves a phase of the run's transaction and goes on.
LEMMA PhaseStepOK ==
  ASSUME Core, NEW p \in Procs, NEW ph \in Phases, NEW l \in Labels \ (Bricking \cup Resuming),
         pc[p] \notin {"idle", "install"}, l # "install",
         SavePhase(p, ph), Stay(p, l), UNCHANGED units
  PROVE  Core'
BY Alive, SavePhaseOK, StayOK, FrameOK DEF Core

\* A step that only goes on.
LEMMA GoOnOK ==
  ASSUME Core, NEW p \in Procs, NEW l \in Labels \ (Bricking \cup Resuming),
         pc[p] \notin {"idle", "install"}, l # "install", Stay(p, l), UNCHANGED <<host, units>>
  PROVE  Core'
BY StayOK, FrameOK DEF Core

\* The format and the flash of both slots, and the reboot out of fastboot.
LEMMA FormatOK ==
  ASSUME Core, NEW p \in Procs, NEW from, NEW to \in Labels \ (Bricking \cup Resuming),
         from \notin {"idle", "install"}, to # "install", Format(p, from, to)
  PROVE  Core'
<1> DEFINE d == run[p].dev
           v(u) == [[dev[d] EXCEPT !.feat = "none", !.gen = None, !.prov = "none"] EXCEPT !.udata = u]
<1>1. CASE Fail(p)
  BY <1>1, FailOK
<1>2. CASE UNCHANGED host /\ (\/ Write(p, d, v("formatted")) /\ Stay(p, to)
                              \/ Write(p, d, v("torn")) /\ Leave(p))
  <2>1. pc[p] = from /\ RunOK(p)
    BY Alive DEF Format, At
  <2>2. ASSUME d \in Devices, NEW u \in {"formatted", "torn"}
        PROVE  v(u) \in Device
    <3>1. dev[d] \in Device
      BY <2>2 DEF Core, UnitsOK
    <3> QED
      BY <3>1, WipedOK
  <2>3. UnitsOK'
    BY <1>2, <2>1, <2>2, WriteOK DEF Core
  <2>4. ProcsOK'
    BY <1>2, <2>1, StayOK, LeaveOK DEF Core
  <2> QED
    BY <1>2, <2>3, <2>4, FrameOK DEF Core
<1> QED
  BY <1>1, <1>2 DEF Format

LEMMA SaveFormattedOK ==
  ASSUME HostOK, NEW p \in Procs, RunOK(p), NEW ph \in Phases, SaveFormatted(p, ph)
  PROVE  HostOK'
<1>1. [Carry(p) EXCEPT !.phase = ph, !.fmt = TRUE] \in State
  BY CarryOK DEF State
<1> QED
  BY <1>1, SaveOK DEF SaveFormatted

LEMMA RebootOK ==
  ASSUME Core, NEW p \in Procs, NEW from, NEW to \in Labels \ (Bricking \cup Resuming),
         from \notin {"idle", "install"}, to # "install", RebootInstalled(p, from, to)
  PROVE  Core'
BY MoveOK, StayOK, FrameOK DEF RebootInstalled, At, Core

LEMMA OneShotStepOK ==
  ASSUME Core, NEW p \in Procs, OneShotStep(p)
  PROVE  Core'
<1> USE DEF At
<1> DEFINE d == run[p].dev
<1>1. CASE InstallReady(p)
  BY <1>1, Alive, CarryOK, SaveOK, LeaveOK, FrameOK DEF InstallReady, Core
<1>2. CASE OneShotCheck(p)
  <2> DEFINE st == saved[run[p].id]
             again == [run EXCEPT ![p].again = TRUE,
                         ![p].req = IF @ = AutoSerial /\ st.dev # None THEN st.dev ELSE @]
             archived == /\ st # None /\ ArchiveState(p, st) /\ run' = again
                         /\ Goto(p, "enter") /\ UNCHANGED <<lock, units>>
             label == IF run[p].flag THEN "enter" ELSE "ready"
  <2>1. pc[p] = "os_check" /\ run[p] \in Run /\ run[p].target \in Explicit
    BY <1>2, Alive DEF OneShotCheck, RunOK
  <2>2. CASE Fail(p)
    BY <2>2, FailOK
  <2>3. CASE (Stay(p, "enter") \/ Stay(p, "ready")) /\ UNCHANGED <<host, units>>
    BY <2>1, <2>3, GoOnOK DEF Labels, Bricking, Resuming
  <2>4. CASE archived
    <3> DEFINE v == [run[p] EXCEPT !.again = TRUE,
                       !.req = IF @ = AutoSerial /\ st.dev # None THEN st.dev ELSE @]
    <3>1. run[p].id \in Ids /\ st \in State
      BY <2>1, <2>4 DEF Run, Core, HostOK
    <3>2. st.dev \in Devices \cup {None}
      BY <3>1 DEF State
    <3>3. HostOK'
      BY <2>4, <3>1, <3>2 DEF ArchiveState, Core, HostOK
    <3>4. v \in Run /\ v.target = run[p].target
      BY <2>1, <3>2 DEF Run
    <3>5. run' = [run EXCEPT ![p] = v]
      BY <2>1, <2>4 DEF Core, ProcsOK
    <3> HIDE DEF v
    <3>6. Goto(p, "enter") /\ UNCHANGED lock
      BY <2>4
    <3>7. ProcsOK'
      BY <2>1, <3>4, <3>5, <3>6, GotoOK DEF Core, Labels, Bricking, Resuming
    <3> QED
      BY <2>4, <3>3, <3>7, FrameOK DEF Core
  <2>5. Fail(p) \/ (Stay(p, label) /\ UNCHANGED <<host, units>>) \/ archived
    BY <1>2 DEF OneShotCheck
  <2>6. Stay(p, label) => Stay(p, "enter") \/ Stay(p, "ready")
    BY DEF Stay, Goto
  <2> HIDE DEF label, archived
  <2> QED
    BY <2>2, <2>3, <2>4, <2>5, <2>6
<1>3. CASE EnterFastboot(p)
  <2>1. pc[p] = "enter" /\ run[p] \in Run /\ run[p].target \in Explicit
    BY <1>3, Alive DEF EnterFastboot, RunOK
  <2>2. CASE Fail(p)
    BY <2>2, FailOK
  <2>3. CASE Stay(p, "ready") /\ UNCHANGED <<host, units>>
    BY <2>1, <2>3, GoOnOK DEF Labels, Bricking, Resuming
  <2>4. CASE \E e \in Devices : /\ Move(e, "toFastboot") /\ run' = [run EXCEPT ![p].dev = e]
                               /\ Goto(p, "entering") /\ UNCHANGED <<lock, host>>
    <3>1. PICK e \in Devices : /\ Move(e, "toFastboot") /\ run' = [run EXCEPT ![p].dev = e]
                              /\ Goto(p, "entering") /\ UNCHANGED <<lock, host>>
      BY <2>4
    <3> DEFINE v == [run[p] EXCEPT !.dev = e]
    <3>2. v \in Run /\ v.target = run[p].target
      BY <2>1 DEF Run
    <3>3. run' = [run EXCEPT ![p] = v]
      BY <2>1, <3>1 DEF Core, ProcsOK
    <3>4. ProcsOK'
      BY <2>1, <3>1, <3>2, <3>3, GotoOK DEF Core, Labels, Bricking, Resuming
    <3> QED
      BY <3>1, <3>4, MoveOK, FrameOK DEF Core
  <2> QED
    BY <1>3, <2>2, <2>3, <2>4 DEF EnterFastboot, Select, InAdb
<1>4. CASE EnteringFastboot(p)
  BY <1>4, GoOnOK DEF EnteringFastboot, Labels, Bricking, Resuming
<1>5. CASE WriteReady(p)
  BY <1>5, Alive, CarryOK, SaveOK, StayOK, FrameOK DEF WriteReady, Core, Labels, Bricking, Resuming
<1>6. CASE SelectDevice(p)
  <2>1. pc[p] = "select" /\ run[p] \in Run /\ run[p].target \in Explicit
    BY <1>6, Alive DEF SelectDevice, RunOK
  <2>2. CASE Fail(p)
    BY <2>2, FailOK
  <2>3. CASE \E e \in Devices, l \in {"claim_check", "handoff"} :
               run' = [run EXCEPT ![p].dev = e] /\ Goto(p, l) /\ UNCHANGED <<lock, host, units>>
    <3>1. PICK e \in Devices, l \in {"claim_check", "handoff"} :
               run' = [run EXCEPT ![p].dev = e] /\ Goto(p, l) /\ UNCHANGED <<lock, host, units>>
      BY <2>3
    <3> DEFINE v == [run[p] EXCEPT !.dev = e]
    <3>2. v \in Run /\ v.target = run[p].target /\ v.dev = e
      BY <2>1 DEF Run
    <3>3. run' = [run EXCEPT ![p] = v]
      BY <2>1, <3>1 DEF Core, ProcsOK
    <3>4. l \in Labels \ Resuming /\ l # "install"
      BY DEF Labels, Resuming
    <3> HIDE DEF v
    <3>5. ProcsOK'
      BY <2>1, <3>1, <3>2, <3>3, <3>4, GotoOK DEF Core
    <3> QED
      BY <3>1, <3>5, FrameOK DEF Core
  <2> QED
    BY <1>6, <2>2, <2>3 DEF SelectDevice, Select, InFastboot
<1>7. CASE BindDevice(p)
  <2>1. pc[p] = "bind" /\ RunOK(p) /\ run[p] \in Run /\ run[p].target \in Explicit
    BY <1>7, Alive DEF BindDevice, RunOK
  <2>2. PICK e \in Devices :
          /\ Save(p, [Carry(p) EXCEPT !.phase = "AMONET_HANDOFF", !.fmt = FALSE, !.dev = e])
          /\ run' = [run EXCEPT ![p].dev = e]
    BY <1>7 DEF BindDevice, Select, InFastboot
  <2> DEFINE v == [run[p] EXCEPT !.dev = e]
  <2>3. v \in Run /\ v.target = run[p].target
    BY <2>1 DEF Run
  <2>4. run' = [run EXCEPT ![p] = v]
    BY <2>1, <2>2 DEF Core, ProcsOK
  <2>5. ProcsOK'
    BY <1>7, <2>1, <2>3, <2>4, GotoOK DEF BindDevice, Core, Labels, Bricking, Resuming
  <2>6. Carry(p) \in State
    BY <2>1, CarryOK DEF Core
  <2>7. [Carry(p) EXCEPT !.phase = "AMONET_HANDOFF", !.fmt = FALSE, !.dev = e] \in State
    BY <2>6 DEF State, Phases
  <2> QED
    BY <1>7, <2>2, <2>5, <2>7, SaveOK, FrameOK DEF BindDevice, Core
<1>8. CASE Format(p, "format", "format_done")
  BY <1>8, FormatOK DEF Labels, Bricking, Resuming
<1>9. CASE RecordFormat(p)
  BY <1>9, SaveFormattedOK, StayOK, FrameOK, Alive DEF RecordFormat, Core, Labels, Phases, Bricking, Resuming
<1>10. CASE WriteFastbootReady(p)
  BY <1>10, PhaseStepOK DEF WriteFastbootReady, Phases, Labels, Bricking, Resuming
<1>11. CASE FlashBoot(p)
  <2>1. pc[p] = "flash" /\ RunOK(p) /\ run[p].rel \in Releases
    BY <1>11, Alive DEF FlashBoot, Run
  <2>2. CASE Fail(p)
    BY <2>2, FailOK
  <2>3. ASSUME d \in Devices, NEW b \in Releases \cup {"torn"}
        PROVE  [dev[d] EXCEPT !.boot = b] \in Device
    <3>1. dev[d] \in Device
      BY <2>3 DEF Core, UnitsOK
    <3> QED
      BY <3>1 DEF Device
  <2>4. CASE \E b \in Releases \cup {"torn"} :
               /\ Write(p, d, [dev[d] EXCEPT !.boot = b])
               /\ Stay(p, "flashed") \/ Leave(p)
               /\ UNCHANGED host
    <3>1. UnitsOK'
      BY <2>1, <2>3, <2>4, WriteOK DEF Core
    <3>2. ProcsOK'
      BY <2>1, <2>4, StayOK, LeaveOK DEF Core, Labels, Bricking, Resuming
    <3> QED
      BY <2>4, <3>1, <3>2, FrameOK DEF Core
  <2> QED
    BY <1>11, <2>1, <2>2, <2>4 DEF FlashBoot
<1>12. CASE WriteBootWritten(p)
  BY <1>12, PhaseStepOK DEF WriteBootWritten, Phases, Labels, Bricking, Resuming
<1>13. CASE RebootInstalled(p, "reboot", "await_adb")
  BY <1>13, RebootOK DEF Labels, Bricking, Resuming
<1>14. CASE WriteAdbReady(p)
  BY <1>14, PhaseStepOK DEF WriteAdbReady, Phases, Labels, Bricking, Resuming
<1>15. CASE Readback(p)
  BY <1>15, PhaseStepOK, FailOK DEF Readback, Phases, Labels, Bricking, Resuming
<1>16. CASE StageFeatures(p)
  <2>1. pc[p] = "stage" /\ RunOK(p) /\ run[p].rel \in Releases
    BY <1>16, Alive DEF StageFeatures, Run
  <2>2. CASE Fail(p)
    BY <2>2, FailOK
  <2>3. ASSUME d \in Devices, NEW f \in Releases \cup {"partial"}
        PROVE  [dev[d] EXCEPT !.feat = f] \in Device
    <3>1. dev[d] \in Device
      BY <2>3 DEF Core, UnitsOK
    <3> QED
      BY <3>1 DEF Device
  <2>4. CASE \E f \in Releases \cup {"partial"} :
               /\ Write(p, d, [dev[d] EXCEPT !.feat = f])
               /\ Stay(p, "staged") \/ Leave(p)
               /\ UNCHANGED host
    <3>1. UnitsOK'
      BY <2>1, <2>3, <2>4, WriteOK DEF Core
    <3>2. ProcsOK'
      BY <2>1, <2>4, StayOK, LeaveOK DEF Core, Labels, Bricking, Resuming
    <3> QED
      BY <2>4, <3>1, <3>2, FrameOK DEF Core
  <2> QED
    BY <1>16, <2>1, <2>2, <2>4 DEF StageFeatures
<1>17. CASE WriteFeaturesStaged(p)
  BY <1>17, PhaseStepOK DEF WriteFeaturesStaged, Phases, Labels, Bricking, Resuming
<1> QED
  BY <1>1, <1>2, <1>3, <1>4, <1>5, <1>6, <1>7, <1>8, <1>9, <1>10, <1>11, <1>12, <1>13, <1>14,
     <1>15, <1>16, <1>17 DEF OneShotStep

LEMMA FinishStepOK ==
  ASSUME Core, NEW p \in Procs, FinishStep(p)
  PROVE  Core'
<1> USE DEF At
<1> DEFINE d == run[p].dev
<1>1. CASE PublishGeneration(p)
  <2>1. pc[p] = "finish" /\ RunOK(p) /\ run[p] \in Run /\ run[p].target \in Explicit
    BY <1>1, Alive DEF PublishGeneration, RunOK
  <2>2. CASE Fail(p)
    BY <2>2, FailOK
  <2>3. CASE Stay(p, "deliver") /\ UNCHANGED <<host, units>>
    BY <2>1, <2>3, GoOnOK DEF Labels, Bricking, Resuming
  <2>4. CASE /\ Write(p, d, [dev[d] EXCEPT !.gen = run[p].rel, !.feat = "none"])
             /\ run' = [run EXCEPT ![p].reboot = TRUE]
             /\ Goto(p, "deliver") /\ UNCHANGED <<lock, host>>
    <3> DEFINE v == [run[p] EXCEPT !.reboot = TRUE]
    <3>1. ASSUME d \in Devices
          PROVE  [dev[d] EXCEPT !.gen = run[p].rel, !.feat = "none"] \in Device
      <4>1. dev[d] \in Device /\ run[p].rel \in Releases
        BY <2>1, <3>1 DEF Core, UnitsOK, Run
      <4> QED
        BY <4>1 DEF Device
    <3>2. UnitsOK'
      BY <2>1, <2>4, <3>1, WriteOK DEF Core
    <3>3. v \in Run /\ v.target = run[p].target
      BY <2>1 DEF Run
    <3>4. run' = [run EXCEPT ![p] = v]
      BY <2>1, <2>4 DEF Core, ProcsOK
    <3>5. Goto(p, "deliver") /\ UNCHANGED lock /\ UNCHANGED host
      BY <2>4
    <3> HIDE DEF v
    <3>6. ProcsOK'
      BY <2>1, <3>3, <3>4, <3>5, GotoOK DEF Core, Labels, Bricking, Resuming
    <3> QED
      BY <3>2, <3>5, <3>6, FrameOK DEF Core
  <2> QED
    BY <1>1, <2>2, <2>3, <2>4 DEF PublishGeneration
<1>2. CASE DeliverSetup(p)
  <2>1. /\ pc[p] = "deliver" /\ UNCHANGED host
        /\ RunOK(p) /\ run[p] \in Run /\ run[p].target \in Explicit
    BY <1>2, Alive DEF DeliverSetup, RunOK
  <2>2. CASE Fail(p)
    BY <2>2, FailOK
  <2>3. CASE Stay(p, "final") /\ UNCHANGED units
    BY <2>1, <2>3, GoOnOK DEF Labels, Bricking, Resuming
  <2>4. CASE /\ run' = [run EXCEPT ![p].out = "already-complete"]
             /\ Goto(p, "final") /\ UNCHANGED <<lock, units>>
    <3> DEFINE v == [run[p] EXCEPT !.out = "already-complete"]
    <3>1. v \in Run /\ v.target = run[p].target
      BY <2>1 DEF Run
    <3>2. run' = [run EXCEPT ![p] = v]
      BY <2>1, <2>4 DEF Core, ProcsOK
    <3>3. Goto(p, "final") /\ UNCHANGED lock /\ UNCHANGED units
      BY <2>4
    <3> HIDE DEF v
    <3>4. ProcsOK'
      BY <2>1, <3>1, <3>2, <3>3, GotoOK DEF Core, Labels, Bricking, Resuming
    <3> QED
      BY <2>1, <3>3, <3>4, FrameOK DEF Core
  <2>5. CASE /\ Write(p, d, [dev[d] EXCEPT !.prov = "pending"])
             /\ run' = [run EXCEPT ![p].out = "delivered", ![p].reboot = TRUE]
             /\ Goto(p, "final") /\ UNCHANGED lock
    <3> DEFINE v == [run[p] EXCEPT !.out = "delivered", !.reboot = TRUE]
    <3>1. ASSUME d \in Devices
          PROVE  [dev[d] EXCEPT !.prov = "pending"] \in Device
      <4>1. dev[d] \in Device
        BY <3>1 DEF Core, UnitsOK
      <4> QED
        BY <4>1 DEF Device
    <3>2. UnitsOK'
      BY <2>1, <2>5, <3>1, WriteOK DEF Core
    <3>3. v \in Run /\ v.target = run[p].target
      BY <2>1 DEF Run
    <3>4. run' = [run EXCEPT ![p] = v]
      BY <2>1, <2>5 DEF Core, ProcsOK
    <3>5. Goto(p, "final") /\ UNCHANGED lock
      BY <2>5
    <3> HIDE DEF v
    <3>6. ProcsOK'
      BY <2>1, <3>3, <3>4, <3>5, GotoOK DEF Core, Labels, Bricking, Resuming
    <3> QED
      BY <2>1, <3>2, <3>6, FrameOK DEF Core
  <2> QED
    BY <1>2, <2>2, <2>3, <2>4, <2>5 DEF DeliverSetup
<1>3. CASE FinalReboot(p)
  BY <1>3, MoveOK, StayOK, FrameOK DEF FinalReboot, Core, Labels, Bricking, Resuming
<1>4. CASE AwaitReady(p)
  BY <1>4, GoOnOK DEF AwaitReady, Labels, Bricking, Resuming
<1>5. CASE CompleteInstall(p)
  <2> DEFINE phase == CASE run[p].out = "web" -> "WEBUI_FORWARDED"
                        [] run[p].out = "delivered" -> "SETUP_DELIVERED"
                        [] OTHER -> "INSTALL_COMPLETE"
  <2>1. phase \in Phases
    BY DEF Phases
  <2>2. Fail(p) \/ (SavePhase(p, phase) /\ Leave(p) /\ UNCHANGED units)
    BY <1>5 DEF CompleteInstall
  <2>3. RunOK(p)
    BY <1>5, Alive DEF CompleteInstall
  <2> HIDE DEF phase
  <2> QED
    BY <2>1, <2>2, <2>3, FailOK, SavePhaseOK, LeaveOK, FrameOK DEF Core
<1> QED
  BY <1>1, <1>2, <1>3, <1>4, <1>5 DEF FinishStep

\* A step that only goes on, while resuming; and one that saves the state read.
LEMMA ResumeOnOK ==
  ASSUME Core, NEW p \in Procs, NEW l \in Labels \ Bricking, pc[p] \in Resuming,
         l # "install", Stay(p, l)
  PROVE  ProcsOK' /\ RunOK(p) /\ run[p].st # None /\ run[p].st.phase \in Phases
<1>1. RunOK(p) /\ run[p].st # None
  BY Alive DEF RunOK, Resuming
<1>2. ProcsOK'
  BY <1>1, StayOK DEF Core, Resuming
<1>3. run[p].st.phase \in Phases
  BY <1>1 DEF RunOK, Run, State
<1> QED
  BY <1>1, <1>2, <1>3

LEMMA BoundStepOK ==
  ASSUME Core, NEW p \in Procs, NEW l \in Labels \ Bricking, pc[p] \in Resuming,
         l # "install", Stay(p, l), UNCHANGED units,
         NEW ph, SaveBound(p, ph), ph \in {run[p].st.phase, "READBACK_VERIFIED"}
  PROVE  Core'
<1>1. ProcsOK' /\ RunOK(p) /\ run[p].st # None /\ ph \in Phases
  BY ResumeOnOK DEF Phases
<1> QED
  BY <1>1, SaveBoundOK, FrameOK DEF Core

LEMMA ContinueStepOK ==
  ASSUME Core, NEW p \in Procs, ContinueStep(p)
  PROVE  Core'
<1> USE DEF At
<1> DEFINE d == run[p].dev
<1>1. CASE ContinueCheck(p)
  <2> DEFINE st == saved[run[p].id]
             bound == IF st.dev # None THEN st.dev ELSE run[p].req
             label == CASE st.phase \in Staged -> "co_resume"
                        [] st.phase \in Unreconciled -> "reconcile"
                        [] NeedsRepair(st) -> "re_select"
                        [] st.phase \in {"AMONET_HANDOFF", "FASTBOOT_READY"} -> "co_bind"
                        [] OTHER -> "co_attach"
             v == [run[p] EXCEPT !.st = st, !.req = bound, !.dev = bound]
  <2>1. pc[p] = "co_check" /\ run[p] \in Run /\ run[p].target \in Explicit
    BY <1>1, Alive DEF ContinueCheck, RunOK
  <2>2. CASE Fail(p)
    BY <2>2, FailOK
  <2>3. CASE /\ Continuable(p, st)
             /\ run' = [run EXCEPT ![p].st = st, ![p].req = bound, ![p].dev = bound]
             /\ Goto(p, label) /\ UNCHANGED <<lock, host, units>>
    <3>1. st # None /\ st \in State
      BY <2>1, <2>3 DEF Continuable, Run, Core, HostOK
    <3>2. bound \in Devices
      BY <2>1, <2>3, <3>1 DEF Continuable, Run, State
    <3>3. v \in Run /\ v.target = run[p].target /\ v.st = st
      BY <2>1, <3>1, <3>2 DEF Run
    <3>4. run' = [run EXCEPT ![p] = v]
      BY <2>1, <2>3 DEF Core, ProcsOK
    <3>5. label \in Labels \ Bricking /\ label # "install"
      BY DEF Labels, Bricking
    <3>6. Goto(p, label) /\ UNCHANGED lock /\ UNCHANGED host /\ UNCHANGED units
      BY <2>3
    <3> HIDE DEF v, label
    <3>7. ProcsOK'
      BY <2>1, <3>1, <3>3, <3>4, <3>5, <3>6, GotoOK DEF Core
    <3> QED
      BY <3>6, <3>7, FrameOK DEF Core
  <2> QED
    BY <1>1, <2>2, <2>3 DEF ContinueCheck
<1>2. CASE ResumeTransport(p)
  BY <1>2, FailOK, ResumeOnOK, MoveOK, FrameOK DEF ResumeTransport, Core, Labels, Bricking, Resuming
<1>3. CASE Resumed(p)
  BY <1>3, ResumeOnOK, FrameOK DEF Resumed, Core, Labels, Bricking, Resuming
<1>4. CASE WriteReconciled(p)
  <2> DEFINE st == [run[p].st EXCEPT !.phase = "AMONET_HANDOFF", !.dev = d]
             v == [run[p] EXCEPT !.st = st]
  <2>1. /\ pc[p] = "co_handoff" /\ run[p] \in Run /\ run[p].target \in Explicit
        /\ run[p].st \in State /\ d \in Devices \cup {None}
    BY <1>4, Alive DEF WriteReconciled, RunOK, Resuming, Run
  <2>2. st \in State /\ st # None
    BY ZenonT(60), <2>1, ConstantsOK DEF State, Phases
  <2>3. v \in Run /\ v.target = run[p].target /\ v.st = st
    BY <2>1, <2>2 DEF Run
  <2>4. run' = [run EXCEPT ![p] = v]
    BY <1>4, <2>1 DEF WriteReconciled, Core, ProcsOK
  <2>5. Save(p, st) /\ Goto(p, "co_bind") /\ UNCHANGED lock /\ UNCHANGED units
    BY <1>4 DEF WriteReconciled
  <2> HIDE DEF v, st
  <2>6. ProcsOK'
    BY <2>1, <2>2, <2>3, <2>4, <2>5, GotoOK DEF Core, Labels, Bricking
  <2> QED
    BY <2>2, <2>5, <2>6, SaveOK, FrameOK DEF Core
<1>5. CASE ContinueBind(p)
  BY <1>5, BoundStepOK DEF ContinueBind, Labels, Bricking, Resuming
<1>6. CASE ContinueVerify(p)
  <2> DEFINE label == IF run[p].st.fmt THEN "format_done" ELSE "format"
  <2>1. Fail(p) \/ (Stay(p, label) /\ UNCHANGED <<host, units>>)
    BY <1>6 DEF ContinueVerify
  <2>2. label \in Labels \ Bricking /\ label # "install" /\ pc[p] \in Resuming
    BY <1>6 DEF ContinueVerify, Labels, Bricking, Resuming
  <2> HIDE DEF label
  <2> QED
    BY <2>1, <2>2, FailOK, ResumeOnOK, FrameOK DEF Core
<1>7. CASE Attach(p)
  BY <1>7, FailOK, ResumeOnOK, BoundStepOK, MoveOK, FrameOK
  DEF Attach, Core, Labels, Bricking, Resuming
<1>8. CASE PendingBooted(p)
  BY <1>8, BoundStepOK DEF PendingBooted, Labels, Bricking, Resuming
<1>9. CASE ContinueReadback(p)
  <2> DEFINE staged == run[p].st.phase \in Staged
             phase == IF staged THEN run[p].st.phase ELSE "READBACK_VERIFIED"
             label == IF staged THEN "co_features" ELSE "stage"
  <2>1. Fail(p) \/ (SaveBound(p, phase) /\ Stay(p, label) /\ UNCHANGED units)
    BY <1>9 DEF ContinueReadback
  <2>2. /\ label \in Labels \ Bricking /\ label # "install" /\ pc[p] \in Resuming
        /\ phase \in {run[p].st.phase, "READBACK_VERIFIED"}
    BY <1>9 DEF ContinueReadback, Labels, Bricking, Resuming
  <2> HIDE DEF label, phase
  <2> QED
    BY <2>1, <2>2, FailOK, BoundStepOK
<1>10. CASE ContinueFeatures(p)
  BY <1>10, FailOK, ResumeOnOK, FrameOK DEF ContinueFeatures, Core, Labels, Bricking, Resuming
<1>11. CASE RepairSelect(p)
  BY <1>11, FailOK, BoundStepOK DEF RepairSelect, Labels, Bricking, Resuming
<1>12. CASE RepairReboot(p)
  BY <1>12, FailOK, MoveOK, StayOK, FrameOK DEF RepairReboot, Core, Labels, Bricking, Resuming
<1>13. CASE RepairWait(p)
  BY <1>13, GoOnOK DEF RepairWait, Labels, Bricking, Resuming
<1>14. CASE Format(p, "re_format", "re_done")
  BY <1>14, FormatOK DEF Labels, Bricking, Resuming
<1>15. CASE RecordRepair(p)
  BY <1>15, SaveFormattedOK, StayOK, FrameOK, Alive DEF RecordRepair, Core, Labels, Phases, Bricking, Resuming
<1>16. CASE RebootInstalled(p, "re_boot", "re_await")
  BY <1>16, RebootOK DEF Labels, Bricking, Resuming
<1>17. CASE RepairBooted(p)
  BY <1>17, GoOnOK DEF RepairBooted, Labels, Bricking, Resuming
<1> QED
  BY <1>1, <1>2, <1>3, <1>4, <1>5, <1>6, <1>7, <1>8, <1>9, <1>10, <1>11, <1>12, <1>13, <1>14,
     <1>15, <1>16, <1>17 DEF ContinueStep

LEMMA BeginOK ==
  ASSUME Core, NEW p \in Procs, NEW i \in Ids, NEW r \in Releases, NEW req \in Requests,
         NEW l \in {"os_check", "co_check", "install"}, NEW target \in BOOLEAN, NEW flag \in BOOLEAN,
         l # "install" => target \in Explicit, Begin(p, l, i, r, req, target, flag)
  PROVE  Core'
<1> DEFINE v == [id |-> i, rel |-> r, req |-> req, target |-> target, flag |-> flag,
                 again |-> FALSE, dev |-> None, st |-> None, reboot |-> FALSE, out |-> "web"]
<1>1. v \in Run /\ v.target = target
  BY DEF Run, Requests
<1>2. /\ Goto(p, l) /\ run' = [run EXCEPT ![p] = v] /\ lock' = [lock EXCEPT ![CacheOf[p]] = p]
      /\ UNCHANGED host /\ UNCHANGED units
  BY DEF Begin
<1>3. l \in Labels \ (Bricking \cup Resuming)
  BY DEF Labels, Bricking, Resuming
<1> HIDE DEF v
<1>4. ProcsOK'
  BY <1>1, <1>2, <1>3, GotoOK DEF Core
<1> QED
  BY <1>2, <1>4, FrameOK DEF Core

LEMMA CommandOK ==
  ASSUME Core, NEW p \in Procs, Command(p)
  PROVE  Core'
<1>1. PICK i \in Ids, r \in Releases :
        \/ \E req \in Requests, target \in Explicit, flag \in BOOLEAN :
             OneShot(p, i, r, req, target, flag) \/ ContinueOneShot(p, i, r, req, target, flag)
        \/ Install(p, i, r)
  BY DEF Command
<1>2. ASSUME NEW req \in Requests, NEW target \in Explicit, NEW flag \in BOOLEAN,
             OneShot(p, i, r, req, target, flag) \/ ContinueOneShot(p, i, r, req, target, flag)
      PROVE  Core'
  <2>1. target \in BOOLEAN
    BY ConstantsOK
  <2>2. CASE Begin(p, "os_check", i, r, req, target, flag)
    BY <2>1, <2>2, BeginOK
  <2>3. CASE Begin(p, "co_check", i, r, req, target, flag)
    BY <2>1, <2>3, BeginOK
  <2> QED
    BY <1>2, <2>2, <2>3 DEF OneShot, ContinueOneShot
<1>3. CASE Install(p, i, r)
  <2>1. Begin(p, "install", i, r, AutoSerial, FALSE, FALSE) /\ AutoSerial \in Requests
    BY <1>3 DEF Install, Requests
  <2> QED
    BY <2>1, BeginOK
<1> QED
  BY <1>1, <1>2, <1>3

LEMMA WorldOK ==
  ASSUME Core, NEW d \in Devices, World(d)
  PROVE  Core'
<1>1. UNCHANGED host /\ UNCHANGED <<lock, pc, run>>
  BY DEF World
<1>2. dev[d] \in Device
  BY DEF Core, UnitsOK
<1>3. CASE BootUp(d)
  <2> DEFINE up == [dev[d] EXCEPT !.mode = "system", !.live = dev[d].gen,
                                  !.prov = IF @ = "pending" THEN "done" ELSE @]
  <2>1. dev[d].gen \in Releases \cup {None} /\ dev[d].prov \in {"none", "pending", "done"}
    BY <1>2 DEF Device
  <2>2. up \in Device
    BY <1>2, <2>1, UpOK
  <2>3. Moved(d, "off") \in Device
    BY MovedOK DEF Core
  <2>4. \/ dev' = [dev EXCEPT ![d] = up] /\ UNCHANGED <<bricks, writers>>
        \/ dev' = [dev EXCEPT ![d] = Moved(d, "off")] /\ UNCHANGED <<bricks, writers>>
    BY <1>3 DEF BootUp
  <2> HIDE DEF up
  <2>5. UnitsOK'
    BY <2>3, <2>4, <2>2, UnitOK DEF Core, UnitsOK
  <2> QED
    BY <1>1, <2>5, FrameOK DEF Core, ProcsOK, RunOK
<1>4. CASE FastbootUp(d) \/ \E m \in {"fastboot", "booting"} : Operate(d, m)
  <2>1. UnitsOK'
    BY <1>4, MoveOK DEF FastbootUp, Operate, Core
  <2> QED
    BY <1>1, <2>1, FrameOK DEF Core, ProcsOK, RunOK
<1>5. CASE FinishWebSetup(d)
  <2>1. [dev[d] EXCEPT !.prov = "done"] \in Device
    BY <1>2 DEF Device
  <2>2. dev' = [dev EXCEPT ![d] = [dev[d] EXCEPT !.prov = "done"]] /\ UNCHANGED <<bricks, writers>>
    BY <1>5 DEF FinishWebSetup
  <2> QED
    BY <1>1, <2>1, <2>2, FrameOK DEF Core, UnitsOK, ProcsOK, RunOK
<1> QED
  BY <1>3, <1>4, <1>5 DEF World

-----------------------------------------------------------------------------
(* Type correctness *)

\* Whatever the number of units, ids, releases and invocations, and whatever
\* crashes: the state files, latches and locks and every run's locals are well
\* formed, a run about to brick names its unit, and a resumed run has the state
\* that continue_one_shot read.
THEOREM TypeCorrect == Spec => []TypeOK
<1>1. Init => TypeOK
  <2> SUFFICES ASSUME Init
               PROVE  TypeOK
    OBVIOUS
  <2>1. PICK o \in Origins : saved = o[1] /\ dev = o[2]
    BY DEF Init
  <2>2. o[1] \in [Ids -> State \cup {None}] /\ o[2] \in [Devices -> Device]
    BY ConstantsOK
  <2>3. HostOK /\ UnitsOK
    BY <2>1, <2>2 DEF Init, HostOK, UnitsOK
  <2>4. ProcsOK
    BY DEF Init, ProcsOK, Labels
  <2> QED
    BY <2>3, <2>4 DEF Init, TypeOK
<1>2. TypeOK /\ [Next]_vars => TypeOK'
  <2> SUFFICES ASSUME TypeOK, [Next]_vars
               PROVE  TypeOK'
    OBVIOUS
  <2>1. Core
    BY DEF TypeOK, Core
  <2>2. ASSUME NEW p \in Procs, Command(p) \/ Step(p) \/ Timeout(p) \/ Abort(p), UNCHANGED calm
        PROVE  TypeOK'
    <3>1. Core'
      BY <2>1, <2>2, CommandOK, BrickStepOK, OneShotStepOK, FinishStepOK, ContinueStepOK, FailOK
      DEF Step, Timeout, Abort
    <3> QED
      BY <2>2, <3>1 DEF TypeOK, Core
  <2>3. ASSUME NEW d \in Devices, World(d), UNCHANGED calm
        PROVE  TypeOK'
    BY <2>1, <2>3, WorldOK DEF TypeOK, Core
  <2>4. CASE BecomeCalm
    BY <2>4 DEF BecomeCalm, TypeOK, host, units, HostOK, UnitsOK, ProcsOK, RunOK
  <2>5. CASE UNCHANGED vars
    BY <2>5 DEF vars, TypeOK, HostOK, UnitsOK, ProcsOK, RunOK
  <2> QED
    BY <2>2, <2>3, <2>4, <2>5 DEF Next
<1> QED
  BY <1>1, <1>2, PTL DEF Spec

-----------------------------------------------------------------------------
(* The brick sequence, one run at a time *)

\* A run that holds the one lock is the only run there is, and it leaves or keeps it.
LEMMA Alone ==
  ASSUME OneCacheRoot, ProcsOK, Locked, NEW p \in Procs, pc[p] # "idle",
         Leave(p) \/ (UNCHANGED lock /\ \E l : Goto(p, l))
  PROVE  Locked' /\ \A q \in Procs : q # p => pc'[q] = "idle"
<1>1. \A q \in Procs : q # p => pc[q] = "idle"
  BY DEF OneCacheRoot, Locked
<1>2. \A q \in Procs : q # p => pc'[q] = "idle"
  BY <1>1 DEF Leave, Goto, ProcsOK
<1>3. CASE Leave(p)
  BY <1>2, <1>3 DEF Locked, Leave, ProcsOK
<1>4. CASE UNCHANGED lock
  BY <1>2, <1>4 DEF Locked
<1> QED
  BY <1>2, <1>3, <1>4

\* A step outside the brick sequence: it changes no latch, no brick count and no
\* boot chain, and its run ends or goes on outside the sequence.
SameChains == \A d \in Devices : dev'[d].chain = dev[d].chain
Onward(p, labels) == Leave(p) \/ (UNCHANGED lock /\ \E l \in labels : Goto(p, l))
Quiet(p) ==
  /\ pc[p] # "idle" /\ UNCHANGED <<latches, bricks>> /\ SameChains
  /\ Onward(p, Labels \ Bricking)

-----------------------------------------------------------------------------
(* Every step of a run but the brick sequence's is quiet *)

\* The writes to a unit keep its chain.
LEMMA MovedChain ==
  ASSUME UnitsOK, NEW d \in Devices, NEW m
  PROVE  Moved(d, m).chain = dev[d].chain
BY DEF Moved, UnitsOK, Device

LEMMA MoveChain ==
  ASSUME UnitsOK, NEW d, NEW m, Move(d, m)
  PROVE  SameChains /\ UNCHANGED bricks
BY MovedChain DEF Move, SameChains, UnitsOK

LEMMA WriteChain ==
  ASSUME UnitsOK, NEW p, NEW d, NEW v, d \in Devices => v.chain = dev[d].chain, Write(p, d, v)
  PROVE  SameChains /\ UNCHANGED bricks
BY DEF Write, SameChains, UnitsOK

LEMMA FailQuiet ==
  ASSUME NEW p \in Procs, pc[p] # "idle", Fail(p)
  PROVE  Quiet(p)
BY DEF Fail, Quiet, Onward, SameChains, host, units

LEMMA OnwardQuiet ==
  ASSUME NEW p \in Procs, pc[p] # "idle", NEW l \in Labels \ Bricking,
         Leave(p) \/ (UNCHANGED lock /\ Goto(p, l)), SameChains, UNCHANGED <<latches, bricks>>
  PROVE  Quiet(p)
BY DEF Quiet, Onward

\* Unchanged parts of the state, and steps that only change the run.
LEMMA FrameQuiet ==
  /\ UNCHANGED units => SameChains /\ UNCHANGED bricks
  /\ UNCHANGED host => UNCHANGED latches
  /\ \A p, l : Stay(p, l) => UNCHANGED lock /\ Goto(p, l)
  /\ \A p, s : Save(p, s) => UNCHANGED latches
BY DEF units, host, SameChains, Stay, Save

LEMMA FormatQuiet ==
  ASSUME UnitsOK, NEW p \in Procs, NEW from, NEW to \in Labels \ Bricking,
         from # "idle", Format(p, from, to)
  PROVE  Quiet(p)
<1> DEFINE d == run[p].dev
           v(u) == [[dev[d] EXCEPT !.feat = "none", !.gen = None, !.prov = "none"] EXCEPT !.udata = u]
<1>1. pc[p] # "idle"
  BY DEF Format, At
<1>2. ASSUME NEW u, Write(p, d, v(u))
      PROVE  SameChains /\ UNCHANGED bricks
  <2>1. d \in Devices => v(u).chain = dev[d].chain
    BY DEF UnitsOK, Device
  <2> HIDE DEF v
  <2> QED
    BY <1>2, <2>1, WriteChain
<1>3. \/ Fail(p)
      \/ UNCHANGED host /\ Write(p, d, v("formatted")) /\ Stay(p, to)
      \/ UNCHANGED host /\ Write(p, d, v("torn")) /\ Leave(p)
  BY DEF Format
<1> HIDE DEF v
<1> QED
  BY <1>1, <1>2, <1>3, FailQuiet, OnwardQuiet, FrameQuiet

LEMMA OneShotQuiet ==
  ASSUME UnitsOK, NEW p \in Procs, OneShotStep(p), ~SelectDevice(p)
  PROVE  Quiet(p)
<1> USE DEF At
<1> DEFINE d == run[p].dev
<1>1. CASE InstallReady(p)
  BY <1>1, OnwardQuiet, FrameQuiet DEF InstallReady, Labels, Bricking
<1>2. CASE OneShotCheck(p)
  BY <1>2, FailQuiet, OnwardQuiet, FrameQuiet DEF OneShotCheck, ArchiveState, Labels, Bricking
<1>3. CASE EnterFastboot(p)
  BY <1>3, FailQuiet, OnwardQuiet, FrameQuiet, MoveChain DEF EnterFastboot, Labels, Bricking
<1>4. CASE EnteringFastboot(p)
  BY <1>4, OnwardQuiet, FrameQuiet DEF EnteringFastboot, Labels, Bricking
<1>5. CASE WriteReady(p)
  BY <1>5, OnwardQuiet, FrameQuiet DEF WriteReady, Labels, Bricking
<1>6. CASE BindDevice(p)
  BY <1>6, OnwardQuiet, FrameQuiet DEF BindDevice, Labels, Bricking
<1>7. CASE Format(p, "format", "format_done")
  BY <1>7, FormatQuiet DEF Labels, Bricking
<1>8. CASE RecordFormat(p)
  BY <1>8, OnwardQuiet, FrameQuiet DEF RecordFormat, SaveFormatted, Labels, Bricking
<1>9. CASE WriteFastbootReady(p)
  BY <1>9, OnwardQuiet, FrameQuiet DEF WriteFastbootReady, SavePhase, Labels, Bricking
<1>10. CASE FlashBoot(p)
  <2>1. ASSUME NEW b, Write(p, d, [dev[d] EXCEPT !.boot = b])
        PROVE  SameChains /\ UNCHANGED bricks
    <3>1. d \in Devices => [dev[d] EXCEPT !.boot = b].chain = dev[d].chain
      BY DEF UnitsOK, Device
    <3> QED
      BY <2>1, <3>1, WriteChain
  <2>2. \/ Fail(p)
        \/ /\ UNCHANGED host /\ (Stay(p, "flashed") \/ Leave(p))
           /\ \E b : Write(p, d, [dev[d] EXCEPT !.boot = b])
    BY <1>10 DEF FlashBoot
  <2> QED
    BY <1>10, <2>1, <2>2, FailQuiet, OnwardQuiet, FrameQuiet DEF FlashBoot, Labels, Bricking
<1>11. CASE WriteBootWritten(p)
  BY <1>11, OnwardQuiet, FrameQuiet DEF WriteBootWritten, SavePhase, Labels, Bricking
<1>12. CASE RebootInstalled(p, "reboot", "await_adb")
  BY <1>12, OnwardQuiet, FrameQuiet, MoveChain DEF RebootInstalled, Labels, Bricking
<1>13. CASE WriteAdbReady(p)
  BY <1>13, OnwardQuiet, FrameQuiet DEF WriteAdbReady, SavePhase, Labels, Bricking
<1>14. CASE Readback(p)
  BY <1>14, FailQuiet, OnwardQuiet, FrameQuiet DEF Readback, SavePhase, Labels, Bricking
<1>15. CASE StageFeatures(p)
  <2>1. ASSUME NEW f, Write(p, d, [dev[d] EXCEPT !.feat = f])
        PROVE  SameChains /\ UNCHANGED bricks
    <3>1. d \in Devices => [dev[d] EXCEPT !.feat = f].chain = dev[d].chain
      BY DEF UnitsOK, Device
    <3> QED
      BY <2>1, <3>1, WriteChain
  <2>2. \/ Fail(p)
        \/ /\ UNCHANGED host /\ (Stay(p, "staged") \/ Leave(p))
           /\ \E f : Write(p, d, [dev[d] EXCEPT !.feat = f])
    BY <1>15 DEF StageFeatures
  <2> QED
    BY <1>15, <2>1, <2>2, FailQuiet, OnwardQuiet, FrameQuiet DEF StageFeatures, Labels, Bricking
<1>16. CASE WriteFeaturesStaged(p)
  BY <1>16, OnwardQuiet, FrameQuiet DEF WriteFeaturesStaged, SavePhase, Labels, Bricking
<1> QED
  BY <1>1, <1>2, <1>3, <1>4, <1>5, <1>6, <1>7, <1>8, <1>9, <1>10, <1>11, <1>12, <1>13, <1>14,
     <1>15, <1>16 DEF OneShotStep

LEMMA FinishQuiet ==
  ASSUME UnitsOK, NEW p \in Procs, FinishStep(p)
  PROVE  Quiet(p)
<1> USE DEF At
<1> DEFINE d == run[p].dev
<1>1. CASE PublishGeneration(p)
  <2>1. d \in Devices => [dev[d] EXCEPT !.gen = run[p].rel, !.feat = "none"].chain = dev[d].chain
    BY DEF UnitsOK, Device
  <2> QED
    BY <1>1, <2>1, WriteChain, FailQuiet, OnwardQuiet, FrameQuiet DEF PublishGeneration, Labels, Bricking
<1>2. CASE DeliverSetup(p)
  <2>1. d \in Devices => [dev[d] EXCEPT !.prov = "pending"].chain = dev[d].chain
    BY DEF UnitsOK, Device
  <2> QED
    BY <1>2, <2>1, WriteChain, FailQuiet, OnwardQuiet, FrameQuiet DEF DeliverSetup, Labels, Bricking
<1>3. CASE FinalReboot(p)
  BY <1>3, OnwardQuiet, FrameQuiet, MoveChain DEF FinalReboot, Labels, Bricking
<1>4. CASE AwaitReady(p)
  BY <1>4, OnwardQuiet, FrameQuiet DEF AwaitReady, Labels, Bricking
<1>5. CASE CompleteInstall(p)
  BY <1>5, FailQuiet, OnwardQuiet, FrameQuiet DEF CompleteInstall, SavePhase, Labels, Bricking
<1> QED
  BY <1>1, <1>2, <1>3, <1>4, <1>5 DEF FinishStep

LEMMA ContinueQuiet ==
  ASSUME UnitsOK, NEW p \in Procs, ContinueStep(p)
  PROVE  Quiet(p)
<1> USE DEF At
<1>1. CASE ContinueCheck(p)
  <2>1. Fail(p) \/ \E l \in {"co_resume", "reconcile", "re_select", "co_bind", "co_attach"} :
                     Goto(p, l) /\ UNCHANGED lock /\ UNCHANGED host /\ UNCHANGED units
    BY <1>1 DEF ContinueCheck
  <2> QED
    BY <1>1, <2>1, FailQuiet, OnwardQuiet, FrameQuiet DEF ContinueCheck, Labels, Bricking
<1>2. CASE ResumeTransport(p)
  BY <1>2, FailQuiet, OnwardQuiet, FrameQuiet, MoveChain DEF ResumeTransport, Labels, Bricking
<1>3. CASE Resumed(p)
  BY <1>3, OnwardQuiet, FrameQuiet DEF Resumed, Labels, Bricking
<1>4. CASE WriteReconciled(p)
  BY <1>4, OnwardQuiet, FrameQuiet DEF WriteReconciled, Labels, Bricking
<1>5. CASE ContinueBind(p)
  BY <1>5, OnwardQuiet, FrameQuiet DEF ContinueBind, SaveBound, Labels, Bricking
<1>6. CASE ContinueVerify(p)
  BY <1>6, FailQuiet, OnwardQuiet, FrameQuiet DEF ContinueVerify, Labels, Bricking
<1>7. CASE Attach(p)
  BY <1>7, FailQuiet, OnwardQuiet, FrameQuiet, MoveChain DEF Attach, SaveBound, Labels, Bricking
<1>8. CASE PendingBooted(p)
  BY <1>8, OnwardQuiet, FrameQuiet DEF PendingBooted, SaveBound, Labels, Bricking
<1>9. CASE ContinueReadback(p)
  BY <1>9, FailQuiet, OnwardQuiet, FrameQuiet DEF ContinueReadback, SaveBound, Labels, Bricking
<1>10. CASE ContinueFeatures(p)
  BY <1>10, FailQuiet, OnwardQuiet, FrameQuiet DEF ContinueFeatures, Labels, Bricking
<1>11. CASE RepairSelect(p)
  BY <1>11, FailQuiet, OnwardQuiet, FrameQuiet DEF RepairSelect, SaveBound, Labels, Bricking
<1>12. CASE RepairReboot(p)
  BY <1>12, FailQuiet, OnwardQuiet, FrameQuiet, MoveChain DEF RepairReboot, Labels, Bricking
<1>13. CASE RepairWait(p)
  BY <1>13, OnwardQuiet, FrameQuiet DEF RepairWait, Labels, Bricking
<1>14. CASE Format(p, "re_format", "re_done")
  BY <1>14, FormatQuiet DEF Labels, Bricking
<1>15. CASE RecordRepair(p)
  BY <1>15, OnwardQuiet, FrameQuiet DEF RecordRepair, SaveFormatted, Labels, Bricking
<1>16. CASE RebootInstalled(p, "re_boot", "re_await")
  BY <1>16, OnwardQuiet, FrameQuiet, MoveChain DEF RebootInstalled, Labels, Bricking
<1>17. CASE RepairBooted(p)
  BY <1>17, OnwardQuiet, FrameQuiet DEF RepairBooted, Labels, Bricking
<1> QED
  BY <1>1, <1>2, <1>3, <1>4, <1>5, <1>6, <1>7, <1>8, <1>9, <1>10, <1>11, <1>12, <1>13, <1>14,
     <1>15, <1>16, <1>17 DEF ContinueStep

\* Whatever a step of a run does, it is quiet, a step into the brick sequence or
\* a step of that sequence.
LEMMA StepKinds ==
  ASSUME UnitsOK, NEW p \in Procs, Step(p) \/ Timeout(p) \/ Abort(p)
  PROVE  \/ Quiet(p) \/ SelectDevice(p)
         \/ ClaimCheck(p) \/ ClaimWrite(p) \/ SubmitBrick(p) \/ SendBrick(p)
<1>1. CASE Timeout(p) \/ Abort(p)
  BY <1>1, FailQuiet DEF Timeout, Abort, At
<1>2. CASE Reconcile(p)
  BY <1>2, OnwardQuiet, FrameQuiet, MoveChain DEF Reconcile, Labels, Bricking
<1>3. CASE WriteHandoff(p)
  BY <1>3, OnwardQuiet, FrameQuiet DEF WriteHandoff, At, Labels, Bricking
<1> QED
  BY <1>1, <1>2, <1>3, OneShotQuiet, FinishQuiet, ContinueQuiet DEF Step, BrickStep

\* The world keeps chains, latches and brick counts.
LEMMA WorldQuiet ==
  ASSUME UnitsOK, NEW d \in Devices, World(d)
  PROVE  UNCHANGED <<latches, bricks, lock, pc, run>> /\ SameChains
<1>1. UNCHANGED latches /\ UNCHANGED <<lock, pc, run>>
  BY DEF World, host
<1>2. dev[d] \in Device
  BY DEF UnitsOK
<1>3. CASE BootUp(d)
  <2> DEFINE up == [dev[d] EXCEPT !.mode = "system", !.live = dev[d].gen,
                                  !.prov = IF @ = "pending" THEN "done" ELSE @]
  <2>1. up.chain = dev[d].chain /\ Moved(d, "off").chain = dev[d].chain
    BY <1>2, MovedChain DEF Device
  <2>2. \/ dev' = [dev EXCEPT ![d] = up] /\ UNCHANGED bricks
        \/ dev' = [dev EXCEPT ![d] = Moved(d, "off")] /\ UNCHANGED bricks
    BY <1>3 DEF BootUp
  <2> HIDE DEF up
  <2> QED
    BY <1>1, <2>1, <2>2 DEF SameChains, UnitsOK
<1>4. CASE FastbootUp(d) \/ \E m \in {"fastboot", "booting"} : Operate(d, m)
  BY <1>1, <1>4, MoveChain DEF FastbootUp, Operate
<1>5. CASE FinishWebSetup(d)
  <2>1. [dev[d] EXCEPT !.prov = "done"].chain = dev[d].chain
    BY <1>2 DEF Device
  <2> QED
    BY <1>1, <1>5, <2>1 DEF FinishWebSetup, SameChains, UnitsOK
<1> QED
  BY <1>3, <1>4, <1>5 DEF World

-----------------------------------------------------------------------------
(* A unit is bricked at most once *)

Counted == AtMostOneBrick /\ \A d \in Devices : bricks[d] > 0 => Latched(d)

\* Every run that may brick a unit names its latch by the same key.
LEMMA KeyOK ==
  ASSUME OneTargetEach, NEW d \in Devices, NEW r \in Releases, NEW target \in Explicit,
         target \/ Fits(d, r)
  PROVE  BoardOf[r] = Key(d)
<1>1. target \in BOOLEAN
  BY ConstantsOK
<1>2. CASE TRUE \in Explicit
  <2>1. (CHOOSE s \in Releases : TRUE) \in Releases
    OBVIOUS
  <2> QED
    BY <1>2, <2>1 DEF OneTargetEach, Key
<1>3. CASE TRUE \notin Explicit
  BY <1>1, <1>3 DEF Fits, Key
<1> QED
  BY <1>2, <1>3

LEMMA QuietBrick ==
  ASSUME OneCacheRoot, ProcsOK, BrickInv, NEW p \in Procs, Quiet(p)
  PROVE  BrickInv'
<1>1. Locked' /\ \A q \in Procs : q # p => pc'[q] = "idle"
  BY Alone DEF BrickInv, Quiet, Onward
<1>2. pc'[p] \notin Bricking
  BY DEF Quiet, Onward, Leave, Goto, ProcsOK, Bricking
<1>3. (\A q \in Procs : pc[q] \in Bricking => Claiming(q))'
  BY <1>1, <1>2 DEF Bricking
<1>4. Counted'
  BY DEF Quiet, BrickInv, Counted, AtMostOneBrick, Latched, Key
<1> QED
  BY <1>1, <1>3, <1>4 DEF BrickInv, Counted

\* A run that goes on to the next step of the brick sequence, or ends.
LEMMA StayBrick ==
  ASSUME OneCacheRoot, ProcsOK, BrickInv, NEW p \in Procs, NEW l, pc[p] # "idle", Goto(p, l),
         UNCHANGED lock, l \in Bricking => Claiming(p)', Counted'
  PROVE  BrickInv'
<1>1. Locked' /\ \A q \in Procs : q # p => pc'[q] = "idle"
  BY Alone DEF BrickInv
<1>2. pc'[p] = l
  BY DEF Goto, ProcsOK
<1>3. (\A q \in Procs : pc[q] \in Bricking => Claiming(q))'
  BY <1>1, <1>2 DEF Bricking
<1> QED
  BY <1>1, <1>3 DEF BrickInv, Counted

LEMMA LeaveBrick ==
  ASSUME OneCacheRoot, ProcsOK, BrickInv, NEW p \in Procs, pc[p] # "idle", Leave(p), Counted'
  PROVE  BrickInv'
<1>1. Locked' /\ \A q \in Procs : q # p => pc'[q] = "idle"
  BY Alone DEF BrickInv
<1>2. pc'[p] = "idle"
  BY DEF Leave, ProcsOK
<1> QED
  BY <1>1, <1>2 DEF BrickInv, Counted, Bricking

LEMMA BrickInvStep ==
  ASSUME OneCacheRoot, OneTargetEach, TypeOK, BrickInv, NEW p \in Procs,
         Step(p) \/ Timeout(p) \/ Abort(p)
  PROVE  BrickInv'
<1> DEFINE d == run[p].dev
<1> USE DEF At
<1>1. HostOK /\ UnitsOK /\ ProcsOK
  BY DEF TypeOK
<1>2. ASSUME pc[p] \in Bricking
      PROVE  /\ d \in Devices /\ run[p].rel \in Releases /\ Claiming(p)
             /\ bricks[d] \in Nat /\ Latch(p) = <<Key(d), d>>
  BY <1>1, <1>2, Alive DEF Core, RunOK, Run, BrickInv, Bricking, UnitsOK, Claiming, Latch
<1>3. UNCHANGED <<latches, bricks>> => Counted'
  BY DEF BrickInv, Counted, AtMostOneBrick, Latched, Key
<1>4. CASE Quiet(p)
  BY <1>1, <1>4, QuietBrick
<1>5. CASE SelectDevice(p)
  <2>1. pc[p] = "select" /\ run[p] \in Run /\ run[p].target \in Explicit
    BY <1>1, <1>5, Alive DEF SelectDevice, Core, RunOK
  <2>2. CASE Fail(p)
    BY <1>1, <2>1, <2>2, FailQuiet, QuietBrick
  <2>3. CASE ~Fail(p)
    <3>1. PICK e \in Devices :
            /\ ProductOk(p, e) /\ run' = [run EXCEPT ![p].dev = e]
            /\ Goto(p, IF dev[e].chain = "stock" THEN "claim_check" ELSE "handoff")
            /\ UNCHANGED <<lock, host, units>>
      BY <1>5, <2>3 DEF SelectDevice, NeedsBrick, Select, InFastboot
    <3>2. run'[p].dev = e /\ run'[p].rel = run[p].rel
      BY <1>1, <2>1, <3>1 DEF Run, ProcsOK
    <3>3. BoardOf[run[p].rel] = Key(e)
      BY <2>1, <3>1, KeyOK DEF ProductOk, Run
    <3>4. UNCHANGED <<latches, bricks>>
      BY <3>1 DEF host, units
    <3>5. pc'[p] \in {"claim_check", "handoff"}
      BY <1>1, <3>1 DEF Goto, ProcsOK
    <3>6. Claiming(p)'
      BY <3>2, <3>3, <3>5 DEF Claiming, Key
    <3> QED
      BY <1>1, <1>3, <2>1, <3>1, <3>4, <3>6, StayBrick
  <2> QED
    BY <2>2, <2>3
<1>6. CASE ClaimCheck(p)
  <2>1. pc[p] = "claim_check" /\ UNCHANGED <<latches, bricks>>
    BY <1>6 DEF ClaimCheck, Fail, host, units
  <2>2. CASE Fail(p)
    BY <1>1, <2>1, <2>2, FailQuiet, QuietBrick
  <2>3. CASE Latch(p) \notin latches /\ Stay(p, "claim_write")
    <3>1. Claiming(p)'
      BY <1>1, <1>2, <2>1, <2>3 DEF Bricking, Stay, Goto, ProcsOK, Claiming, Latched
    <3> QED
      BY <1>1, <1>3, <2>1, <2>3, <3>1, StayBrick DEF Stay
  <2> QED
    BY <1>6, <2>2, <2>3 DEF ClaimCheck
<1>7. CASE ClaimWrite(p)
  <2>1. /\ pc[p] = "claim_write" /\ latches' = latches \cup {<<Key(d), d>>}
        /\ UNCHANGED bricks /\ Stay(p, "submit")
    BY <1>2, <1>7 DEF ClaimWrite, Bricking, units
  <2>2. ~Latched(d) /\ bricks[d] = 0
    BY <1>2, <2>1 DEF Bricking, Claiming, BrickInv
  <2>3. Claiming(p)'
    BY <1>1, <1>2, <2>1, <2>2 DEF Bricking, Stay, Goto, ProcsOK, Claiming, Latched
  <2>4. Counted'
    BY <1>1, <2>1 DEF BrickInv, Counted, AtMostOneBrick, Latched, UnitsOK
  <2> QED
    BY <1>1, <2>1, <2>3, <2>4, StayBrick DEF Stay
<1>8. CASE SubmitBrick(p)
  <2>1. pc[p] = "submit" /\ UNCHANGED <<latches, bricks>> /\ Stay(p, "send")
    BY <1>8 DEF SubmitBrick, Save, units
  <2>2. Claiming(p)'
    BY <1>1, <1>2, <2>1 DEF Bricking, Stay, Goto, ProcsOK, Claiming, Latched
  <2> QED
    BY <1>1, <1>3, <2>1, <2>2, StayBrick DEF Stay
<1>9. CASE SendBrick(p)
  <2>1. /\ pc[p] = "send" /\ UNCHANGED latches /\ bricks' = [bricks EXCEPT ![d] = @ + 1]
        /\ Stay(p, "reconcile") \/ Leave(p)
    BY <1>9 DEF SendBrick, host
  <2>2. Latched(d) /\ bricks[d] = 0
    BY <1>2, <2>1 DEF Bricking, Claiming
  <2>3. Counted'
    BY <1>1, <2>1, <2>2 DEF BrickInv, Counted, AtMostOneBrick, Latched, UnitsOK
  <2> QED
    BY <1>1, <2>1, <2>3, StayBrick, LeaveBrick DEF Stay, Bricking
<1> QED
  BY <1>1, <1>4, <1>5, <1>6, <1>7, <1>8, <1>9, StepKinds

\* A command takes the free lock: nobody holds it, so nobody is in a brick sequence.
LEMMA CommandAlone ==
  ASSUME OneCacheRoot, TypeOK, Locked, NEW p \in Procs, Command(p)
  PROVE  /\ UNCHANGED <<latches, units>> /\ Locked'
         /\ \A q \in Procs : pc'[q] \notin Bricking
<1> DEFINE begun(l) == /\ lock[CacheOf[p]] = None /\ lock' = [lock EXCEPT ![CacheOf[p]] = p]
                       /\ pc' = [pc EXCEPT ![p] = l] /\ UNCHANGED <<latches, units>>
<1>1. begun("os_check") \/ begun("co_check") \/ begun("install")
  BY DEF Command, OneShot, ContinueOneShot, Install, Begin, Goto, host
<1>2. PICK l \in Labels \ Bricking : begun(l)
  BY <1>1 DEF Labels, Bricking
<1>3. None \notin Procs /\ CacheOf \in [Procs -> Caches]
  BY ConstantsOK
<1>4. \A q \in Procs : pc[q] = "idle"
  BY <1>2, <1>3 DEF OneCacheRoot, Locked
<1>5. \A q \in Procs : pc'[q] = IF q = p THEN l ELSE "idle"
  BY <1>2, <1>4 DEF TypeOK, ProcsOK
<1>6. lock'[CacheOf[p]] = p
  BY <1>2, <1>3 DEF TypeOK, ProcsOK
<1>7. Locked'
  BY <1>5, <1>6 DEF Locked
<1> QED
  BY <1>2, <1>5, <1>7 DEF Bricking

LEMMA BrickNext ==
  ASSUME OneCacheRoot, OneTargetEach, TypeOK, BrickInv, [Next]_vars
  PROVE  BrickInv'
<1>1. ASSUME NEW p \in Procs, Command(p)
      PROVE  BrickInv'
  <2>1. /\ UNCHANGED <<latches, bricks>> /\ Locked'
        /\ \A q \in Procs : pc'[q] \notin Bricking
    BY <1>1, CommandAlone DEF BrickInv, Locked, units, Bricking
  <2> QED
    BY <2>1 DEF BrickInv, AtMostOneBrick, Locked, Latched, Key
<1>2. ASSUME NEW p \in Procs, Step(p) \/ Timeout(p) \/ Abort(p)
      PROVE  BrickInv'
  BY <1>2, BrickInvStep
<1>3. ASSUME UNCHANGED <<latches, bricks, lock, pc, run>>
      PROVE  BrickInv'
  BY <1>3 DEF BrickInv, AtMostOneBrick, Locked, Claiming, Latched
<1>4. ASSUME NEW d \in Devices, World(d)
      PROVE  BrickInv'
  BY <1>3, <1>4, WorldQuiet DEF TypeOK
<1>5. CASE BecomeCalm \/ UNCHANGED vars
  BY <1>3, <1>5 DEF BecomeCalm, vars, host, units
<1> QED
  BY <1>1, <1>2, <1>4, <1>5 DEF Next

\* Runs that share one cache root, and name one target for a unit, never send the
\* brick payload to a unit twice, whatever install ids they use and however they
\* end: claim_brick_latch under one_shot's lock.
THEOREM BrickOnce ==
  ASSUME OneCacheRoot, OneTargetEach
  PROVE  Spec => []AtMostOneBrick
<1>1. Init => BrickInv
  BY DEF Init, BrickInv, AtMostOneBrick, Locked, Bricking
<1>2. TypeOK /\ BrickInv /\ [Next]_vars => BrickInv'
  BY BrickNext
<1>3. BrickInv => AtMostOneBrick
  BY DEF BrickInv
<1> QED
  BY <1>1, <1>2, <1>3, TypeCorrect, PTL DEF Spec

-----------------------------------------------------------------------------
(* No boot chain is destroyed *)

LEMMA ChainStep ==
  ASSUME OneCacheRoot, TypeOK, ChainInv, NEW p \in Procs, Step(p) \/ Timeout(p) \/ Abort(p)
  PROVE  ChainInv'
<1> DEFINE d == run[p].dev
<1> USE DEF At
<1>1. HostOK /\ UnitsOK /\ ProcsOK /\ Locked
  BY DEF TypeOK, ChainInv
<1>2. ASSUME pc[p] # "idle", NEW l, NEW e, SameChains, UNCHANGED lock, Goto(p, l),
             l \in Bricking => run'[p].dev = e /\ e \in Devices /\ dev[e].chain = "stock"
      PROVE  ChainInv'
  <2>1. Locked' /\ \A q \in Procs : q # p => pc'[q] = "idle"
    BY <1>1, <1>2, Alone
  <2>2. pc'[p] = l
    BY <1>1, <1>2 DEF Goto, ProcsOK
  <2>3. ChainIntact'
    BY <1>2 DEF ChainInv, ChainIntact, SameChains
  <2> QED
    BY <1>2, <2>1, <2>2, <2>3 DEF ChainInv, SameChains, Bricking
<1>3. CASE Quiet(p)
  <2>1. Locked' /\ \A q \in Procs : q # p => pc'[q] = "idle"
    BY <1>1, <1>3, Alone DEF Quiet, Onward
  <2>2. pc'[p] \notin Bricking
    BY <1>1, <1>3 DEF Quiet, Onward, Leave, Goto, ProcsOK, Bricking
  <2>3. ChainIntact'
    BY <1>3 DEF Quiet, ChainInv, ChainIntact, SameChains
  <2> QED
    BY <2>1, <2>2, <2>3 DEF ChainInv, Bricking
<1>4. CASE SelectDevice(p)
  <2>1. pc[p] = "select" /\ run[p] \in Run
    BY <1>1, <1>4, Alive DEF SelectDevice, Core
  <2>2. CASE Fail(p)
    BY <1>3, <2>1, <2>2, FailQuiet
  <2>3. CASE ~Fail(p)
    <3>1. PICK e \in Devices :
            /\ run' = [run EXCEPT ![p].dev = e]
            /\ Goto(p, IF dev[e].chain = "stock" THEN "claim_check" ELSE "handoff")
            /\ UNCHANGED <<lock, host, units>>
      BY <1>4, <2>3 DEF SelectDevice, NeedsBrick, Select, InFastboot
    <3>2. run'[p].dev = e
      BY <1>1, <2>1, <3>1 DEF Run, ProcsOK
    <3>3. SameChains /\ UNCHANGED lock
      BY <3>1 DEF units, SameChains
    <3>4. CASE dev[e].chain = "stock"
      BY <1>2, <2>1, <3>1, <3>2, <3>3, <3>4
    <3>5. CASE dev[e].chain # "stock"
      <4>1. Goto(p, "handoff") /\ "handoff" \notin Bricking
        BY <3>1, <3>5 DEF Bricking
      <4> QED
        BY <1>2, <2>1, <3>3, <4>1
    <3> QED
      BY <3>4, <3>5
  <2> QED
    BY <2>2, <2>3
<1>5. CASE ClaimCheck(p) \/ ClaimWrite(p) \/ SubmitBrick(p)
  <2>1. pc[p] \in {"claim_check", "claim_write", "submit"}
    BY <1>5 DEF ClaimCheck, ClaimWrite, SubmitBrick
  <2>2. d \in Devices /\ dev[d].chain = "stock"
    BY <1>1, <2>1, Alive DEF Core, RunOK, Bricking, ChainInv
  <2>3. Fail(p) \/ \E l : Stay(p, l) /\ UNCHANGED units
    BY <1>5 DEF ClaimCheck, ClaimWrite, SubmitBrick
  <2>4. CASE Fail(p)
    BY <1>3, <2>1, <2>4, FailQuiet
  <2>5. CASE \E l : Stay(p, l) /\ UNCHANGED units
    BY <1>2, <2>1, <2>2, <2>5 DEF Stay, units, SameChains
  <2> QED
    BY <2>3, <2>4, <2>5
<1>6. CASE SendBrick(p)
  <2>1. pc[p] = "send" /\ d \in Devices /\ dev[d] \in Device /\ dev[d].chain = "stock"
    BY <1>1, <1>6, Alive DEF SendBrick, Core, RunOK, Bricking, ChainInv, UnitsOK
  <2>2. \A m \in {"toFastboot", "recovery"} : [Moved(d, m) EXCEPT !.chain = "unlocked"].chain = "unlocked"
    BY <1>1, <2>1, MovedOK DEF Device
  <2>3. \A v \in BrickEffect(d) : v.chain # "destroyed"
    BY <2>1, <2>2 DEF BrickEffect
  <2>4. ChainIntact'
    BY <1>1, <1>6, <2>1, <2>3 DEF SendBrick, UnitsOK, ChainInv, ChainIntact
  <2>5. Leave(p) \/ (Goto(p, "reconcile") /\ UNCHANGED lock)
    BY <1>6 DEF SendBrick, Stay
  <2>6. Locked' /\ \A q \in Procs : q # p => pc'[q] = "idle"
    BY <1>1, <2>1, <2>5, Alone
  <2>7. pc'[p] \notin Bricking
    BY <1>1, <2>5 DEF Leave, Goto, ProcsOK, Bricking
  <2> QED
    BY <2>4, <2>6, <2>7 DEF ChainInv, Bricking
<1> QED
  BY <1>1, <1>3, <1>4, <1>5, <1>6, StepKinds

\* Under one cache root, no run ever sends the brick payload to a unit whose chain
\* is unlocked or carries Kaeru, so no unit loses its chain: the check in
\* plan_fastbrick still holds when the payload goes out.
THEOREM ChainKept ==
  ASSUME OneCacheRoot, IntactOrigins
  PROVE  Spec => []ChainIntact
<1>1. Init => ChainInv
  BY DEF Init, IntactOrigins, ChainInv, ChainIntact, Locked, Bricking
<1>2. TypeOK /\ ChainInv /\ [Next]_vars => ChainInv'
  <2> SUFFICES ASSUME TypeOK, ChainInv, [Next]_vars
               PROVE  ChainInv'
    OBVIOUS
  <2>1. ASSUME NEW p \in Procs, Command(p)
        PROVE  ChainInv'
    BY <2>1, CommandAlone DEF ChainInv, ChainIntact, units
  <2>2. ASSUME NEW p \in Procs, Step(p) \/ Timeout(p) \/ Abort(p)
        PROVE  ChainInv'
    BY <2>2, ChainStep
  <2>3. ASSUME NEW d \in Devices, World(d)
        PROVE  ChainInv'
    <3>1. UNCHANGED <<latches, bricks, lock, pc, run>> /\ SameChains
      BY <2>3, WorldQuiet DEF TypeOK
    <3>2. \A p \in Procs : pc[p] \in Bricking => run[p].dev \in Devices
      BY DEF TypeOK, ProcsOK, RunOK, Bricking
    <3> QED
      BY <3>1, <3>2 DEF ChainInv, ChainIntact, Locked, SameChains
  <2>4. CASE BecomeCalm \/ UNCHANGED vars
    BY <2>4 DEF BecomeCalm, vars, host, units, ChainInv, ChainIntact, Locked
  <2> QED
    BY <2>1, <2>2, <2>3, <2>4 DEF Next
<1>3. ChainInv => ChainIntact
  BY DEF ChainInv
<1> QED
  BY <1>1, <1>2, <1>3, TypeCorrect, PTL DEF Spec

-----------------------------------------------------------------------------
(* No unresolved brick is forgotten *)

\* install saves RELEASE_READY over any state.
NoInstall == "install" \notin Commands

\* The marker of an install id, and one whose unit answers for itself.
Marked(i) == saved[i] # None /\ saved[i].phase = "BRICK_SUBMITTED"
Resolved(i) == Marked(i) /\ saved[i].dev \in Devices => dev[saved[i].dev].chain # "stock"

\* A run reads the state, learns the outcome of a brick or has sent one; anywhere else it may
\* write, and the state of its id is not the only one that remembers a brick.
Special == {"idle", "install", "os_check", "co_check", "send", "reconcile", "reconciling"}
Plain == Labels \ Special
Rereading == {"co_resume", "co_resuming", "co_bind", "co_attach", "co_booting", "re_select"}
RunMark(p) ==
  /\ pc[p] # "install"
  /\ pc[p] = "send" => Marked(run[p].id) /\ saved[run[p].id].dev = run[p].dev
  /\ pc[p] \in {"reconcile", "reconciling"} /\ Marked(run[p].id) =>
       saved[run[p].id].dev \in {None, run[p].dev}
  /\ pc[p] \in Plain => Resolved(run[p].id)
  /\ pc[p] \in Rereading => run[p].st.phase # "BRICK_SUBMITTED"
MarkInv == Locked /\ UnresolvedBrickRemembered /\ \A p \in Procs : RunMark(p)

-----------------------------------------------------------------------------
(* Steps that write no marker and stay away from the special places *)

Kept(p) ==
  UNCHANGED saved \/ \E s : s.phase # "BRICK_SUBMITTED" /\ saved' = [saved EXCEPT ![run[p].id] = s]
Goes(p) ==
  /\ pc'[p] \in Plain /\ run'[p].id = run[p].id
  /\ pc'[p] \in Rereading => run'[p].st.phase # "BRICK_SUBMITTED"
Noted(p) == Kept(p) /\ (pc'[p] = "idle" \/ Goes(p))

\* The ways a step leaves its place.
LEMMA FailNoted ==
  ASSUME ProcsOK, NEW p \in Procs, Leave(p), Kept(p)
  PROVE  Noted(p)
BY DEF Leave, Noted, ProcsOK

LEMMA StayNoted ==
  ASSUME ProcsOK, NEW p \in Procs, NEW l \in Plain, Stay(p, l), Kept(p),
         l \in Rereading => run[p].st.phase # "BRICK_SUBMITTED"
  PROVE  Noted(p)
BY DEF Stay, Goto, Noted, Goes, ProcsOK

LEMMA GotoNoted ==
  ASSUME ProcsOK, NEW p \in Procs, NEW l \in Plain, NEW v, Goto(p, l),
         run' = [run EXCEPT ![p] = v], v.id = run[p].id, Kept(p),
         l \in Rereading => v.st.phase # "BRICK_SUBMITTED"
  PROVE  Noted(p)
BY DEF Goto, Noted, Goes, ProcsOK

\* The ways a step writes the state.
LEMMA PhaseKept ==
  ASSUME HostOK, NEW p \in Procs, RunOK(p), NEW phase \in Phases \ {"BRICK_SUBMITTED"},
         SavePhase(p, phase) \/ SaveFormatted(p, phase)
  PROVE  Kept(p)
<1>1. Carry(p) \in State
  BY CarryOK
<1>2. /\ [Carry(p) EXCEPT !.phase = phase].phase = phase
      /\ [Carry(p) EXCEPT !.phase = phase, !.fmt = TRUE].phase = phase
  BY <1>1 DEF State
<1> QED
  BY <1>2 DEF SavePhase, SaveFormatted, Save, Kept

LEMMA BoundKept ==
  ASSUME NEW p \in Procs, RunOK(p), run[p].st # None, NEW phase \in Phases \ {"BRICK_SUBMITTED"},
         SaveBound(p, phase)
  PROVE  Kept(p)
<1>1. [run[p].st EXCEPT !.phase = phase, !.dev = run[p].dev].phase = phase
  BY DEF RunOK, Run, State
<1> QED
  BY <1>1 DEF SaveBound, Save, Kept

LEMMA HostKept ==
  ASSUME UNCHANGED host
  PROVE  \A p : Kept(p)
BY DEF host, Kept

LEMMA FormatNoted ==
  ASSUME ProcsOK, NEW p \in Procs, NEW from, NEW to \in Plain \ Rereading, Format(p, from, to)
  PROVE  Noted(p)
<1>1. UNCHANGED host /\ (Leave(p) \/ Stay(p, to))
  BY DEF Format, Fail
<1> QED
  BY <1>1, HostKept, FailNoted, StayNoted

LEMMA OneShotNoted ==
  ASSUME Core, NEW p \in Procs, OneShotStep(p), pc[p] \in Plain
  PROVE  Noted(p)
<1> USE DEF At, Core, Plain, Special, Labels, Rereading
<1>0. RunOK(p) /\ run[p] \in Run
  BY DEF ProcsOK, RunOK
<1>1. ~InstallReady(p) /\ ~OneShotCheck(p)
  BY DEF InstallReady, OneShotCheck
<1>2. CASE EnterFastboot(p)
  <2>1. \/ UNCHANGED host /\ (Leave(p) \/ Stay(p, "ready"))
        \/ /\ Goto(p, "entering") /\ UNCHANGED host
           /\ \E d : run' = [run EXCEPT ![p] = [run[p] EXCEPT !.dev = d]]
    BY <1>2 DEF EnterFastboot, Fail
  <2>2. \A d : [run[p] EXCEPT !.dev = d].id = run[p].id
    BY <1>0 DEF Run
  <2> QED
    BY <2>1, <2>2, HostKept, FailNoted, StayNoted, GotoNoted
<1>3. CASE EnteringFastboot(p)
  BY <1>3, HostKept, StayNoted DEF EnteringFastboot
<1>4. CASE WriteReady(p)
  <2>1. Kept(p)
    BY <1>4 DEF WriteReady, Save, Blank, Kept
  <2> QED
    BY <1>4, <2>1, StayNoted DEF WriteReady
<1>5. CASE SelectDevice(p)
  <2>1. \/ UNCHANGED host /\ Leave(p)
        \/ /\ UNCHANGED host
           /\ Goto(p, "claim_check") \/ Goto(p, "handoff")
           /\ \E d : run' = [run EXCEPT ![p] = [run[p] EXCEPT !.dev = d]]
    BY <1>5 DEF SelectDevice, Fail
  <2>2. \A d : [run[p] EXCEPT !.dev = d].id = run[p].id
    BY <1>0 DEF Run
  <2> QED
    BY <2>1, <2>2, HostKept, FailNoted, GotoNoted
<1>6. CASE BindDevice(p)
  <2>1. PICK d \in Devices :
          /\ Save(p, [Carry(p) EXCEPT !.phase = "AMONET_HANDOFF", !.fmt = FALSE, !.dev = d])
          /\ run' = [run EXCEPT ![p] = [run[p] EXCEPT !.dev = d]]
    BY <1>6 DEF BindDevice, Select, InFastboot
  <2>2. [run[p] EXCEPT !.dev = d].id = run[p].id
    BY <1>0 DEF Run
  <2>3. [Carry(p) EXCEPT !.phase = "AMONET_HANDOFF", !.fmt = FALSE, !.dev = d].phase # "BRICK_SUBMITTED"
    BY <1>0, CarryOK DEF State
  <2> QED
    BY <1>6, <2>1, <2>2, <2>3, GotoNoted DEF BindDevice, Save, Kept
<1>7. CASE Format(p, "format", "format_done")
  BY <1>7, FormatNoted
<1>8. CASE RecordFormat(p)
  BY <1>0, <1>8, PhaseKept, StayNoted DEF RecordFormat, Phases
<1>9. CASE WriteFastbootReady(p)
  BY <1>0, <1>9, PhaseKept, StayNoted DEF WriteFastbootReady, Phases
<1>10. CASE FlashBoot(p)
  BY <1>10, HostKept, FailNoted, StayNoted DEF FlashBoot, Fail
<1>11. CASE WriteBootWritten(p)
  BY <1>0, <1>11, PhaseKept, StayNoted DEF WriteBootWritten, Phases
<1>12. CASE RebootInstalled(p, "reboot", "await_adb")
  BY <1>12, HostKept, StayNoted DEF RebootInstalled
<1>13. CASE WriteAdbReady(p)
  BY <1>0, <1>13, PhaseKept, StayNoted DEF WriteAdbReady, Phases
<1>14. CASE Readback(p)
  <2>1. CASE Fail(p)
    BY <2>1, HostKept, FailNoted DEF Fail
  <2>2. CASE SavePhase(p, "READBACK_VERIFIED") /\ Stay(p, "stage")
    BY <1>0, <2>2, PhaseKept, StayNoted DEF Phases
  <2> QED
    BY <1>14, <2>1, <2>2 DEF Readback
<1>15. CASE StageFeatures(p)
  BY <1>15, HostKept, FailNoted, StayNoted DEF StageFeatures, Fail
<1>16. CASE WriteFeaturesStaged(p)
  BY <1>0, <1>16, PhaseKept, StayNoted DEF WriteFeaturesStaged, Phases
<1> QED
  BY <1>1, <1>2, <1>3, <1>4, <1>5, <1>6, <1>7, <1>8, <1>9, <1>10, <1>11, <1>12, <1>13, <1>14,
     <1>15, <1>16 DEF OneShotStep

LEMMA FinishNoted ==
  ASSUME Core, NEW p \in Procs, FinishStep(p)
  PROVE  Noted(p)
<1> USE DEF At, Core, Plain, Special, Labels, Rereading
<1>0. RunOK(p) /\ run[p] \in Run
  BY DEF ProcsOK, RunOK, FinishStep, PublishGeneration, DeliverSetup, FinalReboot, AwaitReady,
         CompleteInstall
<1>1. CASE PublishGeneration(p)
  <2>1. \/ UNCHANGED host /\ (Leave(p) \/ Stay(p, "deliver"))
        \/ /\ UNCHANGED host /\ Goto(p, "deliver")
           /\ run' = [run EXCEPT ![p] = [run[p] EXCEPT !.reboot = TRUE]]
    BY <1>1 DEF PublishGeneration, Fail
  <2>2. [run[p] EXCEPT !.reboot = TRUE].id = run[p].id
    BY <1>0 DEF Run
  <2> QED
    BY <2>1, <2>2, HostKept, FailNoted, StayNoted, GotoNoted
<1>2. CASE DeliverSetup(p)
  <2>1. \/ UNCHANGED host /\ (Leave(p) \/ Stay(p, "final"))
        \/ /\ UNCHANGED host /\ Goto(p, "final")
           /\ \/ run' = [run EXCEPT ![p] = [run[p] EXCEPT !.out = "already-complete"]]
              \/ run' = [run EXCEPT ![p] = [run[p] EXCEPT !.out = "delivered", !.reboot = TRUE]]
    BY <1>2 DEF DeliverSetup, Fail
  <2>2. /\ [run[p] EXCEPT !.out = "already-complete"].id = run[p].id
        /\ [run[p] EXCEPT !.out = "delivered", !.reboot = TRUE].id = run[p].id
    BY <1>0 DEF Run
  <2> QED
    BY <2>1, <2>2, HostKept, FailNoted, StayNoted, GotoNoted
<1>3. CASE FinalReboot(p)
  BY <1>3, HostKept, StayNoted DEF FinalReboot
<1>4. CASE AwaitReady(p)
  BY <1>4, HostKept, StayNoted DEF AwaitReady
<1>5. CASE CompleteInstall(p)
  <2>1. CASE Fail(p)
    BY <2>1, HostKept, FailNoted DEF Fail
  <2>2. ASSUME NEW phase \in Phases \ {"BRICK_SUBMITTED"}, SavePhase(p, phase), Leave(p)
        PROVE  Noted(p)
    BY <1>0, <2>2, PhaseKept, FailNoted
  <2>3. Fail(p) \/ \E phase \in Phases \ {"BRICK_SUBMITTED"} : SavePhase(p, phase) /\ Leave(p)
    BY <1>5 DEF CompleteInstall, Phases
  <2> QED
    BY <2>1, <2>2, <2>3
<1> QED
  BY <1>1, <1>2, <1>3, <1>4, <1>5 DEF FinishStep

LEMMA ContinueNoted ==
  ASSUME Core, NEW p \in Procs, ContinueStep(p), pc[p] \in Plain, RunMark(p)
  PROVE  Noted(p)
<1> USE DEF At, Core, Plain, Special, Labels, Rereading
<1>0. RunOK(p) /\ run[p] \in Run /\ (pc[p] \in Resuming => run[p].st # None /\ run[p].st \in State)
  BY DEF ProcsOK, RunOK, Run
<1>1. ~ContinueCheck(p)
  BY DEF ContinueCheck
<1>2. ASSUME pc[p] \in Rereading, NEW l \in Plain, SaveBound(p, run[p].st.phase), Stay(p, l)
      PROVE  Noted(p)
  <2>1. run[p].st # None /\ run[p].st.phase \in Phases \ {"BRICK_SUBMITTED"}
    BY <1>0, <1>2 DEF RunMark, State, Resuming
  <2> QED
    BY <1>0, <1>2, <2>1, BoundKept, StayNoted
<1>3. CASE ResumeTransport(p) \/ Resumed(p)
  <2>1. run[p].st.phase # "BRICK_SUBMITTED"
    BY <1>3 DEF ResumeTransport, Resumed, RunMark
  <2> QED
    BY <1>3, <2>1, HostKept, FailNoted, StayNoted DEF ResumeTransport, Resumed, Fail
<1>4. CASE WriteReconciled(p)
  <2> DEFINE st == [run[p].st EXCEPT !.phase = "AMONET_HANDOFF", !.dev = run[p].dev]
  <2>1. /\ Save(p, st) /\ run' = [run EXCEPT ![p] = [run[p] EXCEPT !.st = st]]
        /\ Goto(p, "co_bind") /\ pc[p] = "co_handoff"
    BY <1>4 DEF WriteReconciled
  <2>2. st.phase = "AMONET_HANDOFF"
    BY <1>0, <2>1 DEF State, Resuming
  <2>3. [run[p] EXCEPT !.st = st].id = run[p].id /\ [run[p] EXCEPT !.st = st].st = st
    BY <1>0 DEF Run
  <2> HIDE DEF st
  <2> QED
    BY <2>1, <2>2, <2>3, GotoNoted DEF Save, Kept
<1>5. CASE ContinueBind(p) \/ PendingBooted(p)
  BY <1>2, <1>5 DEF ContinueBind, PendingBooted
<1>6. CASE ContinueVerify(p)
  BY <1>6, HostKept, FailNoted, StayNoted DEF ContinueVerify, Fail
<1>7. CASE Attach(p)
  <2>1. pc[p] = "co_attach" /\ run[p].st.phase # "BRICK_SUBMITTED"
    BY <1>7 DEF Attach, RunMark
  <2>2. \/ UNCHANGED host /\ (Stay(p, "co_booting") \/ Leave(p))
        \/ SaveBound(p, run[p].st.phase) /\ Stay(p, "co_readback")
    BY <1>7 DEF Attach, Fail
  <2> QED
    BY <1>2, <2>1, <2>2, HostKept, FailNoted, StayNoted
<1>8. CASE ContinueReadback(p)
  <2>1. CASE Fail(p)
    BY <2>1, HostKept, FailNoted DEF Fail
  <2>2. ASSUME NEW phase \in Phases \ {"BRICK_SUBMITTED"}, SaveBound(p, phase),
               Stay(p, "co_features") \/ Stay(p, "stage"), pc[p] = "co_readback"
        PROVE  Noted(p)
    BY <1>0, <2>2, BoundKept, StayNoted DEF Resuming
  <2>3. ~Fail(p) => \E phase \in Phases \ {"BRICK_SUBMITTED"} :
                      SaveBound(p, phase) /\ (Stay(p, "co_features") \/ Stay(p, "stage"))
    BY <1>8 DEF ContinueReadback, Staged, Phases
  <2> QED
    BY <1>8, <2>1, <2>2, <2>3 DEF ContinueReadback
<1>9. CASE ContinueFeatures(p)
  BY <1>9, HostKept, FailNoted, StayNoted DEF ContinueFeatures, Fail
<1>10. CASE RepairSelect(p)
  <2>1. pc[p] = "re_select"
    BY <1>10 DEF RepairSelect
  <2>2. (UNCHANGED host /\ Leave(p)) \/ (SaveBound(p, run[p].st.phase) /\ Stay(p, "re_reboot"))
    BY <1>10 DEF RepairSelect, Fail
  <2> QED
    BY <1>2, <2>1, <2>2, HostKept, FailNoted
<1>11. CASE RepairReboot(p)
  BY <1>11, HostKept, FailNoted, StayNoted DEF RepairReboot, Fail
<1>12. CASE RepairWait(p)
  BY <1>12, HostKept, StayNoted DEF RepairWait
<1>13. CASE Format(p, "re_format", "re_done")
  BY <1>13, FormatNoted
<1>14. CASE RecordRepair(p)
  BY <1>0, <1>14, PhaseKept, StayNoted DEF RecordRepair, Phases
<1>15. CASE RebootInstalled(p, "re_boot", "re_await")
  BY <1>15, HostKept, StayNoted DEF RebootInstalled
<1>16. CASE RepairBooted(p)
  BY <1>16, HostKept, StayNoted DEF RepairBooted
<1> QED
  BY <1>1, <1>3, <1>4, <1>5, <1>6, <1>7, <1>8, <1>9, <1>10, <1>11, <1>12, <1>13, <1>14, <1>15,
     <1>16 DEF ContinueStep

LEMMA BrickNoted ==
  ASSUME Core, NEW p \in Procs, ClaimCheck(p) \/ ClaimWrite(p) \/ WriteHandoff(p)
  PROVE  Noted(p)
<1> USE DEF At, Core, Plain, Special, Labels, Rereading
<1>1. CASE ClaimCheck(p)
  BY <1>1, HostKept, FailNoted, StayNoted DEF ClaimCheck, Fail
<1>2. CASE ClaimWrite(p)
  BY <1>2, StayNoted DEF ClaimWrite, Kept
<1>3. CASE WriteHandoff(p)
  <2>1. RunOK(p)
    BY <1>3 DEF WriteHandoff, ProcsOK
  <2>2. [Carry(p) EXCEPT !.phase = "AMONET_HANDOFF", !.dev = run[p].dev].phase # "BRICK_SUBMITTED"
    BY <2>1, CarryOK DEF State
  <2> QED
    BY <1>3, <2>2, StayNoted DEF WriteHandoff, Save, Kept
<1> QED
  BY <1>1, <1>2, <1>3

-----------------------------------------------------------------------------
(* What keeps the markers *)

\* Only the state of an id that remembers nothing, or a unit that answers for
\* itself, is written.
LEMMA Remembers ==
  ASSUME HostOK, UnresolvedBrickRemembered, SameChains, UNCHANGED bricks, NEW i \in Ids,
         UNCHANGED saved \/ (Resolved(i) /\ \E s : saved' = [saved EXCEPT ![i] = s])
  PROVE  UnresolvedBrickRemembered'
<1> SUFFICES ASSUME NEW d \in Devices, bricks'[d] > 0, dev'[d].chain = "stock"
             PROVE  \E j \in Ids : saved'[j] # None /\ saved'[j].phase = "BRICK_SUBMITTED"
                                   /\ saved'[j].dev = d
  BY DEF UnresolvedBrickRemembered
<1>1. bricks[d] > 0 /\ dev[d].chain = "stock"
  BY DEF SameChains
<1>2. PICK j \in Ids : saved[j] # None /\ saved[j].phase = "BRICK_SUBMITTED" /\ saved[j].dev = d
  BY <1>1 DEF UnresolvedBrickRemembered
<1>3. Resolved(i) => i # j
  BY <1>1, <1>2 DEF Resolved, Marked
<1>4. saved'[j] = saved[j]
  BY <1>3 DEF HostOK
<1> QED
  BY <1>2, <1>4

\* An idle run knows nothing.
LEMMA IdleMark ==
  ASSUME NEW p \in Procs, pc'[p] = "idle"
  PROVE  RunMark(p)'
BY DEF RunMark, Plain, Special, Rereading

\* A step of the only run there is.
LEMMA AloneStep ==
  ASSUME OneCacheRoot, TypeOK, MarkInv, NEW p \in Procs, pc[p] # "idle",
         Leave(p) \/ (UNCHANGED lock /\ \E l : Goto(p, l)),
         UnresolvedBrickRemembered', pc'[p] # "idle" => RunMark(p)'
  PROVE  MarkInv'
<1>1. Locked' /\ \A q \in Procs : q # p => pc'[q] = "idle"
  BY Alone DEF MarkInv, TypeOK
<1> QED
  BY <1>1, IdleMark DEF MarkInv

LEMMA NotedStep ==
  ASSUME OneCacheRoot, TypeOK, MarkInv, NEW p \in Procs, pc[p] \in Plain,
         Leave(p) \/ (UNCHANGED lock /\ \E l : Goto(p, l)),
         SameChains, UNCHANGED bricks, Noted(p)
  PROVE  MarkInv'
<1>1. pc[p] # "idle" /\ run[p].id \in Ids /\ Resolved(run[p].id)
  BY DEF Plain, Special, TypeOK, ProcsOK, RunOK, Run, MarkInv, RunMark
<1>2. UnresolvedBrickRemembered'
  BY <1>1, Remembers DEF MarkInv, TypeOK, Noted, Kept
<1>3. ASSUME pc'[p] # "idle"
      PROVE  RunMark(p)'
  <2>1. Goes(p) /\ Kept(p)
    BY <1>3 DEF Noted
  <2>2. Resolved(run[p].id)'
    <3>1. run'[p].id = run[p].id /\ saved \in [Ids -> State \cup {None}]
      BY <2>1 DEF Goes, TypeOK, HostOK
    <3>2. CASE UNCHANGED saved
      BY <1>1, <3>1, <3>2 DEF Resolved, Marked, SameChains
    <3>3. CASE \E s : s.phase # "BRICK_SUBMITTED" /\ saved' = [saved EXCEPT ![run[p].id] = s]
      BY <1>1, <3>1, <3>3 DEF Resolved, Marked
    <3> QED
      BY <2>1, <3>2, <3>3 DEF Kept
  <2> QED
    BY <2>1, <2>2 DEF Goes, RunMark, Plain, Special, Resolved, Marked
<1> QED
  BY <1>1, <1>2, <1>3, AloneStep

\* A run that ends and leaves the files and units as they are.
LEMMA FailStep ==
  ASSUME OneCacheRoot, TypeOK, MarkInv, NEW p \in Procs, pc[p] # "idle", Fail(p)
  PROVE  MarkInv'
<1>1. UnresolvedBrickRemembered'
  BY DEF Fail, host, units, MarkInv, UnresolvedBrickRemembered
<1>2. pc'[p] = "idle" /\ Leave(p)
  BY DEF Fail, Leave, TypeOK, ProcsOK
<1> QED
  BY <1>1, <1>2, AloneStep

-----------------------------------------------------------------------------
(* The special places *)

LEMMA OneShotCheckStep ==
  ASSUME OneCacheRoot, TypeOK, MarkInv, NEW p \in Procs, OneShotCheck(p)
  PROVE  MarkInv'
<1> DEFINE i == run[p].id
           st == saved[i]
<1>1. pc[p] = "os_check" /\ run[p] \in Run /\ i \in Ids
  BY DEF OneShotCheck, At, TypeOK, ProcsOK, RunOK, Run
<1>2. CASE Fail(p)
  BY <1>1, <1>2, FailStep
<1>3. CASE ~Fail(p)
  <2>1. ~Marked(i)
    BY <1>3 DEF OneShotCheck, OneShotRefused, Unreconciled, Marked
  <2>2. SameChains /\ UNCHANGED <<bricks, lock>>
    BY <1>3 DEF OneShotCheck, units, SameChains, Stay
  <2>3. UNCHANGED saved \/ saved' = [saved EXCEPT ![i] = None]
    BY <1>3 DEF OneShotCheck, ArchiveState, host
  <2>4. UnresolvedBrickRemembered'
    BY <1>1, <2>1, <2>2, <2>3, Remembers DEF MarkInv, TypeOK, Resolved
  <2>5. Goto(p, "enter") \/ Goto(p, "ready")
    BY <1>3 DEF OneShotCheck, Stay
  <2>6. run'[p].id = run[p].id
    <3>1. \A v : [run[p] EXCEPT !.again = TRUE, !.req = v].id = run[p].id
      BY <1>1 DEF Run
    <3>2. \/ run' = run
          \/ \E v : run' = [run EXCEPT ![p] = [run[p] EXCEPT !.again = TRUE, !.req = v]]
      BY <1>3 DEF OneShotCheck, Stay
    <3>3. run \in [Procs -> Run \cup {None}]
      BY DEF TypeOK, ProcsOK
    <3>4. CASE run' = run
      BY <3>4
    <3>5. ASSUME NEW v, run' = [run EXCEPT ![p] = [run[p] EXCEPT !.again = TRUE, !.req = v]]
          PROVE  run'[p].id = run[p].id
      <4>1. run'[p] = [run[p] EXCEPT !.again = TRUE, !.req = v]
        BY <3>3, <3>5
      <4> QED
        BY <3>1, <4>1
    <3> QED
      BY <3>2, <3>4, <3>5
  <2>7. (~Marked(i))'
    BY <1>1, <2>1, <2>3, <2>6 DEF Marked, TypeOK, HostOK
  <2>8. RunMark(p)'
    BY <2>5, <2>6, <2>7 DEF RunMark, Resolved, Marked, Rereading, Goto, TypeOK, ProcsOK
  <2> QED
    BY <1>1, <2>2, <2>4, <2>5, <2>8, AloneStep
<1> QED
  BY <1>2, <1>3

LEMMA ContinueCheckStep ==
  ASSUME OneCacheRoot, TypeOK, MarkInv, NEW p \in Procs, ContinueCheck(p)
  PROVE  MarkInv'
<1> DEFINE i == run[p].id
           st == saved[i]
           bound == IF st.dev # None THEN st.dev ELSE run[p].req
<1>1. pc[p] = "co_check" /\ run[p] \in Run /\ i \in Ids
  BY DEF ContinueCheck, At, TypeOK, ProcsOK, RunOK, Run
<1>2. CASE Fail(p)
  BY <1>1, <1>2, FailStep
<1>3. CASE ~Fail(p)
  <2>1. /\ Continuable(p, st) /\ UNCHANGED <<lock, host, units>>
        /\ run' = [run EXCEPT ![p] = [run[p] EXCEPT !.st = st, !.req = bound, !.dev = bound]]
        /\ Goto(p, CASE st.phase \in Staged -> "co_resume"
                     [] st.phase \in Unreconciled -> "reconcile"
                     [] NeedsRepair(st) -> "re_select"
                     [] st.phase \in {"AMONET_HANDOFF", "FASTBOOT_READY"} -> "co_bind"
                     [] OTHER -> "co_attach")
    BY <1>3 DEF ContinueCheck
  <2>2. /\ SameChains /\ UNCHANGED <<bricks, saved>> /\ UnresolvedBrickRemembered'
        /\ UNCHANGED lock /\ \E l : Goto(p, l)
    BY <2>1 DEF host, units, SameChains, MarkInv, UnresolvedBrickRemembered
  <2>3. run'[p].id = i /\ run'[p].st = st /\ run'[p].dev = bound
    <3> DEFINE v == [run[p] EXCEPT !.st = st, !.req = bound, !.dev = bound]
    <3>1. v.id = i /\ v.st = st /\ v.dev = bound
      BY <1>1 DEF Run
    <3>2. run'[p] = v
      BY <2>1 DEF TypeOK, ProcsOK
    <3> QED
      BY <3>1, <3>2
  <2>4. st # None
    BY <2>1 DEF Continuable
  <2>5. CASE st.phase = "BRICK_SUBMITTED"
    <3>1. pc'[p] = "reconcile"
      BY <1>1, <2>1, <2>5 DEF Staged, Unreconciled, NeedsRepair, Goto, TypeOK, ProcsOK
    <3>2. RunMark(p)'
      BY <2>2, <2>3, <3>1 DEF RunMark, Marked, Plain, Special, Rereading
    <3> QED
      BY <1>1, <2>2, <3>2, AloneStep
  <2>6. CASE st.phase # "BRICK_SUBMITTED"
    <3>1. pc'[p] \in {"co_resume", "reconcile", "re_select", "co_bind", "co_attach"}
      BY <1>1, <2>1 DEF Goto, TypeOK, ProcsOK
    <3>2. RunMark(p)'
      BY <2>2, <2>3, <2>6, <3>1 DEF RunMark, Marked, Resolved
    <3> QED
      BY <1>1, <2>2, <3>2, AloneStep
  <2> QED
    BY <2>5, <2>6
<1> QED
  BY <1>2, <1>3

\* The marker is saved before the payload goes out.
LEMMA SubmitStep ==
  ASSUME OneCacheRoot, TypeOK, MarkInv, NEW p \in Procs, SubmitBrick(p)
  PROVE  MarkInv'
<1> DEFINE i == run[p].id
           s == [phase |-> "BRICK_SUBMITTED", rel |-> run[p].rel, fmt |-> FALSE, dev |-> run[p].dev]
<1>1. pc[p] = "submit" /\ i \in Ids
  BY DEF SubmitBrick, At, TypeOK, ProcsOK, RunOK, Run
<1>2. saved' = [saved EXCEPT ![i] = s] /\ Stay(p, "send") /\ UNCHANGED units
  BY DEF SubmitBrick, Save
<1>3. Resolved(i)
  BY <1>1 DEF MarkInv, RunMark, Plain, Special, Labels
<1>4. SameChains /\ UNCHANGED bricks
  BY <1>2 DEF units, SameChains
<1>5. UnresolvedBrickRemembered'
  BY <1>1, <1>2, <1>3, <1>4, Remembers DEF MarkInv, TypeOK
<1>6. s # None
  <2>1. run[p].dev \in Devices /\ run[p].rel \in Releases
    BY <1>1 DEF TypeOK, ProcsOK, RunOK, Run, Bricking
  <2>2. s \in State
    BY <2>1 DEF State, Phases
  <2> QED
    BY <2>2, ConstantsOK
<1>7. saved'[i] = s /\ pc'[p] = "send" /\ run' = run
  BY <1>1, <1>2 DEF TypeOK, HostOK, ProcsOK, Stay, Goto
<1>8. RunMark(p)'
  BY <1>6, <1>7 DEF RunMark, Marked, Plain, Special, Rereading
<1> QED
  BY <1>1, <1>2, <1>5, <1>8, AloneStep DEF Stay

LEMMA SendStep ==
  ASSUME OneCacheRoot, TypeOK, MarkInv, NEW p \in Procs, SendBrick(p)
  PROVE  MarkInv'
<1> DEFINE i == run[p].id
           d == run[p].dev
<1>1. pc[p] = "send" /\ i \in Ids /\ d \in Devices
  BY DEF SendBrick, At, TypeOK, ProcsOK, RunOK, Run, Bricking
<1>2. Marked(i) /\ saved[i].dev = d
  BY <1>1 DEF MarkInv, RunMark
<1>3. UNCHANGED saved /\ (Stay(p, "reconcile") \/ Leave(p))
  BY DEF SendBrick, host
<1>4. \A e \in Devices : e # d => bricks'[e] = bricks[e] /\ dev'[e] = dev[e]
  BY DEF SendBrick, TypeOK, UnitsOK
<1>5. UnresolvedBrickRemembered'
  <2> SUFFICES ASSUME NEW e \in Devices, bricks'[e] > 0, dev'[e].chain = "stock"
               PROVE  \E j \in Ids : saved[j] # None /\ saved[j].phase = "BRICK_SUBMITTED"
                                     /\ saved[j].dev = e
    BY <1>3 DEF UnresolvedBrickRemembered
  <2>1. CASE e = d
    BY <1>1, <1>2, <2>1 DEF Marked
  <2>2. CASE e # d
    BY <1>4, <2>2 DEF MarkInv, UnresolvedBrickRemembered
  <2> QED
    BY <2>1, <2>2
<1>6. ASSUME pc'[p] # "idle"
      PROVE  RunMark(p)'
  <2>1. pc'[p] = "reconcile" /\ run' = run
    BY <1>1, <1>3, <1>6 DEF Stay, Goto, Leave, TypeOK, ProcsOK
  <2> QED
    BY <1>2, <1>3, <2>1 DEF RunMark, Marked, Plain, Special, Rereading
<1> QED
  BY <1>1, <1>3, <1>5, <1>6, AloneStep DEF Stay

\* The marker is given up only for a unit that was found unlocked.
LEMMA ReconcileStep ==
  ASSUME OneCacheRoot, TypeOK, MarkInv, NEW p \in Procs, Reconcile(p)
  PROVE  MarkInv'
<1> DEFINE i == run[p].id
           d == run[p].dev
<1>1. pc[p] \in {"reconcile", "reconciling"} /\ pc[p] # "idle" /\ i \in Ids
  BY DEF Reconcile, TypeOK, ProcsOK, RunOK, Run
<1>2. UNCHANGED saved /\ \E l \in {"handoff", "co_handoff", "reconciling"} : Stay(p, l)
  BY DEF Reconcile, host
<1>3. SameChains /\ UNCHANGED bricks
  BY FrameQuiet, MoveChain DEF Reconcile, TypeOK
<1>4. UnresolvedBrickRemembered'
  BY <1>1, <1>2, <1>3, Remembers DEF MarkInv, TypeOK
<1>5. Marked(i) => saved[i].dev \in {None, d}
  BY <1>1 DEF MarkInv, RunMark
<1>6. RunMark(p)'
  <2>1. PICK l \in {"handoff", "co_handoff", "reconciling"} : Stay(p, l)
    BY <1>2
  <2>2. pc'[p] = l /\ run' = run
    BY <2>1 DEF Stay, Goto, TypeOK, ProcsOK
  <2>3. CASE l = "reconciling"
    BY <1>2, <1>5, <2>2, <2>3 DEF RunMark, Marked, Plain, Special, Rereading
  <2>4. CASE l # "reconciling"
    <3>1. Unlocked(p, d)
      BY <2>2, <2>4 DEF Reconcile, Stay, Goto, TypeOK, ProcsOK
    <3>2. Resolved(i)'
      BY <1>2, <1>3, <1>5, <2>2, <3>1, ConstantsOK DEF Unlocked, Resolved, Marked, SameChains
    <3> QED
      BY <2>1, <2>2, <2>4, <3>2 DEF RunMark, Rereading, Resolved, Marked
  <2> QED
    BY <2>3, <2>4
<1> QED
  BY <1>1, <1>2, <1>4, <1>6, AloneStep DEF Stay

-----------------------------------------------------------------------------
(* The theorem *)

LEMMA MarkStep ==
  ASSUME OneCacheRoot, TypeOK, MarkInv, NEW p \in Procs, Step(p) \/ Timeout(p) \/ Abort(p)
  PROVE  MarkInv'
<1>1. CASE Timeout(p) \/ Abort(p)
  BY <1>1, FailStep DEF Timeout, Abort, At
<1>2. CASE OneShotCheck(p) \/ ContinueCheck(p) \/ SubmitBrick(p) \/ SendBrick(p) \/ Reconcile(p)
  BY <1>2, OneShotCheckStep, ContinueCheckStep, SubmitStep, SendStep, ReconcileStep
<1>3. CASE /\ Step(p)
           /\ ~(OneShotCheck(p) \/ ContinueCheck(p) \/ SubmitBrick(p) \/ SendBrick(p) \/ Reconcile(p))
  <2>1. Quiet(p) \/ SelectDevice(p) \/ ClaimCheck(p) \/ ClaimWrite(p)
    BY <1>3, StepKinds DEF TypeOK
  <2>2. UNCHANGED units => SameChains /\ UNCHANGED bricks
    BY FrameQuiet
  <2>3. /\ SameChains /\ UNCHANGED bricks
        /\ Leave(p) \/ (UNCHANGED lock /\ \E l : Goto(p, l))
    BY <2>1, <2>2 DEF Quiet, Onward, SelectDevice, ClaimCheck, ClaimWrite, Fail, Stay
  <2>4. pc[p] \in Plain
    <3>1. pc[p] # "install"
      BY DEF MarkInv, RunMark
    <3>2. pc[p] \in Labels \ {"idle", "os_check", "co_check", "send", "reconcile", "reconciling"}
      <4> USE DEF At, Labels
      <4>1. CASE BrickStep(p)
        BY <1>3, <4>1 DEF BrickStep, ClaimCheck, ClaimWrite, WriteHandoff
      <4>2. CASE OneShotStep(p)
        BY ZenonT(60), <1>3, <3>1, <4>2 DEF OneShotStep, InstallReady, EnterFastboot, EnteringFastboot, WriteReady,
           SelectDevice, BindDevice, Format, RecordFormat, WriteFastbootReady, FlashBoot,
           WriteBootWritten, RebootInstalled, WriteAdbReady, Readback, StageFeatures,
           WriteFeaturesStaged
      <4>3. CASE FinishStep(p)
        BY <4>3 DEF FinishStep, PublishGeneration, DeliverSetup, FinalReboot, AwaitReady,
           CompleteInstall
      <4>4. CASE ContinueStep(p)
        BY <1>3, <4>4 DEF ContinueStep, ResumeTransport, Resumed, WriteReconciled, ContinueBind,
           ContinueVerify, Attach, PendingBooted, ContinueReadback, ContinueFeatures,
           RepairSelect, RepairReboot, RepairWait, Format, RecordRepair, RebootInstalled,
           RepairBooted
      <4> QED
        BY <1>3, <4>1, <4>2, <4>3, <4>4 DEF Step
    <3> QED
      BY <3>1, <3>2 DEF Plain, Special
  <2>5. RunMark(p) /\ Core
    BY DEF MarkInv, TypeOK, Core
  <2>6. Noted(p)
    BY <1>3, <2>4, <2>5, BrickNoted, OneShotNoted, FinishNoted, ContinueNoted DEF Step, BrickStep
  <2> QED
    BY <2>3, <2>4, <2>6, NotedStep
<1> QED
  BY <1>1, <1>2, <1>3

\* As long as runs share one cache root and nobody uses install, a brick that was
\* submitted and had no visible effect stays on record under some install id, however
\* many runs, ids and crashes follow: the marker that stops one_shot from starting
\* afresh and makes continue_one_shot reconcile.
THEOREM BrickRemembered ==
  ASSUME OneCacheRoot, NoInstall
  PROVE  Spec => []UnresolvedBrickRemembered
<1>1. Init => MarkInv
  BY DEF Init, MarkInv, Locked, UnresolvedBrickRemembered, RunMark, Plain, Special, Rereading
<1>2. TypeOK /\ MarkInv /\ [Next]_vars => MarkInv'
  <2> SUFFICES ASSUME TypeOK, MarkInv, [Next]_vars
               PROVE  MarkInv'
    OBVIOUS
  <2>1. ASSUME NEW p \in Procs, Command(p)
        PROVE  MarkInv'
    <3>1. UNCHANGED units /\ Locked'
      BY <2>1, CommandAlone DEF MarkInv
    <3>2. /\ lock[CacheOf[p]] = None /\ UNCHANGED saved
          /\ Goto(p, "os_check") \/ Goto(p, "co_check")
      BY <2>1 DEF Command, OneShot, ContinueOneShot, Install, NoInstall, Begin, host
    <3>3. \A q \in Procs : pc[q] = "idle"
      BY <3>2, ConstantsOK DEF OneCacheRoot, MarkInv, Locked
    <3>4. \A q \in Procs : pc'[q] \in {"idle", "os_check", "co_check"}
      BY <3>2, <3>3 DEF Goto, TypeOK, ProcsOK
    <3>5. \A q \in Procs : RunMark(q)'
      BY <3>4 DEF RunMark, Plain, Special, Rereading
    <3> QED
      BY <3>1, <3>2, <3>5 DEF MarkInv, UnresolvedBrickRemembered, units
  <2>2. ASSUME NEW p \in Procs, Step(p) \/ Timeout(p) \/ Abort(p)
        PROVE  MarkInv'
    BY <2>2, MarkStep
  <2>3. ASSUME UNCHANGED <<saved, bricks, lock, pc, run>>, SameChains
        PROVE  MarkInv'
    <3>1. UnresolvedBrickRemembered'
      BY <2>3 DEF MarkInv, UnresolvedBrickRemembered, SameChains
    <3>2. \A i : Resolved(i) => Resolved(i)'
      BY <2>3 DEF Resolved, Marked, SameChains
    <3> QED
      BY <2>3, <3>1, <3>2 DEF MarkInv, Locked, RunMark, Marked, Resolved
  <2>4. ASSUME NEW d \in Devices, World(d)
        PROVE  MarkInv'
    BY <2>3, <2>4, WorldQuiet DEF TypeOK, World, host
  <2>5. CASE BecomeCalm \/ UNCHANGED vars
    BY <2>3, <2>5 DEF BecomeCalm, vars, host, units, SameChains
  <2> QED
    BY <2>1, <2>2, <2>4, <2>5 DEF Next
<1>3. MarkInv => UnresolvedBrickRemembered
  BY DEF MarkInv
<1> QED
  BY <1>1, <1>2, <1>3, TypeCorrect, PTL DEF Spec

=============================================================================
