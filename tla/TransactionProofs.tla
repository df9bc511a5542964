--------------------------- MODULE TransactionProofs ---------------------------
(***************************************************************************)
(* What the installer may do to a unit and to a record, for any number of   *)
(* units, install ids, releases and invocations: it writes only units it    *)
(* checked, and features only on a verified system; and, under one cache    *)
(* root and without the command install, it gives up nothing it has on      *)
(* record and implements InstallTransaction.                                *)
(***************************************************************************)
EXTENDS EvidenceProofs

-----------------------------------------------------------------------------
(* What the steps of a run leave alone on the units *)

\* No unit is bricked, formatted or flashed; no unit gets the features of a release.
Tame ==
  UNCHANGED bricks /\ \A d \in Devices : dev'[d].udata = dev[d].udata /\ dev'[d].boot = dev[d].boot
Unfilled == \A d \in Devices : dev'[d].feat \in {dev[d].feat, "none", "partial"}
Writing(p) ==
  \/ SendBrick(p) \/ Format(p, "format", "format_done") \/ Format(p, "re_format", "re_done")
  \/ FlashBoot(p)

LEMMA UnitsTame ==
  ASSUME UnitsOK
  PROVE  /\ UNCHANGED units => Tame /\ Unfilled
         /\ \A d, m : Move(d, m) => Tame /\ Unfilled
BY UnitsContents, MoveContents, MoveChain DEF units, Tame, Unfilled, SameContents

LEMMA WriteTame ==
  ASSUME UnitsOK, NEW p, NEW d, NEW v, Write(p, d, v),
         d \in Devices => v.udata = dev[d].udata /\ v.boot = dev[d].boot
  PROVE  Tame
BY DEF Write, Tame, UnitsOK

LEMMA WriteUnfilled ==
  ASSUME UnitsOK, NEW p, NEW d, NEW v, Write(p, d, v),
         d \in Devices => v.feat \in {dev[d].feat, "none", "partial"}
  PROVE  Unfilled
BY DEF Write, Unfilled, UnitsOK

\* Every step of a run but those of Writing, and but the stager's.
LEMMA TameStep ==
  ASSUME TypeOK, NEW p \in Procs, Step(p) \/ Timeout(p) \/ Abort(p), ~Writing(p)
  PROVE  Tame /\ (Unfilled \/ StageFeatures(p))
<1> DEFINE d == run[p].dev
<1> USE UnitsTame DEF Fail
<1>1. UnitsOK /\ (d \in Devices => dev[d] \in Device)
  BY DEF TypeOK, UnitsOK
<1>2. CASE Timeout(p) \/ Abort(p)
  BY <1>1, <1>2 DEF Timeout, Abort
<1>3. CASE BrickStep(p)
  BY <1>1, <1>3 DEF BrickStep, Writing, ClaimCheck, ClaimWrite, SubmitBrick, Reconcile, WriteHandoff
<1>4. CASE StageFeatures(p)
  <2>1. \A f : d \in Devices => /\ [dev[d] EXCEPT !.feat = f].udata = dev[d].udata
                                /\ [dev[d] EXCEPT !.feat = f].boot = dev[d].boot
    BY <1>1 DEF Device
  <2> QED
    BY <1>1, <1>4, <2>1, WriteTame DEF StageFeatures
<1>5. CASE OneShotStep(p) /\ ~StageFeatures(p)
  BY <1>1, <1>5 DEF OneShotStep, Writing, InstallReady, OneShotCheck, EnterFastboot, EnteringFastboot,
     WriteReady, SelectDevice, BindDevice, RecordFormat, WriteFastbootReady, WriteBootWritten,
     RebootInstalled, WriteAdbReady, Readback, WriteFeaturesStaged
<1>6. CASE FinishStep(p)
  <2>1. CASE PublishGeneration(p)
    <3> DEFINE v == [dev[d] EXCEPT !.gen = run[p].rel, !.feat = "none"]
    <3>1. d \in Devices => v.udata = dev[d].udata /\ v.boot = dev[d].boot /\ v.feat = "none"
      BY <1>1 DEF Device
    <3>2. UNCHANGED units \/ Write(p, d, v)
      BY <2>1 DEF PublishGeneration
    <3> HIDE DEF v
    <3> QED
      BY <1>1, <3>1, <3>2, WriteTame, WriteUnfilled
  <2>2. CASE DeliverSetup(p)
    <3> DEFINE v == [dev[d] EXCEPT !.prov = "pending"]
    <3>1. d \in Devices => v.udata = dev[d].udata /\ v.boot = dev[d].boot /\ v.feat = dev[d].feat
      BY <1>1 DEF Device
    <3>2. UNCHANGED units \/ Write(p, d, v)
      BY <2>2 DEF DeliverSetup
    <3> HIDE DEF v
    <3> QED
      BY <1>1, <3>1, <3>2, WriteTame, WriteUnfilled
  <2>3. CASE FinalReboot(p) \/ AwaitReady(p) \/ CompleteInstall(p)
    BY <1>1, <2>3 DEF FinalReboot, AwaitReady, CompleteInstall
  <2> QED
    BY <1>6, <2>1, <2>2, <2>3 DEF FinishStep
<1>7. CASE ContinueStep(p)
  BY <1>1, <1>7 DEF ContinueStep, Writing, ContinueCheck, ResumeTransport, Resumed, WriteReconciled,
     ContinueBind, ContinueVerify, Attach, PendingBooted, ContinueReadback, ContinueFeatures,
     RepairSelect, RepairReboot, RepairWait, RecordRepair, RebootInstalled, RepairBooted
<1> QED
  BY <1>2, <1>3, <1>4, <1>5, <1>6, <1>7 DEF Step

\* The steps of Writing change the run's unit only, and give it no features.
LEMMA WritingStep ==
  ASSUME TypeOK, NEW p \in Procs, Writing(p)
  PROVE  /\ Unfilled
         /\ \A e \in Devices : e # run[p].dev => dev'[e] = dev[e] /\ bricks'[e] = bricks[e]
<1> DEFINE d == run[p].dev
<1>1. UnitsOK /\ (d \in Devices => dev[d] \in Device)
  BY DEF TypeOK, UnitsOK
<1>2. CASE SendBrick(p)
  <2>1. PICK v \in BrickEffect(d) : dev' = [dev EXCEPT ![d] = v] /\ bricks' = [bricks EXCEPT ![d] = @ + 1]
    BY <1>2 DEF SendBrick
  <2>2. d \in Devices => v.feat = dev[d].feat
    BY <1>1 DEF BrickEffect, Moved, Device
  <2> QED
    BY <1>1, <2>1, <2>2 DEF Unfilled, UnitsOK
<1>3. ASSUME NEW v, Write(p, d, v), d \in Devices => v.feat \in {dev[d].feat, "none", "partial"}
      PROVE  Unfilled /\ \A e \in Devices : e # d => dev'[e] = dev[e] /\ bricks'[e] = bricks[e]
  BY <1>1, <1>3, WriteUnfilled DEF Write, UnitsOK
<1>4. CASE UNCHANGED units
  BY <1>1, <1>4, UnitsTame DEF units
<1>5. ASSUME NEW from, NEW to, Format(p, from, to), ~UNCHANGED units
      PROVE  \E v : Write(p, d, v) /\ (d \in Devices => v.feat = "none")
  <2> DEFINE v(u) == [[dev[d] EXCEPT !.feat = "none", !.gen = None, !.prov = "none"] EXCEPT !.udata = u]
  <2>1. \A u : d \in Devices => v(u).feat = "none"
    BY <1>1 DEF Device
  <2>2. \E u : Write(p, d, v(u))
    BY <1>5 DEF Format, Fail
  <2> HIDE DEF v
  <2> QED
    BY <2>1, <2>2
<1>6. ASSUME FlashBoot(p), ~UNCHANGED units
      PROVE  \E v : Write(p, d, v) /\ (d \in Devices => v.feat = dev[d].feat)
  <2>1. \A b : d \in Devices => [dev[d] EXCEPT !.boot = b].feat = dev[d].feat
    BY <1>1 DEF Device
  <2>2. \E b : Write(p, d, [dev[d] EXCEPT !.boot = b])
    BY <1>6 DEF FlashBoot, Fail
  <2> QED
    BY <2>1, <2>2
<1> QED
  BY <1>2, <1>3, <1>4, <1>5, <1>6 DEF Writing

\* The world does none of this.
LEMMA WorldTame ==
  ASSUME TypeOK, NEW d \in Devices, World(d)
  PROVE  Tame /\ Unfilled
BY WorldContents, WorldQuiet DEF TypeOK, Tame, Unfilled, SameContents

-----------------------------------------------------------------------------
(* A run writes only units it checked *)

\* From the check on, the unit a run selected is one it may write.
Checked ==
  {"claim_check", "claim_write", "submit", "send", "format_done", "re_done", "geometry", "flash"}
Vetted(r) == r.target \/ Fits(r.dev, r.rel)
BoardInv == \A p \in Procs : pc[p] \in Checked => Vetted(run[p])

LEMMA GoVetted ==
  ASSUME ProcsOK, BoardInv, NEW p \in Procs, NEW l, NEW r, Goto(p, l), run' = [run EXCEPT ![p] = r],
         l \in Checked => Vetted(r)
  PROVE  BoardInv'
<1>1. \A q \in Procs : pc'[q] = (IF q = p THEN l ELSE pc[q]) /\ run'[q] = (IF q = p THEN r ELSE run[q])
  BY DEF Goto, ProcsOK
<1> QED
  BY <1>1 DEF BoardInv, Vetted

LEMMA StayVetted ==
  ASSUME ProcsOK, BoardInv, NEW p \in Procs, NEW l, Stay(p, l), l \in Checked => Vetted(run[p])
  PROVE  BoardInv'
<1>1. run' = [run EXCEPT ![p] = run[p]]
  BY DEF Stay, ProcsOK
<1> QED
  BY <1>1, GoVetted DEF Stay

LEMMA LeaveVetted ==
  ASSUME ProcsOK, BoardInv, NEW p \in Procs, Leave(p)
  PROVE  BoardInv'
BY GoVetted DEF Leave, Goto, Checked

LEMMA BoardStep ==
  ASSUME TypeOK, BoardInv, NEW p \in Procs, Step(p) \/ Timeout(p) \/ Abort(p)
  PROVE  BoardInv'
<1> USE LeaveVetted, StayVetted DEF Checked, Fail, At
<1>1. ProcsOK /\ (pc[p] # "idle" => run[p] \in Run)
  BY DEF TypeOK, ProcsOK, RunOK
<1>2. pc[p] \in Checked => Vetted(run[p])
  BY DEF BoardInv
<1>3. CASE Timeout(p) \/ Abort(p)
  BY <1>1, <1>3 DEF Timeout, Abort
<1>4. CASE BrickStep(p)
  BY <1>1, <1>2, <1>4 DEF BrickStep, ClaimCheck, ClaimWrite, SubmitBrick, SendBrick, Reconcile,
     WriteHandoff
<1>5. ASSUME NEW from, NEW to, Format(p, from, to)
      PROVE  BoardInv'
  BY <1>1, <1>5 DEF Format, ProductOk, Vetted
<1>6. CASE OneShotStep(p)
  <2>1. CASE OneShotCheck(p)
    <3>1. \/ Leave(p) \/ Stay(p, "enter") \/ Stay(p, "ready")
          \/ Goto(p, "enter") /\ \E r : run' = [run EXCEPT ![p] = r]
      BY <2>1 DEF OneShotCheck
    <3> QED
      BY <1>1, <3>1, GoVetted
  <2>2. CASE EnterFastboot(p)
    <3>1. \/ Leave(p) \/ Stay(p, "ready")
          \/ Goto(p, "entering") /\ \E r : run' = [run EXCEPT ![p] = r]
      BY <2>2 DEF EnterFastboot
    <3> QED
      BY <1>1, <3>1, GoVetted
  <2>3. CASE SelectDevice(p)
    <3>1. CASE Fail(p)
      BY <1>1, <3>1
    <3>2. CASE ~Fail(p)
      <4>1. PICK d, l : /\ ProductOk(p, d) /\ Goto(p, l)
                        /\ run' = [run EXCEPT ![p] = [run[p] EXCEPT !.dev = d]]
        BY <2>3, <3>2 DEF SelectDevice
      <4>2. PICK r : r = [run[p] EXCEPT !.dev = d]
        OBVIOUS
      <4>3. Vetted(r)
        BY <1>1, <2>3, <4>1, <4>2 DEF SelectDevice, ProductOk, Vetted, Run
      <4> QED
        BY <1>1, <4>1, <4>2, <4>3, GoVetted
    <3> QED
      BY <3>1, <3>2
  <2>4. CASE BindDevice(p)
    <3>1. Goto(p, "format") /\ \E r : run' = [run EXCEPT ![p] = r]
      BY <2>4 DEF BindDevice
    <3> QED
      BY <1>1, <3>1, GoVetted
  <2>5. CASE \/ InstallReady(p) \/ EnteringFastboot(p) \/ WriteReady(p) \/ RecordFormat(p)
             \/ WriteFastbootReady(p) \/ FlashBoot(p) \/ WriteBootWritten(p)
             \/ RebootInstalled(p, "reboot", "await_adb") \/ WriteAdbReady(p) \/ Readback(p)
             \/ StageFeatures(p) \/ WriteFeaturesStaged(p)
    BY <1>1, <1>2, <2>5 DEF InstallReady, EnteringFastboot, WriteReady, RecordFormat, WriteFastbootReady,
       FlashBoot, WriteBootWritten, RebootInstalled, WriteAdbReady, Readback, StageFeatures,
       WriteFeaturesStaged
  <2> QED
    BY <1>5, <1>6, <2>1, <2>2, <2>3, <2>4, <2>5 DEF OneShotStep
<1>7. CASE FinishStep(p)
  <2>1. \/ Leave(p) \/ \E l \in {"deliver", "final", "await_ready", "complete"} : Stay(p, l)
        \/ \E l \in {"deliver", "final"} : Goto(p, l) /\ \E r : run' = [run EXCEPT ![p] = r]
    BY <1>7 DEF FinishStep, PublishGeneration, DeliverSetup, FinalReboot, AwaitReady, CompleteInstall
  <2> QED
    BY <1>1, <2>1, GoVetted
<1>8. CASE ContinueStep(p)
  <2>1. CASE ContinueCheck(p)
    <3>1. \/ Leave(p)
          \/ /\ \E l \in {"co_resume", "reconcile", "re_select", "co_bind", "co_attach"} : Goto(p, l)
             /\ \E r : run' = [run EXCEPT ![p] = r]
      BY <2>1 DEF ContinueCheck
    <3> QED
      BY <1>1, <3>1, GoVetted
  <2>2. CASE WriteReconciled(p)
    <3>1. Goto(p, "co_bind") /\ \E r : run' = [run EXCEPT ![p] = r]
      BY <2>2 DEF WriteReconciled
    <3> QED
      BY <1>1, <3>1, GoVetted
  <2>3. CASE ContinueVerify(p)
    BY <1>1, <2>3 DEF ContinueVerify, ProductOk, Vetted
  <2>4. CASE \/ ResumeTransport(p) \/ Resumed(p) \/ ContinueBind(p) \/ Attach(p) \/ PendingBooted(p)
             \/ ContinueReadback(p) \/ ContinueFeatures(p) \/ RepairSelect(p) \/ RepairReboot(p)
             \/ RepairWait(p) \/ RecordRepair(p) \/ RebootInstalled(p, "re_boot", "re_await")
             \/ RepairBooted(p)
    BY <1>1, <2>4 DEF ResumeTransport, Resumed, ContinueBind, Attach, PendingBooted, ContinueReadback,
       ContinueFeatures, RepairSelect, RepairReboot, RepairWait, RecordRepair, RebootInstalled,
       RepairBooted
  <2> QED
    BY <1>5, <1>8, <2>1, <2>2, <2>3, <2>4 DEF ContinueStep
<1> QED
  BY <1>3, <1>4, <1>6, <1>7, <1>8 DEF Step

LEMMA BoardNext ==
  ASSUME TypeOK, BoardInv, [Next]_vars
  PROVE  BoardInv'
<1>1. ProcsOK
  BY DEF TypeOK
<1>2. ASSUME NEW p \in Procs, Command(p) PROVE BoardInv'
  <2>1. \E l \in {"os_check", "co_check", "install"} : Goto(p, l) /\ \E r : run' = [run EXCEPT ![p] = r]
    BY <1>2 DEF Command, OneShot, ContinueOneShot, Install, Begin
  <2> QED
    BY <1>1, <2>1, GoVetted DEF Checked
<1>3. ASSUME NEW p \in Procs, Step(p) \/ Timeout(p) \/ Abort(p) PROVE BoardInv'
  BY <1>3, BoardStep
<1>4. CASE (\E d \in Devices : World(d)) \/ BecomeCalm \/ UNCHANGED vars
  BY <1>4 DEF World, BecomeCalm, vars, BoardInv
<1> QED
  BY <1>2, <1>3, <1>4 DEF Next

\* Without --target no unit is bricked, formatted or flashed by a run whose release is built
\* for another product (verify_fastboot_product before each of the three), however many runs,
\* cache roots and units there are and however the units come and go.
THEOREM WritesOwnBoard == Spec => OwnBoardOnly
<1>1. Init => BoardInv
  BY DEF Init, BoardInv, Checked
<1>2. TypeOK /\ BoardInv /\ [Next]_vars => BoardInv'
  BY BoardNext
<1>3. ASSUME TypeOK, BoardInv, [Next]_vars, NEW d \in Devices,
             <<bricks'[d], dev'[d].udata, dev'[d].boot>> # <<bricks[d], dev[d].udata, dev[d].boot>>
      PROVE  \E p \in Procs :
               ~At(p, "idle") /\ run[p].dev = d /\ (run[p].target \/ Fits(d, run[p].rel))
  <2>1. ~Tame
    BY <1>3 DEF Tame
  <2>2. PICK p \in Procs : Writing(p)
    <3>1. CASE \E p \in Procs : Command(p)
      BY <1>3, <2>1, <3>1, UnitsTame DEF Command, OneShot, ContinueOneShot, Install, Begin, TypeOK
    <3>2. CASE \E e \in Devices : World(e)
      BY <1>3, <2>1, <3>2, WorldTame
    <3>3. CASE BecomeCalm \/ UNCHANGED vars
      BY <1>3, <2>1, <3>3, UnitsTame DEF BecomeCalm, vars, units, TypeOK
    <3> QED
      BY <1>3, <2>1, <3>1, <3>2, <3>3, TameStep DEF Next
  <2>3. run[p].dev = d
    BY <1>3, <2>2, WritingStep
  <2>4. ~At(p, "idle")
    BY <2>2 DEF Writing, SendBrick, Format, FlashBoot, At
  <2>5. Vetted(run[p])
    <3>1. CASE pc[p] \in {"send", "flash"}
      BY <1>3, <3>1 DEF BoardInv, Checked
    <3>2. CASE pc[p] \notin {"send", "flash"}
      <4>1. Format(p, "format", "format_done") \/ Format(p, "re_format", "re_done")
        BY <2>2, <3>2 DEF Writing, SendBrick, FlashBoot, At
      <4>2. ~UNCHANGED units
        BY <1>3, <2>1, UnitsTame DEF TypeOK
      <4> QED
        BY <4>1, <4>2 DEF Format, Fail, ProductOk, Vetted
    <3> QED
      BY <3>1, <3>2
  <2> QED
    BY <2>3, <2>4, <2>5 DEF Vetted
<1>4. TypeOK /\ BoardInv /\ [Next]_vars =>
        [\A d \in Devices :
           <<bricks'[d], dev'[d].udata, dev'[d].boot>> # <<bricks[d], dev[d].udata, dev[d].boot>> =>
             \E p \in Procs :
               ~At(p, "idle") /\ run[p].dev = d /\ (run[p].target \/ Fits(d, run[p].rel))]_vars
  BY <1>3
<1> QED
  BY <1>1, <1>2, <1>4, TypeCorrect, PTL DEF Spec, OwnBoardOnly

-----------------------------------------------------------------------------
(* Features reach only a verified system *)

\* The words for a device without a whole feature tree are no release names.
PlainNames == Releases \cap {"none", "partial"} = {}

\* Features go only to the unit the state file is bound to, running the release on the userdata
\* this install id formatted: stage_device_features after verify_adb_payload_readback.
THEOREM StagesOnVerified ==
  ASSUME OneCacheRoot, EarlyFits, PlainNames
  PROVE  Spec => StageOnVerified
<1>1. Init => EvidenceInv
  BY EvidenceInit
<1>2. TypeOK /\ EvidenceInv /\ [Next]_vars => EvidenceInv'
  BY EvidenceNext
<1>3. ASSUME TypeOK, EvidenceInv, [Next]_vars, NEW d \in Devices,
             dev'[d].feat # dev[d].feat, dev'[d].feat \in Releases
      PROVE  /\ dev[d].mode = "system" /\ dev[d].boot = dev'[d].feat /\ dev[d].udata = "formatted"
             /\ \E p \in Procs : run[p] # None /\ run[p].dev = d /\ saved[run[p].id] # None
                                  /\ saved[run[p].id].dev = d /\ saved[run[p].id].fmt
  <2>1. ~Unfilled
    BY <1>3 DEF Unfilled, PlainNames
  <2>2. PICK p \in Procs : StageFeatures(p)
    <3>1. CASE \E p \in Procs : Command(p)
      BY <1>3, <2>1, <3>1, UnitsTame DEF Command, OneShot, ContinueOneShot, Install, Begin, TypeOK
    <3>2. CASE \E e \in Devices : World(e)
      BY <1>3, <2>1, <3>2, WorldTame
    <3>3. CASE BecomeCalm \/ UNCHANGED vars
      BY <1>3, <2>1, <3>3, UnitsTame DEF BecomeCalm, vars, units, TypeOK
    <3> QED
      BY <1>3, <2>1, <3>1, <3>2, <3>3, TameStep, WritingStep DEF Next
  <2>3. pc[p] = "stage" /\ pc[p] # "idle"
    BY <2>2 DEF StageFeatures, At
  <2>4. /\ run[p] \in Run /\ run[p].dev \in Devices /\ dev[run[p].dev].boot = run[p].rel
        /\ saved[run[p].id] # None /\ saved[run[p].id].dev = run[p].dev /\ saved[run[p].id].fmt
    BY <1>3, <2>3, Known DEF Fact, Binding, After, Booted
  <2>5. ~UNCHANGED units
    BY <1>3, <2>1, UnitsTame DEF TypeOK
  <2>6. /\ DataMounted(run[p].dev)
        /\ \E f \in {run[p].rel, "partial"} :
             Write(p, run[p].dev, [dev[run[p].dev] EXCEPT !.feat = f])
    BY <2>2, <2>5 DEF StageFeatures, Fail
  <2>7. PICK f, v : /\ f \in {run[p].rel, "partial"} /\ v = [dev[run[p].dev] EXCEPT !.feat = f]
                    /\ Write(p, run[p].dev, v)
    BY <2>6
  <2>8. v.feat = f
    BY <1>3, <2>4, <2>7 DEF TypeOK, UnitsOK, Device
  <2>9. run[p].dev = d /\ dev'[d].feat = f
    BY <1>3, <2>4, <2>7, <2>8 DEF Write, TypeOK, UnitsOK
  <2>10. f = run[p].rel
    BY <1>3, <2>7, <2>9 DEF PlainNames
  <2>11. run[p] # None
    BY <2>4, ConstantsOK
  <2> QED
    BY <2>4, <2>6, <2>9, <2>10, <2>11 DEF DataMounted, InAdb
<1>4. TypeOK /\ EvidenceInv /\ [Next]_vars =>
        [\A d \in Devices : dev'[d].feat # dev[d].feat /\ dev'[d].feat \in Releases =>
           /\ dev[d].mode = "system" /\ dev[d].boot = dev'[d].feat /\ dev[d].udata = "formatted"
           /\ \E p \in Procs : run[p] # None /\ run[p].dev = d /\ saved[run[p].id] # None
                                /\ saved[run[p].id].dev = d /\ saved[run[p].id].fmt]_vars
  BY <1>3
<1> QED
  BY <1>1, <1>2, <1>4, TypeCorrect, PTL DEF Spec, StageOnVerified

-----------------------------------------------------------------------------
(* Where a run is in the transaction its id's file records *)

Opening == {"AMONET_HANDOFF", "FASTBOOT_READY"}
Starting == {"enter", "entering", "ready"}
Choosing == {"select", "claim_check", "claim_write", "submit"}
Sent == {"send", "reconcile", "reconciling"}
Opened == {"bind", "format", "format_done", "geometry", "flash", "flashed", "co_bind", "co_verify"}
Written == {"reboot", "await_adb", "readback", "stage", "re_select", "re_reboot", "re_wait", "re_format",
            "re_done", "re_boot", "re_await"}
Checking == {"staged", "co_attach", "co_booting", "co_readback"}
Delivering == {"finish", "deliver", "final", "await_ready", "complete", "co_features", "co_resume",
               "co_resuming"}

\* Of a run r at l whose id's file is st.
Readied(r, st) == st # None /\ st.phase = "RELEASE_READY" /\ st.rel = r.rel
Submitted(r, st) ==
  st # None /\ st.phase = "BRICK_SUBMITTED" /\ st.rel = r.rel /\ st.dev = r.dev /\ st.dev \in Devices
Place(l, r, st) ==
  /\ l # "install"
  /\ l \in Starting => st = None \/ st.phase = "RELEASE_READY"
  /\ l \in Choosing => Readied(r, st)
  /\ l \in Sent /\ r.st = None => Submitted(r, st)
  /\ (l \in Sent /\ r.st # None) \/ l = "co_handoff" => st # None /\ st.phase \in Unreconciled
  /\ l = "handoff" => r.dev \in Devices /\ (Readied(r, st) \/ Submitted(r, st))
  /\ l = "bind" => st # None /\ st.rel = r.rel /\ ~st.fmt
  /\ l \in Opened => st # None /\ st.phase \in Opening
  /\ l \in Written => st # None /\ st.phase \in Flashed \ Staged
  /\ l \in Checking => st # None /\ st.phase \in Flashed
  /\ l \in Delivering => st # None /\ st.phase \in Staged
PlaceInv == \A p \in Procs : pc[p] # "idle" => Place(pc[p], run[p], saved[run[p].id])

\* What a file may become: what NothingDiscarded allows, and a step or a stutter of its transaction.
Careful(old, new) ==
  old # None /\ old.phase # "RELEASE_READY" /\ new # old =>
    /\ new.phase # "RELEASE_READY" /\ new.rel = old.rel
    /\ old.phase \in Unreconciled =>
         new.phase = "AMONET_HANDOFF" /\ new.dev # None /\ old.dev \in {None, new.dev}
Forward(old, new) ==
  \/ old # None /\ StageOf(new) = StageOf(old) /\ new.dev = old.dev
  \/ StageOf(old) \in {"none", "ready"} /\ StageOf(new) = "ready" /\ new.dev = None
  \/ /\ new.dev \in Devices
     /\ \/ StageOf(old) \in {"ready", "open"} /\ StageOf(new) = "open"
        \/ /\ old.dev \in {None, new.dev}
           /\ \/ StageOf(old) = "submitted" /\ StageOf(new) = "open"
              \/ StageOf(old) = "open" /\ StageOf(new) = "formatted"
              \/ StageOf(old) = "unformatted" /\ StageOf(new) \in {"unformatted", "flashed"}
        \/ /\ old.dev = new.dev
           /\ \/ StageOf(old) = "formatted" /\ StageOf(new) = "flashed"
              \/ StageOf(old) = "flashed" /\ StageOf(new) = "staged"

\* What a step of run p may do to the files.
Saves(p) ==
  \E s \in State :
    /\ saved' = [saved EXCEPT ![run[p].id] = s] /\ UNCHANGED archive
    /\ Careful(saved[run[p].id], s) /\ Forward(saved[run[p].id], s)
Archives(p) ==
  LET old == saved[run[p].id]
  IN  /\ old # None /\ old.phase \notin {"RELEASE_READY"} \cup Unreconciled
      /\ saved' = [saved EXCEPT ![run[p].id] = None]
      /\ {old.dev} \subseteq archive'[run[p].id] \cup {None}
Turn(p) == PlaceInv' /\ (UNCHANGED <<saved, archive>> \/ Saves(p) \/ Archives(p) \/ SubmitBrick(p))

-----------------------------------------------------------------------------
(* The kinds of turns *)

LEMMA PlaceGo ==
  ASSUME OneCacheRoot, TypeOK, EvidenceInv, NEW p \in Procs, NEW l, NEW r, pc[p] # "idle",
         UNCHANGED lock, Goto(p, l), run' = [run EXCEPT ![p] = r], Place(l, r, saved'[r.id])
  PROVE  PlaceInv'
<1>1. \A q \in Procs : q # p => pc'[q] = "idle"
  BY Alone DEF EvidenceInv, TypeOK
<1>2. pc'[p] = l /\ run'[p] = r
  BY DEF Goto, TypeOK, ProcsOK
<1>3. Place(pc[p], run[p], saved[run[p].id])'
  BY <1>2
<1> QED
  BY <1>1, <1>3 DEF PlaceInv

LEMMA PlaceEnd ==
  ASSUME OneCacheRoot, TypeOK, EvidenceInv, NEW p \in Procs, pc[p] # "idle", Leave(p)
  PROVE  PlaceInv'
<1>1. \A q \in Procs : q # p => pc'[q] = "idle"
  BY Alone DEF EvidenceInv, TypeOK
<1>2. pc'[p] = "idle"
  BY DEF Leave, TypeOK, ProcsOK
<1> QED
  BY <1>1, <1>2 DEF PlaceInv

\* It writes nothing.
LEMMA PassTurn ==
  ASSUME OneCacheRoot, TypeOK, EvidenceInv, NEW p \in Procs, NEW l, NEW r, pc[p] # "idle",
         UNCHANGED <<lock, host>>, Goto(p, l), run' = [run EXCEPT ![p] = r], Place(l, r, saved[r.id])
  PROVE  Turn(p)
BY PlaceGo DEF Turn, host

LEMMA StayTurn ==
  ASSUME OneCacheRoot, TypeOK, EvidenceInv, NEW p \in Procs, NEW l, pc[p] # "idle",
         UNCHANGED host, Stay(p, l), Place(l, run[p], saved[run[p].id])
  PROVE  Turn(p)
<1>1. run' = [run EXCEPT ![p] = run[p]]
  BY DEF Stay, TypeOK, ProcsOK
<1> QED
  BY <1>1, PassTurn DEF Stay

LEMMA LeaveTurn ==
  ASSUME OneCacheRoot, TypeOK, EvidenceInv, NEW p \in Procs, pc[p] # "idle", UNCHANGED host, Leave(p)
  PROVE  Turn(p)
BY PlaceEnd DEF Turn, host

\* It writes its id's file.
LEMMA SaveTurn ==
  ASSUME OneCacheRoot, TypeOK, EvidenceInv, NEW p \in Procs, NEW l, NEW r, NEW s \in State,
         pc[p] # "idle", UNCHANGED lock, Goto(p, l), run' = [run EXCEPT ![p] = r],
         r.id = run[p].id, Save(p, s), Place(l, r, s),
         Careful(saved[run[p].id], s), Forward(saved[run[p].id], s)
  PROVE  Turn(p)
<1>1. saved' = [saved EXCEPT ![run[p].id] = s] /\ UNCHANGED archive
  BY DEF Save
<1>2. run[p].id \in Ids /\ saved'[r.id] = s
  BY <1>1, Known DEF TypeOK, HostOK
<1> QED
  BY <1>1, <1>2, PlaceGo DEF Turn, Saves

LEMMA SaveStayTurn ==
  ASSUME OneCacheRoot, TypeOK, EvidenceInv, NEW p \in Procs, NEW l, NEW s \in State,
         pc[p] # "idle", Stay(p, l), Save(p, s), Place(l, run[p], s),
         Careful(saved[run[p].id], s), Forward(saved[run[p].id], s)
  PROVE  Turn(p)
<1>1. run' = [run EXCEPT ![p] = run[p]]
  BY DEF Stay, TypeOK, ProcsOK
<1> QED
  BY <1>1, SaveTurn DEF Stay

\* What the stage of a state says of its phase.
LEMMA StageFacts ==
  ASSUME NEW st \in State
  PROVE  /\ st # None /\ st.phase \in Phases
         /\ st.phase = "RELEASE_READY" => StageOf(st) = "ready"
         /\ st.phase \in Unreconciled => StageOf(st) = "submitted"
         /\ st.phase \in Staged => StageOf(st) = "staged"
         /\ st.phase \in Flashed \ Staged => StageOf(st) = IF st.fmt THEN "flashed" ELSE "unformatted"
         /\ st.phase \in Opening => StageOf(st) = IF st.fmt THEN "formatted" ELSE "open"
<1>1. st # None /\ st.phase \in Phases
  BY ConstantsOK DEF State
<1>2. CASE st.phase = "RELEASE_READY"
  BY <1>1, <1>2 DEF StageOf, Unreconciled, Flashed, Staged, Opening
<1>3. CASE st.phase \in Unreconciled
  BY <1>1, <1>3 DEF StageOf, Unreconciled, Flashed, Staged, Opening
<1>4. CASE st.phase \in Staged
  BY <1>1, <1>4 DEF StageOf, Unreconciled, Flashed, Staged, Opening
<1>5. CASE st.phase \in Flashed \ Staged
  BY <1>1, <1>5 DEF StageOf, Unreconciled, Flashed, Staged, Opening
<1>6. CASE st.phase \in Opening
  BY <1>1, <1>6 DEF StageOf, Unreconciled, Flashed, Staged, Opening
<1> QED
  BY <1>1, <1>2, <1>3, <1>4, <1>5, <1>6 DEF Phases, Unreconciled, Flashed, Staged, Opening

LEMMA NoStage == StageOf(None) = "none"
BY DEF StageOf

\* What a run that takes a step knows.
LEMMA Placed ==
  ASSUME TypeOK, EvidenceInv, PlaceInv, NEW p \in Procs, pc[p] # "idle"
  PROVE  /\ run[p] \in Run /\ run[p].id \in Ids /\ run[p].rel \in Releases
         /\ saved[run[p].id] \in State \cup {None}
         /\ Fact(pc[p], run[p], saved[run[p].id]) /\ Evidence(run[p].id, saved[run[p].id])
         /\ Place(pc[p], run[p], saved[run[p].id])
BY Known DEF PlaceInv

-----------------------------------------------------------------------------
(* The steps that write no file *)

LEMMA WorkTurn ==
  ASSUME OneCacheRoot, TypeOK, EvidenceInv, PlaceInv, NEW p \in Procs,
         \/ ClaimCheck(p) \/ SendBrick(p) \/ Reconcile(p) \/ EnteringFastboot(p)
         \/ Format(p, "format", "format_done") \/ Format(p, "re_format", "re_done")
         \/ FlashBoot(p) \/ RebootInstalled(p, "reboot", "await_adb")
         \/ RebootInstalled(p, "re_boot", "re_await") \/ StageFeatures(p) \/ FinalReboot(p)
         \/ AwaitReady(p) \/ ResumeTransport(p) \/ Resumed(p) \/ ContinueVerify(p)
         \/ ContinueFeatures(p) \/ RepairReboot(p) \/ RepairWait(p) \/ RepairBooted(p)
  PROVE  Turn(p)
<1> USE DEF At, Fail, Place, Starting, Choosing, Sent, Opened, Written, Checking, Delivering
<1> DEFINE st == saved[run[p].id]
<1>1. UNCHANGED host
  BY DEF ClaimCheck, SendBrick, Reconcile, EnteringFastboot, Format, FlashBoot, RebootInstalled,
     StageFeatures, FinalReboot, AwaitReady, ResumeTransport, Resumed, ContinueVerify, ContinueFeatures,
     RepairReboot, RepairWait, RepairBooted
<1>2. ASSUME pc[p] # "idle", Leave(p) PROVE Turn(p)
  BY <1>1, <1>2, LeaveTurn
<1>3. ASSUME pc[p] # "idle", NEW l, Stay(p, l), Place(pc[p], run[p], st) => Place(l, run[p], st)
      PROVE  Turn(p)
  BY <1>1, <1>3, Placed, StayTurn
<1>4. CASE ClaimCheck(p)
  BY <1>2, <1>3, <1>4 DEF ClaimCheck
<1>5. CASE SendBrick(p)
  <2>1. pc[p] = "send" /\ run[p].st = None
    BY <1>5, Placed DEF SendBrick, Fact, Fresh
  <2> QED
    BY <1>2, <1>3, <1>5, <2>1 DEF SendBrick
<1>6. CASE Reconcile(p)
  <2>1. pc[p] \in {"reconcile", "reconciling"}
    BY <1>6 DEF Reconcile
  <2>2. CASE Stay(p, "reconciling")
    BY <1>3, <2>1, <2>2
  <2>3. CASE Stay(p, IF run[p].st = None THEN "handoff" ELSE "co_handoff")
    BY <1>3, <2>1, <2>3 DEF Submitted
  <2> QED
    BY <1>6, <2>2, <2>3 DEF Reconcile
<1>7. CASE EnteringFastboot(p)
  BY <1>3, <1>7 DEF EnteringFastboot
<1>8. CASE Format(p, "format", "format_done") \/ Format(p, "re_format", "re_done")
  BY <1>2, <1>3, <1>8 DEF Format
<1>9. CASE FlashBoot(p)
  BY <1>2, <1>3, <1>9 DEF FlashBoot
<1>10. CASE RebootInstalled(p, "reboot", "await_adb") \/ RebootInstalled(p, "re_boot", "re_await")
  BY <1>3, <1>10 DEF RebootInstalled
<1>11. CASE StageFeatures(p)
  <2>1. CASE Stay(p, "staged")
    BY <1>3, <1>11, <2>1 DEF StageFeatures
  <2> QED
    BY <1>2, <1>11, <2>1 DEF StageFeatures
<1>12. CASE FinalReboot(p) \/ AwaitReady(p)
  BY <1>3, <1>12 DEF FinalReboot, AwaitReady
<1>13. CASE ResumeTransport(p) \/ Resumed(p)
  <2>1. \A l \in {"co_attach", "co_resuming"} :
          pc[p] \in {"co_resume", "co_resuming"} /\ Place(pc[p], run[p], st) => Place(l, run[p], st)
    BY DEF Flashed
  <2> QED
    BY <1>2, <1>3, <1>13, <2>1 DEF ResumeTransport, Resumed
<1>14. CASE ContinueVerify(p)
  BY <1>2, <1>3, <1>14 DEF ContinueVerify
<1>15. CASE ContinueFeatures(p)
  <2>1. \A l \in {"finish", "staged"} :
          pc[p] = "co_features" /\ Place(pc[p], run[p], st) => Place(l, run[p], st)
    BY DEF Flashed
  <2> QED
    BY <1>2, <1>3, <1>15, <2>1 DEF ContinueFeatures
<1>16. CASE RepairReboot(p) \/ RepairWait(p) \/ RepairBooted(p)
  BY <1>2, <1>3, <1>16 DEF RepairReboot, RepairWait, RepairBooted
<1> QED
  BY <1>4, <1>5, <1>6, <1>7, <1>8, <1>9, <1>10, <1>11, <1>12, <1>13, <1>14, <1>15, <1>16

\* The steps that write no file and change what the run knows.
LEMMA LearnTurn ==
  ASSUME OneCacheRoot, TypeOK, EvidenceInv, PlaceInv, NEW p \in Procs,
         \/ EnterFastboot(p) \/ SelectDevice(p) \/ PublishGeneration(p) \/ DeliverSetup(p)
         \/ ContinueCheck(p)
  PROVE  Turn(p)
<1> USE DEF At, Fail, Place, Starting, Choosing, Sent, Opened, Written, Checking, Delivering
<1> DEFINE i == run[p].id
           st == saved[i]
<1>1. UNCHANGED host /\ pc[p] # "idle"
  BY DEF EnterFastboot, SelectDevice, PublishGeneration, DeliverSetup, ContinueCheck
<1>2. /\ run[p] \in Run /\ i \in Ids /\ st \in State \cup {None}
      /\ Fact(pc[p], run[p], st) /\ Place(pc[p], run[p], st)
  BY <1>1, Placed
<1>3. CASE Leave(p)
  BY <1>1, <1>3, LeaveTurn
<1>4. ASSUME NEW l, Stay(p, l), Place(l, run[p], st) PROVE Turn(p)
  BY <1>1, <1>4, StayTurn
<1>5. ASSUME NEW l, NEW r, Goto(p, l), UNCHANGED lock, run' = [run EXCEPT ![p] = r], r.id = i,
             Place(l, r, st)
      PROVE  Turn(p)
  <2>1. Place(l, r, saved[r.id])
    BY <1>5
  <2> QED
    BY <1>1, <1>5, <2>1, PassTurn
<1>6. CASE EnterFastboot(p)
  <2>1. CASE Stay(p, "ready")
    BY <1>2, <1>4, <1>6, <2>1 DEF EnterFastboot
  <2>2. ASSUME NEW d, run' = [run EXCEPT ![p].dev = d], Goto(p, "entering"), UNCHANGED lock
        PROVE  Turn(p)
    <3>1. PICK r : r = [run[p] EXCEPT !.dev = d]
      OBVIOUS
    <3>2. r.id = i /\ Place("entering", r, st)
      BY <1>2, <1>6, <3>1 DEF EnterFastboot, Run
    <3>3. run' = [run EXCEPT ![p] = r]
      BY <2>2, <3>1
    <3> QED
      BY <1>5, <2>2, <3>2, <3>3
  <2> QED
    BY <1>3, <1>6, <2>1, <2>2 DEF EnterFastboot
<1>7. CASE SelectDevice(p)
  <2>1. ASSUME NEW d \in Devices, run' = [run EXCEPT ![p].dev = d], NEW l \in {"claim_check", "handoff"},
               Goto(p, l), UNCHANGED lock
        PROVE  Turn(p)
    <3>1. PICK r : r = [run[p] EXCEPT !.dev = d]
      OBVIOUS
    <3>2. r.id = i /\ Place(l, r, st)
      BY <1>2, <1>7, <2>1, <3>1 DEF SelectDevice, Run, Readied
    <3>3. run' = [run EXCEPT ![p] = r]
      BY <2>1, <3>1
    <3> QED
      BY <1>5, <2>1, <3>2, <3>3
  <2> QED
    BY <1>3, <1>7, <2>1 DEF SelectDevice, Select, InFastboot
<1>8. CASE PublishGeneration(p) \/ DeliverSetup(p)
  <2>1. pc[p] \in {"finish", "deliver"}
    BY <1>8 DEF PublishGeneration, DeliverSetup
  <2>2. \A l \in {"deliver", "final"} : \A r : Place(l, r, st)
    BY <1>2, <2>1
  <2>3. ASSUME NEW l \in {"deliver", "final"}, NEW r, Goto(p, l), UNCHANGED lock,
               run' = [run EXCEPT ![p] = r], r.id = i
        PROVE  Turn(p)
    BY <1>5, <2>2, <2>3
  <2>4. PICK l \in {"deliver", "final"} :
          \/ Leave(p) \/ Stay(p, l)
          \/ /\ Goto(p, l) /\ UNCHANGED lock
             /\ \/ run' = [run EXCEPT ![p] = [run[p] EXCEPT !.reboot = TRUE]]
                \/ run' = [run EXCEPT ![p] = [run[p] EXCEPT !.out = "already-complete"]]
                \/ run' = [run EXCEPT ![p] = [run[p] EXCEPT !.out = "delivered", !.reboot = TRUE]]
    <3> HIDE DEF Place
    <3>1. CASE PublishGeneration(p)
      BY <3>1 DEF PublishGeneration
    <3>2. CASE DeliverSetup(p)
      <4>1. [run EXCEPT ![p].out = "delivered", ![p].reboot = TRUE]
              = [run EXCEPT ![p] = [run[p] EXCEPT !.out = "delivered", !.reboot = TRUE]]
        BY <1>1 DEF TypeOK, ProcsOK
      <4> QED
        BY <3>2, <4>1 DEF DeliverSetup
    <3> QED
      BY <1>8, <3>1, <3>2
  <2>5. /\ [run[p] EXCEPT !.reboot = TRUE].id = i /\ [run[p] EXCEPT !.out = "already-complete"].id = i
        /\ [run[p] EXCEPT !.out = "delivered", !.reboot = TRUE].id = i
    BY <1>2 DEF Run
  <2> QED
    BY <1>3, <1>4, <2>2, <2>3, <2>4, <2>5
<1>9. CASE ContinueCheck(p)
  <2> DEFINE bound == IF st.dev # None THEN st.dev ELSE run[p].req
             to == CASE st.phase \in Staged -> "co_resume"
                     [] st.phase \in Unreconciled -> "reconcile"
                     [] NeedsRepair(st) -> "re_select"
                     [] st.phase \in {"AMONET_HANDOFF", "FASTBOOT_READY"} -> "co_bind"
                     [] OTHER -> "co_attach"
  <2>1. CASE Continuable(p, st) /\ ~Fail(p)
    <3>1. st \in State /\ st # None /\ st.phase \in Phases \ {"RELEASE_READY"}
      BY <1>2, <2>1, StageFacts DEF Continuable
    <3>2. PICK r : r = [run[p] EXCEPT !.st = st, !.req = bound, !.dev = bound]
      OBVIOUS
    <3>3. r.id = i /\ r.st = st
      BY <1>2, <3>2 DEF Run
    <3>4. PICK l : l = to
      OBVIOUS
    <3>5. \/ l = "co_resume" /\ st.phase \in Staged
          \/ l = "reconcile" /\ st.phase \in Unreconciled
          \/ l = "re_select" /\ st.phase \in Flashed \ Staged
          \/ l = "co_bind" /\ st.phase \in Opening
          \/ l = "co_attach" /\ st.phase \in Flashed
      <4> HIDE DEF Place
      <4>1. CASE st.phase \in Staged
        <5>1. st.phase \notin Unreconciled \cup {"AMONET_HANDOFF", "FASTBOOT_READY"} /\ ~NeedsRepair(st)
          BY <4>1 DEF Staged, Unreconciled, NeedsRepair
        <5> QED
          BY <3>4, <4>1, <5>1
      <4>2. CASE st.phase \in Unreconciled
        <5>1. st.phase \notin Staged \cup {"AMONET_HANDOFF", "FASTBOOT_READY"} /\ ~NeedsRepair(st)
          BY <4>2 DEF Staged, Unreconciled, NeedsRepair
        <5> QED
          BY <3>4, <4>2, <5>1
      <4>3. CASE st.phase \notin Staged \cup Unreconciled
        BY <3>1, <3>4, <4>3 DEF NeedsRepair, Phases, Flashed, Staged, Unreconciled, Opening
      <4> QED
        BY <4>1, <4>2, <4>3
    <3>6. Place(l, r, st)
      BY <3>1, <3>3, <3>5
    <3>7. run' = [run EXCEPT ![p] = r] /\ Goto(p, l) /\ UNCHANGED lock
      BY <1>1, <1>9, <2>1, <3>2, <3>4 DEF ContinueCheck, TypeOK, ProcsOK
    <3> QED
      BY <1>5, <3>3, <3>6, <3>7
  <2> QED
    BY <1>3, <1>9, <2>1 DEF ContinueCheck
<1> QED
  BY <1>6, <1>7, <1>8, <1>9

-----------------------------------------------------------------------------
(* The steps that write a file *)

\* The opening of a transaction, and its giving up.
LEMMA OpeningTurn ==
  ASSUME OneCacheRoot, TypeOK, EvidenceInv, PlaceInv, NEW p \in Procs,
         \/ OneShotCheck(p) \/ WriteReady(p) \/ SubmitBrick(p) \/ WriteHandoff(p) \/ BindDevice(p)
  PROVE  Turn(p)
<1> USE DEF At, Fail, Place, Starting, Choosing, Sent, Opened, Written, Checking, Delivering
<1> DEFINE i == run[p].id
           st == saved[i]
<1>1. pc[p] \in {"os_check", "ready", "submit", "handoff", "bind"}
  BY DEF OneShotCheck, WriteReady, SubmitBrick, WriteHandoff, BindDevice
<1>2. /\ pc[p] # "idle" /\ run[p] \in Run /\ i \in Ids /\ run[p].rel \in Releases
      /\ st \in State \cup {None} /\ Fact(pc[p], run[p], st) /\ Place(pc[p], run[p], st)
  BY <1>1, Placed
<1>3. st # None => st \in State
  BY <1>2
<1>4. CASE OneShotCheck(p)
  <2>1. CASE Fail(p)
    BY <1>2, <2>1, LeaveTurn
  <2>2. CASE ~Fail(p) /\ (st = None \/ st.phase = "RELEASE_READY")
    <3>1. PICK l \in {"enter", "ready"} : Stay(p, l) /\ UNCHANGED host
      BY <1>4, <2>2 DEF OneShotCheck
    <3>2. Place(l, run[p], st)
      BY <2>2, <3>1
    <3> QED
      BY <1>2, <3>1, <3>2, StayTurn
  <2>3. CASE ~Fail(p) /\ ~(st = None \/ st.phase = "RELEASE_READY")
    <3>1. /\ ~OneShotRefused(p, st) /\ ArchiveState(p, st) /\ Goto(p, "enter") /\ UNCHANGED lock
          /\ \E q : run' = [run EXCEPT ![p] = [run[p] EXCEPT !.again = TRUE, !.req = q]]
      <4> DEFINE q == IF run[p].req = AutoSerial /\ st.dev # None THEN st.dev ELSE run[p].req
      <4>1. /\ ~OneShotRefused(p, st) /\ ArchiveState(p, st) /\ Goto(p, "enter") /\ UNCHANGED lock
            /\ run' = [run EXCEPT ![p].again = TRUE,
                         ![p].req = IF @ = AutoSerial /\ st.dev # None THEN st.dev ELSE @]
        BY <1>4, <2>3 DEF OneShotCheck
      <4>2. run' = [run EXCEPT ![p] = [run[p] EXCEPT !.again = TRUE, !.req = q]]
        BY <4>1 DEF TypeOK, ProcsOK
      <4> QED
        BY <4>1, <4>2
    <3>2. PICK q : run' = [run EXCEPT ![p] = [run[p] EXCEPT !.again = TRUE, !.req = q]]
      BY <3>1
    <3>3. PICK r : r = [run[p] EXCEPT !.again = TRUE, !.req = q]
      OBVIOUS
    <3>4. r.id = i /\ run' = [run EXCEPT ![p] = r]
      BY <1>2, <3>2, <3>3 DEF Run
    <3>5. saved' = [saved EXCEPT ![i] = None] /\ archive' = [archive EXCEPT ![i] = @ \cup ({st.dev} \ {None})]
      BY <3>1 DEF ArchiveState
    <3>6. saved'[i] = None /\ {st.dev} \subseteq archive'[i] \cup {None}
      BY <1>2, <3>5 DEF TypeOK, HostOK
    <3>7. Place("enter", r, saved'[r.id])
      BY <3>4, <3>6
    <3>8. Archives(p)
      BY <2>3, <3>1, <3>5, <3>6 DEF Archives, OneShotRefused
    <3> HIDE DEF Place
    <3>9. PlaceInv'
      BY <1>2, <3>1, <3>4, <3>7, PlaceGo
    <3> QED
      BY <3>8, <3>9 DEF Turn
  <2> QED
    BY <2>1, <2>2, <2>3
<1>5. CASE WriteReady(p)
  <2>1. PICK s : s = Blank(run[p].rel)
    OBVIOUS
  <2>2. /\ s \in State /\ s.phase = "RELEASE_READY" /\ s.rel = run[p].rel /\ s.dev = None
        /\ s # None /\ StageOf(s) = "ready"
    <3>1. s \in State /\ s.phase = "RELEASE_READY" /\ s.rel = run[p].rel /\ s.dev = None
      BY <1>2, <2>1 DEF Blank, State, Phases
    <3> QED
      BY <3>1, StageFacts
  <2>3. pc[p] = "ready" /\ Stay(p, "select") /\ Save(p, s)
    BY <1>5, <2>1 DEF WriteReady
  <2>4. Place("select", run[p], s)
    BY <2>2 DEF Readied
  <2>5. st = None \/ (st \in State /\ st.phase = "RELEASE_READY")
    BY <1>2, <2>3
  <2>6. StageOf(st) \in {"none", "ready"}
    BY <2>5, StageFacts, NoStage
  <2> HIDE DEF Place
  <2>7. Careful(st, s) /\ Forward(st, s)
    BY <2>2, <2>5, <2>6 DEF Careful, Forward
  <2> QED
    BY <1>2, <2>2, <2>3, <2>4, <2>7, SaveStayTurn
<1>6. CASE SubmitBrick(p)
  <2>1. PICK s : s = [phase |-> "BRICK_SUBMITTED", rel |-> run[p].rel, fmt |-> FALSE, dev |-> run[p].dev]
    OBVIOUS
  <2>2. /\ s \in State /\ s.phase = "BRICK_SUBMITTED" /\ s.rel = run[p].rel /\ s # None
        /\ s.dev = run[p].dev /\ s.dev \in Devices
    <3>1. run[p].dev \in Devices
      BY <1>2, <1>6, Known DEF SubmitBrick, RunOK, Bricking
    <3>2. s \in State
      BY <1>2, <2>1, <3>1 DEF State, Phases
    <3> QED
      BY <2>1, <3>1, <3>2, ConstantsOK
  <2>3. pc[p] = "submit" /\ Stay(p, "send") /\ Save(p, s)
    BY <1>6, <2>1 DEF SubmitBrick
  <2>4. Place("send", run[p], s)
    BY <1>2, <2>2, <2>3 DEF Fact, Fresh, Submitted
  <2> HIDE DEF Place
  <2>5. run' = [run EXCEPT ![p] = run[p]] /\ saved'[run[p].id] = s
    BY <1>2, <2>3 DEF Stay, Save, TypeOK, ProcsOK, HostOK
  <2>6. Place("send", run[p], saved'[run[p].id])
    BY <2>4, <2>5
  <2>7. PlaceInv'
    BY <1>2, <2>3, <2>5, <2>6, PlaceGo DEF Stay
  <2> QED
    BY <1>6, <2>7 DEF Turn
<1>7. CASE WriteHandoff(p)
  <2>1. PICK s : s = [Carry(p) EXCEPT !.phase = "AMONET_HANDOFF", !.dev = run[p].dev]
    OBVIOUS
  <2>2. /\ pc[p] = "handoff" /\ Stay(p, "bind") /\ Save(p, s)
        /\ st \in State /\ st # None /\ st.rel = run[p].rel /\ ~st.fmt
        /\ st.phase = "RELEASE_READY" \/ (st.phase = "BRICK_SUBMITTED" /\ st.dev = run[p].dev)
    BY <1>2, <1>7, <2>1 DEF WriteHandoff, Readied, Submitted, Fact, Before
  <2>3. Carry(p) = st
    BY <2>2 DEF Carry
  <2>4. run[p].dev \in Devices
    BY <1>2, <2>2
  <2>5. s \in State /\ s.phase = "AMONET_HANDOFF" /\ s.rel = run[p].rel /\ s.dev = run[p].dev /\ ~s.fmt
    BY <2>1, <2>2, <2>3, <2>4 DEF State, Phases
  <2>6. StageOf(s) = "open" /\ s # None /\ s.phase \in Opening
    BY <2>5, StageFacts DEF Opening
  <2>7. Place("bind", run[p], s)
    BY <2>5, <2>6
  <2> HIDE DEF Place
  <2>8. Careful(st, s)
    BY <2>2, <2>4, <2>5, ConstantsOK DEF Careful, Unreconciled
  <2>9. Forward(st, s)
    BY <2>2, <2>4, <2>5, <2>6, StageFacts DEF Forward, Unreconciled
  <2> QED
    BY <1>2, <2>2, <2>5, <2>7, <2>8, <2>9, SaveStayTurn
<1>8. CASE BindDevice(p)
  <2>1. PICK d \in Devices :
          /\ Save(p, [Carry(p) EXCEPT !.phase = "AMONET_HANDOFF", !.fmt = FALSE, !.dev = d])
          /\ run' = [run EXCEPT ![p].dev = d]
    BY <1>8 DEF BindDevice, Select, InFastboot
  <2>2. PICK s : s = [Carry(p) EXCEPT !.phase = "AMONET_HANDOFF", !.fmt = FALSE, !.dev = d]
    OBVIOUS
  <2>3. /\ pc[p] = "bind" /\ Goto(p, "format") /\ UNCHANGED lock
        /\ st \in State /\ st # None /\ st.rel = run[p].rel /\ ~st.fmt /\ st.phase \in Opening
    BY <1>2, <1>8 DEF BindDevice
  <2>4. Carry(p) = st
    BY <2>3 DEF Carry
  <2>5. s \in State /\ s.phase = "AMONET_HANDOFF" /\ s.rel = run[p].rel /\ s.dev = d /\ ~s.fmt
    BY <2>2, <2>3, <2>4 DEF State, Phases
  <2>6. StageOf(s) = "open" /\ StageOf(st) = "open" /\ s # None /\ s.phase \in Opening
    BY <2>3, <2>5, StageFacts DEF Opening
  <2>7. PICK r : r = [run[p] EXCEPT !.dev = d]
    OBVIOUS
  <2>8. r.id = i /\ run' = [run EXCEPT ![p] = r]
    BY <1>2, <2>1, <2>7 DEF Run
  <2>9. Place("format", r, s)
    BY <2>5, <2>6
  <2> HIDE DEF Place
  <2>10. Careful(st, s) /\ Forward(st, s)
    BY <2>3, <2>5, <2>6 DEF Careful, Forward, Opening, Unreconciled
  <2> QED
    BY <1>2, <2>1, <2>2, <2>3, <2>5, <2>8, <2>9, <2>10, SaveTurn
<1> QED
  BY <1>4, <1>5, <1>6, <1>7, <1>8

\* The steps of a run that has bound its unit, or binds it again, write the file's phase.
LEMMA PhaseTurn ==
  ASSUME OneCacheRoot, TypeOK, EvidenceInv, PlaceInv, NEW p \in Procs, NEW l, NEW s \in State,
         pc[p] # "idle", Save(p, s), Stay(p, l) \/ Leave(p), Place(l, run[p], s),
         Careful(saved[run[p].id], s), Forward(saved[run[p].id], s)
  PROVE  Turn(p)
<1>1. CASE Stay(p, l)
  BY <1>1, SaveStayTurn
<1>2. CASE Leave(p)
  BY <1>2, PlaceEnd DEF Turn, Saves, Save
<1> QED
  BY <1>1, <1>2

LEMMA TransactTurn ==
  ASSUME OneCacheRoot, TypeOK, EvidenceInv, PlaceInv, NEW p \in Procs,
         \/ RecordFormat(p) \/ WriteFastbootReady(p) \/ WriteBootWritten(p) \/ WriteAdbReady(p)
         \/ Readback(p) \/ WriteFeaturesStaged(p) \/ RecordRepair(p) \/ CompleteInstall(p)
  PROVE  Turn(p)
<1> USE DEF At, Fail, Place, Starting, Choosing, Sent, Opened, Written, Checking, Delivering
<1> DEFINE st == saved[run[p].id]
<1>1. pc[p] \in {"format_done", "geometry", "flashed", "await_adb", "readback", "staged", "re_done", "complete"}
  BY DEF RecordFormat, WriteFastbootReady, WriteBootWritten, WriteAdbReady, Readback, WriteFeaturesStaged,
         RecordRepair, CompleteInstall
<1> HIDE DEF Place
<1>2. /\ pc[p] # "idle" /\ st \in State /\ st # None /\ run[p].dev \in Devices
      /\ st.rel = run[p].rel /\ st.dev = run[p].dev
      /\ Fact(pc[p], run[p], st) /\ Place(pc[p], run[p], st)
  <2>1. /\ pc[p] # "idle" /\ run[p] \in Run /\ st \in State \cup {None}
        /\ Fact(pc[p], run[p], st) /\ Place(pc[p], run[p], st)
    BY <1>1, Placed
  <2>2. pc[p] \in Binding
    BY <1>1 DEF Binding
  <2>3. run[p].dev \in Devices /\ st # None /\ st.rel = run[p].rel /\ st.dev = run[p].dev
    BY <2>1, <2>2 DEF Fact
  <2> QED
    BY <2>1, <2>3
<1> USE DEF Place
<1>3. Carry(p) = st
  BY <1>2 DEF Carry
<1>4. ASSUME NEW l, NEW s \in State, Save(p, s), Stay(p, l) \/ Leave(p), s.rel = st.rel, s.dev = st.dev,
             \/ /\ pc[p] = "format_done" /\ s.phase = "AMONET_HANDOFF" /\ s.fmt /\ l = "geometry"
             \/ /\ pc[p] = "geometry" /\ s.phase = "FASTBOOT_READY" /\ s.fmt = st.fmt /\ l = "flash"
             \/ /\ pc[p] = "flashed" /\ s.phase = "BOOT_WRITTEN" /\ s.fmt = st.fmt /\ l = "reboot"
             \/ /\ pc[p] = "await_adb" /\ s.phase = "ADB_READY" /\ s.fmt = st.fmt /\ l = "readback"
             \/ /\ pc[p] = "readback" /\ s.phase = "READBACK_VERIFIED" /\ s.fmt = st.fmt /\ l = "stage"
             \/ /\ pc[p] = "staged" /\ s.phase = "FEATURES_STAGED" /\ s.fmt = st.fmt /\ l = "finish"
             \/ /\ pc[p] = "re_done" /\ s.phase = "READBACK_VERIFIED" /\ s.fmt /\ l = "re_boot"
             \/ /\ pc[p] = "complete" /\ s.phase \in Staged /\ s.fmt = st.fmt /\ l = "finish"
      PROVE  Turn(p)
  <2>1. Place(l, run[p], s)
    BY <1>4, ConstantsOK, StageFacts DEF Opening, Flashed, Staged
  <2>2. /\ pc[p] \in After => st.fmt
        /\ pc[p] = "re_done" => ~st.fmt
        /\ pc[p] \in {"format_done", "geometry", "flashed"} => st.phase \in Opening
        /\ pc[p] \in {"await_adb", "readback", "re_done"} => st.phase \in Flashed \ Staged
        /\ pc[p] = "staged" => st.phase \in Flashed
        /\ pc[p] = "complete" => st.phase \in Staged
    BY <1>2 DEF Fact, Before
  <2> HIDE DEF Place
  <2>3. st.phase \notin {"RELEASE_READY"} \cup Unreconciled /\ s.phase # "RELEASE_READY"
    BY <1>1, <1>4, <2>2 DEF Opening, Flashed, Staged, Unreconciled
  <2>4. Careful(st, s)
    BY <1>4, <2>3 DEF Careful
  <2>5. /\ StageOf(s) = CASE pc[p] \in {"format_done", "geometry"} -> "formatted"
                          [] pc[p] \in {"flashed", "await_adb", "readback", "re_done"} -> "flashed"
                          [] OTHER -> "staged"
    <3>1. pc[p] \in {"geometry", "flashed", "await_adb", "readback", "staged", "complete"} => s.fmt
      BY <1>4, <2>2 DEF After
    <3>2. /\ pc[p] \in {"format_done", "geometry"} => s.phase \in Opening
          /\ pc[p] \in {"flashed", "await_adb", "readback", "re_done"} => s.phase \in Flashed \ Staged
          /\ pc[p] \in {"staged", "complete"} => s.phase \in Staged
      BY <1>4 DEF Opening, Flashed, Staged
    <3> QED
      BY <1>1, <1>4, <3>1, <3>2, StageFacts
  <2>6. /\ pc[p] = "format_done" => StageOf(st) \in {"open", "formatted"}
        /\ pc[p] \in {"geometry", "flashed"} => StageOf(st) = "formatted"
        /\ pc[p] \in {"await_adb", "readback"} => StageOf(st) = "flashed"
        /\ pc[p] = "re_done" => StageOf(st) = "unformatted"
        /\ pc[p] = "staged" => StageOf(st) \in {"flashed", "staged"}
        /\ pc[p] = "complete" => StageOf(st) = "staged"
    BY <1>2, <2>2, StageFacts DEF After
  <2>7. Forward(st, s)
    BY <1>1, <1>2, <1>4, <2>5, <2>6 DEF Forward
  <2> QED
    BY <1>2, <1>4, <2>1, <2>4, <2>7, PhaseTurn
<1> HIDE DEF Place
<1>5. ASSUME NEW ph \in Phases
      PROVE  /\ [st EXCEPT !.phase = ph] \in State
             /\ [st EXCEPT !.phase = ph].phase = ph /\ [st EXCEPT !.phase = ph].fmt = st.fmt
             /\ [st EXCEPT !.phase = ph].rel = st.rel /\ [st EXCEPT !.phase = ph].dev = st.dev
             /\ [st EXCEPT !.phase = ph, !.fmt = TRUE] \in State
             /\ [st EXCEPT !.phase = ph, !.fmt = TRUE].phase = ph /\ [st EXCEPT !.phase = ph, !.fmt = TRUE].fmt
             /\ [st EXCEPT !.phase = ph, !.fmt = TRUE].rel = st.rel
             /\ [st EXCEPT !.phase = ph, !.fmt = TRUE].dev = st.dev
  BY <1>2 DEF State
<1>6. ASSUME NEW ph \in Phases, NEW l, SavePhase(p, ph), Stay(p, l) \/ Leave(p),
             \/ pc[p] = "geometry" /\ ph = "FASTBOOT_READY" /\ l = "flash"
             \/ pc[p] = "flashed" /\ ph = "BOOT_WRITTEN" /\ l = "reboot"
             \/ pc[p] = "await_adb" /\ ph = "ADB_READY" /\ l = "readback"
             \/ pc[p] = "readback" /\ ph = "READBACK_VERIFIED" /\ l = "stage"
             \/ pc[p] = "staged" /\ ph = "FEATURES_STAGED" /\ l = "finish"
             \/ pc[p] = "complete" /\ ph \in Staged /\ l = "finish"
      PROVE  Turn(p)
  <2>1. PICK s : s = [st EXCEPT !.phase = ph]
    OBVIOUS
  <2>2. s \in State /\ s.phase = ph /\ s.fmt = st.fmt /\ s.rel = st.rel /\ s.dev = st.dev
    BY <1>5, <2>1
  <2>3. Save(p, s)
    BY <1>3, <1>6, <2>1 DEF SavePhase
  <2> QED
    BY <1>4, <1>6, <2>2, <2>3
<1>7. CASE RecordFormat(p) \/ RecordRepair(p)
  <2>1. PICK ph \in Phases, l \in Labels :
          /\ SaveFormatted(p, ph) /\ Stay(p, l)
          /\ \/ pc[p] = "format_done" /\ ph = "AMONET_HANDOFF" /\ l = "geometry"
             \/ pc[p] = "re_done" /\ ph = "READBACK_VERIFIED" /\ l = "re_boot"
    BY <1>7 DEF RecordFormat, RecordRepair, Labels, Phases
  <2>2. PICK s : s = [st EXCEPT !.phase = ph, !.fmt = TRUE]
    OBVIOUS
  <2>3. s \in State /\ s.phase = ph /\ s.fmt /\ s.rel = st.rel /\ s.dev = st.dev
    BY <1>5, <2>2
  <2>4. Save(p, s)
    BY <1>3, <2>1, <2>2 DEF SaveFormatted
  <2> QED
    BY <1>4, <2>1, <2>3, <2>4
<1>8. CASE WriteFastbootReady(p) \/ WriteBootWritten(p) \/ WriteAdbReady(p) \/ WriteFeaturesStaged(p)
  BY <1>6, <1>8 DEF WriteFastbootReady, WriteBootWritten, WriteAdbReady, WriteFeaturesStaged, Phases
<1>9. CASE Readback(p)
  BY <1>2, <1>6, <1>9, LeaveTurn DEF Readback, Phases
<1>10. CASE CompleteInstall(p)
  <2>1. CASE Fail(p)
    BY <1>2, <2>1, LeaveTurn
  <2>2. CASE ~Fail(p)
    <3>1. PICK ph \in {"WEBUI_FORWARDED", "SETUP_DELIVERED", "INSTALL_COMPLETE"} :
            SavePhase(p, ph) /\ Leave(p)
      BY <1>10, <2>2 DEF CompleteInstall
    <3>2. pc[p] = "complete" /\ ph \in Phases /\ ph \in Staged
      BY <1>10, <3>1 DEF CompleteInstall, Phases, Staged
    <3> QED
      BY <1>6, <3>1, <3>2
  <2> QED
    BY <2>1, <2>2
<1> QED
  BY <1>7, <1>8, <1>9, <1>10

\* The steps of a continuation that write what it read, with its unit.
LEMMA BoundTurn ==
  ASSUME OneCacheRoot, TypeOK, EvidenceInv, PlaceInv, NEW p \in Procs, pc[p] \in Resuming,
         NEW ph \in Phases, NEW l, SaveBound(p, ph), Stay(p, l),
         \/ pc[p] = "co_bind" /\ l = "co_verify" /\ ph = run[p].st.phase
         \/ pc[p] \in {"co_attach", "co_booting"} /\ l = "co_readback" /\ ph = run[p].st.phase
         \/ pc[p] = "co_readback" /\ l = "co_features" /\ ph = run[p].st.phase /\ ph \in Staged
         \/ pc[p] = "co_readback" /\ l = "stage" /\ ph = "READBACK_VERIFIED"
              /\ run[p].st.phase \notin Staged
         \/ pc[p] = "re_select" /\ l = "re_reboot" /\ ph = run[p].st.phase
  PROVE  Turn(p)
<1> USE DEF Place, Starting, Choosing, Sent, Opened, Written, Checking, Delivering
<1> DEFINE st == saved[run[p].id]
           x == run[p].st
           d == run[p].dev
<1>1. /\ pc[p] # "idle" /\ run[p] \in Run /\ st \in State \cup {None}
      /\ Fact(pc[p], run[p], st) /\ Evidence(run[p].id, st) /\ Place(pc[p], run[p], st)
  BY Placed DEF Resuming
<1>2. d \in Devices /\ x \in State /\ x.dev \in {None, d} /\ (st = x \/ st = [x EXCEPT !.dev = d])
  BY <1>1 DEF Fact, Reread, Run
<1>3. /\ st \in State /\ st # None /\ st.phase = x.phase /\ st.fmt = x.fmt /\ st.rel = x.rel
      /\ st.dev \in {None, d}
  BY <1>2, ConstantsOK DEF State
<1>4. PICK s : s = [x EXCEPT !.phase = ph, !.dev = d]
  OBVIOUS
<1>5. s \in State /\ s.phase = ph /\ s.fmt = st.fmt /\ s.rel = st.rel /\ s.dev = d /\ s # None
  BY ZenonT(60), <1>2, <1>3, <1>4, ConstantsOK DEF State
<1>6. /\ pc[p] = "co_bind" => st.phase \in Opening
      /\ pc[p] \in {"co_attach", "co_booting", "co_readback"} => st.phase \in Flashed /\ st.fmt
      /\ pc[p] = "re_select" => st.phase \in Flashed \ Staged /\ ~st.fmt
      /\ st.fmt => st.dev = d
  BY <1>1, <1>3 DEF Fact, After, Before, Evidence
<1>7. Place(l, run[p], s)
  BY <1>3, <1>5, <1>6 DEF Flashed, Staged
<1> HIDE DEF Place
<1>8. s.phase # "RELEASE_READY" /\ st.phase \notin {"RELEASE_READY"} \cup Unreconciled
  BY <1>3, <1>5, <1>6 DEF Opening, Flashed, Staged, Unreconciled, Resuming
<1>9. Careful(st, s)
  BY <1>5, <1>8 DEF Careful
<1>10. StageOf(st) = StageOf(s)
  <2>1. CASE ph = x.phase
    BY <1>3, <1>5, <2>1 DEF StageOf
  <2>2. CASE pc[p] = "co_readback" /\ ph = "READBACK_VERIFIED" /\ x.phase \notin Staged
    <3>1. st.phase \in Flashed \ Staged /\ s.phase \in Flashed \ Staged /\ st.fmt
      BY <1>3, <1>5, <1>6, <2>2 DEF Flashed, Staged
    <3> QED
      BY <1>3, <1>5, <3>1, StageFacts
  <2> QED
    BY <2>1, <2>2
<1>11. Forward(st, s)
  <2>1. CASE st.fmt
    BY <1>3, <1>5, <1>6, <1>10, <2>1 DEF Forward
  <2>2. CASE ~st.fmt
    <3>1. StageOf(st) \in {"open", "unformatted"}
      BY <1>3, <1>6, <2>2, StageFacts DEF Resuming
    <3> QED
      BY <1>2, <1>3, <1>5, <1>10, <3>1 DEF Forward
  <2> QED
    BY <2>1, <2>2
<1>12. Save(p, s)
  BY <1>4 DEF SaveBound
<1> QED
  BY <1>1, <1>5, <1>7, <1>9, <1>11, <1>12, SaveStayTurn

LEMMA ContinueTurn ==
  ASSUME OneCacheRoot, TypeOK, EvidenceInv, PlaceInv, NEW p \in Procs,
         \/ WriteReconciled(p) \/ ContinueBind(p) \/ Attach(p) \/ PendingBooted(p)
         \/ ContinueReadback(p) \/ RepairSelect(p)
  PROVE  Turn(p)
<1> USE DEF At, Fail
<1> DEFINE i == run[p].id
           st == saved[i]
           d == run[p].dev
<1>1. pc[p] \in {"co_handoff", "co_bind", "co_attach", "co_booting", "co_readback", "re_select"}
  BY DEF WriteReconciled, ContinueBind, Attach, PendingBooted, ContinueReadback, RepairSelect
<1>2. /\ pc[p] # "idle" /\ pc[p] \in Resuming /\ run[p] \in Run /\ i \in Ids /\ st \in State \cup {None}
      /\ Fact(pc[p], run[p], st) /\ Place(pc[p], run[p], st)
  BY <1>1, Placed DEF Resuming
<1>3. /\ d \in Devices /\ run[p].st \in State /\ run[p].st.phase \in Phases /\ run[p].st.dev \in {None, d}
      /\ st = run[p].st \/ st = [run[p].st EXCEPT !.dev = d]
  BY <1>2 DEF Fact, Reread, Run, State
<1>4. CASE Leave(p) /\ UNCHANGED host
  BY <1>2, <1>4, LeaveTurn
<1>5. CASE WriteReconciled(p)
  <2>1. PICK s : s = [run[p].st EXCEPT !.phase = "AMONET_HANDOFF", !.dev = run[p].dev]
    OBVIOUS
  <2>2. /\ st \in State /\ st # None /\ st.phase \in Unreconciled /\ st.dev \in {None, d} /\ ~st.fmt
        /\ st.rel = run[p].st.rel /\ st.fmt = run[p].st.fmt
    <3>1. pc[p] = "co_handoff"
      BY <1>5 DEF WriteReconciled
    <3>2. st # None /\ st.phase \in Unreconciled
      BY <1>2, <3>1 DEF Place
    <3>3. ~st.fmt
      BY <1>2, <3>1, <3>2 DEF Fact, Before
    <3>4. st.dev \in {None, d} /\ st.rel = run[p].st.rel /\ st.fmt = run[p].st.fmt
      <4>1. CASE st = run[p].st
        BY <1>3, <4>1
      <4>2. CASE st = [run[p].st EXCEPT !.dev = d]
        BY <1>3, <4>2 DEF State
      <4> QED
        BY <1>3, <4>1, <4>2
    <3> QED
      BY <1>2, <3>2, <3>3, <3>4
  <2>3. /\ s \in State /\ s.phase = "AMONET_HANDOFF" /\ s.dev = d /\ s.rel = st.rel /\ ~s.fmt
    BY <1>3, <2>1, <2>2 DEF State, Phases
  <2>4. StageOf(s) = "open" /\ StageOf(st) = "submitted" /\ s # None /\ s.phase \in Opening
    BY <2>2, <2>3, StageFacts DEF Opening
  <2>5. PICK r : r = [run[p] EXCEPT !.st = s]
    OBVIOUS
  <2>6. r.id = i
    BY <1>2, <2>5 DEF Run
  <2>7. /\ run' = [run EXCEPT ![p] = r] /\ Goto(p, "co_bind") /\ UNCHANGED lock /\ Save(p, s)
    BY <1>5, <2>1, <2>5 DEF WriteReconciled
  <2>8. Place("co_bind", r, s)
    BY <2>4 DEF Place, Starting, Choosing, Sent, Opened, Written, Checking, Delivering
  <2>9. d # None
    BY <1>3, ConstantsOK
  <2>10. Careful(st, s) /\ Forward(st, s)
    BY <1>3, <2>2, <2>3, <2>4, <2>9 DEF Careful, Forward
  <2> QED
    BY <1>2, <2>3, <2>6, <2>7, <2>8, <2>10, SaveTurn
<1>6. CASE ContinueBind(p) \/ PendingBooted(p)
  BY <1>2, <1>3, <1>6, BoundTurn DEF ContinueBind, PendingBooted
<1>7. CASE Attach(p)
  <2>1. CASE Stay(p, "co_booting") /\ UNCHANGED host
    <3>1. Place("co_booting", run[p], st)
      BY <1>2, <1>7 DEF Attach, Place, Starting, Choosing, Sent, Opened, Written, Checking, Delivering
    <3> QED
      BY <1>2, <2>1, <3>1, StayTurn
  <2>2. CASE SaveBound(p, run[p].st.phase) /\ Stay(p, "co_readback")
    BY <1>2, <1>3, <1>7, <2>2, BoundTurn DEF Attach
  <2> QED
    BY <1>4, <1>7, <2>1, <2>2 DEF Attach
<1>8. CASE ContinueReadback(p)
  <2>1. CASE ~Fail(p)
    <3>1. PICK ph \in Phases, l \in {"stage", "co_features"} :
            /\ SaveBound(p, ph) /\ Stay(p, l)
            /\ \/ l = "co_features" /\ ph = run[p].st.phase /\ ph \in Staged
               \/ l = "stage" /\ ph = "READBACK_VERIFIED" /\ run[p].st.phase \notin Staged
      BY <1>3, <1>8, <2>1 DEF ContinueReadback, Phases
    <3> QED
      BY <1>2, <1>8, <3>1, BoundTurn DEF ContinueReadback
  <2> QED
    BY <1>4, <2>1
<1>9. CASE RepairSelect(p)
  BY <1>2, <1>3, <1>4, <1>9, BoundTurn DEF RepairSelect
<1> QED
  BY <1>5, <1>6, <1>7, <1>8, <1>9

\* Every step of a run is a turn.
LEMMA TurnStep ==
  ASSUME OneCacheRoot, TypeOK, EvidenceInv, PlaceInv, NEW p \in Procs, Step(p) \/ Timeout(p) \/ Abort(p)
  PROVE  Turn(p) \/ ClaimWrite(p)
<1>1. CASE Timeout(p) \/ Abort(p)
  BY <1>1, LeaveTurn DEF Timeout, Abort, Fail, At
<1>2. ~InstallReady(p)
  BY DEF InstallReady, PlaceInv, Place, At
<1>3. CASE BrickStep(p)
  BY <1>3, WorkTurn, OpeningTurn DEF BrickStep
<1>4. CASE OneShotStep(p)
  BY <1>2, <1>4, WorkTurn, LearnTurn, OpeningTurn, TransactTurn DEF OneShotStep
<1>5. CASE FinishStep(p)
  BY <1>5, WorkTurn, LearnTurn, TransactTurn DEF FinishStep
<1>6. CASE ContinueStep(p)
  BY <1>6, WorkTurn, LearnTurn, TransactTurn, ContinueTurn DEF ContinueStep
<1> QED
  BY <1>1, <1>3, <1>4, <1>5, <1>6 DEF Step

\* Claiming a latch writes no state file.
LEMMA ClaimPlace ==
  ASSUME OneCacheRoot, TypeOK, EvidenceInv, PlaceInv, NEW p \in Procs, ClaimWrite(p)
  PROVE  PlaceInv' /\ UNCHANGED <<saved, archive>>
<1>1. pc[p] = "claim_write" /\ pc[p] # "idle" /\ Stay(p, "submit") /\ UNCHANGED <<saved, archive>>
  BY DEF ClaimWrite, At
<1>2. Place("submit", run[p], saved[run[p].id])
  BY <1>1 DEF PlaceInv, Place, Starting, Choosing, Sent, Opened, Written, Checking, Delivering
<1>3. run' = [run EXCEPT ![p] = run[p]] /\ Place("submit", run[p], saved'[run[p].id])
  BY <1>1, <1>2 DEF Stay, TypeOK, ProcsOK
<1> QED
  BY <1>1, <1>3, PlaceGo DEF Stay

-----------------------------------------------------------------------------
(* Nothing on record is discarded *)

LEMMA PlaceNext ==
  ASSUME OneCacheRoot, NoInstall, TypeOK, EvidenceInv, PlaceInv, [Next]_vars
  PROVE  PlaceInv'
<1>1. ASSUME NEW p \in Procs, Command(p) PROVE PlaceInv'
  <2>1. /\ lock[CacheOf[p]] = None /\ UNCHANGED saved
        /\ Goto(p, "os_check") \/ Goto(p, "co_check")
    BY <1>1 DEF Command, OneShot, ContinueOneShot, Install, NoInstall, Begin, host
  <2>2. \A q \in Procs : pc[q] = "idle"
    BY <2>1, ConstantsOK DEF OneCacheRoot, EvidenceInv, Locked
  <2>3. \A q \in Procs : pc'[q] \in {"idle", "os_check", "co_check"}
    BY <2>1, <2>2 DEF Goto, TypeOK, ProcsOK
  <2> QED
    BY <2>3 DEF PlaceInv, Place, Starting, Choosing, Sent, Opened, Written, Checking, Delivering
<1>2. ASSUME NEW p \in Procs, Step(p) \/ Timeout(p) \/ Abort(p) PROVE PlaceInv'
  BY <1>2, TurnStep, ClaimPlace DEF Turn
<1>3. CASE (\E d \in Devices : World(d)) \/ BecomeCalm \/ UNCHANGED vars
  BY <1>3 DEF World, BecomeCalm, vars, host, PlaceInv
<1> QED
  BY <1>1, <1>2, <1>3 DEF Next

\* Under one cache root and without install, an unresolved brick marker gives way only to the
\* handoff of its unit, and an installation under way only to its own progress or to an archive
\* that keeps its unit (one_shot's guards, write_state and archive_one_shot_state).
THEOREM DiscardsNothing ==
  ASSUME OneCacheRoot, NoInstall, EarlyFits
  PROVE  Spec => NothingDiscarded
<1> DEFINE Inv == EvidenceInv /\ PlaceInv
<1>1. Init => Inv
  BY EvidenceInit DEF Init, PlaceInv
<1>2. TypeOK /\ Inv /\ [Next]_vars => Inv'
  BY EvidenceNext, PlaceNext
<1>3. ASSUME TypeOK, Inv, [Next]_vars, NEW i \in Ids,
             saved[i] # None, saved[i].phase # "RELEASE_READY", saved'[i] # saved[i]
      PROVE  IF saved'[i] = None
             THEN saved[i].phase \notin Unreconciled /\ {saved[i].dev} \subseteq archive'[i] \cup {None}
             ELSE /\ saved'[i].phase # "RELEASE_READY" /\ saved'[i].rel = saved[i].rel
                  /\ saved[i].phase \in Unreconciled =>
                       /\ saved'[i].phase = "AMONET_HANDOFF" /\ saved'[i].dev # None
                       /\ saved[i].dev \in {None, saved'[i].dev}
  <2>1. PICK p \in Procs : Step(p) \/ Timeout(p) \/ Abort(p)
    <3>1. CASE \E p \in Procs : Command(p)
      BY <1>3, <3>1 DEF Command, OneShot, ContinueOneShot, Install, Begin, host
    <3>2. CASE (\E e \in Devices : World(e)) \/ BecomeCalm \/ UNCHANGED vars
      BY <1>3, <3>2 DEF World, BecomeCalm, vars, host
    <3> QED
      BY <1>3, <3>1, <3>2 DEF Next
  <2>2. Turn(p) /\ ~UNCHANGED saved
    BY <1>3, <2>1, TurnStep, ClaimPlace
  <2>3. CASE Saves(p)
    <3>1. PICK s \in State : /\ saved' = [saved EXCEPT ![run[p].id] = s]
                            /\ Careful(saved[run[p].id], s)
      BY <2>3 DEF Saves
    <3>2. i = run[p].id /\ saved'[i] = s /\ s # None
      BY <1>3, <3>1, ConstantsOK DEF TypeOK, HostOK
    <3> QED
      BY <1>3, <3>1, <3>2 DEF Careful
  <2>4. CASE Archives(p)
    <3>1. i = run[p].id /\ saved'[i] = None
      BY <1>3, <2>4 DEF Archives, TypeOK, HostOK
    <3> QED
      BY <2>4, <3>1 DEF Archives
  <2>5. CASE SubmitBrick(p)
    <3>1. saved[run[p].id].phase = "RELEASE_READY"
      BY <1>3, <2>5 DEF SubmitBrick, At, PlaceInv, Place, Choosing, Readied
    <3>2. i = run[p].id
      BY <1>3, <2>5 DEF SubmitBrick, Save, TypeOK, HostOK
    <3> QED
      BY <1>3, <3>1, <3>2
  <2> QED
    BY <2>2, <2>3, <2>4, <2>5 DEF Turn
<1> HIDE DEF Inv
<1>4. TypeOK /\ Inv /\ [Next]_vars =>
        [\A i \in Ids :
           LET old == saved[i]
               new == saved'[i]
           IN  old # None /\ old.phase # "RELEASE_READY" /\ new # old =>
                 IF new = None
                 THEN old.phase \notin Unreconciled /\ {old.dev} \subseteq archive'[i] \cup {None}
                 ELSE /\ new.phase # "RELEASE_READY" /\ new.rel = old.rel
                      /\ old.phase \in Unreconciled =>
                           /\ new.phase = "AMONET_HANDOFF" /\ new.dev # None
                           /\ old.dev \in {None, new.dev}]_vars
  BY <1>3
<1> QED
  BY <1>1, <1>2, <1>4, TypeCorrect, PTL DEF Spec, NothingDiscarded

-----------------------------------------------------------------------------
(* The installer implements InstallTransaction *)

\* The states earlier installers left name no unit, and their installation is under way.
EarlyUnbound ==
  \A o \in Origins, i \in Ids :
    o[1][i] # None => o[1][i].dev = None /\ o[1][i].phase \notin {"RELEASE_READY"} \cup Staged

\* The file of an id moves its transaction.
LEMMA SaveMove ==
  ASSUME TypeOK, NEW i \in Ids, NEW s, saved' = [saved EXCEPT ![i] = s], s # None,
         UNCHANGED <<latches, bricks>>, NEW from, StageOf(saved[i]) \in from
  PROVE  Transaction!Move(i, from, StageOf(s), s.dev)
BY DEF Transaction!Move, Transaction!Entry, TypeOK, HostOK

LEMMA ForwardMove ==
  ASSUME TypeOK, NEW i \in Ids, NEW s \in State, saved' = [saved EXCEPT ![i] = s],
         UNCHANGED <<latches, bricks>>, Forward(saved[i], s)
  PROVE  [Transaction!Next]_(Transaction!vars)
<1> DEFINE old == saved[i]
           d == s.dev
<1>1. s # None /\ saved[i] \in State \cup {None}
  BY ConstantsOK DEF State, TypeOK, HostOK
<1>2. ASSUME NEW from, StageOf(old) \in from
      PROVE  Transaction!Move(i, from, StageOf(s), d)
  BY <1>1, <1>2, SaveMove
<1>3. CASE old # None /\ StageOf(s) = StageOf(old) /\ d = old.dev
  <2>1. \A j \in Ids :
          [stage |-> StageOf(saved'[j]), unit |-> IF saved'[j] = None THEN None ELSE saved'[j].dev]
            = [stage |-> StageOf(saved[j]), unit |-> IF saved[j] = None THEN None ELSE saved[j].dev]
    BY <1>1, <1>3 DEF TypeOK, HostOK
  <2> QED
    BY <2>1 DEF Transaction!vars
<1>4. CASE StageOf(old) \in {"none", "ready"} /\ StageOf(s) = "ready" /\ d = None
  <2>1. Transaction!Start(i)
    BY <1>2, <1>4 DEF Transaction!Start
  <2> QED
    BY <2>1 DEF Transaction!Next
<1>5. ASSUME d \in Devices,
             \/ Transaction!Open(i, d) \/ Transaction!Format(i, d) \/ Transaction!Flash(i, d)
             \/ Transaction!Repair(i, d) \/ Transaction!Stage(i, d)
      PROVE  [Transaction!Next]_(Transaction!vars)
  BY <1>5 DEF Transaction!Next
<1>6. CASE d \in Devices /\ StageOf(old) \in {"ready", "open"} /\ StageOf(s) = "open"
  <2>1. Transaction!Open(i, d)
    BY <1>2, <1>6 DEF Transaction!Open
  <2> QED
    BY <1>5, <1>6, <2>1
<1>7. ASSUME StageOf(old) \notin {"none", "ready"}
      PROVE  old # None /\ (old.dev \in {None, d} => Transaction!SameUnit(i, d))
  BY <1>7, NoStage DEF Transaction!SameUnit
<1>8. CASE /\ d \in Devices /\ old.dev \in {None, d}
           /\ \/ StageOf(old) = "submitted" /\ StageOf(s) = "open"
              \/ StageOf(old) = "open" /\ StageOf(s) = "formatted"
              \/ StageOf(old) = "unformatted" /\ StageOf(s) \in {"unformatted", "flashed"}
  <2>1. Transaction!SameUnit(i, d)
    BY <1>7, <1>8
  <2>2. CASE StageOf(old) = "submitted" /\ StageOf(s) = "open"
    <3>1. Transaction!Open(i, d)
      BY <1>2, <2>1, <2>2 DEF Transaction!Open
    <3> QED
      BY <1>5, <1>8, <3>1
  <2>3. CASE StageOf(old) = "open" /\ StageOf(s) = "formatted"
    <3>1. Transaction!Format(i, d)
      BY <1>2, <2>1, <2>3 DEF Transaction!Format
    <3> QED
      BY <1>5, <1>8, <3>1
  <2>4. CASE StageOf(old) = "unformatted" /\ StageOf(s) \in {"unformatted", "flashed"}
    <3>1. Transaction!Repair(i, d)
      BY <1>2, <2>1, <2>4 DEF Transaction!Repair
    <3> QED
      BY <1>5, <1>8, <3>1
  <2> QED
    BY <1>8, <2>2, <2>3, <2>4
<1>9. CASE /\ d \in Devices /\ old.dev = d
           /\ \/ StageOf(old) = "formatted" /\ StageOf(s) = "flashed"
              \/ StageOf(old) = "flashed" /\ StageOf(s) = "staged"
  <2>1. old # None
    BY <1>7, <1>9
  <2>2. CASE StageOf(old) = "formatted" /\ StageOf(s) = "flashed"
    <3>1. Transaction!Flash(i, d)
      BY <1>2, <1>9, <2>1, <2>2 DEF Transaction!Flash
    <3> QED
      BY <1>5, <1>9, <3>1
  <2>3. CASE StageOf(old) = "flashed" /\ StageOf(s) = "staged"
    <3>1. Transaction!Stage(i, d)
      BY <1>2, <1>9, <2>1, <2>3 DEF Transaction!Stage
    <3> QED
      BY <1>5, <1>9, <3>1
  <2> QED
    BY <1>9, <2>2, <2>3
<1> QED
  BY <1>3, <1>4, <1>6, <1>8, <1>9 DEF Forward

LEMMA ArchiveMove ==
  ASSUME TypeOK, NEW p \in Procs, NEW i \in Ids, i = run[p].id, Archives(p),
         UNCHANGED <<latches, bricks>>
  PROVE  [Transaction!Next]_(Transaction!vars)
<1>1. saved[i] \in State
  BY DEF Archives, TypeOK, HostOK
<1>2. StageOf(saved[i]) \in Transaction!Stages \ {"none", "ready", "submitted"}
  <2>1. saved[i].phase \in Phases \ ({"RELEASE_READY"} \cup Unreconciled)
    BY <1>1 DEF Archives, State
  <2>2. saved[i].phase \in Staged \/ saved[i].phase \in Flashed \ Staged \/ saved[i].phase \in Opening
    BY <2>1 DEF Phases, Unreconciled, Staged, Flashed, Opening
  <2> QED
    BY <1>1, <2>2, StageFacts DEF Transaction!Stages
<1>3. saved' = [saved EXCEPT ![i] = None]
  BY DEF Archives
<1>4. Transaction!GiveUp(i)
  BY <1>2, <1>3, NoStage DEF Transaction!GiveUp, Transaction!Move, Transaction!Entry, TypeOK, HostOK
<1> QED
  BY <1>4 DEF Transaction!Next

\* The brick sequence's own steps.
LEMMA ClaimMove ==
  ASSUME TypeOK, NEW p \in Procs, NEW d \in Devices, d = run[p].dev, ClaimWrite(p)
  PROVE  [Transaction!Next]_(Transaction!vars)
<1> DEFINE claimed == {latch[2] : latch \in latches}
<1>1. UNCHANGED <<saved, bricks>> /\ latches' = latches \cup {<<BoardOf[run[p].rel], d>>}
  BY DEF ClaimWrite, units, Latch
<1>2. {latch[2] : latch \in latches'} = claimed \cup {d}
  <2>1. PICK new : new = <<BoardOf[run[p].rel], d>>
    OBVIOUS
  <2>2. new[2] = d /\ latches' = latches \cup {new}
    BY <1>1, <2>1
  <2> QED
    BY <2>2
<1>3. CASE d \in claimed
  BY <1>1, <1>2, <1>3 DEF Transaction!vars
<1>4. CASE d \notin claimed
  <2>1. Transaction!Claim(d)
    BY <1>1, <1>2, <1>4 DEF Transaction!Claim
  <2> QED
    BY <2>1 DEF Transaction!Next
<1> QED
  BY <1>3, <1>4

LEMMA SubmitMove ==
  ASSUME TypeOK, BrickInv, PlaceInv, NEW p \in Procs, NEW i \in Ids, NEW d \in Devices,
         i = run[p].id, d = run[p].dev, run[p].rel \in Releases, SubmitBrick(p)
  PROVE  [Transaction!Next]_(Transaction!vars)
<1>0. PICK s : s = [phase |-> "BRICK_SUBMITTED", rel |-> run[p].rel, fmt |-> FALSE, dev |-> d]
  OBVIOUS
<1>1. pc[p] = "submit" /\ saved' = [saved EXCEPT ![i] = s] /\ UNCHANGED <<latches, bricks>>
  BY <1>0 DEF SubmitBrick, At, Save, units
<1>2. s \in State /\ s.phase = "BRICK_SUBMITTED" /\ s.dev = d
  BY <1>0 DEF State, Phases
<1>3. s # None /\ StageOf(s) = "submitted"
  BY <1>2, StageFacts DEF Unreconciled
<1>4. saved[i] \in State /\ StageOf(saved[i]) = "ready"
  BY <1>1, StageFacts DEF PlaceInv, Place, Choosing, Readied, TypeOK, HostOK
<1>5. Transaction!Move(i, {"ready"}, "submitted", d)
  <2>1. Transaction!Move(i, {"ready"}, StageOf(s), s.dev)
    BY <1>1, <1>3, <1>4, SaveMove
  <2> QED
    BY <1>2, <1>3, <2>1 DEF Transaction!Move
<1>6. Latched(d) /\ bricks[d] = 0
  BY <1>1 DEF BrickInv, Bricking, Claiming
<1>7. d \in {latch[2] : latch \in latches} /\ d \notin {e \in Devices : bricks[e] > 0}
  BY <1>6 DEF Latched
<1>8. Transaction!Submit(i, d)
  BY <1>5, <1>7 DEF Transaction!Submit
<1> QED
  BY <1>8 DEF Transaction!Next

LEMMA SendMove ==
  ASSUME TypeOK, EvidenceInv, BrickInv, PlaceInv, NEW p \in Procs, NEW i \in Ids, NEW d \in Devices,
         i = run[p].id, d = run[p].dev, SendBrick(p)
  PROVE  [Transaction!Next]_(Transaction!vars)
<1> DEFINE sent == {e \in Devices : bricks[e] > 0}
<1>1. /\ pc[p] = "send" /\ UNCHANGED <<saved, latches>>
      /\ bricks' = [bricks EXCEPT ![d] = @ + 1]
  BY DEF SendBrick, At, host
<1>2. run[p].st = None
  BY <1>1, Placed DEF Fact, Fresh
<1>3. Submitted(run[p], saved[i])
  BY <1>1, <1>2 DEF PlaceInv, Place, Sent
<1>4. saved[i] # None /\ StageOf(saved[i]) = "submitted" /\ saved[i].dev = d /\ d \in Devices
  BY <1>3, StageFacts DEF Submitted, Unreconciled, TypeOK, HostOK
<1>5. bricks[d] = 0
  BY <1>1 DEF BrickInv, Bricking, Claiming
<1>6. d \notin sent /\ sent' = sent \cup {d}
  BY <1>1, <1>4, <1>5 DEF TypeOK, UnitsOK
<1>7. Transaction!Send(i, d)
  BY <1>1, <1>4, <1>6 DEF Transaction!Send, Transaction!Entry
<1> QED
  BY <1>4, <1>7 DEF Transaction!Next

\* Every step of a run is a step of the transaction of its id, or of none.
LEMMA RunMoves ==
  ASSUME OneCacheRoot, TypeOK, EvidenceInv, PlaceInv, BrickInv, NEW p \in Procs,
         Step(p) \/ Timeout(p) \/ Abort(p)
  PROVE  [Transaction!Next]_(Transaction!vars)
<1>1. \/ Quiet(p) \/ SelectDevice(p)
      \/ ClaimCheck(p) \/ ClaimWrite(p) \/ SubmitBrick(p) \/ SendBrick(p)
  BY StepKinds DEF TypeOK
<1>2. pc[p] # "idle"
  BY <1>1 DEF Quiet, SelectDevice, ClaimCheck, ClaimWrite, SubmitBrick, SendBrick, At
<1>3. run[p].id \in Ids /\ run[p].rel \in Releases
  BY <1>2, Placed
<1>4. pc[p] \in Bricking => run[p].dev \in Devices
  BY DEF TypeOK, ProcsOK, RunOK, Bricking
<1>5. CASE ClaimWrite(p)
  BY <1>4, <1>5, ClaimMove DEF ClaimWrite, At, Bricking
<1>6. CASE SubmitBrick(p)
  BY <1>3, <1>4, <1>6, SubmitMove DEF SubmitBrick, At, Bricking
<1>7. CASE SendBrick(p)
  BY <1>3, <1>4, <1>7, SendMove DEF SendBrick, At, Bricking
<1>8. CASE ~(ClaimWrite(p) \/ SubmitBrick(p) \/ SendBrick(p))
  <2>1. UNCHANGED <<latches, bricks>>
    BY <1>1, <1>8 DEF Quiet, SelectDevice, ClaimCheck, Fail, host, units
  <2>2. UNCHANGED saved \/ Saves(p) \/ Archives(p)
    BY <1>8, TurnStep DEF Turn
  <2>3. CASE UNCHANGED saved
    BY <2>1, <2>3 DEF Transaction!vars
  <2>4. CASE Saves(p)
    BY <1>3, <2>1, <2>4, ForwardMove DEF Saves
  <2>5. CASE Archives(p)
    BY <1>3, <2>1, <2>5, ArchiveMove
  <2> QED
    BY <2>2, <2>3, <2>4, <2>5
<1> QED
  BY <1>5, <1>6, <1>7, <1>8

\* Under one cache root, one target per unit and without install, the installer implements
\* InstallTransaction: whatever fails or crashes, each id's record advances stage by stage for the
\* unit it is bound to, and a unit is bricked at most once, from the record that says so.
THEOREM InstallsInStages ==
  ASSUME OneCacheRoot, OneTargetEach, NoInstall, EarlyFits, EarlyUnbound
  PROVE  Spec => ImplementsTransaction
<1> DEFINE Inv == EvidenceInv /\ PlaceInv /\ BrickInv
<1>1. Init => Inv
  <2>1. Init => EvidenceInv
    BY EvidenceInit
  <2>2. Init => PlaceInv /\ BrickInv
    BY DEF Init, PlaceInv, BrickInv, AtMostOneBrick, Locked, Bricking
  <2> QED
    BY <2>1, <2>2
<1>2. TypeOK /\ Inv /\ [Next]_vars => Inv'
  BY EvidenceNext, PlaceNext, BrickNext
<1>3. Init => Transaction!Init
  <2> SUFFICES ASSUME Init PROVE Transaction!Init
    OBVIOUS
  <2> DEFINE Of(st) == [stage |-> StageOf(st), unit |-> IF st = None THEN None ELSE st.dev]
             early == {Transaction!Entry(s, None) : s \in {"none", "submitted", "open", "unformatted"}}
  <2>1. PICK o \in Origins : saved = o[1]
    BY DEF Init
  <2>2. \A i \in Ids : saved[i] \in State \cup {None}
    BY <2>1, ConstantsOK
  <2>3. ASSUME NEW i \in Ids
        PROVE  Of(saved[i]) \in early
    <3>1. CASE saved[i] = None
      BY <3>1, NoStage DEF Transaction!Entry
    <3>2. CASE saved[i] # None
      <4>1. /\ saved[i] \in State /\ saved[i].dev = None /\ ~saved[i].fmt
            /\ saved[i].phase \notin {"RELEASE_READY"} \cup Staged
        BY <2>1, <2>2, <3>2 DEF EarlyUnbound, EarlyFits
      <4>2. saved[i].phase \in Unreconciled \/ saved[i].phase \in Flashed \ Staged
            \/ saved[i].phase \in Opening
        BY <4>1 DEF State, Phases, Unreconciled, Staged, Flashed, Opening
      <4>3. StageOf(saved[i]) \in {"submitted", "open", "unformatted"}
        BY <4>1, <4>2, StageFacts
      <4> QED
        BY <3>2, <4>1, <4>3 DEF Transaction!Entry
    <3> QED
      BY <3>1, <3>2
  <2>4. [i \in Ids |-> Of(saved[i])] \in [Ids -> early]
    BY <2>3
  <2>5. {latch[2] : latch \in latches} = {} /\ {d \in Devices : bricks[d] > 0} = {}
    BY DEF Init
  <2> QED
    BY <2>4, <2>5 DEF Transaction!Init
<1>4. TypeOK /\ Inv /\ [Next]_vars => [Transaction!Next]_(Transaction!vars)
  <2> SUFFICES ASSUME TypeOK, Inv, [Next]_vars
               PROVE  [Transaction!Next]_(Transaction!vars)
    OBVIOUS
  <2>1. ASSUME UNCHANGED <<saved, latches, bricks>>
        PROVE  [Transaction!Next]_(Transaction!vars)
    BY <2>1 DEF Transaction!vars
  <2>2. ASSUME NEW p \in Procs, Command(p)
        PROVE  UNCHANGED <<saved, latches, bricks>>
    <3>1. UNCHANGED <<latches, units>>
      BY <2>2, CommandAlone DEF BrickInv
    <3>2. UNCHANGED saved
      BY <2>2 DEF Command, OneShot, ContinueOneShot, Install, Begin, host
    <3> QED
      BY <3>1, <3>2 DEF units
  <2>3. ASSUME NEW d \in Devices, World(d)
        PROVE  UNCHANGED <<saved, latches, bricks>>
    BY <2>3, WorldQuiet DEF World, host, TypeOK
  <2>4. CASE BecomeCalm \/ UNCHANGED vars
    BY <2>1, <2>4 DEF BecomeCalm, vars, host, units
  <2> QED
    BY <2>1, <2>2, <2>3, <2>4, RunMoves DEF Next
<1> HIDE DEF Inv
<1> QED
  BY <1>1, <1>2, <1>3, <1>4, TypeCorrect, PTL DEF Spec, ImplementsTransaction, Transaction!Spec

=============================================================================
