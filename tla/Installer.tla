------------------------------ MODULE Installer ------------------------------
(***************************************************************************)
(* The one-shot installer, tools/libreecho-install.py: the host's durable   *)
(* state (state files, archived states, device-bound brick latches, the     *)
(* cache-root lock), the runs that execute its commands, and the devices    *)
(* those runs write.  A run is one invocation of the program; it may be     *)
(* killed or refused by the transport between any two of its steps.         *)
(*                                                                          *)
(* One state root is shared by all runs; a run's lock belongs to its cache  *)
(* root.  A release here is one target's bundle of a tag, so it fixes both  *)
(* the state file's release, board and bundle hash.  Both slots are always  *)
(* selected.                                                                *)
(***************************************************************************)
EXTENDS Naturals

CONSTANTS
  Devices,     \* units that may be attached, named by their serial
  Ids,         \* --install-id values; each owns one state file
  Releases,    \* target-qualified releases
  V3Releases,  \* releases whose OTA asset carries a signed v3 target
  Procs,       \* invocations that may be alive at the same time
  Caches,      \* --cache-root values
  CacheOf,     \* the cache root each invocation uses
  Boards,
  Product,     \* the board each device's fastboot product names
  BoardOf,     \* the target each release is built for
  Explicit,    \* whether --target is passed, as the wrapper always does
  Commands,    \* the commands operators use
  Origins,     \* what the first command may find: the state files (those left by
               \* earlier installer versions) and the devices
  AutoSerial,  \* --fastboot-serial auto
  None

Phases == {"RELEASE_READY", "BRICK_SUBMITTED", "AMONET_VERIFIED", "AMONET_HANDOFF",
           "FASTBOOT_READY", "BOOT_WRITTEN", "ADB_READY", "READBACK_VERIFIED",
           "FEATURES_STAGED", "WEBUI_FORWARDED", "SETUP_DELIVERED", "INSTALL_COMPLETE"}
Unreconciled == {"BRICK_SUBMITTED", "AMONET_VERIFIED"}
Staged == {"FEATURES_STAGED", "WEBUI_FORWARDED", "SETUP_DELIVERED", "INSTALL_COMPLETE"}
Flashed == {"BOOT_WRITTEN", "ADB_READY", "READBACK_VERIFIED"} \cup Staged

\* A state file: its phase, release, userdata_formatted and device_serial.
\* An absent userdata_formatted reads as FALSE.
State == [phase : Phases, rel : Releases, fmt : BOOLEAN, dev : Devices \cup {None}]

(***************************************************************************)
(* A device.  mode is what the host's USB listings show, or that the unit   *)
(* is on its way to fastboot or to the system; chain is the boot chain as   *)
(* unlock_status and oem kaeru-version tell it; feat is the v2 feature      *)
(* tree, gen the published generation (update/current), live the generation *)
(* the running system mounted at boot, prov the first-boot setup.           *)
(***************************************************************************)
Device ==
  [mode  : {"off", "toFastboot", "fastboot", "recovery", "booting", "system"},
   chain : {"stock", "converted", "unlocked", "destroyed"},
   udata : {"foreign", "torn", "formatted"},
   boot  : Releases \cup {"foreign", "torn"},
   feat  : Releases \cup {"none", "partial"},
   gen   : Releases \cup {None},
   live  : Releases \cup {None},
   prov  : {"none", "pending", "done"}]

\* A live invocation: its arguments (flag is --reinstall or --repair-userdata;
\* target tells whether --target was passed), the device it selected, the state it read
\* (continue-one-shot only), whether it archived an earlier installation, and
\* what finish_install decided.
Run == [id : Ids, rel : Releases, req : Devices \cup {AutoSerial}, target : BOOLEAN, flag : BOOLEAN,
        again : BOOLEAN, dev : Devices \cup {None}, st : State \cup {None},
        reboot : BOOLEAN, out : {"web", "delivered", "already-complete"}]

Labels == {"idle", "install",
  "os_check", "enter", "entering", "ready", "select", "claim_check", "claim_write",
  "submit", "send", "reconcile", "reconciling", "handoff", "bind", "format",
  "format_done", "geometry", "flash", "flashed", "reboot", "await_adb", "readback",
  "stage", "staged", "finish", "deliver", "final", "await_ready", "complete",
  "co_check", "co_resume", "co_resuming", "co_handoff", "co_bind", "co_verify",
  "co_attach", "co_booting", "co_readback", "co_features",
  "re_select", "re_reboot", "re_wait", "re_format", "re_done", "re_boot", "re_await"}

VARIABLES
  saved,    \* state.json of each install id, or None
  archive,  \* the devices bound by each id's state.json.before-reinstall-* files
  latches,  \* the brick latches under the state root, keyed by target and serial
  lock,     \* who holds each cache root's .lock
  pc, run,  \* each invocation's next step and its locals
  dev,      \* the devices
  bricks,   \* history: brick payloads submitted to each device
  writers,  \* history: install ids whose runs have written each device
  calm      \* TRUE once transports fail and operators interfere no more

vars == <<saved, archive, latches, lock, pc, run, dev, bricks, writers, calm>>
host == <<saved, archive, latches>>
units == <<dev, bricks, writers>>

ASSUME ConstantsOK ==
  /\ CacheOf \in [Procs -> Caches]
  /\ V3Releases \subseteq Releases /\ Explicit \subseteq BOOLEAN
  /\ Product \in [Devices -> Boards] /\ BoardOf \in [Releases -> Boards]
  /\ Origins \subseteq [Ids -> State \cup {None}] \X [Devices -> Device]
  /\ AutoSerial \notin Devices /\ None \notin Devices \cup Procs \cup Releases \cup State \cup Run

Init ==
  /\ \E o \in Origins : saved = o[1] /\ dev = o[2]
  /\ archive = [i \in Ids |-> {}] /\ latches = {}
  /\ lock = [c \in Caches |-> None]
  /\ pc = [p \in Procs |-> "idle"] /\ run = [p \in Procs |-> None]
  /\ bricks = [d \in Devices |-> 0] /\ writers = [d \in Devices |-> {}]
  /\ calm = FALSE

-----------------------------------------------------------------------------
(* Helpers *)

InFastboot == {d \in Devices : dev[d].mode = "fastboot"}
InAdb == {d \in Devices : dev[d].mode = "system"}

\* The device a request selects among those present, if it is unambiguous.
Select(req, present) == {d \in present : IF req = AutoSerial THEN present = {d} ELSE d = req}

\* The fastboot product of a unit is the one a release is built for.
Fits(d, r) == Product[d] = BoardOf[r]

At(p, l) == pc[p] = l
Goto(p, l) == pc' = [pc EXCEPT ![p] = l]
Stay(p, l) == Goto(p, l) /\ UNCHANGED <<run, lock>>

\* The process ends, normally or by an error: the kernel drops its flock.
Leave(p) ==
  /\ pc' = [pc EXCEPT ![p] = "idle"]
  /\ run' = [run EXCEPT ![p] = None]
  /\ lock' = [lock EXCEPT ![CacheOf[p]] = None]
Fail(p) == Leave(p) /\ UNCHANGED <<host, units>>

\* What a state write starts from: the values of the same release's state are
\* carried over, a different release's are not.
Blank(r) == [phase |-> "RELEASE_READY", rel |-> r, fmt |-> FALSE, dev |-> None]
Carry(p) ==
  LET old == saved[run[p].id]
  IN  IF old # None /\ old.rel = run[p].rel THEN old ELSE Blank(run[p].rel)
Save(p, s) == saved' = [saved EXCEPT ![run[p].id] = s] /\ UNCHANGED <<archive, latches>>
SavePhase(p, phase) == Save(p, [Carry(p) EXCEPT !.phase = phase])

\* A device leaves its present mode; what the running system mounted is gone.
Moved(d, m) == [dev[d] EXCEPT !.mode = m, !.live = None]
Move(d, m) == dev' = [dev EXCEPT ![d] = Moved(d, m)] /\ UNCHANGED <<bricks, writers>>

\* Installing writes by run p on device d.
Write(p, d, value) ==
  /\ dev' = [dev EXCEPT ![d] = value]
  /\ writers' = [writers EXCEPT ![d] = @ \cup {run[p].id}]
  /\ UNCHANGED bricks

-----------------------------------------------------------------------------
(* Faults: plausible bugs in definitions that follow, for checking that the     *)
(* properties notice them.  Nothing in the model uses them.                     *)

\* Begin without waiting for, or checking, the lock.
BeginUnlocked(p, label, i, r, req, target, flag) ==
  /\ At(p, "idle") /\ Goto(p, label)
  /\ lock' = [lock EXCEPT ![CacheOf[p]] = p]
  /\ run' = [run EXCEPT ![p] = [id |-> i, rel |-> r, req |-> req, target |-> target, flag |-> flag,
       again |-> FALSE, dev |-> None, st |-> None, reboot |-> FALSE, out |-> "web"]]
  /\ UNCHANGED <<host, units>>
\* OneShotRefused that lets --reinstall archive an unresolved brick.
RefusedUnlessForced(p, st) ==
  st # None /\ st.phase # "RELEASE_READY" /\ ~run[p].flag
\* NeedsBrick that takes a converted unit for a stock one.
NotUnlocked(d) == dev[d].chain # "unlocked"
\* ClaimCheck that does not look; Latch that forgets the target.
ClaimUnchecked(p) == At(p, "claim_check") /\ Stay(p, "claim_write") /\ UNCHANGED <<host, units>>
SerialLatch(p) == run[p].dev
\* SubmitBrick that leaves the marker for later.
SubmitUnmarked(p) == At(p, "submit") /\ Stay(p, "send") /\ UNCHANGED <<host, units>>
\* ProductOk that trusts the operator.
AnyProduct(p, d) == TRUE
\* WriteFastbootReady that records the flash ahead of it.
FlashedEarly(p) ==
  At(p, "geometry") /\ SavePhase(p, "BOOT_WRITTEN") /\ Stay(p, "flash") /\ UNCHANGED units
\* ReadbackOk that only looks for the device.
Attached(p) == run[p].dev \in InAdb

-----------------------------------------------------------------------------
(* Checks of several commands *)

\* verify_fastboot_product: an explicit --target turns a mismatch into a warning.
ProductOk(p, d) == run[p].target \/ Fits(d, run[p].rel)
\* plan_fastbrick: only a locked unit on which no Kaeru answers is bricked.
NeedsBrick(d) == dev[d].chain = "stock"

-----------------------------------------------------------------------------
(* Commands: each takes the cache root's lock without waiting for it. *)

Begin(p, label, i, r, req, target, flag) ==
  /\ At(p, "idle") /\ lock[CacheOf[p]] = None
  /\ lock' = [lock EXCEPT ![CacheOf[p]] = p]
  /\ Goto(p, label)
  /\ run' = [run EXCEPT ![p] = [id |-> i, rel |-> r, req |-> req, target |-> target, flag |-> flag,
       again |-> FALSE, dev |-> None, st |-> None, reboot |-> FALSE, out |-> "web"]]
  /\ UNCHANGED <<host, units>>

OneShot(p, i, r, req, target, reinstall) ==
  "one-shot" \in Commands /\ ~calm /\ Begin(p, "os_check", i, r, req, target, reinstall)
ContinueOneShot(p, i, r, req, target, repair) ==
  "continue-one-shot" \in Commands /\ Begin(p, "co_check", i, r, req, target, repair)
Install(p, i, r) ==
  "install" \in Commands /\ ~calm /\ Begin(p, "install", i, r, AutoSerial, FALSE, FALSE)

\* install() saves RELEASE_READY whatever state was there.
InstallReady(p) ==
  /\ At(p, "install") /\ Leave(p) /\ Save(p, Blank(run[p].rel)) /\ UNCHANGED units

-----------------------------------------------------------------------------
(* one_shot *)

\* Without --target the one device in fastboot tells the target.  The durable state
\* decides whether a fresh run may start; --reinstall archives a completed or
\* partly completed installation, never an unresolved brick.
TargetKnown(p) ==
  run[p].target \/ \E d \in Select(run[p].req, InFastboot) : InFastboot = {d} /\ Fits(d, run[p].rel)
OneShotRefused(p, st) ==
  \/ ~TargetKnown(p)
  \/ /\ st # None
     /\ \/ st.phase \in Unreconciled
        \/ /\ st.phase # "RELEASE_READY"
           /\ ~run[p].flag \/ (st.dev # None /\ run[p].req \notin {AutoSerial, st.dev})

ArchiveState(p, st) ==
  /\ archive' = [archive EXCEPT ![run[p].id] = @ \cup ({st.dev} \ {None})]
  /\ saved' = [saved EXCEPT ![run[p].id] = None]
  /\ UNCHANGED latches

OneShotCheck(p) ==
  LET st == saved[run[p].id]
      old == st # None /\ st.phase # "RELEASE_READY"
  IN  /\ At(p, "os_check")
      /\ \/ OneShotRefused(p, st) /\ Fail(p)
         \/ /\ ~OneShotRefused(p, st) /\ ~old
            /\ Stay(p, IF run[p].flag THEN "enter" ELSE "ready") /\ UNCHANGED <<host, units>>
         \/ /\ ~OneShotRefused(p, st) /\ old
            /\ ArchiveState(p, st)
            /\ run' = [run EXCEPT ![p].again = TRUE,
                         ![p].req = IF @ = AutoSerial /\ st.dev # None THEN st.dev ELSE @]
            /\ Goto(p, "enter") /\ UNCHANGED <<lock, units>>

\* enter_fastboot_for_reinstall: a no-op for a device already there, one adb
\* reboot request otherwise.
EnterFastboot(p) ==
  LET req == run[p].req
      here == Select(req, InFastboot)
  IN  /\ At(p, "enter")
      /\ \/ here # {} /\ Stay(p, "ready") /\ UNCHANGED <<host, units>>
         \/ /\ here = {}
            /\ (req = AutoSerial /\ InFastboot # {}) \/ Select(req, InAdb) = {}
            /\ Fail(p)
         \/ /\ here = {} /\ ~(req = AutoSerial /\ InFastboot # {})
            /\ \E d \in Select(req, InAdb) :
                 Move(d, "toFastboot") /\ run' = [run EXCEPT ![p].dev = d]
            /\ Goto(p, "entering") /\ UNCHANGED <<lock, host>>

\* The bounded wait of a step is over: what it waits for is there.
Unlocked(p, d) == dev[d].mode = "fastboot" /\ dev[d].chain = "unlocked" /\ ProductOk(p, d)
RecoveryVerified(p, d) == dev[d].mode = "recovery" /\ Fits(d, run[p].rel)
StartupReady(p) ==
  /\ run[p].rel \in V3Releases \/ run[p].reboot => run[p].dev \in InAdb
  /\ run[p].rel \in V3Releases => dev[run[p].dev].live = run[p].rel
Answered(p) ==
  CASE pc[p] \in {"entering", "re_wait"} -> run[p].dev \in InFastboot
    [] pc[p] \in {"bind", "co_bind"} -> Select(run[p].req, InFastboot) # {}
    [] pc[p] = "reconcile" -> Unlocked(p, run[p].dev) \/ RecoveryVerified(p, run[p].dev)
    [] pc[p] = "reconciling" -> Unlocked(p, run[p].dev)
    [] pc[p] \in {"await_adb", "co_resuming", "co_booting", "re_await"} -> run[p].dev \in InAdb
    [] pc[p] = "await_ready" -> StartupReady(p)
    [] OTHER -> TRUE

EnteringFastboot(p) ==
  At(p, "entering") /\ Answered(p) /\ Stay(p, "ready") /\ UNCHANGED <<host, units>>

WriteReady(p) ==
  At(p, "ready") /\ Save(p, Blank(run[p].rel)) /\ Stay(p, "select") /\ UNCHANGED units

\* A unit that needs the brick gets it, but not from a run that archived an
\* installation.  (A missing Amonet ZIP or an unreadable
\* identity stops the run here: an Abort.)
SelectDevice(p) ==
  /\ At(p, "select")
  /\ \/ Select(run[p].req, InFastboot) = {} /\ Fail(p)
     \/ \E d \in Select(run[p].req, InFastboot) :
          LET refused == ~ProductOk(p, d) \/ (NeedsBrick(d) /\ run[p].again)
          IN  \/ refused /\ Fail(p)
              \/ /\ ~refused
                 /\ run' = [run EXCEPT ![p].dev = d]
                 /\ Goto(p, IF NeedsBrick(d) THEN "claim_check" ELSE "handoff")
                 /\ UNCHANGED <<lock, host, units>>

\* claim_brick_latch: the existence check, then the atomic replace.
Latch(p) == <<BoardOf[run[p].rel], run[p].dev>>
ClaimCheck(p) ==
  /\ At(p, "claim_check")
  /\ \/ Latch(p) \in latches /\ Fail(p)
     \/ Latch(p) \notin latches /\ Stay(p, "claim_write") /\ UNCHANGED <<host, units>>
ClaimWrite(p) ==
  /\ At(p, "claim_write") /\ latches' = latches \cup {Latch(p)}
  /\ Stay(p, "submit") /\ UNCHANGED <<saved, archive, units>>

SubmitBrick(p) ==
  /\ At(p, "submit")
  /\ Save(p, [phase |-> "BRICK_SUBMITTED", rel |-> run[p].rel, fmt |-> FALSE, dev |-> run[p].dev])
  /\ Stay(p, "send") /\ UNCHANGED units

\* The payload may take effect or not, whatever is replied; on a unit whose
\* chain is converted already it would destroy that chain.
BrickEffect(d) ==
  {dev[d]} \cup
  (IF dev[d].mode # "fastboot" THEN {}
   ELSE IF dev[d].chain = "stock"
        THEN {[Moved(d, m) EXCEPT !.chain = "unlocked"] : m \in {"toFastboot", "recovery"}}
        ELSE {[Moved(d, "off") EXCEPT !.chain = "destroyed"]})

\* A terminal reply stops the run; every other one leaves the outcome unknown.
SendBrick(p) ==
  LET d == run[p].dev
  IN  /\ At(p, "send")
      /\ bricks' = [bricks EXCEPT ![d] = @ + 1]
      /\ \E v \in BrickEffect(d) : dev' = [dev EXCEPT ![d] = v]
      /\ Stay(p, "reconcile") \/ Leave(p)
      /\ UNCHANGED <<host, writers>>

\* wait_for_post_brick_fastboot, of one_shot and of continue_one_shot: an
\* unlocked device of the same serial, or one reboot request to a verified recovery.
Reconcile(p) ==
  LET d == run[p].dev
  IN  /\ pc[p] \in {"reconcile", "reconciling"} /\ Answered(p)
      /\ UNCHANGED host
      /\ \/ /\ Unlocked(p, d) /\ UNCHANGED units
            /\ Stay(p, IF run[p].st = None THEN "handoff" ELSE "co_handoff")
         \/ ~Unlocked(p, d) /\ Move(d, "toFastboot") /\ Stay(p, "reconciling")

WriteHandoff(p) ==
  /\ At(p, "handoff")
  /\ Save(p, [Carry(p) EXCEPT !.phase = "AMONET_HANDOFF", !.dev = run[p].dev])
  /\ Stay(p, "bind") /\ UNCHANGED units

\* The requested serial, not the one selected before, picks the device to write.
BindDevice(p) ==
  /\ At(p, "bind") /\ Answered(p)
  /\ \E d \in Select(run[p].req, InFastboot) :
       /\ Save(p, [Carry(p) EXCEPT !.phase = "AMONET_HANDOFF", !.fmt = FALSE, !.dev = d])
       /\ run' = [run EXCEPT ![p].dev = d]
  /\ Goto(p, "format") /\ UNCHANGED <<lock, units>>

\* format_userdata_in_fastboot: stock LK refuses the flash; a transport failure
\* part way leaves the filesystem torn.  Everything on userdata is lost.
Format(p, from, to) ==
  LET d == run[p].dev
      wiped == [dev[d] EXCEPT !.feat = "none", !.gen = None, !.prov = "none"]
  IN  /\ At(p, from)
      /\ \/ ~(d \in InFastboot /\ ProductOk(p, d) /\ dev[d].chain # "stock") /\ Fail(p)
         \/ /\ d \in InFastboot /\ ProductOk(p, d) /\ dev[d].chain # "stock"
            /\ UNCHANGED host
            /\ \/ Write(p, d, [wiped EXCEPT !.udata = "formatted"]) /\ Stay(p, to)
               \/ ~calm /\ Write(p, d, [wiped EXCEPT !.udata = "torn"]) /\ Leave(p)

SaveFormatted(p, phase) == Save(p, [Carry(p) EXCEPT !.phase = phase, !.fmt = TRUE])

RecordFormat(p) ==
  At(p, "format_done") /\ SaveFormatted(p, "AMONET_HANDOFF") /\ Stay(p, "geometry") /\ UNCHANGED units

\* After _verify_fastboot_payload_geometry (its refusal is an Abort).
WriteFastbootReady(p) ==
  At(p, "geometry") /\ SavePhase(p, "FASTBOOT_READY") /\ Stay(p, "flash") /\ UNCHANGED units

FlashBoot(p) ==
  LET d == run[p].dev
      flashed(image) == Write(p, d, [dev[d] EXCEPT !.boot = image])
  IN  /\ At(p, "flash")
      /\ \/ ~(d \in InFastboot /\ dev[d].chain # "stock") /\ Fail(p)
         \/ /\ d \in InFastboot /\ dev[d].chain # "stock"
            /\ UNCHANGED host
            /\ \/ flashed(run[p].rel) /\ Stay(p, "flashed")
               \/ ~calm /\ flashed("torn") /\ Leave(p)

WriteBootWritten(p) ==
  At(p, "flashed") /\ SavePhase(p, "BOOT_WRITTEN") /\ Stay(p, "reboot") /\ UNCHANGED units

\* reboot_to_installed_system ignores what the reboot requests answer.
RebootInstalled(p, from, to) ==
  LET d == run[p].dev
  IN  /\ At(p, from) /\ Stay(p, to) /\ UNCHANGED host
      /\ IF d \in InFastboot THEN Move(d, "booting") ELSE UNCHANGED units

WriteAdbReady(p) ==
  /\ At(p, "await_adb") /\ Answered(p)
  /\ SavePhase(p, "ADB_READY") /\ Stay(p, "readback") /\ UNCHANGED units

\* verify_adb_payload_readback of every selected slot.
ReadbackOk(p) == run[p].dev \in InAdb /\ dev[run[p].dev].boot = run[p].rel

Readback(p) ==
  /\ At(p, "readback")
  /\ \/ ~ReadbackOk(p) /\ Fail(p)
     \/ ReadbackOk(p) /\ SavePhase(p, "READBACK_VERIFIED") /\ Stay(p, "stage") /\ UNCHANGED units

\* The running image mounts only a userdata filesystem the installer made.
DataMounted(d) == d \in InAdb /\ dev[d].udata = "formatted"

\* stage_device_features: refused unless the image mounted userdata at /data.
StageFeatures(p) ==
  LET d == run[p].dev
      mounted == DataMounted(d)
      staged(tree) == Write(p, d, [dev[d] EXCEPT !.feat = tree])
  IN  /\ At(p, "stage")
      /\ \/ ~mounted /\ Fail(p)
         \/ /\ mounted /\ UNCHANGED host
            /\ \/ staged(run[p].rel) /\ Stay(p, "staged")
               \/ ~calm /\ staged("partial") /\ Leave(p)

WriteFeaturesStaged(p) ==
  At(p, "staged") /\ SavePhase(p, "FEATURES_STAGED") /\ Stay(p, "finish") /\ UNCHANGED units

-----------------------------------------------------------------------------
(* _complete_install and finish_install *)

Generation(p) == run[p].rel \in V3Releases

\* publish_v3_generation, unless the device's verifier accepts the current one.
PublishGeneration(p) ==
  LET d == run[p].dev
      current == d \in InAdb /\ dev[d].gen = run[p].rel
      able == d \in InAdb /\ dev[d].gen = None /\ dev[d].feat = run[p].rel
  IN  /\ At(p, "finish")
      /\ \/ (~Generation(p) \/ current) /\ Stay(p, "deliver") /\ UNCHANGED <<host, units>>
         \/ Generation(p) /\ ~current /\ ~able /\ Fail(p)
         \/ /\ Generation(p) /\ ~current /\ able
            /\ Write(p, d, [dev[d] EXCEPT !.gen = run[p].rel, !.feat = "none"])
            /\ run' = [run EXCEPT ![p].reboot = TRUE]
            /\ Goto(p, "deliver") /\ UNCHANGED <<lock, host>>

\* deliver_provision, when setup was answered in the terminal.
DeliverSetup(p) ==
  LET d == run[p].dev
      mounted == DataMounted(d)
  IN  /\ At(p, "deliver") /\ UNCHANGED host
      /\ \/ Stay(p, "final") /\ UNCHANGED units
         \/ ~mounted /\ Fail(p)
         \/ /\ mounted /\ dev[d].prov = "done"
            /\ run' = [run EXCEPT ![p].out = "already-complete"]
            /\ Goto(p, "final") /\ UNCHANGED <<lock, units>>
         \/ /\ mounted /\ dev[d].prov # "done"
            /\ Write(p, d, [dev[d] EXCEPT !.prov = "pending"])
            /\ run' = [run EXCEPT ![p].out = "delivered", ![p].reboot = TRUE]
            /\ Goto(p, "final") /\ UNCHANGED lock

FinalReboot(p) ==
  LET d == run[p].dev
  IN  /\ At(p, "final") /\ Stay(p, "await_ready") /\ UNCHANGED host
      /\ IF run[p].reboot /\ d \in InAdb THEN Move(d, "booting") ELSE UNCHANGED units

AwaitReady(p) ==
  At(p, "await_ready") /\ Answered(p) /\ Stay(p, "complete") /\ UNCHANGED <<host, units>>

\* The web hand-off needs the device for its forward; the others only save.
CompleteInstall(p) ==
  LET phase == CASE run[p].out = "web" -> "WEBUI_FORWARDED"
                 [] run[p].out = "delivered" -> "SETUP_DELIVERED"
                 [] OTHER -> "INSTALL_COMPLETE"
      reachable == run[p].out # "web" \/ run[p].dev \in InAdb
  IN  /\ At(p, "complete")
      /\ \/ ~reachable /\ Fail(p)
         \/ reachable /\ SavePhase(p, phase) /\ Leave(p) /\ UNCHANGED units

-----------------------------------------------------------------------------
(* continue_one_shot *)

NeedsRepair(st) == st.phase \in {"BOOT_WRITTEN", "ADB_READY", "READBACK_VERIFIED"} /\ ~st.fmt

Continuable(p, st) ==
  /\ st # None /\ st.rel = run[p].rel /\ st.phase # "RELEASE_READY"
  /\ IF st.dev = None THEN run[p].req # AutoSerial ELSE run[p].req \in {AutoSerial, st.dev}
  /\ st.phase \in Staged => st.fmt
  /\ NeedsRepair(st) => run[p].flag

ContinueCheck(p) ==
  LET st == saved[run[p].id]
      bound == IF st.dev # None THEN st.dev ELSE run[p].req
  IN  /\ At(p, "co_check")
      /\ \/ ~Continuable(p, st) /\ Fail(p)
         \/ /\ Continuable(p, st)
            /\ run' = [run EXCEPT ![p].st = st, ![p].req = bound, ![p].dev = bound]
            /\ Goto(p, CASE st.phase \in Staged -> "co_resume"
                         [] st.phase \in Unreconciled -> "reconcile"
                         [] NeedsRepair(st) -> "re_select"
                         [] st.phase \in {"AMONET_HANDOFF", "FASTBOOT_READY"} -> "co_bind"
                         [] OTHER -> "co_attach")
            /\ UNCHANGED <<lock, host, units>>

\* resume_completed_transport: back from fastboot to the system, without --target.
ResumeTransport(p) ==
  LET d == run[p].dev
      fromFastboot == d \in InFastboot /\ Fits(d, run[p].rel) /\ dev[d].chain = "unlocked"
  IN  /\ At(p, "co_resume")
      /\ \/ d \in InAdb /\ Stay(p, "co_attach") /\ UNCHANGED <<host, units>>
         \/ d \notin InAdb /\ ~fromFastboot /\ Fail(p)
         \/ fromFastboot /\ Move(d, "booting") /\ Stay(p, "co_resuming") /\ UNCHANGED host
Resumed(p) ==
  At(p, "co_resuming") /\ Answered(p) /\ Stay(p, "co_attach") /\ UNCHANGED <<host, units>>

\* Writes of continue_one_shot start from the state it read, not from the file.
WriteReconciled(p) ==
  LET st == [run[p].st EXCEPT !.phase = "AMONET_HANDOFF", !.dev = run[p].dev]
  IN  /\ At(p, "co_handoff") /\ Save(p, st)
      /\ run' = [run EXCEPT ![p].st = st]
      /\ Goto(p, "co_bind") /\ UNCHANGED <<lock, units>>
SaveBound(p, phase) == Save(p, [run[p].st EXCEPT !.phase = phase, !.dev = run[p].dev])

ContinueBind(p) ==
  /\ At(p, "co_bind") /\ Answered(p)
  /\ SaveBound(p, run[p].st.phase) /\ Stay(p, "co_verify") /\ UNCHANGED units

ContinueVerify(p) ==
  LET st == run[p].st
      refused == \/ ~ProductOk(p, run[p].dev)
                 \/ ~st.fmt /\ st.phase = "FASTBOOT_READY" /\ ~run[p].flag
  IN  /\ At(p, "co_verify")
      /\ \/ refused /\ Fail(p)
         \/ ~refused /\ Stay(p, IF st.fmt THEN "format_done" ELSE "format") /\ UNCHANGED <<host, units>>

\* A device still in fastboot after BOOT_WRITTEN gets its pending reboot first.
Attach(p) ==
  LET d == run[p].dev
      st == run[p].st
      waiting == st.phase = "BOOT_WRITTEN" /\ st.fmt /\ d \in InFastboot
  IN  /\ At(p, "co_attach")
      /\ \/ waiting /\ Move(d, "booting") /\ Stay(p, "co_booting") /\ UNCHANGED host
         \/ ~waiting /\ d \notin InAdb /\ Fail(p)
         \/ d \in InAdb /\ SaveBound(p, st.phase) /\ Stay(p, "co_readback") /\ UNCHANGED units
PendingBooted(p) ==
  /\ At(p, "co_booting") /\ Answered(p)
  /\ SaveBound(p, run[p].st.phase) /\ Stay(p, "co_readback") /\ UNCHANGED units

\* State from an earlier process is not current readback evidence.
ContinueReadback(p) ==
  LET staged == run[p].st.phase \in Staged
  IN  /\ At(p, "co_readback")
      /\ \/ ~ReadbackOk(p) /\ Fail(p)
         \/ /\ ReadbackOk(p)
            /\ SaveBound(p, IF staged THEN run[p].st.phase ELSE "READBACK_VERIFIED")
            /\ Stay(p, IF staged THEN "co_features" ELSE "stage") /\ UNCHANGED units

ContinueFeatures(p) ==
  LET d == run[p].dev
      published == \/ run[p].st.phase \in {"SETUP_DELIVERED", "INSTALL_COMPLETE"}
                   \/ Generation(p) /\ d \in InAdb /\ dev[d].gen = run[p].rel
      verified == d \in InAdb /\ dev[d].feat = run[p].rel
  IN  /\ At(p, "co_features")
      /\ \/ published /\ Stay(p, "finish") /\ UNCHANGED <<host, units>>
         \/ ~published /\ ~verified /\ Fail(p)
         \/ ~published /\ verified /\ Stay(p, "staged") /\ UNCHANGED <<host, units>>

\* --repair-userdata: an old run reached ADB before userdata was formatted.
RepairSelect(p) ==
  /\ At(p, "re_select")
  /\ \/ run[p].dev \notin InAdb /\ Fail(p)
     \/ /\ run[p].dev \in InAdb
        /\ SaveBound(p, run[p].st.phase) /\ Stay(p, "re_reboot") /\ UNCHANGED units
RepairReboot(p) ==
  /\ At(p, "re_reboot")
  /\ \/ run[p].dev \notin InAdb /\ Fail(p)
     \/ run[p].dev \in InAdb /\ Move(run[p].dev, "toFastboot") /\ Stay(p, "re_wait") /\ UNCHANGED host
RepairWait(p) ==
  At(p, "re_wait") /\ Answered(p) /\ Stay(p, "re_format") /\ UNCHANGED <<host, units>>
RecordRepair(p) ==
  At(p, "re_done") /\ SaveFormatted(p, "READBACK_VERIFIED") /\ Stay(p, "re_boot") /\ UNCHANGED units
RepairBooted(p) ==
  At(p, "re_await") /\ Answered(p) /\ Stay(p, "readback") /\ UNCHANGED <<host, units>>

-----------------------------------------------------------------------------
(* Errors, crashes and the world outside the program *)

\* Every wait is bounded; once things are calm it outlasts what is under way.
Settled == \A d \in Devices : dev[d].mode \notin {"toFastboot", "booting"}
TimeoutButAdb(p) ==  \* a fault: the wait for the installed system has no bound
  pc[p] \notin {"idle", "await_adb"} /\ ~Answered(p) /\ (calm => Settled) /\ Fail(p)
Timeout(p) == ~At(p, "idle") /\ ~Answered(p) /\ (calm => Settled) /\ Fail(p)

\* A transport error, a failed preflight, a signal or a power cut ends a run anywhere.
Abort(p) == ~calm /\ ~At(p, "idle") /\ Fail(p)

BootUp(d) ==
  LET boots == dev[d].chain \in {"converted", "unlocked"} /\ dev[d].boot \in Releases
      value == IF boots
               THEN [dev[d] EXCEPT !.mode = "system", !.live = dev[d].gen,
                       !.prov = IF @ = "pending" THEN "done" ELSE @]
               ELSE Moved(d, "off")
  IN  /\ dev[d].mode = "booting"
      /\ dev' = [dev EXCEPT ![d] = value] /\ UNCHANGED <<bricks, writers>>
FastbootUp(d) == dev[d].mode = "toFastboot" /\ Move(d, "fastboot")

\* The operator power-cycles a unit, with or without the fastboot button, also
\* under a run's feet or half-way through its boot until things calm down.
Operate(d, m) ==
  /\ calm => Settled /\ \A p \in Procs : At(p, "idle")
  /\ dev[d].chain # "destroyed" /\ dev[d].mode # m /\ Move(d, m)
FinishWebSetup(d) ==
  /\ ~calm /\ DataMounted(d) /\ dev[d].prov = "none"
  /\ dev' = [dev EXCEPT ![d].prov = "done"] /\ UNCHANGED <<bricks, writers>>

-----------------------------------------------------------------------------
Requests == Devices \cup {AutoSerial}

Command(p) ==
  \E i \in Ids, r \in Releases :
    \/ \E req \in Requests, target \in Explicit, flag \in BOOLEAN :
         OneShot(p, i, r, req, target, flag) \/ ContinueOneShot(p, i, r, req, target, flag)
    \/ Install(p, i, r)

BrickStep(p) ==
  \/ ClaimCheck(p) \/ ClaimWrite(p) \/ SubmitBrick(p) \/ SendBrick(p)
  \/ Reconcile(p) \/ WriteHandoff(p)
OneShotStep(p) ==
  \/ InstallReady(p) \/ OneShotCheck(p) \/ EnterFastboot(p) \/ EnteringFastboot(p)
  \/ WriteReady(p) \/ SelectDevice(p) \/ BindDevice(p) \/ Format(p, "format", "format_done")
  \/ RecordFormat(p) \/ WriteFastbootReady(p) \/ FlashBoot(p) \/ WriteBootWritten(p)
  \/ RebootInstalled(p, "reboot", "await_adb") \/ WriteAdbReady(p) \/ Readback(p)
  \/ StageFeatures(p) \/ WriteFeaturesStaged(p)
FinishStep(p) ==
  \/ PublishGeneration(p) \/ DeliverSetup(p) \/ FinalReboot(p) \/ AwaitReady(p)
  \/ CompleteInstall(p)
ContinueStep(p) ==
  \/ ContinueCheck(p) \/ ResumeTransport(p) \/ Resumed(p) \/ WriteReconciled(p)
  \/ ContinueBind(p) \/ ContinueVerify(p) \/ Attach(p) \/ PendingBooted(p)
  \/ ContinueReadback(p) \/ ContinueFeatures(p)
  \/ RepairSelect(p) \/ RepairReboot(p) \/ RepairWait(p)
  \/ Format(p, "re_format", "re_done") \/ RecordRepair(p)
  \/ RebootInstalled(p, "re_boot", "re_await") \/ RepairBooted(p)
Step(p) == BrickStep(p) \/ OneShotStep(p) \/ FinishStep(p) \/ ContinueStep(p)

World(d) ==
  /\ BootUp(d) \/ FastbootUp(d) \/ FinishWebSetup(d) \/ \E m \in {"fastboot", "booting"} : Operate(d, m)
  /\ UNCHANGED <<host, lock, pc, run>>

BecomeCalm == ~calm /\ calm' = TRUE /\ UNCHANGED <<host, units, lock, pc, run>>

Next ==
  \/ /\ \E p \in Procs : Command(p) \/ Step(p) \/ Timeout(p) \/ Abort(p)
     /\ UNCHANGED calm
  \/ (\E d \in Devices : World(d)) /\ UNCHANGED calm
  \/ BecomeCalm

Spec == Init /\ [][Next]_vars

\* A run keeps executing and its waits run out; devices finish their transitions.
RunStep(p) == (Step(p) \/ Timeout(p)) /\ UNCHANGED calm
Transition(d) == (BootUp(d) \/ FastbootUp(d)) /\ UNCHANGED <<host, lock, pc, run, calm>>
RunsProgress == \A p \in Procs : WF_vars(RunStep(p))
RunSpec == Spec /\ RunsProgress /\ \A d \in Devices : WF_vars(Transition(d))

\* Besides, trouble ends some day, and from then on the operator keeps running
\* continue-one-shot for each saved installation as the guide tells (its release,
\* its serial, --target, --repair-userdata), with the unit in fastboot and with the
\* unit in its system, and power-cycles the unit either way between runs.
Retry(p, i, mode) ==
  /\ saved[i] # None
  /\ \E d \in Devices : /\ dev[d].mode = mode /\ saved[i].dev \in {d, None}
                       /\ ContinueOneShot(p, i, saved[i].rel, d, TRUE, TRUE)
  /\ UNCHANGED calm
Cycle(d, m) == Operate(d, m) /\ UNCHANGED <<host, lock, pc, run, calm>>
Persistent ==
  /\ WF_vars(BecomeCalm)
  /\ \A p \in Procs, i \in Ids, m \in {"fastboot", "system"} : SF_vars(Retry(p, i, m))
  /\ \A d \in Devices, m \in {"fastboot", "booting"} : SF_vars(Cycle(d, m))
LiveSpec == RunSpec /\ Persistent

-----------------------------------------------------------------------------
(* Properties *)

\* Every variable holds a value of its type; a run that is alive has its locals,
\* about to brick it has a device, and resuming it has the state it read.
HostOK ==
  /\ saved \in [Ids -> State \cup {None}]
  /\ archive \in [Ids -> SUBSET Devices] /\ latches \subseteq Boards \X Devices
UnitsOK ==
  /\ dev \in [Devices -> Device]
  /\ bricks \in [Devices -> Nat] /\ writers \in [Devices -> SUBSET Ids]
Resuming ==
  {"co_resume", "co_resuming", "co_handoff", "co_bind", "co_verify", "co_attach", "co_booting",
   "co_readback", "co_features", "re_select"}
Bricking == {"claim_check", "claim_write", "submit", "send"}
RunOK(p) ==
  /\ run[p] \in Run
  /\ pc[p] \in Bricking => run[p].dev \in Devices
  /\ pc[p] \in Resuming => run[p].st # None
  /\ pc[p] # "install" => run[p].target \in Explicit
ProcsOK ==
  /\ lock \in [Caches -> Procs \cup {None}]
  /\ pc \in [Procs -> Labels] /\ run \in [Procs -> Run \cup {None}]
  /\ \A p \in Procs : pc[p] # "idle" => RunOK(p)
TypeOK == HostOK /\ UnitsOK /\ ProcsOK /\ calm \in BOOLEAN

\* The brick payload is never sent twice to one unit, by any sequence of commands,
\* failures, crashes and install ids that share one cache root and name one target
\* for it: "a second submission to the same unit is refused whatever install-id is
\* used" (brick_latch_path).
AtMostOneBrick == \A d \in Devices : bricks[d] <= 1

\* Why: all runs hold one lock and each unit has one latch key, so between the
\* latch check and the send nobody else acts, and a latch outlives its brick.
Locked == \A p \in Procs : pc[p] # "idle" => lock[CacheOf[p]] = p
Key(d) == IF TRUE \in Explicit THEN BoardOf[CHOOSE r \in Releases : TRUE] ELSE Product[d]
Latched(d) == <<Key(d), d>> \in latches
Claiming(p) ==
  /\ BoardOf[run[p].rel] = Key(run[p].dev)
  /\ pc[p] = "claim_write" => ~Latched(run[p].dev)
  /\ pc[p] \in {"submit", "send"} => Latched(run[p].dev) /\ bricks[run[p].dev] = 0
BrickInv ==
  /\ Locked
  /\ \A p \in Procs : pc[p] \in Bricking => Claiming(p)
  /\ AtMostOneBrick /\ \A d \in Devices : bricks[d] > 0 => Latched(d)

\* A unit whose chain is unlocked or carries Kaeru is never bricked: that would
\* destroy its chain.
ChainIntact == \A d \in Devices : dev[d].chain # "destroyed"

\* Why: under one lock, the unit about to be bricked stays the locked unit it was.
ChainInv ==
  /\ Locked
  /\ \A p \in Procs : pc[p] \in Bricking => dev[run[p].dev].chain = "stock"
  /\ ChainIntact

\* What the proofs of these two need of an instance.
OneCacheRoot == \A p, q \in Procs : CacheOf[p] = CacheOf[q]
OneTargetEach == TRUE \in Explicit => \A r, s \in Releases : BoardOf[r] = BoardOf[s]
IntactOrigins == \A o \in Origins, d \in Devices : o[2][d].chain # "destroyed"

\* While a submitted brick has had no visible effect, some install id still holds
\* the unresolved marker that names the unit, whatever ran or crashed since.
UnresolvedBrickRemembered ==
  \A d \in Devices : bricks[d] > 0 /\ dev[d].chain = "stock" =>
    \E i \in Ids : saved[i] # None /\ saved[i].phase = "BRICK_SUBMITTED" /\ saved[i].dev = d

\* The evidence in a state file never runs ahead of the unit it is bound to, as
\* long as no other install id wrote that unit: a recorded format happened in this
\* transaction, a phase after the flash means both slots hold the release, and a
\* staged phase means every feature is there, or the generation made from them.
EvidenceSound ==
  \A i \in Ids :
    LET st == saved[i]
    IN  st # None /\ st.fmt =>
          /\ st.dev # None
          /\ writers[st.dev] \subseteq {i} =>
               /\ dev[st.dev].udata = "formatted"
               /\ st.phase \in Flashed => dev[st.dev].boot = st.rel
               /\ st.phase \in Staged => \/ dev[st.dev].feat = st.rel
                                         \/ st.rel \in V3Releases /\ dev[st.dev].gen = st.rel

\* Without an explicit --target, no run bricks, formats or flashes a unit whose
\* fastboot product is not the one its release is built for, however often the
\* units on the bus change between its checks and its writes.
OwnBoardOnly ==
  [][\A d \in Devices :
       <<bricks'[d], dev'[d].udata, dev'[d].boot>> # <<bricks[d], dev[d].udata, dev[d].boot>> =>
         \E p \in Procs :
           ~At(p, "idle") /\ run[p].dev = d /\ (run[p].target \/ Fits(d, run[p].rel))]_vars

\* An unresolved brick marker only ever gives way to the handoff of the same unit,
\* and a partly completed installation only to its own progress or to an archive.
NothingDiscarded ==
  [][\A i \in Ids :
       LET old == saved[i]
           new == saved'[i]
       IN  old # None /\ old.phase # "RELEASE_READY" /\ new # old =>
             IF new = None
             THEN old.phase \notin Unreconciled /\ {old.dev} \subseteq archive'[i] \cup {None}
             ELSE /\ new.phase # "RELEASE_READY" /\ new.rel = old.rel
                  /\ old.phase \in Unreconciled =>
                       /\ new.phase = "AMONET_HANDOFF" /\ new.dev # None
                       /\ old.dev \in {None, new.dev}]_vars

\* The installer implements InstallTransaction: each id's durable record advances
\* stage by stage, bound to one unit from its format on, through any sequence of
\* one-shot and continue-one-shot runs, failures and crashes.
StageOf(st) ==
  CASE st = None -> "none"
    [] st # None /\ st.phase = "RELEASE_READY" -> "ready"
    [] st # None /\ st.phase \in Unreconciled -> "submitted"
    [] st # None /\ st.phase \in Staged -> "staged"
    [] st # None /\ st.phase \in Flashed \ Staged -> IF st.fmt THEN "flashed" ELSE "unformatted"
    [] OTHER -> IF st.fmt THEN "formatted" ELSE "open"
Transaction == INSTANCE InstallTransaction WITH
  record <- [i \in Ids |-> [stage |-> StageOf(saved[i]),
                            unit |-> IF saved[i] = None THEN None ELSE saved[i].dev]],
  claimed <- {latch[2] : latch \in latches},
  sent <- {d \in Devices : bricks[d] > 0}
ImplementsTransaction == Transaction!Spec

\* Every run ends, whatever the devices do and however long: no wait is unbounded
\* and no step is left without a continuation.
RunEnds == \A p \in Procs : ~At(p, "idle") ~> At(p, "idle")

\* An installation whose bound unit holds an unlocked chain can be completed by
\* continue-one-shot alone from every state a failed or crashed run leaves behind.
Resumable(i) ==
  /\ saved[i] # None /\ saved[i].phase # "RELEASE_READY"
  /\ \A d \in Devices : dev[d].chain = "unlocked"
Completed(i) ==
  saved[i] # None /\ saved[i].phase \in {"WEBUI_FORWARDED", "SETUP_DELIVERED", "INSTALL_COMPLETE"}
Recoverable ==
  \A i \in Ids : calm /\ Resumable(i) /\ (\A p \in Procs : At(p, "idle")) ~> Completed(i)

\* Features are installed only on a unit that runs the release with both slots
\* read back, on the userdata this install id formatted.
StageOnVerified ==
  [][\A d \in Devices : dev'[d].feat # dev[d].feat /\ dev'[d].feat \in Releases =>
       /\ dev[d].mode = "system" /\ dev[d].boot = dev'[d].feat /\ dev[d].udata = "formatted"
       /\ \E p \in Procs : run[p] # None /\ run[p].dev = d /\ saved[run[p].id] # None
                            /\ saved[run[p].id].dev = d /\ saved[run[p].id].fmt]_vars

(* What docs and comments say and the code does not do. *)

\* docs/install/README.md on a continuation from FEATURES_STAGED or
\* WEBUI_FORWARDED: "performs no format, flash, reboot, or payload replacement".
ForwardsFrom(p) ==
  ~At(p, "idle") /\ run[p].st # None /\ run[p].st.phase \in {"FEATURES_STAGED", "WEBUI_FORWARDED"}
ContinuationOnlyForwards ==
  [][\A p \in Procs : ForwardsFrom(p) /\ pc'[p] # pc[p] /\ run[p].dev \in InAdb =>
       LET d == run[p].dev IN dev'[d].feat = dev[d].feat /\ dev'[d].mode = "system"]_vars

\* docs/install/README.md on --reinstall: "refuses a device other than the one
\* bound to the install ID".
ReinstallSameUnit ==
  [][\A p \in Procs :
       At(p, "format") /\ pc'[p] # "format" /\ run[p].st = None /\ run[p].flag
         /\ dev'[run[p].dev] # dev[run[p].dev] =>
           archive[run[p].id] \subseteq {run[p].dev}]_vars

\* confirm_post_brick_identity: "The device that answers after the brick must be
\* the same serial and product".
PostBrickSameUnit ==
  [][\A p \in Procs :
       At(p, "bind") /\ pc'[p] = "format" /\ bricks[run[p].dev] > 0 =>
         run'[p].dev = run[p].dev]_vars
=============================================================================
