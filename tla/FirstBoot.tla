------------------------------ MODULE FirstBoot ------------------------------
(***************************************************************************)
(* What the host does once the features are delivered: verify_boot_slot,    *)
(* which confirms the running slot to the bootloader, supervise_setup,      *)
(* which keeps the setup page forwarded until setup is done, and            *)
(* reconnect_setup.  The unit may reboot, fall back to its other slot or    *)
(* stop answering between any two of their commands.                        *)
(***************************************************************************)
EXTENDS Integers

CONSTANTS
  Slots,
  Active,      \* the slot the bootloader tries first
  MaxTries,    \* boots it grants a slot that is not confirmed
  Reconnect,   \* reconnect_timeout, in polls: how long an outage may last
  Limit,       \* limit: how long supervision may last
  NoSlot

ASSUME FirstBootConstantsOK ==
  /\ Active \in Slots /\ NoSlot \notin Slots
  /\ MaxTries \in Nat /\ Reconnect \in Nat /\ Limit \in Nat

VARIABLES
  slots,   \* each slot's retry counter and success flag
  unit,    \* the slot the unit runs, whether it has been up for long enough and serves its
           \* setup page, whether setup is complete, and whether the adb forward to
           \* this boot is in place
  host,    \* the host's next step, or how its last command ended
  check,   \* verify_boot_slot: its preflight, the slot it read, what it reported
  watch,   \* supervise_setup: now, lost_since, rebooted; when the page last answered
  steady   \* TRUE once the unit stays up and answers whatever it is asked

firstVars == <<slots, unit, host, check, watch, steady>>

Slot == [tries : 0 .. MaxTries, ok : {FALSE}] \cup [tries : {0}, ok : {TRUE}]
Unit == [slot : Slots \cup {NoSlot}, serving : BOOLEAN, setup : BOOLEAN,
         forwarded : BOOLEAN]
Check == [preflight : BOOLEAN, selected : Slots \cup {NoSlot},
          report : {"none", "unverified", "confirmed", "warned"}]
Never == -1
Watch == [now : Nat, lost : Nat \cup {Never}, rebooted : BOOLEAN, heard : Nat]
Verifying == {"preflight", "status", "confirm", "readback", "forward_page"}
Watching == {"probe", "online", "forward", "judge", "sleep"}
Ended == {"completed", "gone", "timed-out", "detached"}

NoWatch == [now |-> 0, lost |-> Never, rebooted |-> FALSE, heard |-> 0]

FirstInit ==
  /\ slots = [s \in Slots |-> [tries |-> MaxTries, ok |-> FALSE]]
  /\ unit = [slot |-> Active, serving |-> FALSE, setup |-> FALSE,
             forwarded |-> FALSE]
  /\ host = "installing"
  /\ check = [preflight |-> FALSE, selected |-> NoSlot, report |-> "none"]
  /\ watch = NoWatch
  /\ steady = FALSE

Up == unit.slot # NoSlot
Unanswered == ~Up \/ ~steady
Reachable == Up /\ unit.forwarded /\ unit.serving
HostGoes(from, to) == host = from /\ host' = to

-----------------------------------------------------------------------------
(* Faults *)

TrustedConfirm ==       \* the slot is not read back after the confirmation
  /\ HostGoes("readback", "forward_page")
  /\ check' = [preflight |-> FALSE, selected |-> NoSlot, report |-> "confirmed"]
  /\ UNCHANGED <<slots, unit, watch, steady>>
ProbeKeepsLoss ==       \* lost_since survives the page's return
  /\ host = "probe"
  /\ \/ /\ Reachable
        /\ host' = IF unit.setup THEN "completed" ELSE "sleep"
        /\ watch' = [watch EXCEPT !.rebooted = FALSE, !.heard = watch.now]
     \/ (Reachable => ~steady) /\ host' = "online" /\ UNCHANGED watch
  /\ UNCHANGED <<slots, unit, check, steady>>
ForwardOnceRebooted ==  \* the forward is restored only after a seen reboot
  /\ HostGoes("forward", "judge")
  /\ \/ Up /\ watch.rebooted /\ unit' = [unit EXCEPT !.forwarded = TRUE]
     \/ (Unanswered \/ ~watch.rebooted) /\ UNCHANGED unit
  /\ UNCHANGED <<slots, check, watch, steady>>
SleepUntimed ==         \* the limit is counted from the last answer
  /\ host = "sleep"
  /\ IF watch.now - watch.heard >= Limit
     THEN host' = "timed-out" /\ UNCHANGED watch
     ELSE /\ host' = "probe"
          /\ watch' = [watch EXCEPT !.now = IF @ < Limit THEN @ + 1 ELSE @]
  /\ UNCHANGED <<slots, unit, check, steady>>
-----------------------------------------------------------------------------
(* verify_boot_slot: it reports and never fails the installation. *)

Verdict(text) == [preflight |-> FALSE, selected |-> NoSlot, report |-> text]
Reported(text) == check' = Verdict(text) /\ UNCHANGED <<slots, unit, watch, steady>>

\* The boots of the installation have used some tries, and the device may have
\* confirmed itself.
FinishedInstall ==
  /\ HostGoes("installing", "preflight") /\ slots' \in [Slots -> Slot]
  /\ UNCHANGED <<unit, check, watch, steady>>

\* Uptime, the adb endpoints, the web service.
Preflight ==
  /\ HostGoes("preflight", "status")
  /\ \E passed \in BOOLEAN :
       /\ IF passed THEN Up /\ unit.serving ELSE ~unit.serving \/ Unanswered
       /\ check' = [check EXCEPT !.preflight = passed, !.report = "none"]
  /\ UNCHANGED <<slots, unit, watch, steady>>

\* The slot the unit runs; if its success flag is not set, it takes a passed
\* preflight to confirm it.
ReadStatus ==
  \/ Unanswered /\ HostGoes("status", "forward_page") /\ Reported("unverified")
  \/ /\ Up
     /\ IF slots[unit.slot].ok \/ ~check.preflight
        THEN /\ HostGoes("status", "forward_page")
             /\ check' = Verdict(IF slots[unit.slot].ok THEN "confirmed" ELSE "warned")
        ELSE /\ HostGoes("status", "confirm")
             /\ check' = [check EXCEPT !.selected = unit.slot]
     /\ UNCHANGED <<slots, unit, watch, steady>>

\* bootctl (external) confirms the slot it is told, whichever slot is running.
Confirm ==
  /\ HostGoes("confirm", "readback")
  /\ \/ Up /\ slots' = [slots EXCEPT ![check.selected] = [tries |-> 0, ok |-> TRUE]]
     \/ Unanswered /\ UNCHANGED slots
  /\ UNCHANGED <<unit, check, watch, steady>>

ReadBackSlot ==
  /\ HostGoes("readback", "forward_page")
  /\ \/ Up /\ slots[check.selected].ok /\ Reported("confirmed")
     \/ (Unanswered \/ ~slots[check.selected].ok) /\ Reported("warned")

VerifyStep == FinishedInstall \/ Preflight \/ ReadStatus \/ Confirm \/ ReadBackSlot

-----------------------------------------------------------------------------
(* The forward, reconnect_setup and supervise_setup *)

\* Forward the page, then watch it unless told not to wait for setup.
ForwardPage ==
  /\ host = "forward_page"
  /\ \/ /\ Up /\ host' \in {"probe", "detached"}
        /\ unit' = [unit EXCEPT !.forwarded = TRUE]
     \/ Unanswered /\ host' = "offline" /\ UNCHANGED unit
  /\ UNCHANGED <<slots, check, watch, steady>>

\* probe_setup_state: True, False or, when nothing valid comes back, None.
Probe ==
  /\ host = "probe"
  /\ \/ /\ Reachable
        /\ host' = IF unit.setup THEN "completed" ELSE "sleep"
        /\ watch' = [watch EXCEPT !.lost = Never, !.rebooted = FALSE, !.heard = watch.now]
     \/ (Reachable => ~steady) /\ host' = "online" /\ UNCHANGED watch
  /\ UNCHANGED <<slots, unit, check, steady>>
\* adb get-state; lost_since is the time of the first poll without an answer.
Online ==
  /\ host = "online"
  /\ \E up \in BOOLEAN :
       /\ IF up THEN Up ELSE Unanswered
       /\ host' = IF up THEN "forward" ELSE "judge"
       /\ watch' = [watch EXCEPT !.lost = IF @ = Never THEN watch.now ELSE @,
                                 !.rebooted = @ \/ ~up]
  /\ UNCHANGED <<slots, unit, check, steady>>
Forward ==
  /\ HostGoes("forward", "judge")
  /\ \/ Up /\ unit' = [unit EXCEPT !.forwarded = TRUE]
     \/ Unanswered /\ UNCHANGED unit
  /\ UNCHANGED <<slots, check, watch, steady>>
Judge ==
  /\ HostGoes("judge", IF watch.now - watch.lost >= Reconnect THEN "gone" ELSE "sleep")
  /\ UNCHANGED <<slots, unit, check, watch, steady>>
Sleep ==
  /\ host = "sleep"
  /\ IF watch.now >= Limit
     THEN host' = "timed-out" /\ UNCHANGED watch
     ELSE host' = "probe" /\ watch' = [watch EXCEPT !.now = @ + 1]
  /\ UNCHANGED <<slots, unit, check, steady>>
Interrupt ==
  /\ host \in Watching /\ ~steady /\ host' = "detached"
  /\ UNCHANGED <<slots, unit, check, watch, steady>>

WatchStep == ForwardPage \/ Probe \/ Online \/ Forward \/ Judge \/ Sleep

\* reconnect-setup only forwards and watches again; continue-one-shot, the only way
\* on from a forward that failed, verifies the slot again.
Again ==
  /\ host' \in IF host \in Ended /\ Up THEN {"forward_page", "preflight"} ELSE {"preflight"}
  /\ host \in Ended \cup {"offline"} /\ watch' = NoWatch
  /\ UNCHANGED <<slots, unit, check, steady>>

-----------------------------------------------------------------------------
(* The unit and its bootloader (external) *)

\* A slot without tries that is not confirmed is refused; a boot costs a try.
Bootable(s) == slots[s].ok \/ slots[s].tries > 0
GoesDown ==
  /\ Up /\ ~steady
  /\ unit' = [unit EXCEPT !.slot = NoSlot, !.serving = FALSE, !.forwarded = FALSE]
  /\ UNCHANGED <<slots, host, check, watch, steady>>
ComesUp ==
  /\ ~Up
  /\ \E s \in Slots :
       /\ Bootable(s) /\ (s = Active \/ ~Bootable(Active))
       /\ unit' = [unit EXCEPT !.slot = s]
       /\ slots' = [slots EXCEPT ![s].tries = IF slots[s].ok THEN @ ELSE @ - 1]
  /\ UNCHANGED <<host, check, watch, steady>>
Settles ==
  /\ Up /\ ~unit.serving
  /\ unit' = [unit EXCEPT !.serving = TRUE]
  /\ UNCHANGED <<slots, host, check, watch, steady>>
\* The device's own health gate confirms its slot, in good time or not.
ConfirmsItself ==
  /\ Up /\ ~slots[unit.slot].ok /\ ~steady
  /\ slots' = [slots EXCEPT ![unit.slot] = [tries |-> 0, ok |-> TRUE]]
  /\ UNCHANGED <<unit, host, check, watch, steady>>
SetupDone ==
  /\ Reachable /\ ~unit.setup /\ unit' = [unit EXCEPT !.setup = TRUE]
  /\ UNCHANGED <<slots, host, check, watch, steady>>
BecomeSteady ==
  Up /\ ~steady /\ steady' = TRUE /\ UNCHANGED <<slots, unit, host, check, watch>>

UnitStep == GoesDown \/ Settles \/ ConfirmsItself \/ SetupDone \/ BecomeSteady
HostWorks == VerifyStep \/ WatchStep
FirstNext == HostWorks \/ Interrupt \/ Again \/ ComesUp \/ UnitStep
FirstSpec == FirstInit /\ [][FirstNext]_firstVars

-----------------------------------------------------------------------------
(* Properties *)

FirstTypeOK ==
  /\ slots \in [Slots -> Slot] /\ unit \in Unit /\ check \in Check /\ watch \in Watch
  /\ host \in Verifying \cup Watching \cup Ended \cup {"offline", "installing"}
  /\ host \in {"confirm", "readback"} => check.selected \in Slots
  /\ host = "judge" => watch.lost # Never
  /\ steady \in BOOLEAN

\* A unit whose slot was reported confirmed never runs out of slots to boot, also if it
\* fell back to its other slot between the status the host read and its confirmation.
ConfirmedKeepsBooting == check.report = "confirmed" => \E s \in Slots : slots[s].ok

\* "The device did not come back" is said only after the page failed to answer for the
\* whole reconnect time without a break, however many shorter outages came before.
GoneJustified == host = "gone" => watch.now - watch.heard >= Reconnect

\* Supervision ends within its limit, whatever the device does.
SupervisionEnds == host \in Watching ~> host \notin Watching

\* A unit that is back, steady and serving while time is left is found: the page answers
\* again before supervision gives it up.
BackInTime ==
  /\ steady /\ unit.serving /\ host = "probe"
  /\ watch.lost = Never \/ watch.now - watch.lost + 1 < Reconnect
ReturnNoticed == BackInTime ~> host \in {"completed", "timed-out"} \/ (Reachable /\ host = "sleep")
=============================================================================
