---------------------------- MODULE FinishInstall ----------------------------
(***************************************************************************)
(* The end of an installation: the scripts deliver features and generation  *)
(* (DeviceScripts); when the rebooted unit reports ready, the host goes on  *)
(* to its boot slot and setup page (FirstBoot).  The unit's reboots belong  *)
(* to both.                                                                 *)
(***************************************************************************)
EXTENDS DeviceScripts, FirstBoot

scriptVars == vars
allVars == <<scriptVars, firstVars>>

FinishInit == Init /\ FirstInit

\* Delivery comes first, and the failures that are its own.
AllDelivered == phase = "FINISHED" /\ calm
Deliver == ~AllDelivered /\ Next /\ UNCHANGED firstVars

\* Each later boot mounts the generation that is current by then.
Restart == ComesUp /\ Boot /\ UNCHANGED pc
FollowUp ==
  /\ AllDelivered
  /\ Restart \/ ((HostWorks \/ Interrupt \/ Again \/ UnitStep) /\ UNCHANGED scriptVars)

FinishNext == Deliver \/ FollowUp
FinishSpec == FinishInit /\ [][FinishNext]_allVars

\* Trouble ends; the operator reruns continue-one-shot and power-cycles the unit;
\* host and unit keep going.
Script(A) == ~AllDelivered /\ A /\ UNCHANGED firstVars
Ours(A) == AllDelivered /\ A /\ UNCHANGED scriptVars
FinishLiveSpec ==
  /\ FinishSpec
  /\ WF_allVars(Script(Step)) /\ WF_allVars(Script(BecomeCalm)) /\ SF_allVars(Script(PowerCut))
  /\ WF_allVars(Ours(HostWorks)) /\ WF_allVars(Ours(Settles))

\* Once the installation is finished, every boot finds the generation, whichever slot it
\* boots and whenever the power was cut.
BootsComplete == phase = "FINISHED" => live
=============================================================================
