--------------------------- MODULE FeatureDelivery ---------------------------
(***************************************************************************)
(* What staging and publishing promise the installer, whatever is killed or *)
(* loses power meanwhile: the device's features and its signed generation   *)
(* as one durable value each.  These are the atomic steps StageFeatures,    *)
(* WriteFeaturesStaged and PublishGeneration of Installer; DeviceScripts    *)
(* implements them.                                                         *)
(***************************************************************************)
VARIABLES
  phase,       \* the phase in the host's state file
  features,    \* the v2 feature tree: whole, or not (yet) whole, or handed over
  generation   \* TRUE once the device holds the whole signed generation as current

vars == <<phase, features, generation>>

TypeOK ==
  /\ phase \in {"READBACK_VERIFIED", "FEATURES_STAGED", "FINISHED"}
  /\ features \in {"open", "staged", "handed_over"}
  /\ generation \in BOOLEAN

Init == phase = "READBACK_VERIFIED" /\ features = "open" /\ ~generation

\* Every run that starts from READBACK_VERIFIED stages the features anew.
Stage ==
  /\ phase = "READBACK_VERIFIED"
  /\ features' \in {"open", "staged"}
  /\ UNCHANGED <<phase, generation>>

Record ==
  /\ phase = "READBACK_VERIFIED" /\ features = "staged"
  /\ phase' = "FEATURES_STAGED"
  /\ UNCHANGED <<features, generation>>

Publish ==
  /\ phase = "FEATURES_STAGED" /\ features = "staged"
  /\ features' = "handed_over" /\ generation' = TRUE
  /\ UNCHANGED phase

Finish ==
  /\ phase = "FEATURES_STAGED" /\ generation
  /\ phase' = "FINISHED"
  /\ UNCHANGED <<features, generation>>

Next == Stage \/ Record \/ Publish \/ Finish
Spec == Init /\ [][Next]_vars
=============================================================================
