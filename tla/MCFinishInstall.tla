-------------------------- MODULE MCFinishInstall --------------------------
(***************************************************************************)
(* A small instance of FinishInstall for TLC.                               *)
(***************************************************************************)
EXTENDS FinishInstall
CONSTANTS f1, f2, a, b
=============================================================================
