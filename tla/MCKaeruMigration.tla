-------------------------- MODULE MCKaeruMigration --------------------------
(***************************************************************************)
(* An instance of KaeruMigration for TLC: one run at a time, on units of    *)
(* the old chain, or converted by an earlier kit with either table, or      *)
(* clobbered.                                                               *)
(***************************************************************************)
EXTENDS KaeruMigration
CONSTANT p1

Parts(v, x) == [part \in Chain |-> IF part = "expdb" THEN x ELSE v]
Units ==
  {[flash |-> Parts("old", "old"), table |-> Both(Legacy)],
   [flash |-> Parts("new", "new"), table |-> Both(Legacy)],
   [flash |-> Parts("new", "new"), table |-> Both(Plain)],
   [flash |-> Parts("new", "clobbered"), table |-> Both(Legacy)]}
=============================================================================
