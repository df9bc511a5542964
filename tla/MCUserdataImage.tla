-------------------------- MODULE MCUserdataImage --------------------------
(***************************************************************************)
(* An instance of UserdataImage for TLC: three groups, the last a short     *)
(* one, and every allocation that has the superblock.                       *)
(***************************************************************************)
EXTENDS UserdataImage
=============================================================================
