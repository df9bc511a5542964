-------------------------- MODULE MCComponentCache --------------------------
(***************************************************************************)
(* A small instance of ComponentCache: two checkouts that share a cache     *)
(* root, and a builder that is not deterministic.                           *)
(***************************************************************************)
EXTENDS ComponentCache

CONSTANTS b1, b2, one, other
=============================================================================
