--------------------------- MODULE UserdataFormat ---------------------------
(***************************************************************************)
(* What formatting userdata promises the installer, whatever dumpe2fs says  *)
(* and wherever the write breaks off: only blocks of the new filesystem are *)
(* programmed, each once and with its own contents, and the formatting is   *)
(* done when they all are.  This is what becomes of the unit in the step    *)
(* Format of Installer; UserdataImage implements it.                        *)
(***************************************************************************)
CONSTANTS
  Block,    \* the blocks of the partition
  Stale     \* what an earlier system wrote

VARIABLES
  allocated,   \* the blocks of the new filesystem that hold something
  target,      \* what each block of the partition holds; its number for its own contents
  outcome

vars == <<allocated, target, outcome>>

Init ==
  /\ allocated \in SUBSET Block /\ target = [b \in Block |-> Stale] /\ outcome = "formatting"

Program ==
  /\ outcome = "formatting"
  /\ \E blocks \in SUBSET {b \in allocated : target[b] = Stale} :
       target' = [b \in Block |-> IF b \in blocks THEN b ELSE target[b]]
  /\ UNCHANGED <<allocated, outcome>>

Finish ==
  /\ outcome = "formatting" /\ \A b \in allocated : target[b] = b
  /\ outcome' = "formatted" /\ UNCHANGED <<allocated, target>>

Fail == outcome = "formatting" /\ outcome' = "failed" /\ UNCHANGED <<allocated, target>>

Next == Program \/ Finish \/ Fail
Spec == Init /\ [][Next]_vars
=============================================================================
