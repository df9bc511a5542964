---------------------------- MODULE KeyedOutput ----------------------------
(***************************************************************************)
(* What the component cache promises the builds that share a key: one of    *)
(* them settles the key's output, each build goes on with the output that   *)
(* was settled when it asked and records nothing else, and the settled      *)
(* output changes only after it was lost to decay.  Builds may give up at   *)
(* any time.  ComponentCache implements it.                                 *)
(***************************************************************************)
CONSTANTS Builds, Outputs, None

VARIABLES
  settled,   \* the key's output, or None
  held,      \* the output each build goes on with, or None
  shipped,   \* the outputs recorded in some run's components.json
  spoiled    \* a settled output has been lost

vars == <<settled, held, shipped, spoiled>>

Init ==
  /\ settled = None /\ held = [b \in Builds |-> None] /\ shipped = {} /\ spoiled = FALSE

Settle ==
  /\ settled = None /\ settled' \in Outputs
  /\ UNCHANGED <<held, shipped, spoiled>>

Take(b) ==
  /\ settled # None /\ held[b] = None
  /\ held' = [held EXCEPT ![b] = settled]
  /\ UNCHANGED <<settled, shipped, spoiled>>

Ship(b) ==
  /\ held[b] # None /\ shipped' = shipped \cup {held[b]}
  /\ held' = [held EXCEPT ![b] = None]
  /\ UNCHANGED <<settled, spoiled>>

GiveUp(b) == held' = [held EXCEPT ![b] = None] /\ UNCHANGED <<settled, shipped, spoiled>>

Spoil ==
  /\ settled # None /\ settled' = None /\ spoiled' = TRUE
  /\ UNCHANGED <<held, shipped>>

Next == Settle \/ Spoil \/ \E b \in Builds : Take(b) \/ Ship(b) \/ GiveUp(b)
Spec == Init /\ [][Next]_vars
=============================================================================
