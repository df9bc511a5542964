------------------------- MODULE InstallTransaction -------------------------
(***************************************************************************)
(* What the installer promises about an installation, whatever fails:       *)
(* the record of an install id advances one stage at a time and only for    *)
(* the unit it is bound to, a record past its start is given up only as a   *)
(* whole and never while a submitted brick is unresolved, and a unit gets   *)
(* the brick payload at most once, from the id whose record says so.        *)
(* Installer implements this specification.                                 *)
(***************************************************************************)
CONSTANTS Ids, Devices, None

Stages == {"none", "ready", "submitted", "open", "formatted", "flashed", "staged",
           "unformatted"}  \* flashed by an installer that did not format

VARIABLES
  record,   \* the stage and the unit of each install id's transaction
  claimed,  \* units whose one brick submission is taken
  sent      \* units the brick payload was sent to

vars == <<record, claimed, sent>>

TypeOK ==
  /\ record \in [Ids -> [stage : Stages, unit : Devices \cup {None}]]
  /\ claimed \subseteq Devices /\ sent \subseteq Devices

Entry(stage, unit) == [stage |-> stage, unit |-> unit]

Init ==
  /\ record \in [Ids -> {Entry(s, None) : s \in {"none", "submitted", "open", "unformatted"}}]
  /\ claimed = {} /\ sent = {}

\* The record of id i moves from stage from to stage to, with unit d from now on.
Move(i, from, to, d) ==
  /\ record[i].stage \in from
  /\ record' = [record EXCEPT ![i] = Entry(to, d)]
  /\ UNCHANGED <<claimed, sent>>
SameUnit(i, d) == record[i].unit \in {None, d}

Start(i) == Move(i, {"none", "ready"}, "ready", None)
GiveUp(i) == Move(i, Stages \ {"none", "ready", "submitted"}, "none", None)

Claim(d) ==
  d \notin claimed /\ claimed' = claimed \cup {d} /\ UNCHANGED <<record, sent>>
Submit(i, d) == d \in claimed \ sent /\ Move(i, {"ready"}, "submitted", d)
Send(i, d) ==
  /\ record[i] = Entry("submitted", d) /\ d \notin sent
  /\ sent' = sent \cup {d} /\ UNCHANGED <<record, claimed>>

\* Before the format a transaction may still turn to another unit in fastboot.
Open(i, d) ==
  \/ Move(i, {"ready", "open"}, "open", d)
  \/ SameUnit(i, d) /\ Move(i, {"submitted"}, "open", d)
Format(i, d) == SameUnit(i, d) /\ Move(i, {"open"}, "formatted", d)
Flash(i, d) == record[i].unit = d /\ Move(i, {"formatted"}, "flashed", d)
Repair(i, d) ==
  SameUnit(i, d) /\ \E to \in {"unformatted", "flashed"} : Move(i, {"unformatted"}, to, d)
Stage(i, d) == record[i].unit = d /\ Move(i, {"flashed"}, "staged", d)

Next ==
  \/ \E i \in Ids : Start(i) \/ GiveUp(i)
  \/ \E d \in Devices : Claim(d)
  \/ \E i \in Ids, d \in Devices :
       \/ Submit(i, d) \/ Send(i, d) \/ Open(i, d) \/ Format(i, d) \/ Flash(i, d)
       \/ Repair(i, d) \/ Stage(i, d)

Spec == Init /\ [][Next]_vars
=============================================================================
