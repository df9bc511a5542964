---------------------------- MODULE MCInstaller ----------------------------
(***************************************************************************)
(* Small instances of Installer for TLC.                                    *)
(***************************************************************************)
EXTENDS Installer, TLC

CONSTANTS d1, d2, i1, i2, r1, r2, p1, p2, c1, c2, radar, biscuit

\* One cache root for all invocations.
OneCache == [p \in Procs |-> c1]

\* Every unit and release of one board, or a board each.
OneProduct == [d \in Devices |-> radar]
TwoProducts == [d \in Devices |-> IF d = d1 THEN radar ELSE biscuit]
OneTarget == [r \in Releases |-> radar]
TwoTargets == [r \in Releases |-> IF r = r1 THEN radar ELSE biscuit]

Unit(chain, boot, mode) ==
  [mode |-> mode, chain |-> chain, udata |-> "foreign", boot |-> boot, feat |-> "none",
   gen |-> None, live |-> None, prov |-> "none"]

\* No state file yet, and each unit in fastboot with one of some boot chains.
Fresh(chains) ==
  {[i \in Ids |-> None]} \X [Devices -> {Unit(chain, "foreign", "fastboot") : chain \in chains}]
StockUnits == Fresh({"stock"})
StockOrUnlocked == Fresh({"stock", "unlocked"})
AnyChain == Fresh({"stock", "unlocked", "converted"})

\* What an installer without device binding and userdata format left behind.
Early(phase) == [phase |-> phase, rel |-> r1, fmt |-> FALSE, dev |-> None]
EarlyOver(phases, boot, mode) ==
  [Ids -> {Early(phase) : phase \in phases}] \X [Devices -> {Unit("unlocked", boot, mode)}]
EarlyInstalls ==
  EarlyOver({"AMONET_VERIFIED", "AMONET_HANDOFF", "FASTBOOT_READY"}, "foreign", "recovery")
    \cup EarlyOver({"BOOT_WRITTEN", "ADB_READY", "READBACK_VERIFIED"}, r1, "system")

AllOrigins == StockOrUnlocked \cup EarlyInstalls

\* The calm only serves liveness: it allows no step that trouble does not, so the
\* safety runs stop where it sets in.
Trouble == ~calm

\* Bound of the two-unit run: no unit gets past the flash of its first slot pair.
BeforeSystem == \A d \in Devices : dev[d].boot = "foreign" /\ dev[d].prov = "none"

\* Bound of the two-id run: the operator names the unit.
UnitNamed == \A p \in Procs : run[p] # None => run[p].req # AutoSerial

\* Invocations, ids and releases are alike where the cfg gives all releases one kind.
Alike == Permutations(Procs) \cup Permutations(Ids) \cup Permutations(Releases)
=============================================================================
