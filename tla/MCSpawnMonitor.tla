---------------------------- MODULE MCSpawnMonitor ----------------------------
(* The instance of SpawnMonitor that TLC checks: two zones, two places, two *)
(* spawn ids that come back, one label.                                     *)
EXTENDS SpawnMonitor, TLC

CONSTANTS qeynos, freport, gate, pier, named

Interchange == Permutations({gate, pier}) \cup Permutations({qeynos, freport})
==============================================================================
