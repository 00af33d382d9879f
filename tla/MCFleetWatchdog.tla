--------------------------- MODULE MCFleetWatchdog ---------------------------
(* Instances of FleetWatchdog for TLC. *)
EXTENDS FleetWatchdog, TLC

(* Watchdog processes are interchangeable. *)
WatchdogSymmetry == Permutations(Watchdogs)
=============================================================================
