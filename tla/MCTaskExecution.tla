-------------------------- MODULE MCTaskExecution --------------------------
(***************************************************************************)
(* Instances of TaskExecution for TLC: the scheduler's daily command and   *)
(* manual commands, two of them for the scheduler's own business key.      *)
(***************************************************************************)
EXTENDS TaskExecution

CONSTANTS daily, extra, tick, k1, k2

MCBusinesses == {daily, extra}
MCClientKeys == {tick, k1, k2}
MCApi        == {[key |-> k1, business |-> daily], [key |-> k2, business |-> extra]}
MCCron       == {[key |-> tick, business |-> daily]}
MCOneApi     == {[key |-> k2, business |-> extra]}
MCNoCron     == {}
MCAllSteps   == 1 .. NumSteps

=============================================================================
