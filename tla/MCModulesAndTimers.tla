-------------------------- MODULE MCModulesAndTimers --------------------------
(* A small instance of ModuleLoader for TLC, and beside it one of           *)
(* Housekeeping, which the modules do on the timers: a behaviour is one of  *)
(* the loader or one of the timers, so that the two do not multiply.        *)
EXTENDS MCModuleLoader, Housekeeping

VARIABLE atWork

MCInit == Init /\ HousekeepingInit /\ atWork \in {"modules", "timers"}

MCNext ==
    /\ \/ atWork = "modules" /\ Next /\ UNCHANGED housekeepingVars
       \/ atWork = "timers" /\ HousekeepingNext /\ UNCHANGED vars
    /\ UNCHANGED atWork

MCSpec == MCInit /\ [][MCNext]_<<vars, housekeepingVars, atWork>> /\ Fairness
=============================================================================
