-------------------------- MODULE MCGameLifecycle --------------------------
(* Small instances of GameLifecycle for TLC. *)
EXTENDS GameLifecycle, TLC

CONSTANTS cmd1, cmd2

MCSymmetry == Permutations({cmd1, cmd2})
=============================================================================
