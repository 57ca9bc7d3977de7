------------------------------ MODULE MCDbPool ------------------------------
(* A small instance of DbPool for TLC: threads are interchangeable. *)
EXTENDS DbPool, TLC

CONSTANTS thread1, thread2, thread3

MCThreads == {thread1, thread2, thread3}
MCSymmetry == Permutations(MCThreads)
=============================================================================
