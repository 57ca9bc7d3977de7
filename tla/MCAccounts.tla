------------------------------ MODULE MCAccounts ------------------------------
(* Two threads and a player; two subscriptions to one guild.                 *)
EXTENDS Accounts, TLC

CONSTANTS g1, g2, s1, s2

MCGuildOf == [s \in {s1, s2} |-> g1]

MCSymmetry == Permutations(Threads) \cup Permutations(Users) \cup Permutations(Teams)
=============================================================================
