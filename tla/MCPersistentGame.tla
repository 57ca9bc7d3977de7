-------------------------- MODULE MCPersistentGame --------------------------
(* Small instances of PersistentGame for TLC. *)
EXTENDS PersistentGame

CONSTANTS alice, bob, ans1, ans2

MCPlayers == {alice}
MCInsaneAnswers == {ans1}
=============================================================================
