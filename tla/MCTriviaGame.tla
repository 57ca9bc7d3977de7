---------------------------- MODULE MCTriviaGame ----------------------------
(* Small instances of TriviaGame for TLC. *)
EXTENDS TriviaGame, TLC

CONSTANTS alice, bob, ans1, ans2

MCPlayers == {alice, bob}
MCInsaneAnswers == {ans1, ans2}
MCCarriedStreaks == {1, 2}

MCSymmetry == Permutations(MCPlayers) \cup Permutations(MCInsaneAnswers)
=============================================================================
