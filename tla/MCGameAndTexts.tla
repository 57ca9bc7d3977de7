--------------------------- MODULE MCGameAndTexts ---------------------------
(* A small instance of TriviaGame for TLC, and beside it the texts that its *)
(* questions, messages and hints are made of: a state has a game to play or *)
(* a text to judge, so that the two do not multiply.                        *)
EXTENDS MCTriviaGame, WrittenTexts

NoText == [of |-> "none"]

MCInit ==
    /\ Init
    /\ \/ judged = NoText
       \/ streak = 1 /\ mode = "start" /\ disableInsane /\ (TextInit \/ WrittenTextInit)

MCNext == judged = NoText /\ Next /\ UNCHANGED judged

MCSpec == MCInit /\ [][MCNext]_<<vars, judged>> /\ Fairness
=============================================================================
