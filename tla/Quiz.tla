-------------------------------- MODULE Quiz --------------------------------
(***************************************************************************)
(* What a game of trivia promises to the channel, whatever its hints,      *)
(* timers, settings and stops: questions are put one at a time and never   *)
(* twice, in the order of their rounds; a normal question has at most one  *)
(* winner, and only while it is open; after the end there is silence.      *)
(***************************************************************************)
EXTENDS Integers

CONSTANT Questions

VARIABLES
    asked,     \* rounds whose question was put to the channel
    open,      \* kind of the question the players face
    winners,   \* winners of the last normal question
    over       \* the game has ended

quizVars == <<asked, open, winners, over>>

Init ==
    asked = {} /\ open = "none" /\ winners = 0 /\ over = FALSE

(* Any step may be the last one. *)
MayEnd == over' \in {over, TRUE}

AskNormal(r) ==
    /\ ~over /\ open = "none" /\ \A a \in asked : a < r
    /\ asked' = asked \cup {r} /\ open' = "normal" /\ winners' = 0
    /\ MayEnd

AskInsane(r) ==
    /\ ~over /\ open = "none" /\ \A a \in asked : a < r
    /\ asked' = asked \cup {r} /\ open' = "insane"
    /\ UNCHANGED winners
    /\ MayEnd

(* The first correct answer to a normal question closes it. *)
Win ==
    /\ ~over /\ open = "normal" /\ winners = 0
    /\ winners' = 1 /\ open' = "none"
    /\ UNCHANGED asked
    /\ MayEnd

(* A question is closed unanswered, or an insane one is complete. *)
Close ==
    /\ ~over /\ open # "none"
    /\ open' = "none"
    /\ UNCHANGED <<asked, winners>>
    /\ MayEnd

Finish == ~over /\ over' = TRUE /\ UNCHANGED <<asked, open, winners>>

Next ==
    \/ \E r \in 1..Questions : AskNormal(r) \/ AskInsane(r)
    \/ Win \/ Close \/ Finish

Spec == Init /\ [][Next]_quizVars
=============================================================================
