----------------------------- MODULE TriviaGame -----------------------------
(***************************************************************************)
(* One game of trivia on one channel: the finite state machine of state_t  *)
(* (modules/trivia/state.cpp), driven by the tick thread                   *)
(* (TriviaModule::Tick), by the players' messages (handle_message), by the *)
(* stop command, by the dashboard's stop flag and by edits of the guild's  *)
(* settings.  Every handler runs with states_mutex held, so each is one    *)
(* action; a message however reads the settings before it takes the mutex, *)
(* and so arrives in two steps.                                            *)
(*                                                                         *)
(* Abstracted: texts, embeds, categories, response times, teams, coins,    *)
(* the running totals of the scores (they are only ever added to) and the  *)
(* question ids.  The answer to a normal question is represented by the    *)
(* number of the round that asked it.                                      *)
(***************************************************************************)
EXTENDS Integers, FiniteSets

CONSTANTS
    Questions,         \* questions the game was announced with
    InsaneEvery,       \* every InsaneEvery-th round is insane (10 in the code)
    InsaneAnswers,     \* answers an insane question may list
    Players,
    NoPlayer,          \* last_to_answer = 0
    Modes,             \* kinds of game, as the start commands are named
    Interval,          \* seconds between two ticks of a game
    QuestionInterval,  \* the guild's question_interval setting
    CarriedStreaks,    \* streaks a previous game on the channel may hand over
    MaxSettingEdits    \* bound on edits of disable_insane_rounds

ASSUME GameAssumption ==
    /\ Questions \in Nat \ {0}
    /\ InsaneEvery \in Nat \ {0}
    /\ IsFiniteSet(InsaneAnswers) /\ InsaneAnswers # {}
    /\ NoPlayer \notin Players
    /\ Modes \subseteq {"start", "quickfire", "hardcore"}
    /\ Interval \in Nat /\ QuestionInterval \in Nat
    /\ CarriedStreaks \subseteq Nat \ {0}
    /\ MaxSettingEdits \in Nat

(* numquestions is one more than the number announced. *)
numquestions == Questions + 1

States == {"ASK_QUESTION", "FIRST_HINT", "SECOND_HINT", "TIME_UP",
           "ANSWER_CORRECT", "END"}
(* The states in which handle_message looks at a message. *)
Answerable == {"ASK_QUESTION", "FIRST_HINT", "SECOND_HINT", "TIME_UP"}

VARIABLES
    gamestate, round, terminating, nextTick,
    score,             \* points on offer
    answer,            \* question.answer: the round it belongs to, 0 if empty
    insane,            \* answers of the insane question still to be found
    insaneLeft, insaneNum,
    insaneStats,       \* insane_round_stats: answers each player found
    streak, lastToAnswer,
    inStates,          \* the game is in TriviaModule::states
    mode,              \* kind of game, for good
    disableInsane,     \* cached guild setting disable_insane_rounds
    edits,             \* edits of that setting so far
    stopRequested,     \* active_games.stop, set by the dashboard
    arrived,           \* messages that have read the settings but not the game
    asked,             \* history: rounds whose question was put to the channel
    open,              \* history: kind of the question the players face
    winners            \* history: answers accepted for the last normal question

machineVars == <<gamestate, round, terminating>>
questionVars == <<score, answer, insane, insaneLeft, insaneNum, insaneStats>>
streakVars == <<streak, lastToAnswer>>
settingVars == <<mode, disableInsane, edits, stopRequested>>
historyVars == <<asked, open, winners>>
gameVars == <<machineVars, nextTick, questionVars, streakVars, inStates,
              historyVars>>
vars == <<gameVars, settingVars, arrived>>

Message == [author: Players, disableInsane: BOOLEAN]

TypeOK ==
    /\ gamestate \in States
    /\ round \in 1..(numquestions + 1)
    /\ terminating \in BOOLEAN
    /\ nextTick \in Nat
    /\ score \in Nat
    /\ answer \in 0..Questions
    /\ insane \subseteq InsaneAnswers
    /\ insaneLeft \in Nat /\ insaneNum \in Nat
    /\ insaneStats \in [Players -> Nat]
    /\ streak \in Nat \ {0}
    /\ lastToAnswer \in Players \cup {NoPlayer}
    /\ inStates \in BOOLEAN
    /\ mode \in Modes
    /\ disableInsane \in BOOLEAN
    /\ edits \in 0..MaxSettingEdits
    /\ stopRequested \in BOOLEAN
    /\ arrived \subseteq Message
    /\ asked \subseteq 1..Questions
    /\ open \in {"none", "normal", "insane"}
    /\ winners \in Nat

-----------------------------------------------------------------------------
NoStats == [p \in Players |-> 0]

(* A game as the start command creates it: the streak of the channel's     *)
(* previous game is carried over together with its owner.                  *)
Init ==
    /\ gamestate = "ASK_QUESTION" /\ round = 1 /\ terminating = FALSE
    /\ nextTick = 0
    /\ score = 0 /\ answer = 0
    /\ insane = {} /\ insaneLeft = 0 /\ insaneNum = 0 /\ insaneStats = NoStats
    /\ \/ streak = 1 /\ lastToAnswer = NoPlayer
       \/ streak \in CarriedStreaks /\ lastToAnswer \in Players
    /\ inStates = TRUE
    /\ mode \in Modes
    /\ disableInsane \in BOOLEAN /\ edits = 0 /\ stopRequested = FALSE
    /\ arrived = {}
    /\ asked = {} /\ open = "none" /\ winners = 0

Hintless == mode = "hardcore"
Quickfire == mode = "quickfire"   \* interval is TRIV_INTERVAL / 4

(* Whether the current round is insane, under the given settings. *)
IsInsaneRound(disable) == ~disable /\ round % InsaneEvery = 0

(* log_question_index followed by StopGame when the dashboard asked for it: *)
(* the handler's own next state g is overridden.                            *)
LogQuestionIndex(g) ==
    gamestate' = IF stopRequested THEN "END" ELSE g

NextRoundForgotten == UNCHANGED round                             \* mutant
NextRound == round' = round + 1

(* The question becomes unanswerable. *)
ClearAnswerForgotten == UNCHANGED answer                          \* mutant
ClearAnswer == answer' = 0

-----------------------------------------------------------------------------
(* The handlers of the state machine, as state_t::tick dispatches them. *)

(* Both kinds of round end the game instead when every question is asked. *)
NoRoundLeft == round >= numquestions

DoLastRound ==
    /\ NoRoundLeft
    /\ gamestate' = "END" /\ score' = 0
    /\ UNCHANGED <<round, terminating, answer, insane, insaneLeft, insaneNum,
                   insaneStats, streakVars, historyVars>>

AskScore == IF Hintless THEN 6 ELSE IF Quickfire THEN 8 ELSE 4

AfterAsking == IF Hintless THEN "TIME_UP" ELSE "FIRST_HINT"

DoNormalRound ==
    /\ ~NoRoundLeft
    /\ answer' = round
    /\ score' = AskScore
    /\ LogQuestionIndex(AfterAsking)
    /\ asked' = asked \cup {round} /\ open' = "normal" /\ winners' = 0
    /\ UNCHANGED <<round, terminating, insane, insaneLeft, insaneNum,
                   insaneStats, streakVars>>

(* The question could not be fetched: its id is 0. *)
DoMalformedRound ==
    /\ ~NoRoundLeft
    /\ gamestate' = "END" /\ score' = 0 /\ answer' = 0
    /\ UNCHANGED <<round, terminating, insane, insaneLeft, insaneNum,
                   insaneStats, streakVars, historyVars>>

(* The answers of a fetched list; its first line, the question, is none. *)
ListSizeWithQuestion(list) == Cardinality(list) + 1               \* mutant
ListSize(list) == Cardinality(list)

(* An insane question is fetched, with the given list of answers. *)
DoInsaneRound(list) ==
    /\ ~NoRoundLeft
    /\ ~stopRequested
    /\ insane' = list
    /\ insaneLeft' = ListSize(list) /\ insaneNum' = ListSize(list)
    /\ gamestate' = "FIRST_HINT"
    /\ asked' = asked \cup {round} /\ open' = "insane"
    /\ UNCHANGED <<round, terminating, score, answer, insaneStats, streakVars,
                   winners>>

(* Five fetches failed, or the dashboard stops the game: StopGame. *)
DoInsaneAbort ==
    /\ ~NoRoundLeft
    /\ gamestate' = "END"
    /\ UNCHANGED <<round, terminating, questionVars, streakVars, historyVars>>

FirstHintScore == IF Quickfire THEN 4 ELSE 2

DoFirstHint ==
    /\ score' = FirstHintScore
    /\ LogQuestionIndex("SECOND_HINT")
    /\ UNCHANGED <<round, terminating, answer, insane, insaneLeft, insaneNum,
                   insaneStats, streakVars, historyVars>>

SecondHintScore == IF Quickfire THEN 2 ELSE 1

DoSecondHint ==
    /\ score' = SecondHintScore
    /\ LogQuestionIndex("TIME_UP")
    /\ UNCHANGED <<round, terminating, answer, insane, insaneLeft, insaneNum,
                   insaneStats, streakVars, historyVars>>

(* Only a normal question left unanswered costs the streak. *)
CostsStreak == answer # 0 /\ ~IsInsaneRound(disableInsane)

LoseStreak == lastToAnswer' = NoPlayer /\ streak' = 1

(* Nobody answered: an open normal question costs the streak, an insane    *)
(* one clears the board.  The insane answers left stay in the map.         *)
DoTimeUp ==
    /\ insaneStats' = IF IsInsaneRound(disableInsane) THEN NoStats
                                                      ELSE insaneStats
    /\ ClearAnswer
    /\ IF CostsStreak THEN LoseStreak ELSE UNCHANGED streakVars
    /\ NextRound
    /\ LogQuestionIndex(IF round > numquestions THEN "END" ELSE "ASK_QUESTION")
    /\ open' = "none"
    /\ UNCHANGED <<terminating, score, insane, insaneLeft, insaneNum, asked,
                   winners>>

DoAnswerCorrect ==
    /\ NextRound
    /\ ClearAnswer
    /\ LogQuestionIndex("ASK_QUESTION")
    /\ UNCHANGED <<terminating, score, insane, insaneLeft, insaneNum,
                   insaneStats, streakVars, historyVars>>

DoEndGame ==
    /\ terminating' = TRUE
    /\ UNCHANGED <<gamestate, round, questionVars, streakVars, historyVars>>

-----------------------------------------------------------------------------
(* TriviaModule::Tick, once a second, ticks every game that is due and      *)
(* removes those that are terminating afterwards.                           *)
Due == inStates /\ nextTick = 0

NextTick(g) ==
    CASE g = "ANSWER_CORRECT" -> 0
      [] g = "ASK_QUESTION" /\ ~Quickfire -> QuestionInterval
      [] OTHER -> Interval

Rescheduled ==
    /\ nextTick' = NextTick(gamestate')
    /\ inStates' = ~terminating'
    /\ UNCHANGED <<settingVars, arrived>>

Dispatches(g) == Due /\ ~terminating /\ gamestate = g

TickLastRound == Dispatches("ASK_QUESTION") /\ DoLastRound /\ Rescheduled

TickNormalRound ==
    /\ Dispatches("ASK_QUESTION") /\ ~IsInsaneRound(disableInsane)
    /\ DoNormalRound
    /\ Rescheduled

TickMalformedRound ==
    /\ Dispatches("ASK_QUESTION") /\ ~IsInsaneRound(disableInsane)
    /\ DoMalformedRound
    /\ Rescheduled

TickInsaneRound ==
    /\ Dispatches("ASK_QUESTION") /\ IsInsaneRound(disableInsane)
    /\ \E list \in SUBSET InsaneAnswers : list # {} /\ DoInsaneRound(list)
    /\ Rescheduled

TickInsaneAbort ==
    /\ Dispatches("ASK_QUESTION") /\ IsInsaneRound(disableInsane)
    /\ DoInsaneAbort
    /\ Rescheduled

TickFirstHint == Dispatches("FIRST_HINT") /\ DoFirstHint /\ Rescheduled

TickSecondHint == Dispatches("SECOND_HINT") /\ DoSecondHint /\ Rescheduled

TickTimeUp == Dispatches("TIME_UP") /\ DoTimeUp /\ Rescheduled

TickAnswerCorrect ==
    Dispatches("ANSWER_CORRECT") /\ DoAnswerCorrect /\ Rescheduled

(* The end is announced even when the game is already terminating. *)
TickEndGame == Due /\ gamestate = "END" /\ DoEndGame /\ Rescheduled

(* A stopped game is not dispatched, and is removed by the same pass. *)
TickStopped ==
    /\ Due /\ terminating /\ gamestate # "END"
    /\ UNCHANGED <<machineVars, questionVars, streakVars, historyVars>>
    /\ Rescheduled

Tick ==
    \/ TickLastRound \/ TickNormalRound \/ TickMalformedRound
    \/ TickInsaneRound \/ TickInsaneAbort
    \/ TickFirstHint \/ TickSecondHint \/ TickTimeUp
    \/ TickAnswerCorrect \/ TickEndGame \/ TickStopped

(* A second passes. *)
Second ==
    /\ inStates /\ nextTick > 0
    /\ nextTick' = nextTick - 1
    /\ UNCHANGED <<machineVars, questionVars, streakVars, inStates, settingVars,
                   arrived, historyVars>>

-----------------------------------------------------------------------------
(* Messages.  RealOnMessage reads the (cached) settings first and takes     *)
(* states_mutex later; queue_message drops the message of a terminating     *)
(* game.                                                                    *)
OnMessage(p) ==
    /\ inStates
    /\ arrived' = arrived \cup {[author |-> p, disableInsane |-> disableInsane]}
    /\ UNCHANGED <<gameVars, settingVars>>

Listening == inStates /\ ~terminating /\ gamestate \in Answerable

(* The message is dropped, or matches no answer. *)
MessageMisses(m) ==
    /\ arrived' = arrived \ {m}
    /\ UNCHANGED <<gameVars, settingVars>>

(* An answer of the insane list that is not the last one left. *)
InsaneAnswer(m, a) ==
    /\ Listening /\ IsInsaneRound(m.disableInsane)
    /\ a \in insane
    /\ insaneLeft - 1 >= 1
    /\ insane' = insane \ {a} /\ insaneLeft' = insaneLeft - 1
    /\ insaneStats' = [insaneStats EXCEPT ![m.author] = @ + 1]
    /\ arrived' = arrived \ {m}
    /\ UNCHANGED <<machineVars, nextTick, score, answer, insaneNum, streakVars,
                   inStates, settingVars, historyVars>>

(* The last one left: the board is cleared and the game moves on. *)
InsaneComplete(m, a) ==
    /\ Listening /\ IsInsaneRound(m.disableInsane)
    /\ a \in insane
    /\ insaneLeft - 1 < 1
    /\ insane' = insane \ {a} /\ insaneLeft' = insaneLeft - 1
    /\ insaneStats' = NoStats
    /\ IF round <= numquestions - 1
         THEN round' = round + 1 /\ LogQuestionIndex("ANSWER_CORRECT")
         ELSE round' = round /\ LogQuestionIndex("END")
    /\ open' = "none"
    /\ arrived' = arrived \ {m}
    /\ UNCHANGED <<terminating, nextTick, score, answer, insaneNum, streakVars,
                   inStates, settingVars, asked, winners>>

NewStreak(p) == IF lastToAnswer = p THEN streak + 1 ELSE 1

(* The question is over for everybody else. *)
AcceptAnswer == ClearAnswer /\ LogQuestionIndex("ANSWER_CORRECT")

(* The answer to the open normal question. *)
NormalAnswer(m) ==
    /\ Listening /\ ~IsInsaneRound(m.disableInsane)
    /\ answer # 0
    /\ AcceptAnswer
    /\ streak' = NewStreak(m.author) /\ lastToAnswer' = m.author
    /\ winners' = winners + 1 /\ open' = "none"
    /\ arrived' = arrived \ {m}
    /\ UNCHANGED <<round, terminating, nextTick, score, insane, insaneLeft,
                   insaneNum, insaneStats, inStates, settingVars, asked>>

HandleMessage(m) ==
    \/ MessageMisses(m)
    \/ \E a \in InsaneAnswers : InsaneAnswer(m, a) \/ InsaneComplete(m, a)
    \/ NormalAnswer(m)

-----------------------------------------------------------------------------
(* The stop command (command_stop_t::call). *)
StopCommand ==
    /\ inStates
    /\ terminating' = TRUE /\ nextTick' = 0
    /\ UNCHANGED <<gamestate, round, questionVars, streakVars, inStates,
                   settingVars, arrived, historyVars>>

(* The dashboard sets active_games.stop. *)
DashboardStop ==
    /\ inStates /\ ~stopRequested
    /\ stopRequested' = TRUE
    /\ UNCHANGED <<gameVars, mode, disableInsane, edits, arrived>>

(* The settings cache picks up an edit of disable_insane_rounds. *)
EditSettings ==
    /\ inStates /\ edits < MaxSettingEdits
    /\ disableInsane' = ~disableInsane /\ edits' = edits + 1
    /\ UNCHANGED <<gameVars, mode, stopRequested, arrived>>

Next ==
    \/ Tick \/ Second
    \/ \E p \in Players : OnMessage(p)
    \/ \E m \in arrived : HandleMessage(m)
    \/ StopCommand \/ DashboardStop \/ EditSettings

(* The tick thread never stops ticking, and time passes; nobody is obliged  *)
(* to say anything.                                                         *)
Fairness == WF_vars(Tick) /\ WF_vars(Second)

Spec == Init /\ [][Next]_vars /\ Fairness
-----------------------------------------------------------------------------
(* Properties *)

(* A normal question can be answered only while it is the question on show: *)
(* once it is answered, timed out or overtaken by the next round no message *)
(* matches it any more (question.answer is cleared on every path), even if  *)
(* disable_insane_rounds was edited in the middle of the round.             *)
AnswerOnlyWhileOpen ==
    answer # 0 /\ gamestate \in Answerable => open = "normal" /\ answer = round

(* "The first to answer gets the points" (lang.json, INSTRUCTIONS): however *)
(* messages and ticks interleave, a normal question has one winner at most. *)
FirstToAnswer == winners <= 1

(* The points on offer for an open normal question halve with every hint    *)
(* given, from 4 (8 in a quickfire game), and are 6 when there are no hints.*)
HintDivisor == CASE gamestate = "SECOND_HINT" -> 2
                 [] gamestate = "TIME_UP" /\ ~Hintless -> 4
                 [] OTHER -> 1
FullScore == IF Hintless THEN 6 ELSE IF Quickfire THEN 8 ELSE 4

OfferMatchesHints ==
    answer # 0 /\ gamestate \in Answerable
        => score * HintDivisor = FullScore

(* insane_left, an unsigned counter, is the number of answers in the map:   *)
(* it cannot miss its zero and wrap round, not even for answers left over   *)
(* from an earlier insane round or matched under edited settings.           *)
InsaneCountdown == insaneLeft = Cardinality(insane) /\ insaneLeft <= insaneNum

(* A streak longer than one always has an owner, also when it was carried   *)
(* over from the channel's previous game.                                   *)
StreakHasOwner == streak > 1 => lastToAnswer # NoPlayer

(* "You can only lose your streak on a non-insane round"                    *)
(* (state.cpp:747): a streak shrinks or loses its owner only while a normal *)
(* question is unanswered, whatever the settings became meanwhile.          *)
StreakLostOnlyOnNormal ==
    [][streak' < streak \/ lastToAnswer' # lastToAnswer
         => answer # 0 /\ open = "normal"]_vars

(* Once the stop command has run no message scores and no question is put   *)
(* to the channel, although the game stays in the map until the next pass.  *)
NothingAfterStop ==
    [][terminating => UNCHANGED <<questionVars, streakVars, historyVars>>]_vars

(* The game implements the quiz its players are promised.                   *)
Q == INSTANCE Quiz WITH over <- terminating \/ gamestate = "END"

(* Questions are asked one at a time, in the order of their rounds and      *)
(* never twice, a normal one has one winner at most and only while it is    *)
(* open, and nothing is asked or won after the end, whichever of the stop   *)
(* command, the dashboard and the last round brings it about.               *)
KeepsQuizPromises == Q!Spec

-----------------------------------------------------------------------------
(* Claims of the repository that the code does not keep *)

(* "End of round of {0} questions" (lang.json, END1): a game that ran to    *)
(* its last round, and was not stopped, has put every question it announced *)
(* to the channel.                                                          *)
EveryQuestionAsked ==
    gamestate = "END" /\ ~stopRequested /\ round >= numquestions
        => asked = 1..Questions
=============================================================================
