-------------------------- MODULE TriviaGameProofs --------------------------
(***************************************************************************)
(* The safety properties of TriviaGame and of PersistentGame, proved for   *)
(* every number of questions, players and insane answers, every period of  *)
(* the insane rounds, and every number of edits of the settings, of        *)
(* crashes and of queries that wait.                                       *)
(*                                                                         *)
(* The first half is one game: what it keeps (GameInv) also after it was   *)
(* resumed, and what follows for the quiz that its players are promised.   *)
(* The second half is the game and its row.  A step is first reduced to    *)
(* one of a few kinds, by what it does to the row and to the queue (Moves);*)
(* each conjunct of the invariant (RowInv) is then shown kind by kind.     *)
(***************************************************************************)
EXTENDS PersistentGame, SumTheorems, FiniteSetTheorems, SequenceTheorems, TLAPS

-----------------------------------------------------------------------------
(* The inductive invariant: the properties, and how the round, the question *)
(* on show and the questions asked so far depend on the state.              *)

(* A question is on show in these states only. *)
Showing == {"FIRST_HINT", "SECOND_HINT", "TIME_UP"}

(* numquestions is passed by one step at most. *)
RoundInv ==
    /\ gamestate \in Showing => round <= Questions
    /\ gamestate = "ANSWER_CORRECT" => round <= numquestions

OpenInv ==
    /\ gamestate = "ASK_QUESTION" => open = "none" /\ answer = 0
    /\ gamestate = "ANSWER_CORRECT" => open = "none"
    /\ gamestate \in Showing => open # "none"
    /\ open = "normal" => winners = 0
    /\ gamestate \in Showing /\ answer # 0 => open = "normal" /\ answer = round
    /\ Hintless /\ open = "normal" => gamestate \notin {"FIRST_HINT", "SECOND_HINT"}

(* While the next question is due, its round is beyond all asked so far. *)
AskedInv ==
    \A a \in asked : a <= round /\ (gamestate = "ASK_QUESTION" => a < round)

(* What a resumed game keeps, too: only the questions asked before the      *)
(* crash may be beyond its round.                                           *)
GameInv ==
    /\ TypeOK
    /\ RoundInv
    /\ OpenInv
    /\ FirstToAnswer
    /\ OfferMatchesHints
    /\ InsaneCountdown
    /\ StreakHasOwner

IInv == GameInv /\ AskedInv

-----------------------------------------------------------------------------
(* Removing one of the answers left takes one off their number. *)
LEMMA OneAnswerLess ==
    ASSUME NEW S, IsFiniteSet(S), NEW a \in S
    PROVE  /\ Cardinality(S) \in Nat /\ Cardinality(S) >= 1
           /\ Cardinality(S \ {a}) = Cardinality(S) - 1
<1>1. Cardinality(S) \in Nat
  BY FS_CardinalityType
<1>2. Cardinality(S \ {a}) = Cardinality(S) - 1 /\ Cardinality(S \ {a}) \in Nat
  BY FS_RemoveElement, FS_CardinalityType
<1> QED
  BY <1>1, <1>2

(* The map of insane answers is finite, being part of InsaneAnswers. *)
LEMMA InsaneFinite == \A S : S \subseteq InsaneAnswers => IsFiniteSet(S)
BY FS_Subset, GameAssumption DEF GameAssumption

(* A handler leaves a time to the next tick that is a number. *)
LEMMA NextTickType == \A g : NextTick(g) \in Nat
BY GameAssumption DEF GameAssumption, NextTick

-----------------------------------------------------------------------------
(* The invariant holds in a new game. *)
LEMMA InitIInv == Init => IInv
<1> SUFFICES ASSUME Init PROVE IInv
  OBVIOUS
<1>1. TypeOK
  <2> USE GameAssumption DEF GameAssumption, Init
  <2>1. gamestate \in States /\ round \in 1..(numquestions + 1)
    BY DEF States, numquestions
  <2>2. insaneStats \in [Players -> Nat]
    BY DEF NoStats
  <2>3. streak \in Nat \ {0} /\ lastToAnswer \in Players \cup {NoPlayer}
    <3>1. CASE streak = 1 /\ lastToAnswer = NoPlayer
      BY <3>1
    <3>2. CASE streak \in CarriedStreaks /\ lastToAnswer \in Players
      BY <3>2
    <3> QED
      BY <3>1, <3>2
  <2>4. disableInsane \in BOOLEAN /\ edits \in 0..MaxSettingEdits
    OBVIOUS
  <2>5. answer \in 0..Questions /\ arrived \subseteq Message
    OBVIOUS
  <2> QED
    BY <2>1, <2>2, <2>3, <2>4, <2>5 DEF TypeOK
<1>2. InsaneCountdown
  BY FS_EmptySet DEF Init, InsaneCountdown
<1>3. StreakHasOwner
  BY GameAssumption DEF Init, StreakHasOwner, GameAssumption
<1> QED
  BY <1>1, <1>2, <1>3 DEF IInv, GameInv, Init, RoundInv, OpenInv, AskedInv, Showing,
     FirstToAnswer, OfferMatchesHints, Answerable

(* Every step of the game preserves the invariant. *)
LEMMA NextGameInv == GameInv /\ [Next]_vars => GameInv'
<1> SUFFICES ASSUME GameInv, [Next]_vars PROVE GameInv'
  OBVIOUS
<1> USE GameAssumption
    DEF GameAssumption, GameInv, TypeOK, RoundInv, OpenInv,
        FirstToAnswer, OfferMatchesHints, InsaneCountdown, StreakHasOwner,
        States, Showing, Answerable, numquestions, HintDivisor, FullScore,
        Hintless, Quickfire, gameVars, machineVars, questionVars, streakVars,
        settingVars, historyVars, Dispatches, Due, Rescheduled, NoRoundLeft,
        LogQuestionIndex
<1>1. CASE TickLastRound
  BY <1>1, NextTickType DEF TickLastRound, DoLastRound
<1>2. CASE TickNormalRound
  BY <1>2, NextTickType DEF TickNormalRound, DoNormalRound, AskScore,
     AfterAsking
<1>3. CASE TickMalformedRound
  BY <1>3, NextTickType DEF TickMalformedRound, DoMalformedRound
<1>4. CASE TickInsaneAbort
  BY <1>4, NextTickType DEF TickInsaneAbort, DoInsaneAbort
<1>5. CASE TickFirstHint
  BY <1>5, NextTickType DEF TickFirstHint, DoFirstHint, FirstHintScore
<1>6. CASE TickSecondHint
  BY <1>6, NextTickType DEF TickSecondHint, DoSecondHint, SecondHintScore
<1>7. CASE TickTimeUp
  BY <1>7, NextTickType DEF TickTimeUp, DoTimeUp, CostsStreak, LoseStreak,
     NextRound, ClearAnswer, NoStats
<1>8. CASE TickAnswerCorrect
  BY <1>8, NextTickType DEF TickAnswerCorrect, DoAnswerCorrect, NextRound,
     ClearAnswer
<1>9. CASE TickEndGame
  BY <1>9, NextTickType DEF TickEndGame, DoEndGame
<1>10. CASE TickStopped
  BY <1>10, NextTickType DEF TickStopped
<1>11. CASE TickInsaneRound
  <2> PICK list \in SUBSET InsaneAnswers : list # {} /\ DoInsaneRound(list)
    BY <1>11 DEF TickInsaneRound
  <2>1. IsFiniteSet(list) /\ Cardinality(list) \in Nat
    BY InsaneFinite, FS_CardinalityType
  <2> QED
    BY <1>11, <2>1, NextTickType DEF TickInsaneRound, DoInsaneRound,
       ListSize
<1>12. CASE Second
  BY <1>12 DEF Second
<1>13. ASSUME NEW p \in Players, OnMessage(p) PROVE GameInv'
  BY <1>13 DEF OnMessage, Message
<1>14. ASSUME NEW m \in arrived, MessageMisses(m) PROVE GameInv'
  BY <1>14 DEF MessageMisses
<1>15. ASSUME NEW m \in arrived, NEW a \in InsaneAnswers, InsaneAnswer(m, a) PROVE GameInv'
  <2>1. Cardinality(insane) >= 1 /\ Cardinality(insane \ {a}) = Cardinality(insane) - 1
    BY <1>15, OneAnswerLess, InsaneFinite DEF InsaneAnswer
  <2> QED
    BY <1>15, <2>1 DEF InsaneAnswer, Message
<1>16. ASSUME NEW m \in arrived, NEW a \in InsaneAnswers, InsaneComplete(m, a) PROVE GameInv'
  <2>1. Cardinality(insane) >= 1 /\ Cardinality(insane \ {a}) = Cardinality(insane) - 1
    BY <1>16, OneAnswerLess, InsaneFinite DEF InsaneComplete
  <2> QED
    BY <1>16, <2>1 DEF InsaneComplete, Listening, NoStats, Message
<1>17. ASSUME NEW m \in arrived, NormalAnswer(m) PROVE GameInv'
  BY <1>17 DEF NormalAnswer, AcceptAnswer, ClearAnswer, NewStreak,
     Listening, Message
<1>18. CASE StopCommand
  BY <1>18 DEF StopCommand
<1>19. CASE DashboardStop
  BY <1>19 DEF DashboardStop
<1>20. CASE EditSettings
  BY <1>20 DEF EditSettings
<1>21. CASE UNCHANGED vars
  BY <1>21 DEF vars
<1> QED
  BY <1>1, <1>2, <1>3, <1>4, <1>5, <1>6, <1>7, <1>8, <1>9, <1>10, <1>11, <1>12,
     <1>13, <1>14, <1>15, <1>16, <1>17, <1>18, <1>19, <1>20, <1>21
     DEF Next, Tick, HandleMessage

(* The questions asked stay behind the round that is due.                   *)
LEMMA NextAsked == IInv /\ [Next]_vars => AskedInv'
<1> SUFFICES ASSUME IInv, [Next]_vars PROVE AskedInv'
  OBVIOUS
<1> USE DEF IInv, GameInv, TypeOK, RoundInv, AskedInv, Showing, numquestions,
        gameVars, machineVars, historyVars, Dispatches, NoRoundLeft, LogQuestionIndex
<1>1. CASE TickNormalRound
  BY <1>1 DEF TickNormalRound, DoNormalRound, AfterAsking
<1>2. CASE TickInsaneRound
  BY <1>2 DEF TickInsaneRound, DoInsaneRound
<1>3. CASE TickTimeUp \/ TickAnswerCorrect
  <2>1. round' = round + 1 /\ asked' = asked
    BY <1>3 DEF TickTimeUp, DoTimeUp, TickAnswerCorrect, DoAnswerCorrect, NextRound
  <2>2. \A a \in asked : a \in Int /\ a <= round
    OBVIOUS
  <2>3. round \in Int
    OBVIOUS
  <2>4. \A a \in asked' : a <= round' /\ a < round'
    BY <2>1, <2>2, <2>3
  <2> QED
    BY <2>4
<1>4. CASE TickLastRound \/ TickMalformedRound \/ TickInsaneAbort
  BY <1>4 DEF TickLastRound, DoLastRound, TickMalformedRound, DoMalformedRound,
     TickInsaneAbort, DoInsaneAbort
<1>5. CASE TickFirstHint \/ TickSecondHint
  BY <1>5 DEF TickFirstHint, DoFirstHint, TickSecondHint, DoSecondHint
<1>6. CASE TickEndGame \/ TickStopped
  BY <1>6 DEF TickEndGame, DoEndGame, TickStopped
<1>7. ASSUME NEW m \in arrived, HandleMessage(m) PROVE AskedInv'
  <2>1. CASE MessageMisses(m)
    BY <2>1 DEF MessageMisses
  <2>2. ASSUME NEW a \in InsaneAnswers, InsaneAnswer(m, a) PROVE AskedInv'
    BY <2>2 DEF InsaneAnswer
  <2>3. ASSUME NEW a \in InsaneAnswers, InsaneComplete(m, a) PROVE AskedInv'
    BY <2>3 DEF InsaneComplete
  <2>4. CASE NormalAnswer(m)
    BY <2>4 DEF NormalAnswer, AcceptAnswer
  <2> QED
    BY <1>7, <2>1, <2>2, <2>3, <2>4 DEF HandleMessage
<1>8. CASE Second \/ (\E p \in Players : OnMessage(p)) \/ StopCommand \/ DashboardStop \/ EditSettings
  BY <1>8 DEF Second, OnMessage, StopCommand, DashboardStop, EditSettings
<1>9. CASE UNCHANGED vars
  BY <1>9 DEF vars
<1> QED
  BY <1>1, <1>2, <1>3, <1>4, <1>5, <1>6, <1>7, <1>8, <1>9 DEF Next, Tick

(* Every step of the game preserves the whole invariant. *)
LEMMA NextIInv == IInv /\ [Next]_vars => IInv'
  BY NextGameInv, NextAsked DEF IInv

-----------------------------------------------------------------------------
(* The invariant holds throughout every game. *)
THEOREM Invariance == Spec => []IInv
BY InitIInv, NextIInv, PTL DEF Spec

(* Type correctness: in particular the round passes numquestions by one at  *)
(* most, and no question beyond the announced number is asked.              *)
THEOREM TypeCorrect == Spec => []TypeOK
<1>1. IInv => TypeOK
  BY DEF IInv, GameInv
<1> QED
  BY <1>1, Invariance, PTL

(* A normal question is answerable only while it is on show.                *)
THEOREM AnswersAreTimely == Spec => []AnswerOnlyWhileOpen
<1>1. IInv => AnswerOnlyWhileOpen
  BY DEF IInv, GameInv, OpenInv, AnswerOnlyWhileOpen, Answerable, Showing
<1> QED
  BY <1>1, Invariance, PTL

(* The first to answer, and nobody else, gets the points; the points match  *)
(* the hints given.                                                         *)
THEOREM FairPoints == Spec => [](FirstToAnswer /\ OfferMatchesHints)
<1>1. IInv => FirstToAnswer /\ OfferMatchesHints
  BY DEF IInv, GameInv
<1> QED
  BY <1>1, Invariance, PTL

(* insane_left counts the answers left, so it cannot wrap round.            *)
THEOREM InsaneCounterExact == Spec => []InsaneCountdown
<1>1. IInv => InsaneCountdown
  BY DEF IInv, GameInv
<1> QED
  BY <1>1, Invariance, PTL

(* A streak has an owner.                                                   *)
THEOREM StreaksOwned == Spec => []StreakHasOwner
<1>1. IInv => StreakHasOwner
  BY DEF IInv, GameInv
<1> QED
  BY <1>1, Invariance, PTL

-----------------------------------------------------------------------------
(* Only two handlers touch the streak, and both have an open normal question.*)
THEOREM StreakSafety == Spec => StreakLostOnlyOnNormal
<1>1. IInv /\ [Next]_vars
        => [streak' < streak \/ lastToAnswer' # lastToAnswer
              => answer # 0 /\ open = "normal"]_vars
  <2> SUFFICES ASSUME IInv, Next, streak' < streak \/ lastToAnswer' # lastToAnswer
               PROVE  answer # 0 /\ open = "normal"
    OBVIOUS
  <2>0. ~UNCHANGED streakVars
    BY DEF streakVars, IInv, GameInv, TypeOK
  <2> USE DEF streakVars
  <2>1. CASE TickTimeUp
    BY <2>0, <2>1 DEF TickTimeUp, Dispatches, DoTimeUp, CostsStreak, IInv, GameInv,
       OpenInv, Showing
  <2>2. ASSUME NEW m \in arrived, NormalAnswer(m)
        PROVE  answer # 0 /\ open = "normal"
    BY <2>2 DEF NormalAnswer, Listening, Answerable, IInv, GameInv, OpenInv, Showing
  <2>3. CASE Tick /\ ~TickTimeUp
    BY <2>0, <2>3 DEF Tick, TickLastRound, DoLastRound, TickNormalRound,
       DoNormalRound, TickMalformedRound, DoMalformedRound, TickInsaneRound,
       DoInsaneRound, TickInsaneAbort, DoInsaneAbort, TickFirstHint,
       DoFirstHint, TickSecondHint, DoSecondHint, TickAnswerCorrect,
       DoAnswerCorrect, TickEndGame, DoEndGame, TickStopped
  <2>4. CASE \E m \in arrived : HandleMessage(m) /\ ~NormalAnswer(m)
    BY <2>0, <2>4 DEF HandleMessage, MessageMisses, InsaneAnswer,
       InsaneComplete, gameVars
  <2>5. CASE Second \/ (\E p \in Players : OnMessage(p))
    BY <2>0, <2>5 DEF Second, OnMessage, gameVars
  <2>6. CASE StopCommand \/ DashboardStop \/ EditSettings
    BY <2>0, <2>6 DEF StopCommand, DashboardStop, EditSettings, gameVars
  <2> QED
    BY <2>1, <2>2, <2>3, <2>4, <2>5, <2>6 DEF Next, HandleMessage
<1> QED
  BY <1>1, Invariance, PTL DEF Spec, StreakLostOnlyOnNormal

(* After the stop command the game is frozen: every handler that scores or  *)
(* asks requires a game that is not terminating.                            *)
THEOREM StopSafety == Spec => NothingAfterStop
<1>1. IInv /\ [Next]_vars
        => [terminating => UNCHANGED <<questionVars, streakVars, historyVars>>]_vars
  <2> SUFFICES ASSUME IInv, Next, terminating
               PROVE  UNCHANGED <<questionVars, streakVars, historyVars>>
    OBVIOUS
  <2>1. CASE Tick
    BY <2>1 DEF Tick, Dispatches, TickLastRound, TickNormalRound,
       TickMalformedRound, TickInsaneRound, TickInsaneAbort, TickFirstHint,
       TickSecondHint, TickTimeUp, TickAnswerCorrect, TickEndGame, DoEndGame,
       TickStopped
  <2>2. ASSUME NEW m \in arrived, HandleMessage(m)
        PROVE  UNCHANGED <<questionVars, streakVars, historyVars>>
    BY <2>2 DEF HandleMessage, MessageMisses, InsaneAnswer, InsaneComplete,
       NormalAnswer, Listening, gameVars
  <2>3. CASE Second \/ (\E p \in Players : OnMessage(p))
    BY <2>3 DEF Second, OnMessage, gameVars
  <2>4. CASE StopCommand \/ DashboardStop \/ EditSettings
    BY <2>4 DEF StopCommand, DashboardStop, EditSettings, gameVars
  <2> QED
    BY <2>1, <2>2, <2>3, <2>4 DEF Next
<1> QED
  BY <1>1, Invariance, PTL DEF Spec, NothingAfterStop

-----------------------------------------------------------------------------
(* The game implements Quiz: every step asks, wins, closes or finishes, or  *)
(* is invisible to the quiz.                                                *)
THEOREM Refinement == Spec => KeepsQuizPromises
<1>1. Init => Q!Init
  BY DEF Init, Q!Init
<1>2. IInv /\ IInv' /\ [Next]_vars => [Q!Next]_(Q!quizVars)
  <2> SUFFICES ASSUME IInv, IInv', Next PROVE [Q!Next]_(Q!quizVars)
    BY DEF vars, gameVars, machineVars, historyVars, Q!quizVars
  <2> USE DEF Q!quizVars, Q!Next, Q!MayEnd, Dispatches, historyVars, machineVars
  <2>1. CASE TickNormalRound
    <3>1. round \in 1..Questions /\ \A a \in asked : a < round
      BY <2>1 DEF TickNormalRound, DoNormalRound, NoRoundLeft, numquestions,
         IInv, GameInv, TypeOK, AskedInv
    <3>2. open = "none" /\ terminating = FALSE /\ gamestate = "ASK_QUESTION"
      BY <2>1 DEF TickNormalRound, IInv, GameInv, TypeOK, OpenInv
    <3>3. Q!AskNormal(round)
      BY <2>1, <3>1, <3>2 DEF TickNormalRound, DoNormalRound, Q!AskNormal
    <3> QED
      BY <3>1, <3>3
  <2>2. CASE TickInsaneRound
    <3>1. round \in 1..Questions /\ \A a \in asked : a < round
      BY <2>2 DEF TickInsaneRound, DoInsaneRound, NoRoundLeft, numquestions,
         IInv, GameInv, TypeOK, AskedInv
    <3>2. open = "none" /\ terminating = FALSE /\ gamestate = "ASK_QUESTION"
      BY <2>2 DEF TickInsaneRound, IInv, GameInv, TypeOK, OpenInv
    <3>3. Q!AskInsane(round)
      BY <2>2, <3>1, <3>2 DEF TickInsaneRound, DoInsaneRound, Q!AskInsane
    <3> QED
      BY <3>1, <3>3
  <2>3. CASE TickTimeUp
    BY <2>3 DEF TickTimeUp, DoTimeUp, Q!Close, IInv, GameInv, TypeOK, OpenInv, Showing
  <2>4. ASSUME NEW m \in arrived, NormalAnswer(m) PROVE [Q!Next]_(Q!quizVars)
    <3>1. open = "normal" /\ winners = 0
      BY <2>4 DEF NormalAnswer, Listening, Answerable, IInv, GameInv, OpenInv, Showing
    <3>2. ~(terminating \/ gamestate = "END") /\ terminating' = terminating
      BY <2>4 DEF NormalAnswer, Listening, Answerable
    <3>3. winners' = 1 /\ open' = "none" /\ UNCHANGED asked
      BY <2>4, <3>1 DEF NormalAnswer
    <3>4. Q!MayEnd
      BY <3>2 DEF IInv, GameInv, TypeOK
    <3>5. Q!Win
      BY <3>1, <3>2, <3>3, <3>4 DEF Q!Win
    <3> QED
      BY <3>5
  <2>5. ASSUME NEW m \in arrived, NEW a \in InsaneAnswers, InsaneComplete(m, a)
        PROVE  [Q!Next]_(Q!quizVars)
    BY <2>5 DEF InsaneComplete, Listening, LogQuestionIndex, Answerable,
       Q!Close, Q!Finish, IInv, GameInv, TypeOK
  <2>6. CASE TickLastRound \/ TickMalformedRound \/ TickInsaneAbort
    BY <2>6 DEF TickLastRound, DoLastRound, TickMalformedRound,
       DoMalformedRound, TickInsaneAbort, DoInsaneAbort, Q!Finish
  <2>7. CASE TickFirstHint \/ TickSecondHint \/ TickAnswerCorrect
    BY <2>7 DEF TickFirstHint, DoFirstHint, TickSecondHint, DoSecondHint,
       TickAnswerCorrect, DoAnswerCorrect, LogQuestionIndex, Q!Finish
  <2>8. CASE TickEndGame \/ TickStopped
    BY <2>8 DEF TickEndGame, DoEndGame, TickStopped, IInv, GameInv, TypeOK
  <2>9. ASSUME NEW m \in arrived,
               MessageMisses(m) \/ \E a \in InsaneAnswers : InsaneAnswer(m, a)
        PROVE  [Q!Next]_(Q!quizVars)
    BY <2>9 DEF MessageMisses, InsaneAnswer, gameVars
  <2>10. CASE StopCommand
    BY <2>10 DEF StopCommand, Q!Finish, IInv, GameInv, TypeOK
  <2>11. CASE Second \/ (\E p \in Players : OnMessage(p)) \/ DashboardStop \/ EditSettings
    BY <2>11 DEF Second, OnMessage, DashboardStop, EditSettings, gameVars
  <2> QED
    BY <2>1, <2>2, <2>3, <2>4, <2>5, <2>6, <2>7, <2>8, <2>9, <2>10, <2>11 DEF
       Next, Tick, HandleMessage
<1> QED
  BY <1>1, <1>2, Invariance, PTL DEF Spec, KeepsQuizPromises, Q!Spec

-----------------------------------------------------------------------------
(* The game and its row *)

Progress == Row(round, streak, lastToAnswer)

Is(i, op) == pending[i].op = op
Inserting == \E i \in DOMAIN pending : Is(i, "insert")
Updating == \E i \in DOMAIN pending : Is(i, "update")

(* A dead process has nothing, and a game under way has not ended.          *)
LifeInv ==
    /\ ~up => pending = <<>> /\ ~inStates /\ ~starting
    /\ logged => ~starting
    /\ inStates /\ ~terminating => ~ \E i \in DOMAIN pending : Is(i, "delete")
    /\ inStates /\ ~terminating /\ ~starting => row # NoRow \/ Inserting

(* The progress is in the row, or in the last update, which will find a     *)
(* row.                                                                     *)
ProgressComes ==
    inStates /\ logged /\ ~terminating =>
        \/ row = Progress /\ ~Updating
        \/ \E i \in DOMAIN pending :
               /\ Is(i, "update") /\ pending[i].row = Progress
               /\ \A j \in DOMAIN pending : j > i => ~Is(j, "update")
               /\ row # NoRow \/ \E j \in 1..(i - 1) : Is(j, "insert")

(* The rounds of the row, of the updates in their order and of the game.    *)
RoundsRise ==
    /\ row.round <= round
    /\ \A i \in DOMAIN pending : Is(i, "update") =>
           /\ row.round <= pending[i].row.round /\ pending[i].row.round <= round
           /\ \A j \in DOMAIN pending : i < j /\ Is(j, "update") =>
                  pending[i].row.round <= pending[j].row.round

(* Before the start is logged, and before it is executed, the game is in    *)
(* its first round.                                                         *)
FirstRoundOnly(i) == Is(i, "update") /\ pending[i].row.round = 1
StartComesFirst ==
    /\ ~logged => round = 1
    /\ starting => /\ row = NoRow /\ \A r \in 1..Questions : paid[r] = 0
                   /\ \A i \in DOMAIN pending : FirstRoundOnly(i)
    /\ \A i \in DOMAIN pending : Is(i, "insert") =>
           /\ row = NoRow /\ \A r \in 1..Questions : paid[r] = 0
           /\ \A j \in 1..(i - 1) : FirstRoundOnly(j)

(* Points are not ahead of the row, nor are those still to be paid ahead of *)
(* the row as it will be then; unless the row was deleted for good.         *)
NoRowAgain == row = NoRow /\ ~starting /\ ~Inserting
PointsFollow ==
    /\ row # NoRow => \A r \in 1..Questions : paid[r] > 0 => r <= row.round
    /\ \A i \in DOMAIN pending : Is(i, "pay") =>
           \/ NoRowAgain \/ pending[i].row.round <= row.round
           \/ \E j \in 1..(i - 1) : /\ Is(j, "insert") \/ Is(j, "update")
                                    /\ pending[i].row.round <= pending[j].row.round

(* Which points were paid, and are still to be.                             *)
PaysAgain(i) == Is(i, "pay") /\ paid[pending[i].row.round] > 0
PaysOnce ==
    /\ \A r \in 1..Questions : r > round => paid[r] = 0
    /\ \A i \in DOMAIN pending : Is(i, "pay") =>
           /\ pending[i].row.round <= round /\ (Listening => pending[i].row.round # round)
           /\ \A j \in DOMAIN pending : Is(j, "pay") /\ pending[i].row.round = pending[j].row.round => i = j
           /\ PaysAgain(i) => \A j \in DOMAIN pending : PaysAgain(j) => i = j
           /\ Listening /\ round <= Questions => paid[round] = 0

(* The question that a crash interrupted may be paid once more.             *)
Owed ==
    \/ ~up \/ \E i \in DOMAIN pending : PaysAgain(i)
    \/ Listening /\ round <= Questions /\ paid[round] > 0
Again(m) == {r \in 1..Questions : m[r] > 1}
ExcessOf(m) == MapThenSumSet(LAMBDA r : m[r] - 1, Again(m))
ExcessInv == ExcessOf(paid) + (IF Owed THEN 1 ELSE 0) <= crashes

RowInv ==
    /\ LifeInv /\ ProgressComes /\ RoundsRise
    /\ ~overtaken => StartComesFirst /\ PointsFollow /\ PaysOnce /\ ExcessInv

-----------------------------------------------------------------------------
(* What the row and the queue hold *)

Progresses ==
    {r \in [round : 1..(numquestions + 1), streak : Nat \ {0}, last : Players \cup {NoPlayer}] :
        r.streak > 1 => r.last # NoPlayer}
Queries ==
    {Insert, Delete} \cup {Pay(r) : r \in 1..Questions} \cup {Query("update", r) : r \in Progresses}

TableTypeOK ==
    /\ row \in Progresses \cup {NoRow} /\ pending \in Seq(Queries)
    /\ paid \in [1..Questions -> Nat]
    /\ {up, starting, logged, overtaken} \subseteq BOOLEAN
    /\ crashes \in 0..MaxCrashes

(* What each query is about.                                                *)
LEMMA QueryKinds ==
    /\ \A q \in Queries : /\ q.op \in {"insert", "delete", "pay", "update"}
                          /\ q.op = "insert" => q.row = NewRow
                          /\ q.op = "update" => q.row \in Progresses
                          /\ q.op = "pay" => q.row.round \in 1..Questions
    /\ Insert \in Queries /\ Insert.op = "insert" /\ Insert.row = NewRow
    /\ Delete \in Queries /\ Delete.op = "delete"
    /\ \A r \in 1..Questions : Pay(r) \in Queries /\ Pay(r).op = "pay" /\ Pay(r).row.round = r
    /\ \A r \in Progresses : /\ Query("update", r) \in Queries
                             /\ Query("update", r).op = "update" /\ Query("update", r).row = r
  <1>1. /\ Insert.op = "insert" /\ Insert.row = NewRow /\ Delete.op = "delete"
        /\ \A r : /\ Pay(r).op = "pay" /\ Pay(r).row.round = r
                  /\ Query("update", r).op = "update" /\ Query("update", r).row = r
    BY DEF Insert, Delete, Pay, Query, NoRow, Row
  <1> QED BY <1>1 DEF Queries

(* Progress starts with the first round.                                    *)
LEMMA ProgressKinds ==
    /\ NewRow \in Progresses /\ NewRow.round = 1
    /\ NoRow \notin Progresses /\ NoRow.round = 0
    /\ \A r \in Progresses : r.round \in Nat /\ r.round >= 1 /\ r = Row(r.round, r.streak, r.last)
    /\ \A r, s, l : Row(r, s, l).round = r
  <1>1. NewRow.round = 1 /\ NoRow.round = 0 /\ \A r, s, l : Row(r, s, l).round = r
    BY DEF NewRow, NoRow, Row
  <1>2. NewRow \in Progresses
    BY GameAssumption DEF GameAssumption, NewRow, Row, Progresses, numquestions
  <1>3. \A r \in Progresses : r.round \in Nat /\ r.round >= 1
    BY DEF Progresses
  <1>4. \A r \in Progresses : r = Row(r.round, r.streak, r.last)
    BY DEF Progresses, Row
  <1> QED BY <1>1, <1>2, <1>3, <1>4

(* The progress of a game is one that can be logged.                        *)
LEMMA GameProgress == GameInv => Row(round, streak, lastToAnswer) \in Progresses
  BY DEF GameInv, TypeOK, StreakHasOwner, Progresses, Row

-----------------------------------------------------------------------------
(* Resumption *)

(* A change of the stop flag, of the map of games or of the messages does   *)
(* not matter to what the game keeps.                                       *)
LEMMA GameUntouched ==
    ASSUME GameInv, UNCHANGED <<machineVars, nextTick, questionVars, streakVars, historyVars, mode, disableInsane, edits>>,
           stopRequested' \in BOOLEAN, inStates' \in BOOLEAN, arrived' \subseteq Message
    PROVE  GameInv'
  BY DEF machineVars, questionVars, streakVars, historyVars, GameInv, TypeOK, RoundInv, OpenInv, FirstToAnswer,
     OfferMatchesHints, InsaneCountdown, StreakHasOwner, Showing, HintDivisor, FullScore, Hintless, Quickfire

(* A game that is resumed keeps what a game keeps.                          *)
LEMMA ResumeGame == GameInv /\ TableTypeOK /\ Resume => GameInv'
  <1> SUFFICES ASSUME GameInv, TableTypeOK, Resume PROVE GameInv'
    OBVIOUS
  <1>1. /\ round' \in 1..(numquestions + 1) /\ streak' \in Nat \ {0}
        /\ lastToAnswer' \in Players \cup {NoPlayer} /\ (streak' > 1 => lastToAnswer' # NoPlayer)
    <2>1. row \in Progresses /\ round' = row.round /\ streak' = row.streak /\ lastToAnswer' = row.last
      BY DEF Resume, Rebuilt, TableTypeOK
    <2> QED BY <2>1 DEF Progresses
  <1>2. /\ inStates' = TRUE /\ terminating' = FALSE /\ nextTick' = 0 /\ insaneStats' = NoStats
        /\ UNCHANGED <<mode, disableInsane, edits, stopRequested, arrived>>
    BY DEF Resume, settingVars
  <1>3. NoStats \in [Players -> Nat]
    BY DEF NoStats
  <1>4. /\ Questions \in Nat \ {0} /\ numquestions = Questions + 1 /\ round' \in Nat /\ round' >= 1
    BY <1>1, GameAssumption DEF GameAssumption, numquestions
  (* What a question, or the end, puts on show. *)
  <1> DEFINE Shown ==
          /\ gamestate' \in {"FIRST_HINT", "TIME_UP", "END"} /\ score' \in Nat
          /\ answer' \in 0..Questions /\ insane' \subseteq InsaneAnswers
          /\ insaneLeft' \in Nat /\ insaneNum' \in Nat /\ insaneLeft' = insaneNum'
          /\ insaneLeft' = Cardinality(insane')
          /\ asked' \subseteq 1..Questions /\ open' \in {"none", "normal", "insane"}
          /\ winners' \in Nat /\ winners' <= 1 /\ (open' = "normal" => winners' = 0)
          /\ gamestate' # "END" => round' <= Questions /\ open' # "none"
          /\ gamestate' # "END" /\ answer' # 0 =>
             /\ open' = "normal" /\ answer' = round' /\ score' = AskScore
             /\ gamestate' = AfterAsking
          /\ Hintless /\ open' = "normal" => gamestate' # "FIRST_HINT"
  <1>5. Shown
    <2>1. CASE ResumeNormalRound
      <3>1. round' <= Questions /\ round' \in 1..Questions
        BY <1>1, <1>4, <2>1 DEF ResumeNormalRound, ResumesAfterLast
      <3>2. AfterAsking \in {"FIRST_HINT", "TIME_UP"} /\ AskScore \in Nat
            /\ (Hintless => AfterAsking = "TIME_UP")
        BY DEF AfterAsking, AskScore
      <3>3. gamestate' = "END" \/ gamestate' = AfterAsking
        BY <2>1 DEF ResumeNormalRound, LogQuestionIndex
      <3>4. asked' \subseteq 1..Questions
        BY <2>1, <3>1 DEF ResumeNormalRound, GameInv, TypeOK
      <3>5. /\ answer' = round' /\ score' = AskScore /\ insane' = {} /\ insaneLeft' = 0
            /\ insaneNum' = 0 /\ open' = "normal" /\ winners' = 0
        BY <2>1 DEF ResumeNormalRound
      <3>6. answer' \in 0..Questions
        BY <3>1, <3>5, <1>4
      <3> QED BY <3>1, <3>2, <3>3, <3>4, <3>5, <3>6, FS_EmptySet
    <2>2. CASE ResumeNothing
      <3>1. /\ gamestate' = "END" /\ score' = 0 /\ answer' = 0
            /\ insane' = {} /\ insaneLeft' = 0 /\ insaneNum' = 0
            /\ asked' = asked /\ open' = open /\ winners' = winners
        BY <2>2 DEF ResumeNothing, historyVars
      <3>2. /\ asked \subseteq 1..Questions /\ open \in {"none", "normal", "insane"}
            /\ winners \in Nat /\ winners <= 1 /\ (open = "normal" => winners = 0)
        BY DEF GameInv, TypeOK, OpenInv, FirstToAnswer
      <3> QED BY <3>1, <3>2, <1>4, FS_EmptySet
    <2>3. ASSUME NEW list \in SUBSET InsaneAnswers, ResumeInsaneRound(list)
          PROVE  Shown
      <3>1. round' <= Questions /\ round' \in 1..Questions
        BY <1>1, <1>4, <2>3 DEF ResumeInsaneRound, ResumesAfterLast
      <3>2. Cardinality(list) \in Nat
        BY InsaneFinite, FS_CardinalityType
      <3>3. /\ gamestate' = "FIRST_HINT" /\ score' = 0 /\ answer' = 0 /\ insane' = list
            /\ insaneLeft' = Cardinality(list) /\ insaneNum' = Cardinality(list)
            /\ open' = "insane" /\ winners' = winners
        BY <2>3 DEF ResumeInsaneRound, ListSize
      <3>4. asked' \subseteq 1..Questions /\ winners \in Nat /\ winners <= 1
        BY <2>3, <3>1 DEF ResumeInsaneRound, GameInv, TypeOK, FirstToAnswer
      <3> QED BY <3>1, <3>2, <3>3, <3>4, <1>4
    <2> QED BY <2>1, <2>2, <2>3 DEF Resume
  <1>6. TypeOK'
    BY <1>1, <1>2, <1>3, <1>5 DEF GameInv, TypeOK, States
  <1>7. RoundInv'
    BY <1>4, <1>5 DEF RoundInv, Showing
  <1>8. OpenInv'
    BY <1>2, <1>5 DEF OpenInv, Showing, Hintless
  <1>9. OfferMatchesHints'
    BY <1>2, <1>5 DEF OfferMatchesHints, Answerable, HintDivisor, FullScore, AskScore, AfterAsking,
       Hintless, Quickfire
  <1>10. FirstToAnswer' /\ InsaneCountdown' /\ StreakHasOwner'
    BY <1>1, <1>5 DEF FirstToAnswer, InsaneCountdown, StreakHasOwner
  <1> QED BY <1>6, <1>7, <1>8, <1>9, <1>10 DEF GameInv

(* Every step of the game, of its row and of the process keeps what a game  *)
(* keeps.                                                                   *)
LEMMA PersistentGameStep == GameInv /\ TableTypeOK /\ [PersistentNext]_allVars => GameInv'
  <1> SUFFICES ASSUME GameInv, TableTypeOK, [PersistentNext]_allVars PROVE GameInv'
    OBVIOUS
  <1>1. CASE GameTicks \/ TimePasses \/ SomebodySpeaks \/ SomebodyStops \/ SettingsChange
    <2>1. Next
      BY <1>1 DEF GameTicks, PersistentTick, LoggedTick, TimePasses, SomebodySpeaks, PersistentMessage,
         SomebodyStops, SettingsChange, Next, Tick, HandleMessage
    <2> QED BY <2>1, NextGameInv
  <1>2. CASE LogStart \/ NothingToResume \/ UNCHANGED allVars
    <2>1. UNCHANGED vars
      BY <1>2 DEF LogStart, NothingToResume, allVars
    <2> QED BY <2>1, NextGameInv
  <1>3. CASE DashboardStopsRow \/ BackgroundThread \/ Crash
    <2>1. /\ UNCHANGED <<machineVars, nextTick, questionVars, streakVars, historyVars, mode, disableInsane, edits>>
          /\ stopRequested' \in BOOLEAN /\ inStates' \in BOOLEAN /\ arrived' \subseteq Message
      BY <1>3 DEF DashboardStopsRow, BackgroundThread, Crash, gameVars, settingVars, GameInv, TypeOK
    <2> QED BY <2>1, GameUntouched
  <1>4. CASE Resume
    BY <1>4, ResumeGame
  <1> QED BY <1>1, <1>2, <1>3, <1>4 DEF PersistentNext

-----------------------------------------------------------------------------
(* The kinds of step, as the row and the queue see them *)

Table == <<row, paid, starting, up, crashes>>
Growing(n, k) ==
    /\ n \in Nat /\ DOMAIN pending = 1..n /\ DOMAIN pending' = 1..(n + k)
    /\ \A i \in 1..n : pending'[i] = pending[i]

(* Nothing that the row depends on changes.                                 *)
Quiet ==
    /\ UNCHANGED <<row, paid, starting, up, crashes, pending, logged, overtaken,
                   round, streak, lastToAnswer>>
    /\ inStates' => inStates
    /\ inStates' /\ ~terminating' => ~terminating
    /\ Listening' => Listening

(* A handler logs the progress last.                                        *)
Progressed ==
    /\ UNCHANGED Table /\ up
    /\ inStates /\ ~terminating /\ inStates' /\ ~terminating'
    /\ round' = round \/ round' = round + 1
    /\ Listening' => Listening \/ round' = round + 1
    /\ logged' = ~starting
    /\ overtaken' = (overtaken \/ (starting /\ round' > 1))
    /\ \E n \in Nat : /\ Growing(n, 1)
                      /\ pending'[n + 1] = Query("update", Progress')

(* An answer is paid for before the progress is logged.                     *)
Answered ==
    /\ UNCHANGED Table /\ up
    /\ inStates /\ ~terminating /\ inStates' /\ ~terminating'
    /\ round' = round /\ round \in 1..Questions
    /\ Listening /\ ~Listening'
    /\ logged' = ~starting /\ overtaken' = (overtaken \/ starting)
    /\ \E n \in Nat : /\ Growing(n, 2)
                      /\ pending'[n + 1] = Pay(round)
                      /\ pending'[n + 2] = Query("update", Progress')

(* The game is over.                                                        *)
Ended ==
    /\ UNCHANGED Table /\ up /\ UNCHANGED <<round, logged>>
    /\ terminating' /\ ~Listening'
    /\ overtaken' = (overtaken \/ starting)
    /\ \E n \in Nat : Growing(n, 1) /\ pending'[n + 1] = Delete

(* The start is logged.                                                     *)
Started ==
    /\ up /\ starting /\ starting' = FALSE
    /\ UNCHANGED <<vars, row, paid, up, crashes, logged, overtaken>>
    /\ \E n \in Nat : Growing(n, 1) /\ pending'[n + 1] = Insert

(* A query is executed.                                                     *)
Executes ==
    /\ up /\ UNCHANGED <<gameVars, logged, overtaken, starting, up, crashes>>
    /\ \E n \in Nat :
         /\ DOMAIN pending = 1..(n + 1) /\ DOMAIN pending' = 1..n
         /\ \A i \in 1..n : pending'[i] = pending[i + 1]
    /\ row' = Executed(pending[1])
    /\ paid' = IF Is(1, "pay") THEN [paid EXCEPT ![pending[1].row.round] = @ + 1]
                               ELSE paid

(* A game that is resumed has the progress of the row.                      *)
Resumed ==
    /\ ~up /\ up' /\ row # NoRow /\ inStates' /\ ~terminating'
    /\ UNCHANGED <<row, paid, starting, crashes>>
    /\ Progress' = row /\ round' = row.round
    /\ \/ pending' = pending /\ UNCHANGED <<logged, overtaken>>
       \/ /\ logged' = ~starting
          /\ overtaken' = (overtaken \/ (starting /\ round' > 1))
          /\ \E n \in Nat : /\ Growing(n, 1)
                            /\ pending'[n + 1] = Query("update", Progress')

(* A queue that grows by one query, or by two.                              *)
LEMMA QueueGrows ==
    TableTypeOK =>
        /\ \A q : pending' = Append(pending, q) =>
               /\ Len(pending) \in Nat /\ Growing(Len(pending), 1)
               /\ pending'[Len(pending) + 1] = q
        /\ \A q1, q2 : pending' = pending \o <<q1, q2>> =>
               /\ Len(pending) \in Nat /\ Growing(Len(pending), 2)
               /\ pending'[Len(pending) + 1] = q1 /\ pending'[Len(pending) + 2] = q2
  <1> SUFFICES ASSUME TableTypeOK
               PROVE  /\ \A q : pending' = Append(pending, q) =>
                            /\ Len(pending) \in Nat /\ Growing(Len(pending), 1)
                            /\ pending'[Len(pending) + 1] = q
                      /\ \A q1, q2 : pending' = pending \o <<q1, q2>> =>
                            /\ Len(pending) \in Nat /\ Growing(Len(pending), 2)
                            /\ pending'[Len(pending) + 1] = q1 /\ pending'[Len(pending) + 2] = q2
    OBVIOUS
  <1>1. pending \in Seq(Queries) /\ Len(pending) \in Nat /\ DOMAIN pending = 1..Len(pending)
    BY DEF TableTypeOK
  <1>2. \A q : pending' = Append(pending, q) =>
               Growing(Len(pending), 1) /\ pending'[Len(pending) + 1] = q
    BY <1>1 DEF Growing
  <1>3. \A q1, q2 : pending' = pending \o <<q1, q2>> =>
               /\ Growing(Len(pending), 2)
               /\ pending'[Len(pending) + 1] = q1 /\ pending'[Len(pending) + 2] = q2
    BY <1>1 DEF Growing
  <1> QED BY <1>1, <1>2, <1>3

(* What Logs, LogsAnswer and LogsEnd append.                                *)
LEMMA LogsProgress ==
    TableTypeOK /\ Logs =>
        \E n \in Nat : Growing(n, 1) /\ pending'[n + 1] = Query("update", Progress')
  BY QueueGrows DEF Logs, Snapshot, Progress

(* A tick that logs the progress.                                           *)
LEMMA LoggedTicks == GameInv /\ TableTypeOK /\ up /\ LoggedTick /\ Logs /\ UNCHANGED Table => Progressed
  <1> SUFFICES ASSUME GameInv, TableTypeOK, up, LoggedTick, Logs, UNCHANGED Table PROVE Progressed
    OBVIOUS
  <1>1. /\ inStates /\ ~terminating /\ ~terminating'
        /\ round' = round \/ round' = round + 1
        /\ Listening' => Listening \/ round' = round + 1
        /\ inStates' = ~terminating'
    <2> USE DEF Dispatches, Due, Rescheduled, Listening, Answerable
    <2>1. CASE TickNormalRound
      BY <2>1 DEF TickNormalRound, DoNormalRound
    <2>2. CASE TickInsaneRound
      BY <2>2 DEF TickInsaneRound, DoInsaneRound
    <2>3. CASE TickInsaneAbort
      BY <2>3 DEF TickInsaneAbort, DoInsaneAbort
    <2>4. CASE TickFirstHint
      BY <2>4 DEF TickFirstHint, DoFirstHint
    <2>5. CASE TickSecondHint
      BY <2>5 DEF TickSecondHint, DoSecondHint
    <2>6. CASE TickTimeUp
      BY <2>6 DEF TickTimeUp, DoTimeUp, NextRound
    <2>7. CASE TickAnswerCorrect
      BY <2>7 DEF TickAnswerCorrect, DoAnswerCorrect, NextRound
    <2> QED BY <2>1, <2>2, <2>3, <2>4, <2>5, <2>6, <2>7 DEF LoggedTick
  <1>2. \E n \in Nat : Growing(n, 1) /\ pending'[n + 1] = Query("update", Progress')
    BY LogsProgress
  <1>3. logged' = ~starting /\ overtaken' = (overtaken \/ (starting /\ round' > 1))
    BY DEF Logs
  <1>4. inStates'
    BY <1>1
  <1> QED BY <1>1, <1>2, <1>3, <1>4 DEF Progressed

(* A tick that logs nothing ends the game's questions, or removes the game. *)
LEMMA SilentTicks ==
    GameInv /\ (TickLastRound \/ TickMalformedRound \/ TickStopped) /\ LogsNothing /\ UNCHANGED Table
        => Quiet
  <1> SUFFICES ASSUME GameInv, TickLastRound \/ TickMalformedRound \/ TickStopped, LogsNothing,
                      UNCHANGED Table
               PROVE  Quiet
    OBVIOUS
  <1>1. UNCHANGED <<row, paid, starting, up, crashes, pending, logged, overtaken>>
    BY DEF LogsNothing, ghostVars, Table
  <1>2. UNCHANGED <<round, streak, lastToAnswer, terminating>> /\ (inStates' => inStates)
    BY DEF TickLastRound, TickMalformedRound, TickStopped, Rescheduled, DoLastRound, DoMalformedRound,
       streakVars, machineVars, Dispatches, Due
  <1>3. Listening' => Listening
    BY <1>2 DEF TickLastRound, TickMalformedRound, TickStopped, Rescheduled, DoLastRound, DoMalformedRound,
       machineVars, Listening, Answerable
  <1> QED BY <1>1, <1>2, <1>3 DEF Quiet

(* The end of the game, announced by a tick or brought about by the stop    *)
(* command.                                                                 *)
LEMMA Ends ==
    TableTypeOK /\ up /\ (TickEndGame \/ StopCommand) /\ LogsEnd /\ UNCHANGED Table => Ended
  <1> SUFFICES ASSUME TableTypeOK, up, TickEndGame \/ StopCommand, LogsEnd, UNCHANGED Table
               PROVE  Ended
    OBVIOUS
  <1>1. terminating' = TRUE /\ round' = round
    BY DEF TickEndGame, DoEndGame, StopCommand
  <1>2. \E n \in Nat : Growing(n, 1) /\ pending'[n + 1] = Delete
    BY QueueGrows DEF LogsEnd
  <1>3. logged' = logged /\ overtaken' = (overtaken \/ starting)
    BY DEF LogsEnd
  <1> QED BY <1>1, <1>2, <1>3 DEF Ended, Listening

(* A message that is counted, or matches nothing.                           *)
LEMMA SilentMessages ==
    ASSUME NEW m, NEW a, MessageMisses(m) \/ InsaneAnswer(m, a), LogsNothing, UNCHANGED Table
    PROVE  Quiet
  BY DEF MessageMisses, InsaneAnswer, LogsNothing, ghostVars, Table, Quiet, gameVars, machineVars,
     streakVars, Listening

(* The last answer of an insane question.                                   *)
LEMMA InsaneCompletes ==
    ASSUME GameInv, TableTypeOK, up, NEW m, NEW a, InsaneComplete(m, a), Logs, UNCHANGED Table
    PROVE  Progressed
  <1>1. /\ inStates /\ ~terminating /\ inStates' /\ ~terminating' /\ Listening
        /\ round' = round \/ round' = round + 1
    BY DEF InsaneComplete, Listening
  <1>2. \E n \in Nat : Growing(n, 1) /\ pending'[n + 1] = Query("update", Progress')
    BY LogsProgress
  <1> QED BY <1>1, <1>2 DEF Progressed, Logs

(* The answer to a normal question.                                         *)
LEMMA NormalAnswers ==
    ASSUME GameInv, TableTypeOK, up, NEW m, NormalAnswer(m), LogsAnswer, UNCHANGED Table
    PROVE  Answered
  <1>1. /\ inStates /\ ~terminating /\ inStates' /\ ~terminating' /\ Listening
        /\ round' = round /\ answer # 0
    BY DEF NormalAnswer, Listening
  <1>2. ~Listening'
    BY DEF NormalAnswer, AcceptAnswer, LogQuestionIndex, Listening, Answerable
  <1>3. round \in 1..Questions
    <2>1. gamestate \in Showing
      BY <1>1 DEF GameInv, OpenInv, Listening, Answerable, Showing
    <2>2. Questions \in Nat /\ round \in Nat /\ round >= 1
      BY GameAssumption DEF GameAssumption, GameInv, TypeOK, numquestions
    <2> QED BY <2>1, <2>2 DEF GameInv, RoundInv
  <1>4. \E n \in Nat : /\ Growing(n, 2) /\ pending'[n + 1] = Pay(round)
                       /\ pending'[n + 2] = Query("update", Progress')
    BY QueueGrows DEF LogsAnswer, Snapshot, Progress
  <1> QED BY <1>1, <1>2, <1>3, <1>4 DEF Answered, LogsAnswer

(* The row's progress becomes the game's.                                   *)
LEMMA Resumes == GameInv /\ TableTypeOK /\ Resume => Resumed
  <1> SUFFICES ASSUME GameInv, TableTypeOK, Resume PROVE Resumed
    OBVIOUS
  <1>1. /\ ~up /\ up' /\ row # NoRow /\ inStates' /\ ~terminating'
        /\ UNCHANGED <<row, paid, starting, crashes>>
        /\ round' = row.round /\ streak' = row.streak /\ lastToAnswer' = row.last
    BY DEF Resume, Rebuilt, tableVars
  <1>2. Progress' = row
    BY <1>1, ProgressKinds DEF TableTypeOK, Progress
  <1>3. Logs \/ LogsNothing
    BY DEF Resume, ResumeNormalRound, ResumeNothing, ResumeInsaneRound
  <1>4. CASE LogsNothing
    BY <1>1, <1>2, <1>4 DEF LogsNothing, ghostVars, Resumed
  <1>5. CASE Logs
    BY <1>1, <1>2, <1>5, LogsProgress DEF Logs, Resumed
  <1> QED BY <1>3, <1>4, <1>5

(* A query is taken from the head of the queue.                             *)
LEMMA BackgroundExecutes == TableTypeOK /\ BackgroundThread => Executes
  <1> SUFFICES ASSUME TableTypeOK, BackgroundThread PROVE Executes
    OBVIOUS
  <1>1. /\ pending \in Seq(Queries) /\ pending # <<>> /\ pending' = Tail(pending)
        /\ Len(pending) \in Nat /\ Len(pending) > 0
    BY DEF TableTypeOK, BackgroundThread
  <1>2. Head(pending) = pending[1]
    BY <1>1
  <1>3. /\ Len(pending) - 1 \in Nat /\ DOMAIN pending = 1..((Len(pending) - 1) + 1)
        /\ DOMAIN pending' = 1..(Len(pending) - 1)
        /\ \A i \in 1..(Len(pending) - 1) : pending'[i] = pending[i + 1]
    BY <1>1
  <1>4. \E n \in Nat :
         /\ DOMAIN pending = 1..(n + 1) /\ DOMAIN pending' = 1..n
         /\ \A i \in 1..n : pending'[i] = pending[i + 1]
    BY <1>3
  <1>5. /\ row' = Executed(pending[1])
        /\ paid' = IF Is(1, "pay") THEN [paid EXCEPT ![pending[1].row.round] = @ + 1] ELSE paid
        /\ up /\ UNCHANGED <<gameVars, logged, overtaken, starting, up, crashes>>
    BY <1>2 DEF BackgroundThread, Is, ghostVars
  <1> QED BY <1>4, <1>5 DEF Executes

(* Every step is of one of these kinds.                                     *)
LEMMA Moves ==
    GameInv /\ TableTypeOK /\ [PersistentNext]_allVars =>
        \/ Quiet \/ Progressed \/ Answered \/ Ended \/ Started \/ Executes
        \/ Crash \/ Resumed \/ NothingToResume
  <1> SUFFICES ASSUME GameInv, TableTypeOK, [PersistentNext]_allVars
               PROVE  \/ Quiet \/ Progressed \/ Answered \/ Ended \/ Started \/ Executes
                      \/ Crash \/ Resumed \/ NothingToResume
    OBVIOUS
  <1>1. CASE GameTicks
    <2>1. up /\ UNCHANGED Table
      BY <1>1 DEF GameTicks, Undisturbed, tableVars, Table
    <2>2. CASE LoggedTick /\ Logs
      BY <2>1, <2>2, LoggedTicks
    <2>3. CASE (TickLastRound \/ TickMalformedRound \/ TickStopped) /\ LogsNothing
      BY <2>1, <2>3, SilentTicks
    <2>4. CASE TickEndGame /\ Room /\ LogsEnd
      BY <2>1, <2>4, Ends
    <2> QED BY <1>1, <2>2, <2>3, <2>4 DEF GameTicks, PersistentTick
  <1>2. CASE TimePasses
    BY <1>2 DEF TimePasses, Undisturbed, tableVars, LogsNothing, ghostVars, Second, machineVars, streakVars,
       Quiet, Listening
  <1>3. CASE SomebodySpeaks
    <2>1. up /\ UNCHANGED Table
      BY <1>3 DEF SomebodySpeaks, Undisturbed, tableVars, Table
    <2>2. ASSUME NEW p \in Players, OnMessage(p), LogsNothing PROVE Quiet
      BY <2>1, <2>2 DEF OnMessage, LogsNothing, ghostVars, Table, Quiet, gameVars, machineVars,
         streakVars, Listening
    <2>3. ASSUME NEW m \in arrived, PersistentMessage(m) PROVE Quiet \/ Progressed \/ Answered
      BY <2>1, <2>3, SilentMessages, InsaneCompletes, NormalAnswers DEF PersistentMessage
    <2> QED BY <1>3, <2>2, <2>3 DEF SomebodySpeaks
  <1>4. CASE SomebodyStops
    <2>1. up /\ UNCHANGED Table /\ StopCommand /\ LogsEnd
      BY <1>4 DEF SomebodyStops, Undisturbed, tableVars, Table
    <2> QED BY <2>1, Ends
  <1>5. CASE SettingsChange
    BY <1>5 DEF SettingsChange, Undisturbed, tableVars, LogsNothing, ghostVars, EditSettings, gameVars,
       machineVars, streakVars, Quiet, Listening
  <1>6. CASE LogStart
    <2>1. \E n \in Nat : Growing(n, 1) /\ pending'[n + 1] = Insert
      BY <1>6, QueueGrows DEF LogStart
    <2> QED BY <1>6, <2>1 DEF LogStart, Started, tableVars, ghostVars
  <1>7. CASE DashboardStopsRow
    BY <1>7 DEF DashboardStopsRow, tableVars, ghostVars, gameVars, machineVars, streakVars, Quiet, Listening
  <1>8. CASE BackgroundThread
    BY <1>8, BackgroundExecutes
  <1>9. CASE Resume
    BY <1>9, Resumes
  <1>10. CASE UNCHANGED allVars
    BY <1>10 DEF allVars, vars, tableVars, ghostVars, gameVars, machineVars, streakVars, Quiet, Listening
  <1> QED BY <1>1, <1>2, <1>3, <1>4, <1>5, <1>6, <1>7, <1>8, <1>9, <1>10 DEF PersistentNext

-----------------------------------------------------------------------------
(* Types *)

(* Only progress, payments, the start and the end are queued.               *)
LEMMA QueueTypes ==
    GameInv /\ GameInv' /\ TableTypeOK /\ [PersistentNext]_allVars => pending' \in Seq(Queries)
  <1> SUFFICES ASSUME GameInv, GameInv', TableTypeOK, [PersistentNext]_allVars
               PROVE  pending' \in Seq(Queries)
    OBVIOUS
  <1>1. pending \in Seq(Queries)
    BY DEF TableTypeOK
  <1>2. Snapshot \in Queries
    <2>1. Row(round', streak', lastToAnswer') \in Progresses
      BY DEF GameInv, TypeOK, StreakHasOwner, Progresses, Row
    <2> QED BY <2>1, QueryKinds DEF Snapshot
  <1>3. CASE Logs
    BY <1>1, <1>2, <1>3, AppendProperties DEF Logs
  <1>4. CASE LogsEnd
    BY <1>1, <1>4, QueryKinds, AppendProperties DEF LogsEnd
  <1>5. CASE LogsNothing
    BY <1>1, <1>5 DEF LogsNothing
  <1>6. ASSUME NEW m, NormalAnswer(m), LogsAnswer PROVE pending' \in Seq(Queries)
    <2>1. answer # 0 /\ Listening
      BY <1>6 DEF NormalAnswer
    <2>2. gamestate \in Showing
      BY <2>1 DEF GameInv, OpenInv, Listening, Answerable, Showing
    <2>3. Questions \in Nat /\ round \in Nat /\ round >= 1
      BY GameAssumption DEF GameAssumption, GameInv, TypeOK, numquestions
    <2>4. round \in 1..Questions
      BY <2>2, <2>3 DEF GameInv, RoundInv
    <2>5. Pay(round) \in Queries
      BY <2>4, QueryKinds
    <2>6. <<Pay(round), Snapshot>> \in Seq(Queries)
      BY <2>5, <1>2
    <2> QED BY <1>1, <1>6, <2>6, ConcatProperties DEF LogsAnswer
  <1>7. CASE GameTicks
    BY <1>3, <1>4, <1>5, <1>7 DEF GameTicks, PersistentTick
  <1>8. CASE TimePasses \/ SettingsChange
    BY <1>5, <1>8 DEF TimePasses, SettingsChange
  <1>9. CASE SomebodySpeaks
    BY <1>3, <1>5, <1>6, <1>9 DEF SomebodySpeaks, PersistentMessage
  <1>10. CASE SomebodyStops
    BY <1>4, <1>10 DEF SomebodyStops
  <1>11. CASE LogStart
    BY <1>1, <1>11, QueryKinds, AppendProperties DEF LogStart
  <1>12. CASE BackgroundThread
    <2>1. pending # <<>> /\ pending' = Tail(pending)
      BY <1>12 DEF BackgroundThread
    <2> QED BY <1>1, <2>1, HeadTailProperties
  <1>13. CASE Crash
    BY <1>13 DEF Crash
  <1>14. CASE Resume
    BY <1>3, <1>5, <1>14 DEF Resume, ResumeNormalRound, ResumeNothing, ResumeInsaneRound
  <1>15. CASE DashboardStopsRow \/ NothingToResume \/ UNCHANGED allVars
    BY <1>1, <1>15 DEF DashboardStopsRow, NothingToResume, allVars
  <1> QED BY <1>7, <1>8, <1>9, <1>10, <1>11, <1>12, <1>13, <1>14, <1>15 DEF PersistentNext

(* What executing the first query does to the row and to the points.        *)
LEMMA Execution ==
    TableTypeOK /\ Executes =>
        /\ pending[1] \in Queries
        /\ row' = row \/ row' \in Progresses \cup {NoRow}
        /\ Is(1, "insert") => row' = (IF row = NoRow THEN NewRow ELSE row) /\ paid' = paid
        /\ Is(1, "update") => row' = (IF row = NoRow THEN row ELSE pending[1].row) /\ paid' = paid
        /\ Is(1, "delete") => row' = NoRow /\ paid' = paid
        /\ Is(1, "pay") =>
             row' = row /\ paid' = [paid EXCEPT ![pending[1].row.round] = @ + 1]
  <1> SUFFICES ASSUME TableTypeOK, Executes
               PROVE  /\ pending[1] \in Queries
                      /\ row' = row \/ row' \in Progresses \cup {NoRow}
                      /\ Is(1, "insert") => row' = (IF row = NoRow THEN NewRow ELSE row) /\ paid' = paid
                      /\ Is(1, "update") => row' = (IF row = NoRow THEN row ELSE pending[1].row) /\ paid' = paid
                      /\ Is(1, "delete") => row' = NoRow /\ paid' = paid
                      /\ Is(1, "pay") =>
                           row' = row /\ paid' = [paid EXCEPT ![pending[1].row.round] = @ + 1]
    OBVIOUS
  <1>1. pending[1] \in Queries
    <2>1. PICK n \in Nat : DOMAIN pending = 1..(n + 1)
      BY DEF Executes
    <2>2. 1 \in DOMAIN pending /\ pending \in Seq(Queries)
      BY <2>1 DEF TableTypeOK
    <2> QED BY <2>2
  <1> DEFINE q == pending[1]
  <1>2. /\ q.op \in {"insert", "delete", "pay", "update"}
        /\ q.op = "insert" => q.row = NewRow
        /\ q.op = "update" => q.row \in Progresses
    BY <1>1, QueryKinds
  <1>3. row' = Executed(q) /\ paid' = IF q.op = "pay" THEN [paid EXCEPT ![q.row.round] = @ + 1] ELSE paid
    BY DEF Executes, Is
  <1> HIDE DEF q
  <1>4. /\ q.op = "insert" => row' = (IF row = NoRow THEN NewRow ELSE row) /\ paid' = paid
        /\ q.op = "update" => row' = (IF row = NoRow THEN row ELSE q.row) /\ paid' = paid
        /\ q.op = "delete" => row' = NoRow /\ paid' = paid
        /\ q.op = "pay" => row' = row /\ paid' = [paid EXCEPT ![q.row.round] = @ + 1]
    BY <1>2, <1>3 DEF Executed
  <1>5. row' = row \/ row' \in Progresses \cup {NoRow}
    BY <1>2, <1>4, ProgressKinds
  <1> QED BY <1>1, <1>4, <1>5 DEF q, Is

(* The types of the row, of the points and of the flags.                    *)
LEMMA TableTypes ==
    GameInv /\ GameInv' /\ TableTypeOK /\ [PersistentNext]_allVars => TableTypeOK'
  <1> SUFFICES ASSUME GameInv, GameInv', TableTypeOK, [PersistentNext]_allVars
               PROVE  TableTypeOK'
    OBVIOUS
  <1>1. pending' \in Seq(Queries)
    BY QueueTypes
  <1>2. row' \in Progresses \cup {NoRow} /\ paid' \in [1..Questions -> Nat]
    <2>1. CASE Executes
      <3>1. row' \in Progresses \cup {NoRow}
        BY <2>1, Execution DEF TableTypeOK
      <3>2. CASE Is(1, "pay")
        <4>1. pending[1].row.round \in 1..Questions
          BY <2>1, <3>2, Execution, QueryKinds DEF Is
        <4>2. paid' = [paid EXCEPT ![pending[1].row.round] = @ + 1] /\ paid \in [1..Questions -> Nat]
          BY <2>1, <3>2, Execution DEF TableTypeOK
        <4> QED BY <3>1, <4>1, <4>2
      <3>3. CASE ~Is(1, "pay")
        <4>1. paid' = paid
          BY <2>1, <3>3 DEF Executes
        <4> QED BY <3>1, <4>1 DEF TableTypeOK
      <3> QED BY <3>2, <3>3
    <2>2. CASE ~Executes
      <3>1. UNCHANGED <<row, paid>>
        BY <2>2, Moves DEF Quiet, Progressed, Answered, Ended, Started, Crash, Resumed, NothingToResume,
           Table, tableVars
      <3> QED BY <3>1 DEF TableTypeOK
    <2> QED BY <2>1, <2>2
  <1>3. {up', starting', logged', overtaken'} \subseteq BOOLEAN /\ crashes' \in 0..MaxCrashes
    <2>1. up \in BOOLEAN /\ starting \in BOOLEAN /\ logged \in BOOLEAN /\ overtaken \in BOOLEAN
          /\ crashes \in 0..MaxCrashes /\ MaxCrashes \in Nat
      BY PersistenceAssumption DEF TableTypeOK, PersistenceAssumption
    <2> USE <2>1
    <2>2. CASE Quiet
      BY <2>2 DEF Quiet
    <2>3. CASE Progressed
      BY <2>3 DEF Progressed, Table
    <2>4. CASE Answered
      BY <2>4 DEF Answered, Table
    <2>5. CASE Ended
      BY <2>5 DEF Ended, Table
    <2>6. CASE Started
      BY <2>6 DEF Started
    <2>7. CASE Executes
      BY <2>7 DEF Executes
    <2>8. CASE Crash
      <3>1. up' = FALSE /\ starting' = FALSE /\ logged' = logged /\ overtaken' = overtaken
        BY <2>8 DEF Crash, ghostVars
      <3>2. crashes' = crashes + 1 /\ crashes < MaxCrashes
        BY <2>8 DEF Crash
      <3>3. crashes' \in 0..MaxCrashes
        BY <3>2
      <3> QED BY <3>1, <3>3
    <2>9. CASE Resumed
      BY <2>9 DEF Resumed
    <2>10. CASE NothingToResume
      BY <2>10 DEF NothingToResume, ghostVars
    <2> QED BY Moves, <2>2, <2>3, <2>4, <2>5, <2>6, <2>7, <2>8, <2>9, <2>10
  <1> QED BY <1>1, <1>2, <1>3 DEF TableTypeOK

-----------------------------------------------------------------------------
(* The row follows the game *)

(* Rounds are numbers, and each query is of one kind.                       *)
LEMMA QueueFacts ==
    GameInv /\ TableTypeOK =>
        /\ Questions \in Nat /\ round \in Nat /\ round >= 1 /\ row.round \in Nat
        /\ row # NoRow => row.round >= 1
        /\ row = NoRow => row.round = 0
        /\ \A i \in DOMAIN pending :
             /\ Is(i, "insert") \/ Is(i, "update") \/ Is(i, "delete") \/ Is(i, "pay")
             /\ Is(i, "insert") => pending[i].row = NewRow /\ pending[i].row.round = 1
             /\ Is(i, "update") => /\ pending[i].row \in Progresses
                                   /\ pending[i].row.round \in Nat /\ pending[i].row.round >= 1
             /\ Is(i, "pay") => pending[i].row.round \in 1..Questions
  <1> SUFFICES ASSUME GameInv, TableTypeOK
               PROVE  /\ Questions \in Nat /\ round \in Nat /\ round >= 1 /\ row.round \in Nat
                      /\ row # NoRow => row.round >= 1
                      /\ row = NoRow => row.round = 0
                      /\ \A i \in DOMAIN pending :
                           /\ Is(i, "insert") \/ Is(i, "update") \/ Is(i, "delete") \/ Is(i, "pay")
                           /\ Is(i, "insert") => pending[i].row = NewRow /\ pending[i].row.round = 1
                           /\ Is(i, "update") => /\ pending[i].row \in Progresses
                                                 /\ pending[i].row.round \in Nat /\ pending[i].row.round >= 1
                           /\ Is(i, "pay") => pending[i].row.round \in 1..Questions
    OBVIOUS
  <1>1. Questions \in Nat /\ round \in Nat /\ round >= 1
    BY GameAssumption DEF GameAssumption, GameInv, TypeOK, numquestions
  <1>2. /\ row.round \in Nat /\ (row # NoRow => row.round >= 1) /\ (row = NoRow => row.round = 0)
    BY ProgressKinds DEF TableTypeOK
  <1>3. ASSUME NEW i \in DOMAIN pending
        PROVE  /\ Is(i, "insert") \/ Is(i, "update") \/ Is(i, "delete") \/ Is(i, "pay")
               /\ Is(i, "insert") => pending[i].row = NewRow /\ pending[i].row.round = 1
               /\ Is(i, "update") => /\ pending[i].row \in Progresses
                                     /\ pending[i].row.round \in Nat /\ pending[i].row.round >= 1
               /\ Is(i, "pay") => pending[i].row.round \in 1..Questions
    <2>1. pending[i] \in Queries
      BY DEF TableTypeOK
    <2> QED BY <2>1, QueryKinds, ProgressKinds DEF Is
  <1> QED BY <1>1, <1>2, <1>3

(* The queries that stay in a queue that grows.                             *)
LEMMA OldStay ==
    ASSUME NEW n \in Nat, NEW k \in Nat, Growing(n, k)
    PROVE  /\ DOMAIN pending = 1..n /\ DOMAIN pending' = 1..(n + k)
           /\ \A i \in 1..n : /\ i \in 1..(n + k) /\ pending'[i] = pending[i]
                              /\ \A op : Is(i, op)' <=> Is(i, op)
  BY DEF Growing, Is

(* An empty queue that grows by one has one.                                *)
LEMMA OnlyOne ==
    ASSUME pending = <<>>, NEW n \in Nat, Growing(n, 1)
    PROVE  \A i \in DOMAIN pending' : i = n + 1
  <1>1. DOMAIN pending = {}
    OBVIOUS
  <1>2. 1..n = {} /\ DOMAIN pending' = 1..(n + 1)
    BY <1>1, OldStay
  <1>3. \A i \in 1..(n + 1) : i = n + 1 \/ i \in 1..n
    OBVIOUS
  <1> QED BY <1>2, <1>3

(* The query that progress is logged with.                                  *)
LEMMA NewUpdate ==
    ASSUME GameInv', NEW k \in Nat, pending'[k] = Query("update", Progress')
    PROVE  /\ Is(k, "update")' /\ ~Is(k, "insert")' /\ ~Is(k, "delete")' /\ ~Is(k, "pay")'
           /\ pending'[k].row = Progress' /\ pending'[k].row.round = round'
  <1>1. Progress' \in Progresses /\ Progress'.round = round'
    BY ProgressKinds DEF GameInv, TypeOK, StreakHasOwner, Progresses, Row, Progress
  <1>2. pending'[k].op = "update" /\ pending'[k].row = Progress'
    BY <1>1, QueryKinds
  <1> QED BY <1>1, <1>2 DEF Is

(* A dead process has nothing, and a game under way has not ended.          *)
LEMMA LifeStep ==
    GameInv /\ GameInv' /\ TableTypeOK /\ LifeInv /\ [PersistentNext]_allVars => LifeInv'
  <1> SUFFICES ASSUME GameInv, GameInv', TableTypeOK, LifeInv, [PersistentNext]_allVars PROVE LifeInv'
    OBVIOUS
  <1>1. CASE Quiet
    BY <1>1 DEF Quiet, LifeInv, Inserting, Is
  <1>2. CASE Progressed
    <2>1. PICK n \in Nat : Growing(n, 1) /\ pending'[n + 1] = Query("update", Progress')
      BY <1>2 DEF Progressed
    <2>2. ~Is(n + 1, "delete")'
      BY <2>1, NewUpdate
    <2>3. \A i \in DOMAIN pending' : i \in DOMAIN pending \/ i = n + 1
      BY <2>1, OldStay
    <2>4. \A i \in DOMAIN pending : i \in DOMAIN pending' /\ \A op : Is(i, op)' <=> Is(i, op)
      BY <2>1, OldStay
    <2>5. inStates' /\ ~terminating' => ~ \E i \in DOMAIN pending' : Is(i, "delete")'
      BY <1>2, <2>2, <2>3, <2>4 DEF Progressed, LifeInv
    <2>6. Inserting => Inserting'
      BY <2>4 DEF Inserting
    <2> QED BY <1>2, <2>5, <2>6 DEF Progressed, LifeInv, Table
  <1>3. CASE Answered
    <2>1. PICK n \in Nat : /\ Growing(n, 2) /\ pending'[n + 1] = Pay(round)
                           /\ pending'[n + 2] = Query("update", Progress')
      BY <1>3 DEF Answered
    <2>2. ~Is(n + 2, "delete")' /\ ~Is(n + 1, "delete")'
      BY <1>3, <2>1, NewUpdate, QueryKinds DEF Answered, Is
    <2>3. \A i \in DOMAIN pending' : i \in DOMAIN pending \/ i = n + 1 \/ i = n + 2
      <3>1. DOMAIN pending = 1..n /\ DOMAIN pending' = 1..(n + 2)
        BY <2>1, OldStay
      <3>2. \A i \in 1..(n + 2) : i \in 1..n \/ i = n + 1 \/ i = n + 2
        OBVIOUS
      <3> QED BY <3>1, <3>2
    <2>4. \A i \in DOMAIN pending : i \in DOMAIN pending' /\ \A op : Is(i, op)' <=> Is(i, op)
      BY <2>1, OldStay
    <2>5. inStates' /\ ~terminating' => ~ \E i \in DOMAIN pending' : Is(i, "delete")'
      BY <1>3, <2>2, <2>3, <2>4 DEF Answered, LifeInv
    <2>6. Inserting => Inserting'
      BY <2>4 DEF Inserting
    <2> QED BY <1>3, <2>5, <2>6 DEF Answered, LifeInv, Table
  <1>4. CASE Ended
    BY <1>4 DEF Ended, LifeInv, Table
  <1>5. CASE Started
    <2>1. PICK n \in Nat : Growing(n, 1) /\ pending'[n + 1] = Insert
      BY <1>5 DEF Started
    <2>2. Is(n + 1, "insert")' /\ ~Is(n + 1, "delete")' /\ n + 1 \in DOMAIN pending'
      BY <2>1, QueryKinds, OldStay DEF Is
    <2>3. \A i \in DOMAIN pending' : i \in DOMAIN pending \/ i = n + 1
      BY <2>1, OldStay
    <2>4. \A i \in DOMAIN pending : i \in DOMAIN pending' /\ \A op : Is(i, op)' <=> Is(i, op)
      BY <2>1, OldStay
    <2>5. UNCHANGED <<inStates, terminating>>
      BY <1>5 DEF Started, vars, gameVars, machineVars
    <2>6. inStates' /\ ~terminating' => ~ \E i \in DOMAIN pending' : Is(i, "delete")'
      BY <2>2, <2>3, <2>4, <2>5 DEF LifeInv
    <2>7. Inserting'
      BY <2>2 DEF Inserting
    <2> QED BY <1>5, <2>5, <2>6, <2>7 DEF Started, LifeInv
  <1>6. CASE Executes
    <2>1. PICK n \in Nat : /\ DOMAIN pending = 1..(n + 1) /\ DOMAIN pending' = 1..n
                           /\ \A i \in 1..n : pending'[i] = pending[i + 1]
      BY <1>6 DEF Executes
    <2>2. /\ \A i \in DOMAIN pending' : /\ i + 1 \in DOMAIN pending
                                        /\ \A op : Is(i, op)' <=> Is(i + 1, op)
          /\ \A i \in DOMAIN pending : i = 1 \/ (i - 1 \in DOMAIN pending' /\ (i - 1) + 1 = i)
          /\ 1 \in DOMAIN pending
      BY <2>1 DEF Is
    <2>3. UNCHANGED <<inStates, terminating>> /\ up' /\ starting' = starting /\ logged' = logged
      BY <1>6 DEF Executes, gameVars, machineVars
    <2>4. inStates' /\ ~terminating' => ~ \E i \in DOMAIN pending' : Is(i, "delete")'
      BY <2>2, <2>3 DEF LifeInv
    <2>5. ASSUME inStates', ~terminating', ~starting' PROVE row' # NoRow \/ Inserting'
      <3>1. row # NoRow \/ Inserting
        BY <2>3, <2>5 DEF LifeInv
      <3>2. ~Is(1, "delete")
        BY <2>2, <2>3, <2>5 DEF LifeInv
      <3>3. Is(1, "insert") \/ Is(1, "update") \/ Is(1, "pay")
        BY <2>2, <3>2, QueueFacts
      <3>4. CASE row # NoRow
        <4>1. CASE Is(1, "insert")
          BY <1>6, <3>4, <4>1, Execution
        <4>2. CASE Is(1, "update")
          BY <1>6, <2>2, <3>4, <4>2, Execution, QueueFacts, ProgressKinds
        <4>3. CASE Is(1, "pay")
          BY <1>6, <3>4, <4>3, Execution
        <4> QED BY <3>3, <4>1, <4>2, <4>3
      <3>5. CASE row = NoRow
        <4>1. PICK i \in DOMAIN pending : Is(i, "insert")
          BY <3>1, <3>5 DEF Inserting
        <4>2. CASE i = 1
          BY <1>6, <3>5, <4>1, <4>2, Execution, ProgressKinds
        <4>3. CASE i # 1
          BY <2>2, <4>1, <4>3 DEF Inserting
        <4> QED BY <4>2, <4>3
      <3> QED BY <3>4, <3>5
    <2> QED BY <2>3, <2>4, <2>5 DEF LifeInv
  <1>7. CASE Crash
    BY <1>7 DEF Crash, LifeInv, ghostVars
  <1>8. CASE Resumed
    <2>1. pending = <<>> /\ starting = FALSE
      BY <1>8 DEF Resumed, LifeInv, TableTypeOK
    <2>2. ~ \E i \in DOMAIN pending' : Is(i, "delete")'
      <3>1. CASE pending' = pending
        BY <2>1, <3>1
      <3>2. CASE pending' # pending
        <4>1. PICK n \in Nat : Growing(n, 1) /\ pending'[n + 1] = Query("update", Progress')
          BY <1>8, <3>2 DEF Resumed
        <4>2. \A i \in DOMAIN pending' : i = n + 1
          BY <2>1, <4>1, OnlyOne
        <4> QED BY <4>1, <4>2, NewUpdate
      <3> QED BY <3>1, <3>2
    <2> QED BY <1>8, <2>1, <2>2 DEF Resumed, LifeInv
  <1>9. CASE NothingToResume
    BY <1>9 DEF NothingToResume, LifeInv, ghostVars, vars, gameVars
  <1> QED BY Moves, <1>1, <1>2, <1>3, <1>4, <1>5, <1>6, <1>7, <1>8, <1>9

(* The progress is in the row, or in the last update.                       *)
LEMMA ProgressStep ==
    GameInv /\ GameInv' /\ TableTypeOK /\ LifeInv /\ ProgressComes /\ [PersistentNext]_allVars
        => ProgressComes'
  <1> SUFFICES ASSUME GameInv, GameInv', TableTypeOK, LifeInv, ProgressComes, [PersistentNext]_allVars,
                      inStates', logged', ~terminating'
               PROVE  \/ row' = Progress' /\ ~Updating'
                      \/ \E i \in DOMAIN pending' :
                             /\ Is(i, "update")' /\ pending'[i].row = Progress'
                             /\ \A j \in DOMAIN pending' : j > i => ~Is(j, "update")'
                             /\ row' # NoRow \/ \E j \in 1..(i - 1) : Is(j, "insert")'
    BY DEF ProgressComes
  <1> DEFINE Comes ==
                 \/ row' = Progress' /\ ~Updating'
                 \/ \E i \in DOMAIN pending' :
                        /\ Is(i, "update")' /\ pending'[i].row = Progress'
                        /\ \A j \in DOMAIN pending' : j > i => ~Is(j, "update")'
                        /\ row' # NoRow \/ \E j \in 1..(i - 1) : Is(j, "insert")'
  (* A last update that is the game's progress, and comes after the start. *)
  <1>0. ASSUME NEW n \in Nat, NEW k \in Nat \ {0}, Growing(n, k),
               pending'[n + k] = Query("update", Progress'),
               row' # NoRow \/ Inserting
        PROVE  Comes
    <2>1. /\ n + k \in DOMAIN pending' /\ \A j \in DOMAIN pending' : ~(j > n + k)
          /\ \A j \in DOMAIN pending : j \in 1..((n + k) - 1)
          /\ \A j \in DOMAIN pending : \A op : Is(j, op)' <=> Is(j, op)
      <3>1. /\ DOMAIN pending = 1..n /\ DOMAIN pending' = 1..(n + k)
            /\ \A j \in 1..n : \A op : Is(j, op)' <=> Is(j, op)
        BY <1>0, OldStay
      <3>2. n + k \in 1..(n + k) /\ \A j \in 1..(n + k) : ~(j > n + k)
        OBVIOUS
      <3>3. \A j \in 1..n : j \in 1..((n + k) - 1)
        OBVIOUS
      <3> QED BY <3>1, <3>2, <3>3
    <2>2. Is(n + k, "update")' /\ pending'[n + k].row = Progress'
      BY <1>0, NewUpdate
    <2>3. row' # NoRow \/ \E j \in 1..((n + k) - 1) : Is(j, "insert")'
      BY <1>0, <2>1 DEF Inserting
    <2> QED BY <2>1, <2>2, <2>3
  <1>1. CASE Quiet
    <2>1. inStates /\ logged /\ ~terminating
      BY <1>1 DEF Quiet
    <2>2. UNCHANGED <<row, pending, Progress>>
      BY <1>1 DEF Quiet, Progress
    <2> QED BY <2>1, <2>2 DEF ProgressComes, Updating, Is
  <1>2. CASE Progressed
    <2>1. row' # NoRow \/ Inserting
      BY <1>2 DEF Progressed, LifeInv, Table
    <2>2. PICK n \in Nat : Growing(n, 1) /\ pending'[n + 1] = Query("update", Progress')
      BY <1>2 DEF Progressed
    <2> QED BY <1>0, <2>1, <2>2
  <1>3. CASE Answered
    <2>1. row' # NoRow \/ Inserting
      BY <1>3 DEF Answered, LifeInv, Table
    <2>2. PICK n \in Nat : Growing(n, 2) /\ pending'[n + 2] = Query("update", Progress')
      BY <1>3 DEF Answered
    <2> QED BY <1>0, <2>1, <2>2
  <1>4. CASE Ended \/ Started \/ Crash \/ NothingToResume
    BY <1>4 DEF Ended, Started, Crash, NothingToResume, LifeInv, ghostVars, vars, gameVars
  <1>5. CASE Executes
    <2>1. PICK n \in Nat : /\ DOMAIN pending = 1..(n + 1) /\ DOMAIN pending' = 1..n
                           /\ \A i \in 1..n : pending'[i] = pending[i + 1]
      BY <1>5 DEF Executes
    <2>2. /\ \A i \in DOMAIN pending' : /\ i + 1 \in DOMAIN pending /\ pending'[i] = pending[i + 1]
                                        /\ \A op : Is(i, op)' <=> Is(i + 1, op)
          /\ \A i \in DOMAIN pending : i = 1 \/ (i - 1 \in DOMAIN pending' /\ (i - 1) + 1 = i)
          /\ 1 \in DOMAIN pending
      BY <2>1 DEF Is
    <2>3. /\ UNCHANGED <<inStates, terminating, logged, Progress>>
          /\ inStates /\ ~terminating /\ logged
      BY <1>5 DEF Executes, gameVars, machineVars, streakVars, Progress
    <2>4. ~Is(1, "delete") /\ Progress \in Progresses
      BY <2>2, <2>3, GameProgress DEF LifeInv, Progress
    <2>5. row # NoRow => row' # NoRow
      BY <1>5, <2>2, <2>4, Execution, QueueFacts, ProgressKinds
    <2>6. CASE row = Progress /\ ~Updating
      <3>1. ~Is(1, "update") /\ ~Updating'
        BY <2>2, <2>6 DEF Updating
      <3>2. row' = row
        BY <1>5, <2>2, <2>4, <2>6, <3>1, Execution, QueueFacts, ProgressKinds
      <3> QED BY <2>3, <2>6, <3>1, <3>2
    <2>7. ASSUME NEW i \in DOMAIN pending, Is(i, "update"), pending[i].row = Progress,
                 \A j \in DOMAIN pending : j > i => ~Is(j, "update"),
                 row # NoRow \/ \E j \in 1..(i - 1) : Is(j, "insert")
          PROVE  Comes
      <3>1. CASE i = 1
        <4>1. row # NoRow
          BY <2>7, <3>1
        <4>2. row' = Progress
          BY <1>5, <2>7, <3>1, <4>1, Execution
        <4>3. ~Updating'
          <5>1. ASSUME NEW j \in DOMAIN pending', Is(j, "update")' PROVE FALSE
            <6>1. j \in 1..n /\ j + 1 > 1
              BY <2>1
            <6> QED BY <2>2, <2>7, <3>1, <5>1, <6>1
          <5> QED BY <5>1 DEF Updating
        <4> QED BY <2>3, <4>2, <4>3
      <3>2. CASE i # 1
        <4>1. i \in 1..(n + 1) /\ i - 1 \in 1..n /\ (i - 1) + 1 = i
          BY <2>1, <3>2
        <4>2. Is(i - 1, "update")' /\ pending'[i - 1].row = Progress'
          BY <2>1, <2>2, <2>3, <2>7, <4>1
        <4>3. ASSUME NEW j \in DOMAIN pending', j > i - 1 PROVE ~Is(j, "update")'
          <5>1. j + 1 > i /\ j + 1 \in DOMAIN pending
            BY <2>1, <4>1, <4>3
          <5> QED BY <2>2, <2>7, <5>1
        <4>4. row' # NoRow \/ \E j \in 1..((i - 1) - 1) : Is(j, "insert")'
          <5>1. CASE row # NoRow
            BY <2>5, <5>1
          <5>2. ASSUME NEW j \in 1..(i - 1), Is(j, "insert"), row = NoRow
                PROVE  row' # NoRow \/ \E k \in 1..((i - 1) - 1) : Is(k, "insert")'
            <6>1. CASE j = 1
              BY <1>5, <5>2, <6>1, Execution, ProgressKinds
            <6>2. CASE j # 1
              <7>1. j \in 1..(n + 1) /\ j - 1 \in 1..((i - 1) - 1)
                BY <4>1, <6>2
              <7> QED BY <2>1, <2>2, <5>2, <6>2, <7>1
            <6> QED BY <6>1, <6>2
          <5> QED BY <2>7, <5>1, <5>2
        <4> QED BY <2>1, <4>1, <4>2, <4>3, <4>4
      <3> QED BY <3>1, <3>2
    <2> QED BY <2>3, <2>6, <2>7 DEF ProgressComes
  <1>6. CASE Resumed
    <2>1. pending = <<>> /\ row' # NoRow /\ row' = Progress'
      BY <1>6 DEF Resumed, LifeInv
    <2>2. CASE pending' = pending
      BY <2>1, <2>2 DEF Updating
    <2>3. CASE pending' # pending
      <3>1. PICK n \in Nat : Growing(n, 1) /\ pending'[n + 1] = Query("update", Progress')
        BY <1>6, <2>3 DEF Resumed
      <3> QED BY <1>0, <2>1, <3>1
    <2> QED BY <2>2, <2>3
  <1> QED BY Moves, <1>1, <1>2, <1>3, <1>4, <1>5, <1>6

(* What is queued and where it is executed, for the steps that append.      *)
LEMMA RoundsStep ==
    GameInv /\ GameInv' /\ TableTypeOK /\ LifeInv /\ RoundsRise /\ [PersistentNext]_allVars
        => RoundsRise'
  <1> SUFFICES ASSUME GameInv, GameInv', TableTypeOK, LifeInv, RoundsRise, [PersistentNext]_allVars
               PROVE  RoundsRise'
    OBVIOUS
  <1>0. /\ round \in Nat /\ round >= 1 /\ row.round \in Nat /\ row.round <= round
        /\ \A i \in DOMAIN pending : Is(i, "update") =>
               /\ pending[i].row.round \in Nat
               /\ row.round <= pending[i].row.round /\ pending[i].row.round <= round
               /\ \A j \in DOMAIN pending : i < j /\ Is(j, "update") =>
                      pending[i].row.round <= pending[j].row.round
    BY QueueFacts DEF RoundsRise
  (* A last update that is the game's progress. *)
  <1>1. ASSUME NEW n \in Nat, NEW k \in Nat \ {0}, Growing(n, k), row' = row,
               round' = round \/ round' = round + 1,
               pending'[n + k] = Query("update", Progress'),
               \A i \in DOMAIN pending' : Is(i, "update")' => i \in DOMAIN pending \/ i = n + k
        PROVE  RoundsRise'
    <2>1. /\ DOMAIN pending = 1..n /\ n + k \in DOMAIN pending'
          /\ pending'[n + k].row.round = round'
          /\ \A i \in DOMAIN pending : /\ pending'[i] = pending[i] /\ i < n + k
                                       /\ Is(i, "update")' <=> Is(i, "update")
      BY <1>1, OldStay, NewUpdate
    <2>2. round' \in Nat /\ round <= round' /\ row'.round <= round'
      BY <1>0, <1>1
    <2>3. ASSUME NEW i \in DOMAIN pending', Is(i, "update")'
          PROVE  row'.round <= pending'[i].row.round /\ pending'[i].row.round <= round'
      <3>1. CASE i \in DOMAIN pending
        BY <1>0, <1>1, <2>1, <2>2, <2>3, <3>1
      <3>2. CASE i = n + k
        BY <2>1, <2>2, <3>2
      <3> QED BY <1>1, <2>3, <3>1, <3>2
    <2>4. ASSUME NEW i \in DOMAIN pending', Is(i, "update")',
                 NEW j \in DOMAIN pending', i < j, Is(j, "update")'
          PROVE  pending'[i].row.round <= pending'[j].row.round
      <3>1. CASE j = n + k
        BY <2>1, <2>3, <2>4, <3>1
      <3>2. CASE j \in DOMAIN pending
        <4>1. i \in DOMAIN pending
          BY <1>1, <2>1, <2>4, <3>2
        <4> QED BY <1>0, <2>1, <2>4, <3>2, <4>1
      <3> QED BY <1>1, <2>4, <3>1, <3>2
    <2> QED BY <2>2, <2>3, <2>4 DEF RoundsRise
  (* A last query that is no update. *)
  <1>2. ASSUME NEW n \in Nat, Growing(n, 1), row' = row, round' = round, ~Is(n + 1, "update")'
        PROVE  RoundsRise'
    <2>1. /\ \A i \in DOMAIN pending' : Is(i, "update")' => i \in DOMAIN pending
          /\ \A i \in DOMAIN pending : /\ pending'[i] = pending[i]
                                       /\ Is(i, "update")' <=> Is(i, "update")
      BY <1>2, OldStay
    <2> QED BY <1>0, <1>2, <2>1 DEF RoundsRise
  <1>3. CASE Quiet
    BY <1>0, <1>3 DEF Quiet, RoundsRise, Is
  <1>4. CASE Progressed
    <2>1. PICK n \in Nat : Growing(n, 1) /\ pending'[n + 1] = Query("update", Progress')
      BY <1>4 DEF Progressed
    <2>2. \A i \in DOMAIN pending' : i \in DOMAIN pending \/ i = n + 1
      BY <2>1, OldStay
    <2> QED BY <1>1, <1>4, <2>1, <2>2 DEF Progressed, Table
  <1>5. CASE Answered
    <2>1. PICK n \in Nat : /\ Growing(n, 2) /\ pending'[n + 1] = Pay(round)
                           /\ pending'[n + 2] = Query("update", Progress')
      BY <1>5 DEF Answered
    <2>2. ~Is(n + 1, "update")'
      BY <1>5, <2>1, QueryKinds DEF Is, Answered
    <2>3. \A i \in DOMAIN pending' : i \in DOMAIN pending \/ i = n + 1 \/ i = n + 2
      <3>1. DOMAIN pending = 1..n /\ DOMAIN pending' = 1..(n + 2)
        BY <2>1, OldStay
      <3>2. \A i \in 1..(n + 2) : i \in 1..n \/ i = n + 1 \/ i = n + 2
        OBVIOUS
      <3> QED BY <3>1, <3>2
    <2> QED BY <1>1, <1>5, <2>1, <2>2, <2>3 DEF Answered, Table
  <1>6. CASE Ended
    <2>1. PICK n \in Nat : Growing(n, 1) /\ pending'[n + 1] = Delete
      BY <1>6 DEF Ended
    <2>2. ~Is(n + 1, "update")'
      BY <2>1, QueryKinds DEF Is
    <2> QED BY <1>2, <1>6, <2>1, <2>2 DEF Ended, Table
  <1>7. CASE Started
    <2>1. PICK n \in Nat : Growing(n, 1) /\ pending'[n + 1] = Insert
      BY <1>7 DEF Started
    <2>2. ~Is(n + 1, "update")'
      BY <2>1, QueryKinds DEF Is
    <2>3. row' = row /\ round' = round
      BY <1>7 DEF Started, vars, gameVars, machineVars
    <2> QED BY <1>2, <2>1, <2>2, <2>3
  <1>8. CASE Executes
    <2>1. PICK n \in Nat : /\ DOMAIN pending = 1..(n + 1) /\ DOMAIN pending' = 1..n
                           /\ \A i \in 1..n : pending'[i] = pending[i + 1]
      BY <1>8 DEF Executes
    <2>2. /\ \A i \in DOMAIN pending' : /\ i + 1 \in DOMAIN pending /\ pending'[i] = pending[i + 1]
                                        /\ 1 < i + 1
                                        /\ Is(i, "update")' <=> Is(i + 1, "update")
          /\ \A i, j \in DOMAIN pending' : i < j => i + 1 < j + 1
          /\ 1 \in DOMAIN pending
      BY <2>1 DEF Is
    <2>3. round' = round
      BY <1>8 DEF Executes, gameVars, machineVars
    <2>4. /\ row'.round \in Nat /\ row'.round <= round
          /\ \A i \in DOMAIN pending : 1 < i /\ Is(i, "update") => row'.round <= pending[i].row.round
      <3>1. CASE row' = row
        BY <1>0, <3>1
      <3>2. CASE Is(1, "insert") /\ row' = NewRow
        BY <1>0, <3>2, QueueFacts, ProgressKinds
      <3>3. CASE Is(1, "update") /\ row' = pending[1].row
        BY <1>0, <2>2, <3>3
      <3>4. CASE Is(1, "delete") /\ row' = NoRow
        BY <1>0, <3>4, ProgressKinds
      <3> QED BY <1>8, <2>2, <3>1, <3>2, <3>3, <3>4, Execution, QueueFacts
    <2>5. ASSUME NEW i \in DOMAIN pending', Is(i, "update")'
          PROVE  row'.round <= pending'[i].row.round /\ pending'[i].row.round <= round'
      BY <1>0, <2>2, <2>3, <2>4, <2>5
    <2>6. ASSUME NEW i \in DOMAIN pending', Is(i, "update")',
                 NEW j \in DOMAIN pending', i < j, Is(j, "update")'
          PROVE  pending'[i].row.round <= pending'[j].row.round
      BY <1>0, <2>2, <2>6
    <2> QED BY <2>3, <2>4, <2>5, <2>6 DEF RoundsRise
  <1>9. CASE Crash
    <2>1. row' = row /\ round' = round /\ pending' = <<>>
      BY <1>9 DEF Crash, tableVars, machineVars
    <2> QED BY <1>0, <2>1 DEF RoundsRise
  <1>10. CASE Resumed
    <2>1. pending = <<>> /\ row' = row /\ round' = row.round /\ row' = Progress'
      BY <1>10 DEF Resumed, LifeInv
    <2>2. CASE pending' = pending
      BY <1>0, <2>1, <2>2 DEF RoundsRise
    <2>3. CASE pending' # pending
      <3>1. PICK n \in Nat : Growing(n, 1) /\ pending'[n + 1] = Query("update", Progress')
        BY <1>10, <2>3 DEF Resumed
      <3>2. \A i \in DOMAIN pending' : i = n + 1
        BY <2>1, <3>1, OnlyOne
      <3>3. pending'[n + 1].row.round = round'
        BY <3>1, NewUpdate
      <3> QED BY <1>0, <2>1, <3>2, <3>3 DEF RoundsRise
    <2> QED BY <2>2, <2>3
  <1>11. CASE NothingToResume
    <2>1. UNCHANGED <<row, round, pending>>
      BY <1>11 DEF NothingToResume, tableVars, vars, gameVars, machineVars
    <2> QED BY <1>0, <2>1 DEF RoundsRise, Is
  <1> QED BY Moves, <1>3, <1>4, <1>5, <1>6, <1>7, <1>8, <1>9, <1>10, <1>11

-----------------------------------------------------------------------------
(* The points follow the row, unless the start was overtaken *)

(* Before the start is logged, and before it is executed, the game is in    *)
(* its first round.                                                         *)
LEMMA StartStep ==
    GameInv /\ GameInv' /\ TableTypeOK /\ LifeInv /\ RoundsRise
    /\ (~overtaken => StartComesFirst) /\ [PersistentNext]_allVars
        => (~overtaken' => StartComesFirst')
  <1> SUFFICES ASSUME GameInv, GameInv', TableTypeOK, LifeInv, RoundsRise,
                      ~overtaken => StartComesFirst, [PersistentNext]_allVars, ~overtaken'
               PROVE  StartComesFirst'
    OBVIOUS
  <1>0. ~overtaken
    BY Moves DEF Quiet, Progressed, Answered, Ended, Started, Executes, Crash, Resumed, NothingToResume, ghostVars
  <1>1. /\ ~logged => round = 1
        /\ starting => /\ row = NoRow /\ \A r \in 1..Questions : paid[r] = 0
                       /\ \A i \in DOMAIN pending : FirstRoundOnly(i)
        /\ \A i \in DOMAIN pending : Is(i, "insert") =>
               /\ row = NoRow /\ \A r \in 1..Questions : paid[r] = 0
               /\ \A j \in 1..(i - 1) : FirstRoundOnly(j)
    BY <1>0 DEF StartComesFirst
  (* A queue that grows otherwise than by the start. *)
  <1>2. ASSUME NEW n \in Nat, NEW k \in Nat, Growing(n, k), UNCHANGED <<row, paid>>,
               \A i \in DOMAIN pending' : i \in 1..n \/ ~Is(i, "insert")'
        PROVE  /\ \A i \in DOMAIN pending : FirstRoundOnly(i) => FirstRoundOnly(i)'
               /\ \A i \in DOMAIN pending' : Is(i, "insert")' =>
                      /\ row' = NoRow /\ \A r \in 1..Questions : paid'[r] = 0
                      /\ \A j \in 1..(i - 1) : FirstRoundOnly(j)'
    <2>1. /\ DOMAIN pending = 1..n
          /\ \A i \in 1..n : /\ pending'[i] = pending[i]
                             /\ \A op : Is(i, op)' <=> Is(i, op)
      BY <1>2, OldStay
    <2>2. \A i \in DOMAIN pending : FirstRoundOnly(i) => FirstRoundOnly(i)'
      BY <2>1 DEF FirstRoundOnly
    <2>3. ASSUME NEW i \in DOMAIN pending', Is(i, "insert")'
          PROVE  /\ row' = NoRow /\ \A r \in 1..Questions : paid'[r] = 0
                 /\ \A j \in 1..(i - 1) : FirstRoundOnly(j)'
      <3>1. i \in DOMAIN pending /\ Is(i, "insert")
        BY <1>2, <2>1, <2>3
      <3>2. \A j \in 1..(i - 1) : j \in DOMAIN pending /\ FirstRoundOnly(j)
        BY <1>1, <2>1, <3>1
      <3> QED BY <1>1, <1>2, <2>2, <3>1, <3>2
    <2> QED BY <2>2, <2>3
  <1>3. CASE Quiet
    BY <1>1, <1>3 DEF Quiet, StartComesFirst, FirstRoundOnly, Is
  <1>4. CASE Progressed
    <2>1. PICK n \in Nat : Growing(n, 1) /\ pending'[n + 1] = Query("update", Progress')
      BY <1>4 DEF Progressed
    <2>2. /\ ~Is(n + 1, "insert")' /\ Is(n + 1, "update")' /\ pending'[n + 1].row.round = round'
      BY <2>1, NewUpdate
    <2>3. \A i \in DOMAIN pending' : i \in 1..n \/ i = n + 1
      BY <2>1, OldStay
    <2>4. UNCHANGED <<row, paid, starting>> /\ logged' = ~starting /\ (starting => round' = 1)
          /\ starting \in BOOLEAN
      <3>1. starting => ~(round' > 1)
        BY <1>4 DEF Progressed
      <3>2. round' \in Nat /\ round' >= 1
        BY QueueFacts, <1>4 DEF Progressed
      <3> QED BY <1>4, <3>1, <3>2 DEF Progressed, Table, TableTypeOK
    <2>5. \A i \in DOMAIN pending' : Is(i, "insert")' =>
              /\ row' = NoRow /\ \A r \in 1..Questions : paid'[r] = 0
              /\ \A j \in 1..(i - 1) : FirstRoundOnly(j)'
      BY <1>2, <2>1, <2>2, <2>3, <2>4
    <2>6. \A i \in DOMAIN pending : FirstRoundOnly(i) => FirstRoundOnly(i)'
      BY <1>2, <2>1, <2>2, <2>3, <2>4
    <2>7. starting' => \A i \in DOMAIN pending' : FirstRoundOnly(i)'
      <3>1. starting => FirstRoundOnly(n + 1)'
        BY <2>2, <2>4 DEF FirstRoundOnly
      <3>2. DOMAIN pending = 1..n
        BY <2>1, OldStay
      <3> QED BY <1>1, <2>3, <2>4, <2>6, <3>1, <3>2
    <2>8. ~logged' => round' = 1
      BY <2>4
    <2> QED BY <1>1, <2>4, <2>5, <2>7, <2>8 DEF StartComesFirst
  <1>5. CASE Answered
    <2>1. PICK n \in Nat : /\ Growing(n, 2) /\ pending'[n + 1] = Pay(round)
                           /\ pending'[n + 2] = Query("update", Progress')
      BY <1>5 DEF Answered
    <2>2. ~Is(n + 1, "insert")' /\ ~Is(n + 2, "insert")'
      BY <1>5, <2>1, NewUpdate, QueryKinds DEF Is, Answered
    <2>3. \A i \in DOMAIN pending' : i \in 1..n \/ i = n + 1 \/ i = n + 2
      <3>1. DOMAIN pending' = 1..(n + 2)
        BY <2>1, OldStay
      <3>2. \A i \in 1..(n + 2) : i \in 1..n \/ i = n + 1 \/ i = n + 2
        OBVIOUS
      <3> QED BY <3>1, <3>2
    <2>4. UNCHANGED <<row, paid, starting>> /\ ~starting /\ logged' = ~starting
      BY <1>5 DEF Answered, Table
    <2>5. \A i \in DOMAIN pending' : Is(i, "insert")' =>
              /\ row' = NoRow /\ \A r \in 1..Questions : paid'[r] = 0
              /\ \A j \in 1..(i - 1) : FirstRoundOnly(j)'
      BY <1>2, <2>1, <2>2, <2>3, <2>4
    <2> QED BY <2>4, <2>5 DEF StartComesFirst
  <1>6. CASE Ended
    <2>1. PICK n \in Nat : Growing(n, 1) /\ pending'[n + 1] = Delete
      BY <1>6 DEF Ended
    <2>2. ~Is(n + 1, "insert")'
      BY <2>1, QueryKinds DEF Is
    <2>3. \A i \in DOMAIN pending' : i \in 1..n \/ i = n + 1
      BY <2>1, OldStay
    <2>4. UNCHANGED <<row, paid, starting, round, logged>> /\ ~starting
      BY <1>6 DEF Ended, Table
    <2>5. \A i \in DOMAIN pending' : Is(i, "insert")' =>
              /\ row' = NoRow /\ \A r \in 1..Questions : paid'[r] = 0
              /\ \A j \in 1..(i - 1) : FirstRoundOnly(j)'
      BY <1>2, <2>1, <2>2, <2>3, <2>4
    <2> QED BY <1>1, <2>4, <2>5 DEF StartComesFirst
  <1>7. CASE Started
    <2>1. PICK n \in Nat : Growing(n, 1) /\ pending'[n + 1] = Insert
      BY <1>7 DEF Started
    <2>2. /\ DOMAIN pending = 1..n /\ DOMAIN pending' = 1..(n + 1)
          /\ \A i \in 1..n : /\ pending'[i] = pending[i]
                             /\ \A op : Is(i, op)' <=> Is(i, op)
      BY <2>1, OldStay
    <2>3. starting /\ ~starting' /\ UNCHANGED <<row, paid, round, logged>>
      BY <1>7 DEF Started, vars, gameVars, machineVars
    <2>4. \A j \in 1..n : FirstRoundOnly(j)'
      BY <1>1, <2>2, <2>3 DEF FirstRoundOnly
    <2>5. ASSUME NEW i \in DOMAIN pending'
          PROVE  \A j \in 1..(i - 1) : FirstRoundOnly(j)'
      <3>1. \A j \in 1..(i - 1) : j \in 1..n
        BY <2>2
      <3> QED BY <2>4, <3>1
    <2> QED BY <1>1, <2>3, <2>5 DEF StartComesFirst
  <1>8. CASE Executes
    <2>1. PICK n \in Nat : /\ DOMAIN pending = 1..(n + 1) /\ DOMAIN pending' = 1..n
                           /\ \A i \in 1..n : pending'[i] = pending[i + 1]
      BY <1>8 DEF Executes
    <2>2. /\ \A i \in 1..n : /\ i + 1 \in DOMAIN pending /\ pending'[i] = pending[i + 1]
                             /\ \A op : Is(i, op)' <=> Is(i + 1, op)
          /\ 1 \in DOMAIN pending
      BY <2>1 DEF Is
    <2>3. \A i \in 1..n : FirstRoundOnly(i + 1) => FirstRoundOnly(i)'
      BY <2>2 DEF FirstRoundOnly
    <2>4. UNCHANGED <<round, logged, starting>>
      BY <1>8 DEF Executes, gameVars, machineVars
    <2>5. FirstRoundOnly(1) /\ row = NoRow => row' = NoRow /\ paid' = paid
      BY <1>8, Execution DEF FirstRoundOnly
    <2>6. starting' => /\ row' = NoRow /\ \A r \in 1..Questions : paid'[r] = 0
                       /\ \A i \in DOMAIN pending' : FirstRoundOnly(i)'
      BY <1>1, <2>1, <2>2, <2>3, <2>4, <2>5
    <2>7. ASSUME NEW i \in DOMAIN pending', Is(i, "insert")'
          PROVE  /\ row' = NoRow /\ \A r \in 1..Questions : paid'[r] = 0
                 /\ \A j \in 1..(i - 1) : FirstRoundOnly(j)'
      <3>1. /\ i \in 1..n /\ i + 1 \in DOMAIN pending /\ Is(i + 1, "insert")
        BY <2>1, <2>2, <2>7
      <3>2. row = NoRow /\ (\A r \in 1..Questions : paid[r] = 0)
            /\ \A j \in 1..((i + 1) - 1) : FirstRoundOnly(j)
        BY <1>1, <3>1
      <3>3. 1 \in 1..((i + 1) - 1) /\ \A j \in 1..(i - 1) : j \in 1..n /\ j + 1 \in 1..((i + 1) - 1)
        BY <3>1
      <3> QED BY <2>3, <2>5, <3>2, <3>3
    <2> QED BY <1>1, <2>4, <2>6, <2>7 DEF StartComesFirst
  <1>9. CASE Crash
    <2>1. UNCHANGED <<row, paid, round, logged>> /\ pending' = <<>> /\ starting' = FALSE
      BY <1>9 DEF Crash, tableVars, machineVars, ghostVars
    <2> QED BY <1>1, <2>1 DEF StartComesFirst
  <1>10. CASE Resumed
    <2>1. pending = <<>> /\ UNCHANGED <<row, paid, starting>> /\ round' = row.round /\ ~starting
          /\ row # NoRow
      BY <1>10 DEF Resumed, LifeInv
    <2>2. CASE pending' = pending
      <3>1. logged' = logged \/ logged' = TRUE
        BY <1>10, <2>1 DEF Resumed
      <3>2. ~logged' => round' = 1
        <4>1. row.round <= round /\ row.round \in Nat /\ row.round >= 1
          BY <2>1, QueueFacts DEF RoundsRise
        <4> QED BY <1>1, <2>1, <3>1, <4>1
      <3> QED BY <2>1, <2>2, <3>2 DEF StartComesFirst
    <2>3. CASE pending' # pending
      <3>1. PICK n \in Nat : Growing(n, 1) /\ pending'[n + 1] = Query("update", Progress')
        BY <1>10, <2>3 DEF Resumed
      <3>2. \A i \in DOMAIN pending' : ~Is(i, "insert")'
        BY <2>1, <3>1, OnlyOne, NewUpdate
      <3>3. logged' = TRUE
        BY <1>10, <2>1, <2>3 DEF Resumed
      <3> QED BY <2>1, <3>2, <3>3 DEF StartComesFirst
    <2> QED BY <2>2, <2>3
  <1>11. CASE NothingToResume
    <2>1. UNCHANGED <<row, paid, starting, logged, round, pending>>
      BY <1>11 DEF NothingToResume, tableVars, ghostVars, vars, gameVars, machineVars
    <2> QED BY <1>1, <2>1 DEF StartComesFirst, FirstRoundOnly, Is
  <1> QED BY Moves, <1>3, <1>4, <1>5, <1>6, <1>7, <1>8, <1>9, <1>10, <1>11

(* Points are not ahead of the row, nor are those still to be paid ahead of *)
(* the row as it will be then.                                              *)
LEMMA PointsStep ==
    GameInv /\ GameInv' /\ TableTypeOK /\ LifeInv /\ ProgressComes /\ RoundsRise
    /\ (~overtaken => StartComesFirst /\ PointsFollow) /\ [PersistentNext]_allVars
        => (~overtaken' => PointsFollow')
  <1> SUFFICES ASSUME GameInv, GameInv', TableTypeOK, LifeInv, ProgressComes, RoundsRise,
                      ~overtaken => StartComesFirst /\ PointsFollow, [PersistentNext]_allVars, ~overtaken'
               PROVE  PointsFollow'
    OBVIOUS
  <1>0. ~overtaken
    BY Moves DEF Quiet, Progressed, Answered, Ended, Started, Executes, Crash, Resumed, NothingToResume, ghostVars
  <1>1. /\ row # NoRow => \A r \in 1..Questions : paid[r] > 0 => r <= row.round
        /\ \A i \in DOMAIN pending : Is(i, "pay") =>
               \/ NoRowAgain \/ pending[i].row.round <= row.round
               \/ \E j \in 1..(i - 1) : /\ Is(j, "insert") \/ Is(j, "update")
                                        /\ pending[i].row.round <= pending[j].row.round
    BY <1>0 DEF PointsFollow
  <1>2. /\ ~logged => round = 1
        /\ starting => /\ row = NoRow /\ \A r \in 1..Questions : paid[r] = 0
                       /\ \A i \in DOMAIN pending : FirstRoundOnly(i)
        /\ \A i \in DOMAIN pending : Is(i, "insert") =>
               /\ row = NoRow /\ \A r \in 1..Questions : paid[r] = 0
               /\ \A j \in 1..(i - 1) : FirstRoundOnly(j)
    BY <1>0 DEF StartComesFirst
  (* What is queued stays covered in a queue that grows otherwise than by the start. *)
  <1>3. ASSUME NEW n \in Nat, NEW k \in Nat, Growing(n, k), UNCHANGED <<row, paid, starting>>,
               \A i \in DOMAIN pending' : i \in 1..n \/ ~Is(i, "insert")',
               \A i \in DOMAIN pending' : i \in 1..n \/ ~Is(i, "pay")'
                   \/ pending'[i].row.round <= row'.round
                   \/ \E j \in 1..(i - 1) : /\ Is(j, "insert")' \/ Is(j, "update")'
                                            /\ pending'[i].row.round <= pending'[j].row.round
        PROVE  PointsFollow'
    <2>1. /\ DOMAIN pending = 1..n
          /\ \A i \in 1..n : /\ pending'[i] = pending[i]
                             /\ \A op : Is(i, op)' <=> Is(i, op)
      BY <1>3, OldStay
    <2>2. NoRowAgain => NoRowAgain'
      BY <1>3, <2>1 DEF NoRowAgain, Inserting
    <2>3. ASSUME NEW i \in 1..n, Is(i, "pay")'
          PROVE  \/ NoRowAgain' \/ pending'[i].row.round <= row'.round
                 \/ \E j \in 1..(i - 1) : /\ Is(j, "insert")' \/ Is(j, "update")'
                                          /\ pending'[i].row.round <= pending'[j].row.round
      <3>1. \A j \in 1..(i - 1) : j \in 1..n
        OBVIOUS
      <3> QED BY <1>1, <1>3, <2>1, <2>2, <2>3, <3>1
    <2> QED BY <1>1, <1>3, <2>3 DEF PointsFollow
  <1>4. CASE Quiet
    BY <1>1, <1>4 DEF Quiet, PointsFollow, NoRowAgain, Inserting, Is
  <1>5. CASE Progressed
    <2>1. PICK n \in Nat : Growing(n, 1) /\ pending'[n + 1] = Query("update", Progress')
      BY <1>5 DEF Progressed
    <2>2. ~Is(n + 1, "insert")' /\ ~Is(n + 1, "pay")'
      BY <2>1, NewUpdate
    <2>3. \A i \in DOMAIN pending' : i \in 1..n \/ i = n + 1
      BY <2>1, OldStay
    <2>4. UNCHANGED <<row, paid, starting>>
      BY <1>5 DEF Progressed, Table
    <2> QED BY <1>3, <2>1, <2>2, <2>3, <2>4
  <1>6. CASE Answered
    <2>1. PICK n \in Nat : /\ Growing(n, 2) /\ pending'[n + 1] = Pay(round)
                           /\ pending'[n + 2] = Query("update", Progress')
      BY <1>6 DEF Answered
    <2>2. /\ ~Is(n + 1, "insert")' /\ pending'[n + 1].row.round = round
          /\ ~Is(n + 2, "insert")' /\ ~Is(n + 2, "pay")'
      BY <1>6, <2>1, NewUpdate, QueryKinds DEF Is, Answered
    <2>3. \A i \in DOMAIN pending' : i \in 1..n \/ i = n + 1 \/ i = n + 2
      <3>1. DOMAIN pending' = 1..(n + 2)
        BY <2>1, OldStay
      <3>2. \A i \in 1..(n + 2) : i \in 1..n \/ i = n + 1 \/ i = n + 2
        OBVIOUS
      <3> QED BY <3>1, <3>2
    <2>4. UNCHANGED <<row, paid, starting>> /\ ~starting /\ inStates /\ ~terminating
      BY <1>6 DEF Answered, Table
    <2>5. DOMAIN pending = 1..n /\ \A i \in 1..n : pending'[i] = pending[i] /\ \A op : Is(i, op)' <=> Is(i, op)
      BY <2>1, OldStay
    (* The round that is paid for is the row's, or queued before. *)
    <2>6. \/ round <= row.round
          \/ \E j \in 1..n : (Is(j, "insert") \/ Is(j, "update")) /\ round <= pending[j].row.round
      <3>1. CASE logged
        <4>1. CASE row = Progress
          <5>1. row.round = round
            BY <4>1, ProgressKinds DEF Progress
          <5> QED BY <5>1, QueueFacts
        <4>2. CASE \E i \in DOMAIN pending : Is(i, "update") /\ pending[i].row = Progress
          <5>1. PICK i \in DOMAIN pending : Is(i, "update") /\ pending[i].row = Progress
            BY <4>2
          <5>2. pending[i].row.round = round
            BY <5>1, ProgressKinds DEF Progress
          <5> QED BY <2>5, <5>1, <5>2, QueueFacts
        <4> QED BY <2>4, <3>1, <4>1, <4>2 DEF ProgressComes
      <3>2. CASE ~logged
        <4>1. round = 1
          BY <1>2, <3>2
        <4>2. row # NoRow \/ Inserting
          BY <2>4 DEF LifeInv
        <4>3. CASE row # NoRow
          BY <4>1, <4>3, QueueFacts
        <4>4. CASE Inserting
          <5>1. PICK j \in DOMAIN pending : Is(j, "insert")
            BY <4>4 DEF Inserting
          <5>2. pending[j].row.round = 1
            BY <5>1, QueueFacts
          <5> QED BY <2>5, <4>1, <5>1, <5>2
        <4> QED BY <4>2, <4>3, <4>4
      <3> QED BY <3>1, <3>2
    <2>7. \/ pending'[n + 1].row.round <= row'.round
          \/ \E j \in 1..((n + 1) - 1) : /\ Is(j, "insert")' \/ Is(j, "update")'
                                         /\ pending'[n + 1].row.round <= pending'[j].row.round
      <3>1. (n + 1) - 1 = n
        OBVIOUS
      <3> QED BY <2>2, <2>4, <2>5, <2>6, <3>1
    <2> QED BY <1>3, <2>1, <2>2, <2>3, <2>4, <2>7
  <1>7. CASE Ended
    <2>1. PICK n \in Nat : Growing(n, 1) /\ pending'[n + 1] = Delete
      BY <1>7 DEF Ended
    <2>2. ~Is(n + 1, "insert")' /\ ~Is(n + 1, "pay")'
      BY <2>1, QueryKinds DEF Is
    <2>3. \A i \in DOMAIN pending' : i \in 1..n \/ i = n + 1
      BY <2>1, OldStay
    <2>4. UNCHANGED <<row, paid, starting>>
      BY <1>7 DEF Ended, Table
    <2> QED BY <1>3, <2>1, <2>2, <2>3, <2>4
  <1>8. CASE Started
    <2>1. PICK n \in Nat : Growing(n, 1) /\ pending'[n + 1] = Insert
      BY <1>8 DEF Started
    <2>2. \A i \in DOMAIN pending' : i \in DOMAIN pending \/ i = n + 1
      BY <2>1, OldStay
    <2>3. ~Is(n + 1, "pay")'
      BY <2>1, QueryKinds DEF Is
    <2>4. \A i \in DOMAIN pending : ~Is(i, "pay")'
      <3>1. \A i \in DOMAIN pending : Is(i, "update")
        BY <1>2, <1>8 DEF Started, FirstRoundOnly
      <3>2. \A i \in DOMAIN pending : Is(i, "update")'
        BY <2>1, <3>1, OldStay
      <3> QED BY <3>2 DEF Is
    <2>5. row = NoRow /\ row' = row
      BY <1>2, <1>8 DEF Started
    <2> QED BY <2>2, <2>3, <2>4, <2>5 DEF PointsFollow
  <1>9. CASE Executes
    <2>1. PICK n \in Nat : /\ DOMAIN pending = 1..(n + 1) /\ DOMAIN pending' = 1..n
                           /\ \A i \in 1..n : pending'[i] = pending[i + 1]
      BY <1>9 DEF Executes
    <2>2. /\ \A i \in 1..n : /\ i + 1 \in DOMAIN pending /\ pending'[i] = pending[i + 1]
                             /\ \A op : Is(i, op)' <=> Is(i + 1, op)
          /\ 1 \in DOMAIN pending /\ starting' = starting
      BY <1>9, <2>1 DEF Is, Executes
    (* The points paid are not ahead of the row. *)
    <2>3. ASSUME row' # NoRow, NEW r \in 1..Questions, paid'[r] > 0 PROVE r <= row'.round
      <3>1. CASE Is(1, "insert")
        <4>1. paid' = paid /\ paid[r] = 0
          BY <1>2, <1>9, <2>2, <3>1, Execution
        <4> QED BY <2>3, <4>1
      <3>2. CASE Is(1, "update")
        <4>1. paid' = paid /\ row # NoRow /\ row' = pending[1].row
          BY <1>9, <2>3, <3>2, Execution
        <4>2. r <= row.round /\ row.round <= pending[1].row.round
          BY <1>1, <2>2, <2>3, <3>2, <4>1 DEF RoundsRise
        <4>3. row.round \in Nat /\ pending[1].row.round \in Nat
          BY <2>2, <3>2, QueueFacts
        <4> QED BY <4>1, <4>2, <4>3
      <3>3. CASE Is(1, "delete")
        BY <1>9, <2>3, <3>3, Execution
      <3>4. CASE Is(1, "pay")
        <4>1. row' = row /\ paid' = [paid EXCEPT ![pending[1].row.round] = @ + 1]
          BY <1>9, <3>4, Execution
        <4>2. pending[1].row.round <= row.round
          <5>1. ~NoRowAgain /\ 1..(1 - 1) = {}
            BY <2>3, <4>1 DEF NoRowAgain
          <5> QED BY <1>1, <2>2, <3>4, <5>1
        <4>3. r = pending[1].row.round \/ paid[r] > 0
          <5>1. paid \in [1..Questions -> Nat]
            BY DEF TableTypeOK
          <5> QED BY <2>3, <4>1, <5>1
        <4> QED BY <1>1, <2>3, <4>1, <4>2, <4>3
      <3> QED BY <2>2, <3>1, <3>2, <3>3, <3>4, QueueFacts
    (* A row that is gone for good stays so. *)
    <2>4. NoRowAgain => NoRowAgain'
      <3>1. ASSUME NoRowAgain PROVE row' = NoRow /\ ~starting' /\ ~Inserting'
        <4>1. ~Is(1, "insert") /\ row = NoRow /\ ~Inserting'
          BY <2>1, <2>2, <3>1 DEF NoRowAgain, Inserting
        <4> QED BY <1>9, <2>2, <3>1, <4>1, Execution, QueueFacts DEF NoRowAgain
      <3> QED BY <3>1 DEF NoRowAgain
    <2>5. Is(1, "delete") => NoRowAgain'
      <3>1. ASSUME Is(1, "delete") PROVE row' = NoRow /\ ~starting' /\ ~Inserting'
        <4>1. ~FirstRoundOnly(1)
          BY <3>1 DEF FirstRoundOnly, Is
        <4>2. ~starting'
          BY <1>2, <2>2, <4>1
        <4>3. ASSUME NEW i \in DOMAIN pending', Is(i, "insert")' PROVE FALSE
          <5>1. i \in 1..n /\ Is(i + 1, "insert") /\ i + 1 \in DOMAIN pending
            BY <2>1, <2>2, <4>3
          <5>2. 1 \in 1..((i + 1) - 1)
            BY <5>1
          <5> QED BY <1>2, <4>1, <5>1, <5>2
        <4> QED BY <1>9, <3>1, <4>2, <4>3, Execution DEF Inserting
      <3> QED BY <3>1 DEF NoRowAgain
    (* The row's round falls by a deletion only. *)
    <2>6. ~Is(1, "delete") => row.round <= row'.round /\ row'.round \in Nat
      <3>1. row.round \in Nat /\ (row = NoRow => row.round = 0)
        BY QueueFacts
      <3>2. CASE Is(1, "insert")
        BY <1>9, <3>1, <3>2, Execution, ProgressKinds
      <3>3. CASE Is(1, "update")
        <4>1. row.round <= pending[1].row.round /\ pending[1].row.round \in Nat
          BY <2>2, <3>3, QueueFacts DEF RoundsRise
        <4> QED BY <1>9, <3>1, <3>3, <4>1, Execution
      <3>4. CASE Is(1, "pay")
        BY <1>9, <3>1, <3>4, Execution
      <3> QED BY <2>2, <3>2, <3>3, <3>4, QueueFacts
    <2>7. ASSUME NEW i \in DOMAIN pending', Is(i, "pay")', ~NoRowAgain'
          PROVE  \/ pending'[i].row.round <= row'.round
                 \/ \E j \in 1..(i - 1) : /\ Is(j, "insert")' \/ Is(j, "update")'
                                          /\ pending'[i].row.round <= pending'[j].row.round
      <3>1. /\ i \in 1..n /\ i + 1 \in DOMAIN pending /\ Is(i + 1, "pay") /\ i \in Nat
            /\ pending'[i] = pending[i + 1] /\ pending'[i].row.round \in Nat
        <4>1. i \in 1..n /\ i \in Nat
          BY <2>1
        <4>2. i + 1 \in DOMAIN pending /\ Is(i + 1, "pay") /\ pending'[i] = pending[i + 1]
          BY <2>2, <2>7, <4>1
        <4>3. pending[i + 1].row.round \in 1..Questions
          BY <4>2, QueueFacts
        <4> QED BY <4>1, <4>2, <4>3
      <3>2. ~NoRowAgain /\ ~Is(1, "delete")
        BY <2>4, <2>5, <2>7
      <3>3. CASE pending[i + 1].row.round <= row.round
        BY <2>6, <3>1, <3>2, <3>3, QueueFacts
      <3>4. ASSUME NEW j \in 1..((i + 1) - 1), j # 1, Is(j, "insert") \/ Is(j, "update"),
                   pending[i + 1].row.round <= pending[j].row.round
            PROVE  \E k \in 1..(i - 1) : /\ Is(k, "insert")' \/ Is(k, "update")'
                                         /\ pending'[i].row.round <= pending'[k].row.round
        <4>1. j - 1 \in 1..(i - 1) /\ j - 1 \in 1..n /\ (j - 1) + 1 = j
          BY <3>1, <3>4
        <4> QED BY <2>2, <3>1, <3>4, <4>1
      <3>5. ASSUME Is(1, "insert"), pending[i + 1].row.round <= pending[1].row.round
            PROVE  pending'[i].row.round <= row'.round
        <4>1. row = NoRow /\ row' = NewRow /\ pending[1].row = NewRow
          BY <1>2, <1>9, <2>2, <3>5, Execution, QueueFacts
        <4> QED BY <3>1, <3>5, <4>1
      <3>6. ASSUME Is(1, "update"), pending[i + 1].row.round <= pending[1].row.round
            PROVE  \/ pending'[i].row.round <= row'.round
                   \/ \E j \in 1..(i - 1) : /\ Is(j, "insert")' \/ Is(j, "update")'
                                            /\ pending'[i].row.round <= pending'[j].row.round
        <4>1. CASE row # NoRow
          BY <1>9, <3>1, <3>6, <4>1, Execution
        <4>2. CASE row = NoRow
          <5>1. ~starting
            <6>1. ~FirstRoundOnly(i + 1)
              BY <3>1 DEF FirstRoundOnly, Is
            <6> QED BY <1>2, <3>1, <6>1
          <5>2. PICK k \in DOMAIN pending : Is(k, "insert")
            BY <3>2, <4>2, <5>1 DEF NoRowAgain, Inserting
          <5>3. k # i + 1 /\ k # 1
            BY <3>1, <3>6, <5>2 DEF Is
          <5>4. \A j \in 1..(k - 1) : FirstRoundOnly(j)
            BY <1>2, <5>2
          <5>5. k \in 1..(n + 1) /\ ~(i + 1 \in 1..(k - 1))
            <6>1. ~FirstRoundOnly(i + 1)
              BY <3>1 DEF FirstRoundOnly, Is
            <6> QED BY <2>1, <5>4, <6>1
          <5>6. k - 1 \in 1..(i - 1) /\ k - 1 \in 1..n /\ (k - 1) + 1 = k /\ 1 \in 1..(k - 1)
            BY <3>1, <5>3, <5>5
          <5>7. pending[1].row.round = 1 /\ pending[k].row.round = 1
            BY <5>2, <5>4, <5>6, QueueFacts DEF FirstRoundOnly
          <5>8. Is(k - 1, "insert")' /\ pending'[k - 1] = pending[k]
            BY <2>2, <5>2, <5>6
          <5> QED BY <3>1, <3>6, <5>6, <5>7, <5>8
        <4> QED BY <4>1, <4>2
      <3> QED BY <1>1, <3>1, <3>2, <3>3, <3>4, <3>5, <3>6
    <2> QED BY <2>3, <2>7 DEF PointsFollow
  <1>10. CASE Crash
    <2>1. UNCHANGED <<row, paid>> /\ pending' = <<>>
      BY <1>10 DEF Crash, tableVars
    <2> QED BY <1>1, <2>1 DEF PointsFollow
  <1>11. CASE Resumed
    <2>1. pending = <<>> /\ UNCHANGED <<row, paid>>
      BY <1>11 DEF Resumed, LifeInv
    <2>2. CASE pending' = pending
      BY <1>1, <2>1, <2>2 DEF PointsFollow
    <2>3. CASE pending' # pending
      <3>1. PICK n \in Nat : Growing(n, 1) /\ pending'[n + 1] = Query("update", Progress')
        BY <1>11, <2>3 DEF Resumed
      <3>2. \A i \in DOMAIN pending' : ~Is(i, "pay")'
        BY <2>1, <3>1, OnlyOne, NewUpdate
      <3> QED BY <1>1, <2>1, <3>2 DEF PointsFollow
    <2> QED BY <2>2, <2>3
  <1>12. CASE NothingToResume
    <2>1. UNCHANGED <<row, paid, starting, pending>>
      BY <1>12 DEF NothingToResume, tableVars
    <2> QED BY <1>1, <2>1 DEF PointsFollow, NoRowAgain, Inserting, Is
  <1> QED BY Moves, <1>4, <1>5, <1>6, <1>7, <1>8, <1>9, <1>10, <1>11, <1>12

(* Which points were paid, and are still to be.                             *)
LEMMA PaysStep ==
    GameInv /\ GameInv' /\ TableTypeOK /\ LifeInv
    /\ (~overtaken => StartComesFirst /\ PointsFollow /\ PaysOnce) /\ [PersistentNext]_allVars
        => (~overtaken' => PaysOnce')
  <1> SUFFICES ASSUME GameInv, GameInv', TableTypeOK, LifeInv,
                      ~overtaken => StartComesFirst /\ PointsFollow /\ PaysOnce,
                      [PersistentNext]_allVars, ~overtaken'
               PROVE  PaysOnce'
    OBVIOUS
  <1>0. ~overtaken
    BY Moves DEF Quiet, Progressed, Answered, Ended, Started, Executes, Crash, Resumed, NothingToResume, ghostVars
  <1>1. /\ \A r \in 1..Questions : r > round => paid[r] = 0
        /\ \A i \in DOMAIN pending : Is(i, "pay") =>
               /\ pending[i].row.round \in 1..Questions
               /\ pending[i].row.round <= round /\ (Listening => pending[i].row.round # round)
               /\ \A j \in DOMAIN pending : Is(j, "pay") /\ pending[i].row.round = pending[j].row.round => i = j
               /\ PaysAgain(i) => \A j \in DOMAIN pending : PaysAgain(j) => i = j
               /\ Listening /\ round <= Questions => paid[round] = 0
        /\ round \in Nat /\ round >= 1 /\ Questions \in Nat /\ paid \in [1..Questions -> Nat]
    BY <1>0, QueueFacts DEF PaysOnce, TableTypeOK
  (* A queue that grows by no payment. *)
  <1>2. ASSUME NEW n \in Nat, NEW k \in Nat, Growing(n, k), paid' = paid,
               \A i \in DOMAIN pending' : Is(i, "pay")' => i \in 1..n,
               round' = round \/ round' = round + 1,
               Listening' => Listening \/ round' = round + 1
        PROVE  PaysOnce'
    <2>1. /\ DOMAIN pending = 1..n /\ round' \in Nat /\ round <= round'
          /\ \A i \in 1..n : /\ pending'[i] = pending[i]
                             /\ Is(i, "pay")' <=> Is(i, "pay")
      BY <1>1, <1>2, OldStay
    <2>2. \A i \in 1..n : PaysAgain(i)' <=> PaysAgain(i)
      BY <1>2, <2>1 DEF PaysAgain
    <2>3. \A r \in 1..Questions : r > round' => paid'[r] = 0
      BY <1>1, <1>2, <2>1
    <2>4. ASSUME NEW i \in DOMAIN pending', Is(i, "pay")'
          PROVE  /\ pending'[i].row.round <= round' /\ (Listening' => pending'[i].row.round # round')
                 /\ Listening' /\ round' <= Questions => paid'[round'] = 0
      <3>1. i \in 1..n /\ pending'[i] = pending[i] /\ Is(i, "pay")
        BY <1>2, <2>1, <2>4
      <3>2. /\ pending[i].row.round \in 1..Questions /\ pending[i].row.round <= round
            /\ Listening => pending[i].row.round # round
            /\ Listening /\ round <= Questions => paid[round] = 0
        BY <1>1, <2>1, <3>1
      <3>3. CASE round' = round + 1
        <4>1. round' > round /\ (round' <= Questions => round' \in 1..Questions)
          BY <1>1, <3>3
        <4> QED BY <1>1, <1>2, <3>1, <3>2, <4>1
      <3>4. CASE round' = round
        <4>1. Listening' => Listening
          BY <1>1, <1>2, <3>4
        <4> QED BY <1>2, <3>1, <3>2, <3>4, <4>1
      <3> QED BY <1>2, <3>3, <3>4
    <2>5. ASSUME NEW i \in DOMAIN pending', Is(i, "pay")', NEW j \in DOMAIN pending', Is(j, "pay")',
                 pending'[i].row.round = pending'[j].row.round
          PROVE  i = j
      BY <1>1, <1>2, <2>1, <2>5
    <2>6. ASSUME NEW i \in DOMAIN pending', PaysAgain(i)', NEW j \in DOMAIN pending', PaysAgain(j)'
          PROVE  i = j
      <3>1. Is(i, "pay")' /\ Is(j, "pay")'
        BY <2>6 DEF PaysAgain
      <3>2. PaysAgain(i) /\ PaysAgain(j) /\ i \in 1..n /\ j \in 1..n
        BY <1>2, <2>2, <2>6, <3>1
      <3>3. Is(i, "pay")
        BY <3>2 DEF PaysAgain
      <3> QED BY <1>1, <2>1, <3>2, <3>3
    <2> QED BY <2>3, <2>4, <2>5, <2>6 DEF PaysOnce
  <1>3. CASE Quiet
    <2>1. UNCHANGED <<paid, pending, round>> /\ (Listening' => Listening)
      BY <1>3 DEF Quiet
    <2>2. \A i : /\ Is(i, "pay")' <=> Is(i, "pay")
                 /\ PaysAgain(i)' <=> PaysAgain(i)
      BY <2>1 DEF Is, PaysAgain
    <2> QED BY <1>1, <2>1, <2>2 DEF PaysOnce
  <1>4. CASE Progressed
    <2>1. PICK n \in Nat : Growing(n, 1) /\ pending'[n + 1] = Query("update", Progress')
      BY <1>4 DEF Progressed
    <2>2. \A i \in DOMAIN pending' : Is(i, "pay")' => i \in 1..n
      <3>1. \A i \in DOMAIN pending' : i \in 1..n \/ i = n + 1
        BY <2>1, OldStay
      <3> QED BY <2>1, <3>1, NewUpdate
    <2> QED BY <1>2, <1>4, <2>1, <2>2 DEF Progressed, Table
  <1>5. CASE Answered
    <2>1. PICK n \in Nat : /\ Growing(n, 2) /\ pending'[n + 1] = Pay(round)
                           /\ pending'[n + 2] = Query("update", Progress')
      BY <1>5 DEF Answered
    <2>2. /\ round \in 1..Questions /\ Listening /\ ~Listening' /\ round' = round /\ paid' = paid
      BY <1>5 DEF Answered, Table
    <2>3. /\ pending'[n + 1].row.round = round /\ Is(n + 1, "pay")' /\ ~Is(n + 2, "pay")'
      BY <2>1, <2>2, NewUpdate, QueryKinds DEF Is
    <2>4. \A i \in DOMAIN pending' : Is(i, "pay")' => i \in 1..n \/ i = n + 1
      <3>1. DOMAIN pending' = 1..(n + 2)
        BY <2>1, OldStay
      <3>2. \A i \in 1..(n + 2) : i \in 1..n \/ i = n + 1 \/ i = n + 2
        OBVIOUS
      <3> QED BY <2>3, <3>1, <3>2
    <2>5. /\ DOMAIN pending = 1..n
          /\ \A i \in 1..n : /\ pending'[i] = pending[i]
                             /\ Is(i, "pay")' <=> Is(i, "pay")
      BY <2>1, OldStay
    <2>6. \A i \in 1..n : PaysAgain(i)' <=> PaysAgain(i)
      BY <2>2, <2>5 DEF PaysAgain
    (* No payment was waiting for this round, and none at all if it is paid again. *)
    <2>7. \A i \in 1..n : Is(i, "pay") => pending[i].row.round # round /\ paid[round] = 0
      BY <1>1, <2>2, <2>5
    <2>8. PaysAgain(n + 1)' => paid[round] > 0
      BY <2>2, <2>3 DEF PaysAgain
    <2>9. ASSUME NEW i \in DOMAIN pending', Is(i, "pay")' PROVE pending'[i].row.round <= round'
      BY <1>1, <2>2, <2>3, <2>4, <2>5, <2>9
    <2>10. ASSUME NEW i \in DOMAIN pending', Is(i, "pay")', NEW j \in DOMAIN pending', Is(j, "pay")',
                  pending'[i].row.round = pending'[j].row.round
           PROVE  i = j
      <3>1. CASE i \in 1..n /\ j \in 1..n
        BY <1>1, <2>5, <2>10, <3>1
      <3>2. CASE i = n + 1 /\ j \in 1..n
        BY <2>3, <2>5, <2>7, <2>10, <3>2
      <3>3. CASE i \in 1..n /\ j = n + 1
        BY <2>3, <2>5, <2>7, <2>10, <3>3
      <3> QED BY <2>4, <2>10, <3>1, <3>2, <3>3
    <2>11. ASSUME NEW i \in DOMAIN pending', PaysAgain(i)', NEW j \in DOMAIN pending', PaysAgain(j)'
           PROVE  i = j
      <3>1. Is(i, "pay")' /\ Is(j, "pay")'
        BY <2>11 DEF PaysAgain
      <3>2. \A k \in 1..n : PaysAgain(k)' => Is(k, "pay") /\ PaysAgain(k)
        BY <2>6 DEF PaysAgain
      <3>3. CASE i \in 1..n /\ j \in 1..n
        BY <1>1, <2>5, <2>11, <3>2, <3>3
      <3>4. CASE i = n + 1 /\ j \in 1..n
        BY <2>7, <2>8, <2>11, <3>2, <3>4
      <3>5. CASE i \in 1..n /\ j = n + 1
        BY <2>7, <2>8, <2>11, <3>2, <3>5
      <3> QED BY <2>4, <2>11, <3>1, <3>3, <3>4, <3>5
    <2>12. \A r \in 1..Questions : r > round' => paid'[r] = 0
      BY <1>1, <2>2
    <2> QED BY <2>2, <2>9, <2>10, <2>11, <2>12 DEF PaysOnce
  <1>6. CASE Ended
    <2>1. PICK n \in Nat : Growing(n, 1) /\ pending'[n + 1] = Delete
      BY <1>6 DEF Ended
    <2>2. \A i \in DOMAIN pending' : Is(i, "pay")' => i \in 1..n
      <3>1. \A i \in DOMAIN pending' : i \in 1..n \/ i = n + 1
        BY <2>1, OldStay
      <3>2. ~Is(n + 1, "pay")'
        BY <2>1, QueryKinds DEF Is
      <3> QED BY <3>1, <3>2
    <2>3. paid' = paid /\ round' = round /\ ~Listening'
      BY <1>6 DEF Ended, Table
    <2> QED BY <1>2, <2>1, <2>2, <2>3
  <1>7. CASE Started
    <2>1. PICK n \in Nat : Growing(n, 1) /\ pending'[n + 1] = Insert
      BY <1>7 DEF Started
    <2>2. \A i \in DOMAIN pending' : Is(i, "pay")' => i \in 1..n
      <3>1. \A i \in DOMAIN pending' : i \in 1..n \/ i = n + 1
        BY <2>1, OldStay
      <3>2. ~Is(n + 1, "pay")'
        BY <2>1, QueryKinds DEF Is
      <3> QED BY <3>1, <3>2
    <2>3. paid' = paid /\ round' = round /\ (Listening' => Listening)
      BY <1>7 DEF Started, vars, gameVars, machineVars, Listening
    <2> QED BY <1>2, <2>1, <2>2, <2>3
  <1>8. CASE Executes
    <2>1. PICK n \in Nat : /\ DOMAIN pending = 1..(n + 1) /\ DOMAIN pending' = 1..n
                           /\ \A i \in 1..n : pending'[i] = pending[i + 1]
      BY <1>8 DEF Executes
    <2>2. /\ \A i \in 1..n : /\ i + 1 \in DOMAIN pending /\ pending'[i] = pending[i + 1] /\ i + 1 # 1
                             /\ Is(i, "pay")' <=> Is(i + 1, "pay")
          /\ 1 \in DOMAIN pending
          /\ \A i, j \in 1..n : i + 1 = j + 1 => i = j
      BY <2>1 DEF Is
    <2>3. round' = round /\ (Listening' <=> Listening)
      BY <1>8 DEF Executes, gameVars, machineVars, Listening
    (* A payment is for no round that another one waits for. *)
    <2>4. /\ \A r \in 1..Questions : paid'[r] # paid[r] => Is(1, "pay") /\ r = pending[1].row.round
      <3>1. CASE Is(1, "pay")
        <4>1. paid' = [paid EXCEPT ![pending[1].row.round] = @ + 1]
          BY <1>8, <3>1, Execution
        <4> QED BY <1>1, <3>1, <4>1
      <3>2. CASE ~Is(1, "pay")
        BY <1>8, <3>2 DEF Executes
      <3> QED BY <3>1, <3>2
    <2>5. ASSUME NEW r \in 1..Questions, r > round' PROVE paid'[r] = 0
      <3>1. Is(1, "pay") => pending[1].row.round <= round /\ pending[1].row.round \in 1..Questions
        BY <1>1, <2>2
      <3>2. paid'[r] = paid[r]
        BY <1>1, <2>3, <2>4, <2>5, <3>1
      <3> QED BY <1>1, <2>3, <2>5, <3>2
    <2>6. \A i \in 1..n : Is(i + 1, "pay") =>
              /\ pending[i + 1].row.round \in 1..Questions
              /\ paid'[pending[i + 1].row.round] = paid[pending[i + 1].row.round]
      BY <1>1, <2>2, <2>4
    <2>7. \A i \in 1..n : PaysAgain(i)' => PaysAgain(i + 1) /\ Is(i + 1, "pay")
      BY <2>2, <2>6 DEF PaysAgain
    <2>8. ASSUME NEW i \in DOMAIN pending', Is(i, "pay")'
          PROVE  /\ pending'[i].row.round <= round' /\ (Listening' => pending'[i].row.round # round')
                 /\ Listening' /\ round' <= Questions => paid'[round'] = 0
      <3>1. /\ i \in 1..n /\ i + 1 \in DOMAIN pending /\ Is(i + 1, "pay") /\ pending'[i] = pending[i + 1]
        BY <2>1, <2>2, <2>8
      <3>2. /\ pending[i + 1].row.round <= round /\ (Listening => pending[i + 1].row.round # round)
            /\ Listening /\ round <= Questions => paid[round] = 0
        BY <1>1, <3>1
      <3>3. ASSUME Listening, round <= Questions PROVE paid'[round] = paid[round]
        <4>1. round \in 1..Questions /\ ~(Is(1, "pay") /\ round = pending[1].row.round)
          BY <1>1, <2>2, <3>3
        <4> QED BY <2>4, <4>1
      <3> QED BY <2>3, <3>1, <3>2, <3>3
    <2>9. ASSUME NEW i \in DOMAIN pending', Is(i, "pay")', NEW j \in DOMAIN pending', Is(j, "pay")',
                 pending'[i].row.round = pending'[j].row.round
          PROVE  i = j
      <3>1. /\ i \in 1..n /\ i + 1 \in DOMAIN pending /\ Is(i + 1, "pay") /\ pending'[i] = pending[i + 1]
            /\ j \in 1..n /\ j + 1 \in DOMAIN pending /\ Is(j + 1, "pay") /\ pending'[j] = pending[j + 1]
        BY <2>1, <2>2, <2>9
      <3>2. i + 1 = j + 1
        BY <1>1, <2>9, <3>1
      <3> QED BY <2>2, <3>1, <3>2
    <2>10. ASSUME NEW i \in DOMAIN pending', PaysAgain(i)', NEW j \in DOMAIN pending', PaysAgain(j)'
           PROVE  i = j
      <3>1. /\ i \in 1..n /\ i + 1 \in DOMAIN pending /\ Is(i + 1, "pay") /\ PaysAgain(i + 1)
            /\ j \in 1..n /\ j + 1 \in DOMAIN pending /\ Is(j + 1, "pay") /\ PaysAgain(j + 1)
        BY <2>1, <2>2, <2>7, <2>10
      <3>2. i + 1 = j + 1
        BY <1>1, <3>1
      <3> QED BY <2>2, <3>1, <3>2
    <2> QED BY <2>5, <2>8, <2>9, <2>10 DEF PaysOnce
  <1>9. CASE Crash
    <2>1. UNCHANGED <<paid, round>> /\ pending' = <<>>
      BY <1>9 DEF Crash, tableVars, machineVars
    <2> QED BY <1>1, <2>1 DEF PaysOnce
  <1>10. CASE Resumed
    <2>1. pending = <<>> /\ paid' = paid /\ round' = row.round /\ row # NoRow
      BY <1>10 DEF Resumed, LifeInv
    <2>2. \A r \in 1..Questions : r > round' => paid'[r] = 0
      <3>1. \A r \in 1..Questions : paid[r] > 0 => r <= row.round
        BY <1>0, <2>1 DEF PointsFollow
      <3>2. row.round \in Nat
        BY QueueFacts
      <3> QED BY <1>1, <2>1, <3>1, <3>2
    <2>3. \A i \in DOMAIN pending' : ~Is(i, "pay")'
      <3>1. CASE pending' = pending
        BY <2>1, <3>1
      <3>2. CASE pending' # pending
        <4>1. PICK n \in Nat : Growing(n, 1) /\ pending'[n + 1] = Query("update", Progress')
          BY <1>10, <3>2 DEF Resumed
        <4> QED BY <2>1, <4>1, OnlyOne, NewUpdate
      <3> QED BY <3>1, <3>2
    <2> QED BY <2>2, <2>3 DEF PaysOnce
  <1>11. CASE NothingToResume
    <2>1. UNCHANGED <<paid, pending, round>> /\ (Listening' <=> Listening)
      BY <1>11 DEF NothingToResume, tableVars, vars, gameVars, machineVars, Listening
    <2>2. \A i : /\ Is(i, "pay")' <=> Is(i, "pay")
                 /\ PaysAgain(i)' <=> PaysAgain(i)
      BY <2>1 DEF Is, PaysAgain
    <2> QED BY <1>1, <2>1, <2>2 DEF PaysOnce
  <1> QED BY Moves, <1>3, <1>4, <1>5, <1>6, <1>7, <1>8, <1>9, <1>10, <1>11

-----------------------------------------------------------------------------
(* How many points were paid more than once *)

Surplus(m) == [r \in Again(m) |-> m[r] - 1]

(* The points paid too much are a sum over the questions paid again.        *)
LEMMA ExcessIsSum ==
    ASSUME NEW m \in [1..Questions -> Nat]
    PROVE  /\ IsFiniteSet(Again(m)) /\ ExcessOf(m) \in Nat /\ \A r \in Again(m) : Surplus(m)[r] \in Nat
           /\ ExcessOf(m) = SumOf(Surplus(m), Again(m))
  <1> DEFINE S == Again(m)
             Terms(h) == h = [s \in SUBSET S |->
                                 IF s = {} THEN 0 ELSE (m[One(s)] - 1) + h[s \ {One(s)}]]
  <1>1. IsFiniteSet(S)
    <2>1. IsFiniteSet(1..Questions)
      BY GameAssumption, FS_Interval DEF GameAssumption
    <2> QED BY <2>1, FS_Subset DEF Again
  <1>2. \A h : Terms(h) <=> Sums(h, Surplus(m), S)
    <2>1. \A s \in SUBSET S : s # {} => Surplus(m)[One(s)] = m[One(s)] - 1
      BY DEF Surplus, One
    <2> HIDE DEF S
    <2>2. \A h : [s \in SUBSET S |-> IF s = {} THEN 0 ELSE (m[One(s)] - 1) + h[s \ {One(s)}]]
               = [s \in SUBSET S |-> Adds(h, Surplus(m), s)]
      BY <2>1 DEF Adds
    <2> QED BY <2>2 DEF Sums
  <1>3. ExcessOf(m) = (CHOOSE h : Terms(h))[S]
    BY DEF ExcessOf, MapThenSumSet, MapThenFoldSet, One
  <1>4. Sums(CHOOSE h : Terms(h), Surplus(m), S)
    <2>1. \E h : Terms(h)
      BY <1>1, <1>2, SumsExist
    <2>2. Terms(CHOOSE h : Terms(h))
      BY <2>1
    <2> HIDE DEF Terms
    <2> QED BY <1>2, <2>2
  <1>5. ExcessOf(m) = SumOf(Surplus(m), S)
    <2>1. S \in SUBSET S
      OBVIOUS
    <2> HIDE DEF Terms, S
    <2> QED BY <1>1, <1>3, <1>4, <2>1, SumOfBySums
  <1>6. \A r \in S : Surplus(m)[r] \in Nat
    BY DEF Surplus, Again
  <1>7. SumOf(Surplus(m), S) \in Nat
    BY <1>1, <1>6, SumApart
  <1> QED BY <1>1, <1>5, <1>6, <1>7

(* Once more is one too many, unless it was the first time.                 *)
LEMMA ExcessOfOneMore ==
    ASSUME NEW m \in [1..Questions -> Nat], NEW r \in 1..Questions,
           NEW k, k = [m EXCEPT ![r] = @ + 1]
    PROVE  /\ ExcessOf(m) \in Nat
           /\ m[r] = 0 => ExcessOf(k) = ExcessOf(m)
           /\ m[r] > 0 => ExcessOf(k) = ExcessOf(m) + 1
  <1>1. k \in [1..Questions -> Nat] /\ k[r] = m[r] + 1 /\ \A q \in 1..Questions : q # r => k[q] = m[q]
    OBVIOUS
  <1> DEFINE T == Again(m)
             f == Surplus(m)
             U == Again(k)
             g == Surplus(k)
  <1>5. /\ IsFiniteSet(T) /\ (\A q \in T : f[q] \in Nat) /\ ExcessOf(m) = SumOf(f, T)
        /\ IsFiniteSet(U) /\ (\A q \in U : g[q] \in Nat) /\ ExcessOf(k) = SumOf(g, U)
    BY <1>1, ExcessIsSum
  <1>6. /\ \A q \in T : q \in 1..Questions /\ f[q] = m[q] - 1
        /\ \A q \in U : q \in 1..Questions /\ g[q] = k[q] - 1
        /\ \A q \in 1..Questions : (q \in T <=> m[q] > 1) /\ (q \in U <=> k[q] > 1)
    BY DEF Again, Surplus
  <1> HIDE DEF T, U, f, g
  <1>7. /\ SumOf(f, T) \in Nat
        /\ \A x \in T : SumOf(f, T) = f[x] + SumOf(f, T \ {x})
    BY <1>5, SumApart
  <1>8. \A x \in U : SumOf(g, U) = g[x] + SumOf(g, U \ {x})
    BY <1>5, SumApart
  <1>2. ExcessOf(m) \in Nat
    BY <1>5, <1>7
  <1>3. CASE m[r] = 0
    <2>1. U = T
      <3>1. \A q \in 1..Questions : m[q] > 1 <=> k[q] > 1
        <4> TAKE q \in 1..Questions
        <4>1. CASE q = r
          BY <1>1, <1>3, <4>1
        <4>2. CASE q # r
          BY <1>1, <4>2
        <4> QED BY <4>1, <4>2
      <3> QED BY <1>6, <3>1
    <2>2. \A q \in T : g[q] = f[q]
      <3>1. \A q \in T : q \in 1..Questions /\ q # r
        BY <1>3, <1>6
      <3>2. \A q \in T : k[q] = m[q]
        BY <1>1, <3>1
      <3> QED BY <1>6, <2>1, <3>2
    <2>3. SumOf(g, T) = SumOf(f, T)
      BY <1>5, <2>2, SumAlike
    <2> QED BY <1>2, <1>3, <1>5, <2>1, <2>3
  <1>4. CASE m[r] > 0
    <2> DEFINE others == T \ {r}
    <2>1. /\ r \in U /\ U \ {r} = others /\ (r \in T \/ m[r] = 1)
      BY <1>1, <1>4, <1>6
    <2>2. IsFiniteSet(others) /\ \A q \in others : g[q] = f[q] /\ f[q] \in Nat
      <3>1. \A q \in others : k[q] = m[q] /\ q \in U
        BY <1>1, <1>6, <2>1
      <3>2. \A q \in others : g[q] = f[q] /\ f[q] \in Nat
        BY <1>5, <1>6, <3>1
      <3> QED BY <1>5, <3>2, FS_Subset
    <2>3. SumOf(g, others) = SumOf(f, others) /\ SumOf(f, others) \in Nat
      <3> HIDE DEF others
      <3>1. SumOf(g, others) = SumOf(f, others)
        BY <2>2, SumAlike
      <3>2. SumOf(f, others) \in Nat
        BY <2>2, SumApart
      <3> QED BY <3>1, <3>2
    <2>4. ExcessOf(k) = m[r] + SumOf(g, others)
      <3>1. SumOf(g, U) = g[r] + SumOf(g, U \ {r})
        BY <1>8, <2>1
      <3>2. g[r] = m[r]
        BY <1>1, <1>6, <2>1
      <3> QED BY <1>5, <2>1, <3>1, <3>2
    <2>5. ExcessOf(m) = (m[r] - 1) + SumOf(f, others)
      <3>1. CASE r \in T
        <4>1. SumOf(f, T) = f[r] + SumOf(f, T \ {r})
          BY <1>7, <3>1
        <4> QED BY <1>5, <1>6, <3>1, <4>1
      <3>2. CASE r \notin T
        <4>1. others = T /\ m[r] = 1
          BY <2>1, <3>2
        <4> HIDE DEF others
        <4>2. SumOf(f, others) = ExcessOf(m)
          BY <1>5, <4>1
        <4>3. m[r] - 1 = 0
          BY <4>1
        <4> QED BY <2>3, <4>2, <4>3
      <3> QED BY <3>1, <3>2
    <2>6. m[r] \in Nat
      OBVIOUS
    <2> HIDE DEF others
    <2> QED BY <1>2, <1>4, <2>3, <2>4, <2>5, <2>6
  <1> QED BY <1>2, <1>3, <1>4

(* A crash costs at most one question paid twice.                           *)
LEMMA ExcessStep ==
    GameInv /\ GameInv' /\ TableTypeOK /\ LifeInv
    /\ (~overtaken => PaysOnce /\ ExcessInv) /\ [PersistentNext]_allVars
        => (~overtaken' => ExcessInv')
  <1> SUFFICES ASSUME GameInv, GameInv', TableTypeOK, LifeInv,
                      ~overtaken => PaysOnce /\ ExcessInv, [PersistentNext]_allVars, ~overtaken'
               PROVE  ExcessInv'
    OBVIOUS
  <1>0. ~overtaken
    BY Moves DEF Quiet, Progressed, Answered, Ended, Started, Executes, Crash, Resumed, NothingToResume, ghostVars
  <1>1. /\ \A r \in 1..Questions : r > round => paid[r] = 0
        /\ \A i \in DOMAIN pending : Is(i, "pay") =>
               /\ pending[i].row.round \in 1..Questions
               /\ pending[i].row.round <= round /\ (Listening => pending[i].row.round # round)
               /\ \A j \in DOMAIN pending : Is(j, "pay") /\ pending[i].row.round = pending[j].row.round => i = j
               /\ PaysAgain(i) => \A j \in DOMAIN pending : PaysAgain(j) => i = j
               /\ Listening /\ round <= Questions => paid[round] = 0
        /\ round \in Nat /\ round >= 1 /\ Questions \in Nat /\ paid \in [1..Questions -> Nat]
    BY <1>0, QueueFacts DEF PaysOnce, TableTypeOK
  <1>2. /\ ExcessOf(paid) + (IF Owed THEN 1 ELSE 0) <= crashes /\ crashes \in Nat
        /\ ExcessOf(paid) \in Nat
    <2>1. ExcessOf(paid) \in Nat
      <3>1. PICK m \in [1..Questions -> Nat] : m = paid
        BY <1>1
      <3>2. ExcessOf(m) \in Nat
        BY ExcessIsSum
      <3> QED BY <3>1, <3>2
    <2> QED BY <1>0, <2>1, PersistenceAssumption DEF ExcessInv, TableTypeOK, PersistenceAssumption
  <1>3. \/ ExcessOf(paid') = ExcessOf(paid) /\ crashes' = crashes /\ (Owed' => Owed)
        \/ ExcessOf(paid') = ExcessOf(paid) /\ crashes' = crashes + 1
        \/ ExcessOf(paid') = ExcessOf(paid) + 1 /\ crashes' = crashes /\ Owed /\ ~Owed'
        => ExcessInv'
    BY <1>2 DEF ExcessInv
  <1>4. CASE Quiet
    <2>1. UNCHANGED <<paid, crashes, up, pending, round>> /\ (Listening' => Listening)
      BY <1>4 DEF Quiet
    <2>2. Owed' => Owed
      BY <2>1 DEF Owed, PaysAgain, Is
    <2> QED BY <1>3, <2>1, <2>2
  (* A queue that grows by payments for this round, or by none. *)
  <1>5. ASSUME NEW n \in Nat, NEW k \in Nat, Growing(n, k), UNCHANGED <<paid, crashes>>, up', up,
               \A i \in DOMAIN pending' : PaysAgain(i)' =>
                   i \in 1..n \/ (Listening /\ round <= Questions /\ paid[round] > 0),
               round' = round \/ round' = round + 1,
               Listening' => Listening \/ round' = round + 1
        PROVE  ExcessInv'
    <2>1. /\ DOMAIN pending = 1..n
          /\ \A i \in 1..n : /\ pending'[i] = pending[i]
                             /\ Is(i, "pay")' <=> Is(i, "pay")
      BY <1>5, OldStay
    <2>2. \A i \in 1..n : PaysAgain(i)' <=> PaysAgain(i)
      BY <1>5, <2>1 DEF PaysAgain
    <2>3. ASSUME NEW i \in DOMAIN pending', PaysAgain(i)' PROVE Owed
      BY <1>5, <2>1, <2>2, <2>3 DEF Owed
    <2>4. ASSUME Listening', round' <= Questions, paid'[round'] > 0 PROVE Owed
      <3>1. CASE round' = round + 1
        <4>1. round' \in 1..Questions /\ round' > round
          BY <1>1, <2>4, <3>1
        <4>2. paid'[round'] = 0
          BY <1>1, <1>5, <4>1
        <4> QED BY <2>4, <4>2
      <3>2. CASE round' = round
        <4>1. Listening
          BY <1>1, <1>5, <2>4, <3>2
        <4> QED BY <1>5, <2>4, <3>2, <4>1 DEF Owed
      <3> QED BY <1>5, <3>1, <3>2
    <2>5. Owed' => Owed
      BY <1>5, <2>3, <2>4 DEF Owed
    <2> QED BY <1>3, <1>5, <2>5
  <1>6. CASE Progressed
    <2>1. PICK n \in Nat : Growing(n, 1) /\ pending'[n + 1] = Query("update", Progress')
      BY <1>6 DEF Progressed
    <2>2. \A i \in DOMAIN pending' : PaysAgain(i)' => i \in 1..n
      <3>1. \A i \in DOMAIN pending' : i \in 1..n \/ i = n + 1
        BY <2>1, OldStay
      <3>2. ~PaysAgain(n + 1)'
        BY <2>1, NewUpdate DEF PaysAgain
      <3> QED BY <3>1, <3>2
    <2> QED BY <1>5, <1>6, <2>1, <2>2 DEF Progressed, Table
  <1>7. CASE Answered
    <2>1. PICK n \in Nat : /\ Growing(n, 2) /\ pending'[n + 1] = Pay(round)
                           /\ pending'[n + 2] = Query("update", Progress')
      BY <1>7 DEF Answered
    <2>2. /\ round \in 1..Questions /\ Listening /\ ~Listening' /\ round' = round /\ paid' = paid
          /\ crashes' = crashes /\ up /\ up'
      BY <1>7 DEF Answered, Table
    <2>3. pending'[n + 1].row.round = round /\ ~Is(n + 2, "pay")'
      BY <2>1, <2>2, NewUpdate, QueryKinds
    <2>4. \A i \in DOMAIN pending' : i \in 1..n \/ i = n + 1 \/ i = n + 2
      <3>1. DOMAIN pending' = 1..(n + 2)
        BY <2>1, OldStay
      <3>2. \A i \in 1..(n + 2) : i \in 1..n \/ i = n + 1 \/ i = n + 2
        OBVIOUS
      <3> QED BY <3>1, <3>2
    <2>5. PaysAgain(n + 1)' => paid[round] > 0
      BY <2>2, <2>3 DEF PaysAgain
    <2>6. ~PaysAgain(n + 2)'
      BY <2>3 DEF PaysAgain
    <2>7. \A i \in DOMAIN pending' : PaysAgain(i)' =>
              i \in 1..n \/ (Listening /\ round <= Questions /\ paid[round] > 0)
      BY <2>2, <2>4, <2>5, <2>6
    <2> QED BY <1>5, <2>1, <2>2, <2>7
  <1>8. CASE Ended
    <2>1. PICK n \in Nat : Growing(n, 1) /\ pending'[n + 1] = Delete
      BY <1>8 DEF Ended
    <2>2. \A i \in DOMAIN pending' : PaysAgain(i)' => i \in 1..n
      <3>1. \A i \in DOMAIN pending' : i \in 1..n \/ i = n + 1
        BY <2>1, OldStay
      <3>2. ~PaysAgain(n + 1)'
        BY <2>1, QueryKinds DEF PaysAgain, Is
      <3> QED BY <3>1, <3>2
    <2> QED BY <1>5, <1>8, <2>1, <2>2 DEF Ended, Table
  <1>9. CASE Started
    <2>1. PICK n \in Nat : Growing(n, 1) /\ pending'[n + 1] = Insert
      BY <1>9 DEF Started
    <2>2. \A i \in DOMAIN pending' : PaysAgain(i)' => i \in 1..n
      <3>1. \A i \in DOMAIN pending' : i \in 1..n \/ i = n + 1
        BY <2>1, OldStay
      <3>2. ~PaysAgain(n + 1)'
        BY <2>1, QueryKinds DEF PaysAgain, Is
      <3> QED BY <3>1, <3>2
    <2>3. UNCHANGED <<paid, crashes, round>> /\ up /\ up' /\ (Listening' => Listening)
      BY <1>9 DEF Started, vars, gameVars, machineVars, Listening
    <2> QED BY <1>5, <2>1, <2>2, <2>3
  <1>10. CASE Executes
    <2>1. PICK n \in Nat : /\ DOMAIN pending = 1..(n + 1) /\ DOMAIN pending' = 1..n
                           /\ \A i \in 1..n : pending'[i] = pending[i + 1]
      BY <1>10 DEF Executes
    <2>2. /\ \A i \in 1..n : /\ i + 1 \in DOMAIN pending /\ pending'[i] = pending[i + 1] /\ i + 1 # 1
                             /\ Is(i, "pay")' <=> Is(i + 1, "pay")
          /\ 1 \in DOMAIN pending
      BY <2>1 DEF Is
    <2>3. round' = round /\ (Listening' <=> Listening) /\ crashes' = crashes /\ up /\ up'
      BY <1>10 DEF Executes, gameVars, machineVars, Listening
    <2>4. CASE ~Is(1, "pay")
      <3>1. paid' = paid
        BY <1>10, <2>4 DEF Executes
      <3>2. \A i \in 1..n : PaysAgain(i)' => PaysAgain(i + 1)
        BY <2>2, <3>1 DEF PaysAgain
      <3>3. Owed' => Owed
        BY <2>1, <2>2, <2>3, <3>1, <3>2 DEF Owed
      <3> QED BY <1>3, <2>3, <3>1, <3>3
    <2>5. CASE Is(1, "pay")
      <3>1. PICK r \in 1..Questions : r = pending[1].row.round
        BY <1>1, <2>2, <2>5
      <3>2. paid' = [paid EXCEPT ![r] = @ + 1]
        BY <1>10, <2>5, <3>1, Execution
      <3>3. \A q \in 1..Questions : q # r => paid'[q] = paid[q]
        BY <1>1, <3>2
      <3>4. Listening => r # round
        BY <1>1, <2>2, <2>5, <3>1
      <3>5. \A i \in 1..n : PaysAgain(i)' => PaysAgain(i + 1)
        <4>1. ASSUME NEW i \in 1..n, Is(i + 1, "pay")
              PROVE  pending[i + 1].row.round \in 1..Questions /\ pending[i + 1].row.round # r
          BY <1>1, <2>2, <2>5, <3>1, <4>1
        <4> QED BY <2>2, <3>3, <4>1 DEF PaysAgain
      <3>6. ASSUME Listening', round' <= Questions
            PROVE  Listening /\ round <= Questions /\ paid[round] = 0 /\ paid'[round'] = 0
        <4>1. Listening /\ round \in 1..Questions /\ round # r
          BY <1>1, <2>3, <3>4, <3>6
        <4>2. paid[round] = 0
          BY <1>1, <2>2, <2>5, <4>1
        <4> QED BY <2>3, <3>3, <4>1, <4>2
      <3>7. /\ paid[r] = 0 => ExcessOf(paid') = ExcessOf(paid)
            /\ paid[r] > 0 => ExcessOf(paid') = ExcessOf(paid) + 1
        <4>1. PICK m \in [1..Questions -> Nat] : m = paid
          BY <1>1
        <4>2. PICK k : k = paid'
          OBVIOUS
        <4>3. k = [m EXCEPT ![r] = @ + 1]
          BY <3>2, <4>1, <4>2
        <4>4. /\ m[r] = 0 => ExcessOf(k) = ExcessOf(m)
              /\ m[r] > 0 => ExcessOf(k) = ExcessOf(m) + 1
          BY <4>3, ExcessOfOneMore
        <4> QED BY <4>1, <4>2, <4>4
      <3>8. CASE paid[r] = 0
        <4>1. Owed' => Owed
          <5>1. Owed' => (\E i \in DOMAIN pending' : PaysAgain(i)')
            BY <2>3, <3>6 DEF Owed
          <5> QED BY <2>1, <2>2, <3>5, <5>1 DEF Owed
        <4> QED BY <1>3, <2>3, <3>7, <3>8, <4>1
      <3>9. CASE paid[r] > 0
        <4>1. PaysAgain(1)
          BY <2>5, <3>1, <3>9 DEF PaysAgain
        <4>2. Owed
          BY <2>2, <4>1 DEF Owed
        <4>3. ~ \E i \in DOMAIN pending' : PaysAgain(i)'
          BY <1>1, <2>1, <2>2, <2>5, <3>5, <4>1
        <4>4. ~Owed'
          BY <2>3, <3>6, <4>3 DEF Owed
        <4> QED BY <1>3, <2>3, <3>7, <3>9, <4>2, <4>4
      <3>10. paid[r] \in Nat
        BY <1>1
      <3> QED BY <3>8, <3>9, <3>10
    <2> QED BY <2>4, <2>5
  <1>11. CASE Crash
    BY <1>3, <1>11 DEF Crash, tableVars
  <1>12. CASE Resumed
    <2>1. Owed /\ UNCHANGED <<paid, crashes>>
      BY <1>12 DEF Resumed, Owed
    <2> QED BY <1>3, <2>1
  <1>13. CASE NothingToResume
    <2>1. Owed /\ UNCHANGED <<paid, crashes>>
      BY <1>13 DEF NothingToResume, tableVars, Owed
    <2> QED BY <1>3, <2>1
  <1> QED BY Moves, <1>4, <1>6, <1>7, <1>8, <1>9, <1>10, <1>11, <1>12, <1>13

-----------------------------------------------------------------------------
(* Together *)

RowInvariant == GameInv /\ TableTypeOK /\ RowInv

(* A new game has no row, and nothing is queued.                            *)
LEMMA PersistentInitInv == PersistentInit => RowInvariant
  <1> SUFFICES ASSUME PersistentInit PROVE RowInvariant
    OBVIOUS
  <1>1. GameInv
    BY InitIInv DEF PersistentInit, IInv
  <1>2. /\ up = TRUE /\ row = NoRow /\ pending = <<>> /\ starting = TRUE /\ logged = FALSE
        /\ overtaken = FALSE /\ crashes = 0 /\ paid = [r \in 1..Questions |-> 0]
        /\ round = 1 /\ DOMAIN pending = {}
    BY DEF PersistentInit, Init
  <1>3. TableTypeOK
    <2>1. pending \in Seq(Queries) /\ crashes \in 0..MaxCrashes
      BY <1>2, PersistenceAssumption DEF PersistenceAssumption
    <2> QED BY <1>2, <2>1 DEF TableTypeOK
  <1>4. LifeInv /\ ProgressComes /\ RoundsRise
    BY <1>2, ProgressKinds DEF LifeInv, ProgressComes, RoundsRise
  <1>5. Questions \in Nat /\ \A r \in 1..Questions : paid[r] = 0
    BY <1>2, GameAssumption DEF GameAssumption
  <1>6. StartComesFirst /\ PointsFollow /\ PaysOnce
    BY <1>2, <1>5 DEF StartComesFirst, PointsFollow, PaysOnce
  <1>7. ExcessInv
    <2>1. ~Owed
      <3>1. Listening /\ round <= Questions => round \in 1..Questions
        BY <1>2, <1>5
      <3> QED BY <1>2, <1>5, <3>1 DEF Owed
    <2>2. ExcessOf(paid) = 0
      <3>1. PICK m \in [1..Questions -> Nat] : m = paid
        BY <1>2
      <3>2. Again(m) = {}
        BY <1>5, <3>1 DEF Again
      <3>3. ExcessOf(m) = SumOf(Surplus(m), {})
        BY <3>2, ExcessIsSum
      <3> QED BY <3>1, <3>3, SumOfNone
    <2> QED BY <1>2, <2>1, <2>2 DEF ExcessInv
  <1> QED BY <1>1, <1>3, <1>4, <1>6, <1>7 DEF RowInvariant, RowInv

(* Every step preserves the invariant.                                      *)
LEMMA PersistentNextInv == RowInvariant /\ [PersistentNext]_allVars => RowInvariant'
  <1> SUFFICES ASSUME RowInvariant, [PersistentNext]_allVars PROVE RowInvariant'
    OBVIOUS
  <1>1. /\ GameInv /\ TableTypeOK /\ LifeInv /\ ProgressComes /\ RoundsRise
        /\ ~overtaken => StartComesFirst /\ PointsFollow /\ PaysOnce /\ ExcessInv
    BY DEF RowInvariant, RowInv
  <1>2. GameInv'
    BY <1>1, PersistentGameStep
  <1>3. TableTypeOK' /\ LifeInv' /\ ProgressComes' /\ RoundsRise'
    BY <1>1, <1>2, TableTypes, LifeStep, ProgressStep, RoundsStep
  <1>4. ~overtaken' => StartComesFirst' /\ PointsFollow' /\ PaysOnce' /\ ExcessInv'
    BY <1>1, <1>2, StartStep, PointsStep, PaysStep, ExcessStep
  <1> QED BY <1>2, <1>3, <1>4 DEF RowInvariant, RowInv

(* The game and its row keep what they owe each other, whatever crashes and *)
(* resumptions come between.                                                *)
THEOREM RowInvariance == PersistentSpec => []RowInvariant
<1> QED
  BY PersistentInitInv, PersistentNextInv, PTL DEF PersistentSpec

(* The last progress logged (log_question_index, the last call of every     *)
(* handler) is the progress of the game, in the row or on its way there.    *)
THEOREM RowFollows == PersistentSpec => []RowFollowsGame
<1>1. RowInvariant => RowFollowsGame
  <2> SUFFICES ASSUME RowInvariant, inStates, logged, ~terminating PROVE RowToBe = Progress
    BY DEF RowFollowsGame, Progress
  <2>1. \/ row = Progress /\ ~Updating
        \/ \E i \in DOMAIN pending :
               /\ Is(i, "update") /\ pending[i].row = Progress
               /\ \A j \in DOMAIN pending : j > i => ~Is(j, "update")
    BY DEF RowInvariant, RowInv, ProgressComes
  <2>2. CASE row = Progress /\ ~Updating
    <3>1. Updates = {}
      BY <2>2 DEF Updates, Updating, Is
    <3> QED BY <2>2, <3>1 DEF RowToBe
  <2>3. ASSUME NEW i \in DOMAIN pending, Is(i, "update"), pending[i].row = Progress,
               \A j \in DOMAIN pending : j > i => ~Is(j, "update")
        PROVE  RowToBe = Progress
    <3>1. pending \in Seq(Queries)
      BY DEF RowInvariant, TableTypeOK
    <3>2. Updates \subseteq Int /\ i \in Updates /\ \A j \in Updates : i >= j
      BY <2>3, <3>1 DEF Updates, Is
    <3>3. Max(Updates) = i
      <4>1. ASSUME NEW k \in Updates, \A j \in Updates : k >= j PROVE k = i
        <5>1. k \in Int /\ i \in Int /\ k >= i /\ i >= k
          BY <3>2, <4>1
        <5> QED BY <5>1
      <4> QED BY <3>2, <4>1 DEF Max
    <3> QED BY <2>3, <3>2, <3>3 DEF RowToBe
  <2> QED BY <2>1, <2>2, <2>3
<1> QED
  BY <1>1, RowInvariance, PTL

(* Points are paid to questions up to the row's round only: update_score is *)
(* queued before the next progress, and the queue keeps its order.          *)
THEOREM PointsBehindRow == PersistentSpec => []PointsNotAheadOfRow
<1>1. RowInvariant => PointsNotAheadOfRow
  BY DEF RowInvariant, RowInv, PointsFollow, PointsNotAheadOfRow
<1> QED
  BY <1>1, RowInvariance, PTL

(* A crash, wherever it falls, costs at most one question paid twice.       *)
THEOREM OneMoreEach == PersistentSpec => []OneDuplicatePerCrash
<1>1. RowInvariant => OneDuplicatePerCrash
  <2> SUFFICES ASSUME RowInvariant, ~overtaken
               PROVE  MapThenSumSet(LAMBDA r : paid[r] - 1, PaidAgain) <= crashes
    BY DEF OneDuplicatePerCrash
  <2>1. ExcessOf(paid) + (IF Owed THEN 1 ELSE 0) <= crashes
    BY DEF RowInvariant, RowInv, ExcessInv
  <2>2. ExcessOf(paid) \in Nat /\ crashes \in Nat
    <3>1. PICK m \in [1..Questions -> Nat] : m = paid
      BY DEF RowInvariant, TableTypeOK
    <3>2. ExcessOf(m) \in Nat
      BY ExcessIsSum
    <3>3. crashes \in Nat
      BY PersistenceAssumption DEF RowInvariant, TableTypeOK, PersistenceAssumption
    <3> QED BY <3>1, <3>2, <3>3
  <2>3. ExcessOf(paid) <= crashes
    BY <2>1, <2>2
  <2> QED BY <2>3 DEF ExcessOf, Again, PaidAgain
<1> QED
  BY <1>1, RowInvariance, PTL

(* A game that is resumed after a crash keeps what a game keeps that never  *)
(* crashed: a normal question is answered while it is on show only, has one *)
(* winner, and is paid for by its hints; the counter of insane answers does *)
(* not wrap; a streak has an owner.                                         *)
THEOREM ResumedGamesKeepTheRules ==
    PersistentSpec => [](/\ PersistentTypeOK /\ AnswerOnlyWhileOpen /\ FirstToAnswer
                         /\ OfferMatchesHints /\ InsaneCountdown /\ StreakHasOwner)
<1>1. GameInv => /\ AnswerOnlyWhileOpen /\ FirstToAnswer /\ OfferMatchesHints
                 /\ InsaneCountdown /\ StreakHasOwner /\ TypeOK
  BY DEF GameInv, OpenInv, AnswerOnlyWhileOpen, Answerable, Showing
<1>2. RowInvariant => PersistentTypeOK
  <2> SUFFICES ASSUME RowInvariant PROVE PersistentTypeOK
    OBVIOUS
  <2> DEFINE Rows == [round : 0..(numquestions + 1), streak : Nat, last : Players \cup {NoPlayer}]
  <2>1. Questions \in Nat
    BY GameAssumption DEF GameAssumption
  <2>2. NoRow \in Rows /\ Progresses \subseteq Rows
    BY <2>1 DEF NoRow, Row, Progresses, numquestions
  <2>3. \A r \in 1..Questions : [NoRow EXCEPT !.round = r] \in Rows
    BY <2>1 DEF NoRow, Row, numquestions
  <2>4. \A q \in Queries : q.row \in Rows
    <3>1. Insert.row = NewRow /\ Delete.row = NoRow
          /\ (\A r : Pay(r).row = [NoRow EXCEPT !.round = r])
          /\ \A r : Query("update", r).row = r
      BY DEF Insert, Delete, Pay, Query
    <3> HIDE DEF Rows
    <3>2. NewRow \in Rows
      BY <2>2, ProgressKinds
    <3>3. ASSUME NEW q \in Queries PROVE q.row \in Rows
      <4>1. \/ q = Insert \/ q = Delete \/ \E r \in 1..Questions : q = Pay(r)
            \/ \E r \in Progresses : q = Query("update", r)
        BY DEF Queries
      <4>2. CASE q = Insert \/ q = Delete
        BY <2>2, <3>1, <3>2, <4>2
      <4>3. ASSUME NEW r \in 1..Questions, q = Pay(r) PROVE q.row \in Rows
        BY <2>3, <3>1, <4>3
      <4>4. ASSUME NEW r \in Progresses, q = Query("update", r) PROVE q.row \in Rows
        <5>1. r \in Rows
          BY <2>2
        <5> QED BY <3>1, <4>4, <5>1
      <4> QED BY <4>1, <4>2, <4>3, <4>4
    <3> QED BY <3>3
  <2>5. row \in Rows /\ \A i \in DOMAIN pending : pending[i].row \in Rows
    <3>1. row \in Progresses \cup {NoRow} /\ \A i \in DOMAIN pending : pending[i] \in Queries
      BY DEF RowInvariant, TableTypeOK
    <3> HIDE DEF Rows
    <3> QED BY <2>2, <2>4, <3>1
  <2>6. \A r \in {row} \cup {pending[i].row : i \in DOMAIN pending} : r \in Rows
    <3> HIDE DEF Rows
    <3> QED BY <2>5
  <2>7. /\ up \in BOOLEAN /\ starting \in BOOLEAN /\ logged \in BOOLEAN /\ overtaken \in BOOLEAN
        /\ crashes \in 0..MaxCrashes /\ paid \in [1..Questions -> Nat] /\ TypeOK
    BY <1>1 DEF RowInvariant, TableTypeOK
  <2> QED BY <2>6, <2>7 DEF PersistentTypeOK
<1> QED
  BY <1>1, <1>2, RowInvariance, PTL DEF RowInvariant
=============================================================================
