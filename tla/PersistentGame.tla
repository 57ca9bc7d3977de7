--------------------------- MODULE PersistentGame ---------------------------
(***************************************************************************)
(* One game together with its row of active_games.  The game writes its    *)
(* progress (log_question_index), the points it pays (update_score) and    *)
(* its end (log_game_end) to the queue of background queries, which is     *)
(* executed in order and dies with the process; a restarted process builds *)
(* the game again from the row (TriviaModule::OnAllShardsReady).           *)
(*                                                                         *)
(* The game itself is TriviaGame's, step by step.  The row's state column  *)
(* is left out: the constructor takes it, and asking the question again    *)
(* overwrites it on every path.  stopRequested is the row's stop column.   *)
(* The start command logs the start after the game was inserted, so the    *)
(* game may be under way before its row is.                                *)
(***************************************************************************)
EXTENDS TriviaGame, Sequences, FiniteSetsExt

CONSTANTS
    MaxCrashes,    \* bound on crashes
    MaxPending     \* bound on the background queries waiting

ASSUME PersistenceAssumption == MaxCrashes \in Nat /\ MaxPending \in Nat \ {0}

VARIABLES
    up,          \* the process runs
    row,         \* the row's round, streak and last to answer
    pending,     \* background queries not executed yet
    starting,    \* the start command has not logged the start yet
    crashes,
    paid,        \* how often the points of each normal question were paid
    logged,      \* history: the last progress was logged after the start
    overtaken    \* history: the game was past its first question, or over,
                 \* before its start was logged

tableVars == <<row, paid>>
ghostVars == <<logged, overtaken>>
allVars == <<vars, tableVars, ghostVars, starting, up, pending, crashes>>

Row(r, s, l) == [round |-> r, streak |-> s, last |-> l]
NoRow == Row(0, 0, NoPlayer)
(* The defaults of the table. *)
NewRow == Row(1, 1, NoPlayer)

Query(op, r) == [op |-> op, row |-> r]
Insert == Query("insert", NewRow)
Delete == Query("delete", NoRow)
Pay(r) == Query("pay", [NoRow EXCEPT !.round = r])

PersistentTypeOK ==
    /\ TypeOK
    /\ up \in BOOLEAN /\ starting \in BOOLEAN
    /\ logged \in BOOLEAN /\ overtaken \in BOOLEAN
    /\ crashes \in 0..MaxCrashes
    /\ paid \in [1..Questions -> Nat]
    /\ \A r \in {row} \cup {pending[i].row : i \in DOMAIN pending} :
         r \in [round : 0..(numquestions + 1), streak : Nat,
                last : Players \cup {NoPlayer}]

PersistentInit ==
    /\ Init
    /\ up = TRUE /\ row = NoRow /\ pending = <<>>
    /\ starting = TRUE /\ logged = FALSE /\ overtaken = FALSE
    /\ crashes = 0
    /\ paid = [r \in 1..Questions |-> 0]

-----------------------------------------------------------------------------
(* What the handlers queue.  A handler waits while MaxPending queries do;   *)
(* a stop command leaves room for the tick that follows it.                 *)
Room == Len(pending) < MaxPending
StopRoom == Len(pending) + 1 < MaxPending

(* log_question_index, the last call of its handlers. *)
Snapshot == Query("update", Row(round', streak', lastToAnswer'))

LogsNothing == UNCHANGED <<pending, ghostVars>>

LogsBeforeTheStreak ==                                            \* mutant
    /\ Room
    /\ pending' = Append(pending, Query("update", Row(round', streak, lastToAnswer)))
    /\ logged' = ~starting
    /\ overtaken' = (overtaken \/ (starting /\ round' > 1))
LogsLost ==                                                       \* mutant
    Room /\ logged' = ~starting /\ UNCHANGED <<pending, overtaken>>
Logs ==
    /\ Room
    /\ pending' = Append(pending, Snapshot)
    /\ logged' = ~starting
    /\ overtaken' = (overtaken \/ (starting /\ round' > 1))

(* update_score, and the progress. *)
LogsAnswer ==
    /\ Room
    /\ pending' = pending \o <<Pay(round), Snapshot>>
    /\ logged' = ~starting /\ overtaken' = (overtaken \/ starting)

(* log_game_end. *)
LogsEndForgotten == UNCHANGED <<pending, ghostVars>>              \* mutant
LogsEnd ==
    /\ pending' = Append(pending, Delete)
    /\ overtaken' = (overtaken \/ starting)
    /\ UNCHANGED logged

LoggedTick ==
    \/ TickNormalRound \/ TickInsaneRound \/ TickInsaneAbort
    \/ TickFirstHint \/ TickSecondHint \/ TickTimeUp \/ TickAnswerCorrect

PersistentTick ==
    \/ LoggedTick /\ Logs
    \/ (TickLastRound \/ TickMalformedRound \/ TickStopped) /\ LogsNothing
    \/ TickEndGame /\ Room /\ LogsEnd

PersistentMessage(m) ==
    \/ MessageMisses(m) /\ LogsNothing
    \/ \E a \in InsaneAnswers :
         \/ InsaneAnswer(m, a) /\ LogsNothing
         \/ InsaneComplete(m, a) /\ Logs
    \/ NormalAnswer(m) /\ LogsAnswer

Undisturbed == up /\ UNCHANGED <<tableVars, starting, up, crashes>>

GameTicks == Undisturbed /\ PersistentTick
TimePasses == Undisturbed /\ Second /\ LogsNothing
SomebodySpeaks ==
    /\ Undisturbed
    /\ \/ \E p \in Players : OnMessage(p) /\ LogsNothing
       \/ \E m \in arrived : PersistentMessage(m)
SomebodyStops == Undisturbed /\ StopCommand /\ StopRoom /\ LogsEnd
SettingsChange == Undisturbed /\ EditSettings /\ LogsNothing

(* log_game_start, the start command's last call. *)
LogStart ==
    /\ up /\ starting /\ Room
    /\ pending' = Append(pending, Insert)
    /\ starting' = FALSE
    /\ UNCHANGED <<vars, tableVars, ghostVars, up, crashes>>

(* The dashboard sets the stop column of a row, game or no game. *)
DashboardStopsRow ==
    /\ row # NoRow /\ ~stopRequested
    /\ stopRequested' = TRUE
    /\ UNCHANGED <<gameVars, mode, disableInsane, edits, arrived, tableVars,
                   ghostVars, starting, up, pending, crashes>>

-----------------------------------------------------------------------------
(* The background thread.  Only a row that exists is updated, and no second *)
(* one is inserted. *)
Executed(q) ==
    CASE q.op = "insert" /\ row = NoRow -> q.row
      [] q.op = "update" /\ row # NoRow -> q.row
      [] q.op = "delete" -> NoRow
      [] OTHER -> row

BackgroundThread ==
    /\ up /\ pending # <<>>
    /\ LET q == Head(pending)
       IN  /\ row' = Executed(q)
           /\ stopRequested' = (stopRequested /\ q.op # "delete")
           /\ paid' = IF q.op = "pay" THEN [paid EXCEPT ![q.row.round] = @ + 1]
                                      ELSE paid
    /\ pending' = Tail(pending)
    /\ UNCHANGED <<gameVars, mode, disableInsane, edits, arrived, ghostVars,
                   starting, up, crashes>>

(* The process dies: the game, the messages and the queue are gone. *)
Crash ==
    /\ up /\ crashes < MaxCrashes
    /\ crashes' = crashes + 1 /\ up' = FALSE
    /\ inStates' = FALSE /\ arrived' = {} /\ pending' = <<>>
    /\ starting' = FALSE
    /\ UNCHANGED <<machineVars, nextTick, questionVars, streakVars, historyVars,
                   settingVars, tableVars, ghostVars>>

(* state_t's constructor, with the row's progress. *)
RebuiltFromTheFirst ==                                            \* mutant
    /\ round' = 1 /\ streak' = row.streak /\ lastToAnswer' = row.last
Rebuilt ==
    /\ round' = row.round /\ streak' = row.streak /\ lastToAnswer' = row.last

ResumesInsane == ~disableInsane /\ round' % InsaneEvery = 0
ResumesAfterLast == round' >= numquestions

(* The question of that round is asked again... *)
ResumeNormalRound ==
    /\ ~ResumesAfterLast /\ ~ResumesInsane
    /\ LogQuestionIndex(AfterAsking)
    /\ answer' = round' /\ score' = AskScore
    /\ insane' = {} /\ insaneLeft' = 0 /\ insaneNum' = 0
    /\ asked' = asked \cup {round'} /\ open' = "normal" /\ winners' = 0
    /\ Logs

ResumeInsaneRound(list) ==
    /\ ~ResumesAfterLast /\ ResumesInsane /\ ~stopRequested
    /\ gamestate' = "FIRST_HINT" /\ score' = 0 /\ answer' = 0
    /\ insane' = list
    /\ insaneLeft' = ListSize(list) /\ insaneNum' = ListSize(list)
    /\ asked' = asked \cup {round'} /\ open' = "insane"
    /\ UNCHANGED winners
    /\ Logs

(* ...or there is none left, or it cannot be fetched.  Only an insane round *)
(* logs even so. *)
ResumeNothing ==
    /\ gamestate' = "END" /\ score' = 0 /\ answer' = 0
    /\ insane' = {} /\ insaneLeft' = 0 /\ insaneNum' = 0
    /\ UNCHANGED historyVars
    /\ IF ~ResumesAfterLast /\ ResumesInsane THEN Logs ELSE LogsNothing

(* OnAllShardsReady, after run-cluster.sh has started the process again. *)
Resume ==
    /\ ~up /\ row # NoRow
    /\ up' = TRUE /\ inStates' = TRUE
    /\ Rebuilt
    /\ terminating' = FALSE /\ nextTick' = 0 /\ insaneStats' = NoStats
    /\ \/ ResumeNormalRound \/ ResumeNothing
       \/ \E list \in SUBSET InsaneAnswers : list # {} /\ ResumeInsaneRound(list)
    /\ UNCHANGED <<settingVars, arrived, tableVars, starting, crashes>>

NothingToResume ==
    /\ ~up /\ row = NoRow
    /\ up' = TRUE
    /\ UNCHANGED <<vars, tableVars, ghostVars, starting, pending, crashes>>

PersistentNext ==
    \/ GameTicks \/ TimePasses \/ SomebodySpeaks \/ SomebodyStops
    \/ SettingsChange \/ LogStart \/ DashboardStopsRow \/ BackgroundThread
    \/ Crash \/ Resume \/ NothingToResume

(* Ticks, the background thread and the start command go on while the       *)
(* process runs; a dead process is started again.  Nobody has to speak,     *)
(* stop or edit anything.                                                   *)
PersistentFairness ==
    /\ WF_allVars(GameTicks) /\ WF_allVars(TimePasses)
    /\ WF_allVars(BackgroundThread) /\ WF_allVars(LogStart)
    /\ WF_allVars(Resume) /\ WF_allVars(NothingToResume)

PersistentSpec ==
    PersistentInit /\ [][PersistentNext]_allVars /\ PersistentFairness
-----------------------------------------------------------------------------
(* Properties *)

(* The row as it will be when the queue is executed. *)
Updates == {i \in DOMAIN pending : pending[i].op = "update"}
RowToBe == IF Updates = {} THEN row ELSE pending[Max(Updates)].row

(* "used for resuming games on crash or restart" (webrequest.cpp:631): the  *)
(* last progress logged is the game's progress at any time, on every path   *)
(* of every handler, so a resumed game lacks no more than the queue lost.   *)
RowFollowsGame ==
    inStates /\ logged /\ ~terminating /\ RowToBe # NoRow
        => RowToBe = Row(round, streak, lastToAnswer)

(* The points in the database never belong to a question beyond the row's:  *)
(* update_score is queued before the next progress, and the queue keeps     *)
(* order.                                                                   *)
PointsNotAheadOfRow ==
    ~overtaken /\ row # NoRow
        => \A r \in 1..Questions : paid[r] > 0 => r <= row.round

(* A crash costs at most one question paid twice, the one it interrupted,   *)
(* however far the queue was behind.                                        *)
PaidAgain == {r \in 1..Questions : paid[r] > 1}
OneDuplicatePerCrash ==
    ~overtaken => MapThenSumSet(LAMBDA r : paid[r] - 1, PaidAgain) <= crashes

(* A stop asked for by the dashboard, while the process runs or while it is *)
(* down, is kept in the row and carried out: the row is deleted, crashes or *)
(* no crashes.                                                              *)
StopIsNotForgotten == stopRequested /\ ~overtaken ~> row = NoRow

(* In the end the game is over for good, however often it is resumed.       *)
GameIsOver == <>[](up /\ ~inStates)
=============================================================================
