--------------------------- MODULE GameLifecycle ---------------------------
(***************************************************************************)
(* The games of one guild on one cluster: the start command (users and the *)
(* dashboard, cmd_start.cpp), the stop command (cmd_stop.cpp), the tick    *)
(* thread, and the active_games table, which is written through the queue  *)
(* of background queries and read back after a crash                       *)
(* (TriviaModule::OnAllShardsReady).                                       *)
(*                                                                         *)
(* states_mutex guards each step on the map of games, but the start        *)
(* command takes it three times: it looks at the guild's games, then at    *)
(* the channel, and inserts its game, and writes to the table in between   *)
(* and afterwards.  Channels are numbered in the order of the map's keys.  *)
(* What happens inside a game is TriviaGame's business: here it just ends. *)
(***************************************************************************)
EXTENDS Integers, Sequences, FiniteSets

CONSTANTS
    Channels,      \* channel ids of the guild
    Premiums,      \* whether the guild may have premium
    Commands,      \* threads that may run a start command
    Sources,       \* where start commands come from
    MaxGames,      \* bound on the games ever started
    MaxCrashes,    \* bound on crashes
    MaxQueue       \* bound on the background queries waiting

ASSUME LifecycleAssumption ==
    /\ Channels \subseteq Nat /\ IsFiniteSet(Channels)
    /\ Premiums \subseteq BOOLEAN
    /\ Sources \subseteq {"user", "dashboard"}
    /\ MaxGames \in Nat /\ MaxCrashes \in Nat /\ MaxQueue \in Nat

VARIABLES
    games,      \* TriviaModule::states
    rows,       \* active_games: the game each channel's row was written for
    queue,      \* background queries not executed yet
    cmds,       \* the start commands in progress
    phase,      \* of the process
    resuming,   \* rows OnAllShardsReady has read and not handled yet
    begun,      \* the channel of each game started so far
    crashes,
    premium     \* the guild has premium

processVars == <<phase, resuming, crashes, premium>>
vars == <<games, rows, queue, cmds, begun, processVars>>

GameIds == 1..MaxGames
NoGame == [id |-> 0, origin |-> "none", ended |-> FALSE, terminating |-> FALSE]
Game == [id : GameIds, origin : {"started", "resumed"},
         ended : BOOLEAN, terminating : BOOLEAN]
NewGame(i, o) == [id |-> i, origin |-> o, ended |-> FALSE, terminating |-> FALSE]

Insert(c, i) == [op |-> "insert", ch |-> c, id |-> i]
Delete(c) == [op |-> "delete", ch |-> c, id |-> 0]
Query == [op : {"insert", "delete"}, ch : Channels, id : 0..MaxGames]

Idle == [pc |-> "idle", ch |-> 0, from |-> "none", id |-> 0]
PCs == {"guild_check", "run_check", "log_end", "validate", "insert", "log_start"}
InProgress == [pc : PCs, ch : Channels, from : Sources, id : 0..MaxGames]

TypeOK ==
    /\ games \in [Channels -> Game \cup {NoGame}]
    /\ rows \in [Channels -> 0..MaxGames]
    /\ queue \in Seq(Query)
    /\ cmds \in [Commands -> {Idle} \cup InProgress]
    /\ phase \in {"down", "connecting", "ready"}
    /\ resuming \in [Channels -> 0..MaxGames]
    /\ begun \in Seq(Channels) /\ Len(begun) <= MaxGames
    /\ crashes \in 0..MaxCrashes
    /\ premium \in Premiums

NoRows == [c \in Channels |-> 0]

Init ==
    /\ games = [c \in Channels |-> NoGame]
    /\ rows = NoRows
    /\ queue = <<>>
    /\ cmds = [t \in Commands |-> Idle]
    /\ phase = "ready"
    /\ resuming = NoRows
    /\ begun = <<>>
    /\ crashes = 0
    /\ premium \in Premiums

Up == phase # "down"
Present(c) == games[c].id # 0

(* backgroundquery.  Commands wait while MaxQueue queries are waiting; the   *)
(* tick thread does not, and adds one per game at most.                     *)
Enqueue(q) == queue' = Append(queue, q)
Room == Len(queue) < MaxQueue

-----------------------------------------------------------------------------
(* The start command *)

At(t, pc) == Up /\ cmds[t].pc = pc
Goto(t, pc) == cmds' = [cmds EXCEPT ![t].pc = pc]
Return(t) == cmds' = [cmds EXCEPT ![t] = Idle]

(* A start command from a user, or from the dashboard's start_queue. *)
StartCommand(t, c, from) ==
    /\ Up /\ cmds[t] = Idle /\ Len(begun) < MaxGames
    /\ cmds' = [cmds EXCEPT ![t] = [pc |-> "guild_check", ch |-> c,
                                    from |-> from, id |-> 0]]
    /\ UNCHANGED <<games, rows, queue, begun, processVars>>

(* Games of the guild in other channels, not at their end. *)
OtherGames(c) == {d \in Channels \ {c} : Present(d) /\ ~games[d].ended}

(* The first of them in the map's order. *)
FirstOther(c) == CHOOSE d \in OtherGames(c) : \A e \in OtherGames(c) : d <= e

Supersedes(t) == cmds[t].from = "dashboard" /\ OtherGames(cmds[t].ch) # {}

(* number_of_games: the loop stops counting at the game it stops. *)
NumberOfGames(t) ==
    LET counted == IF Supersedes(t)
                     THEN {d \in Channels : d < FirstOther(cmds[t].ch)}
                     ELSE Channels
    IN  Cardinality({d \in counted : Present(d)})

GuildFullLate(t) ==                                               \* mutant
    IF premium THEN NumberOfGames(t) > 2
               ELSE Cardinality(OtherGames(cmds[t].ch)) > 1 /\ ~Supersedes(t)

(* The guild has no room for another game. *)
GuildFull(t) ==
    IF premium THEN NumberOfGames(t) >= 2
               ELSE OtherGames(cmds[t].ch) # {} /\ ~Supersedes(t)

AfterGuildCheck(t) ==
    IF GuildFull(t) THEN Return(t) ELSE Goto(t, "run_check")

(* A start from the dashboard removes another game of the guild. *)
GuildCheckSupersedes(t) ==
    /\ At(t, "guild_check") /\ Supersedes(t) /\ Room
    /\ LET d == FirstOther(cmds[t].ch)
       IN  games' = [games EXCEPT ![d] = NoGame] /\ Enqueue(Delete(d))
    /\ AfterGuildCheck(t)
    /\ UNCHANGED <<rows, begun, processVars>>

GuildCheck(t) ==
    /\ At(t, "guild_check") /\ ~Supersedes(t)
    /\ AfterGuildCheck(t)
    /\ UNCHANGED <<games, rows, queue, begun, processVars>>

(* already_running: a user is turned away, the dashboard is not. *)
RunCheck(t) ==
    /\ At(t, "run_check")
    /\ IF ~Present(cmds[t].ch) THEN Goto(t, "validate")
       ELSE IF cmds[t].from = "dashboard" THEN Goto(t, "log_end")
       ELSE Return(t)
    /\ UNCHANGED <<games, rows, queue, begun, processVars>>

(* log_game_end for the running game, which stays in the map. *)
LogEnd(t) ==
    /\ At(t, "log_end") /\ Room
    /\ Enqueue(Delete(cmds[t].ch))
    /\ Goto(t, "validate")
    /\ UNCHANGED <<games, rows, begun, processVars>>

(* The number of questions, the categories and the cooldown are checked and *)
(* the questions fetched; any of it may fail.                               *)
Validate(t) ==
    /\ At(t, "validate")
    /\ Goto(t, "insert") \/ Return(t)
    /\ UNCHANGED <<games, rows, queue, begun, processVars>>

InsertGame(t) ==
    /\ At(t, "insert")
    /\ Len(begun) < MaxGames
    /\ begun' = Append(begun, cmds[t].ch)
    /\ games' = [games EXCEPT ![cmds[t].ch] = NewGame(Len(begun'), "started")]
    /\ cmds' = [cmds EXCEPT ![t].pc = "log_start", ![t].id = Len(begun')]
    /\ UNCHANGED <<rows, queue, processVars>>

(* log_game_start *)
LogStart(t) ==
    /\ At(t, "log_start") /\ Room
    /\ Enqueue(Insert(cmds[t].ch, cmds[t].id))
    /\ Return(t)
    /\ UNCHANGED <<games, rows, begun, processVars>>

-----------------------------------------------------------------------------
(* The stop command and the tick thread *)

StopCommand(c) ==
    /\ Up /\ Present(c) /\ Room
    /\ games' = [games EXCEPT ![c].terminating = TRUE]
    /\ Enqueue(Delete(c))
    /\ UNCHANGED <<rows, cmds, begun, processVars>>

(* The game reaches TRIV_END: no question left, a failed fetch, or the      *)
(* dashboard's stop flag.                                                   *)
GameOver(c) ==
    /\ Up /\ Present(c) /\ ~games[c].ended /\ ~games[c].terminating
    /\ games' = [games EXCEPT ![c].ended = TRUE]
    /\ UNCHANGED <<rows, queue, cmds, begun, processVars>>

(* do_end_game, and the removal in the same pass. *)
TickEnded(c) ==
    /\ Up /\ Present(c) /\ games[c].ended
    /\ games' = [games EXCEPT ![c] = NoGame]
    /\ Enqueue(Delete(c))
    /\ UNCHANGED <<rows, cmds, begun, processVars>>

TickStoppedAtEnd(c) == TickEnded(c) /\ games[c].terminating       \* mutant

(* A stopped game is removed without its handler. *)
TickStopped(c) ==
    /\ Up /\ Present(c) /\ games[c].terminating /\ ~games[c].ended
    /\ games' = [games EXCEPT ![c] = NoGame]
    /\ UNCHANGED <<rows, queue, cmds, begun, processVars>>

Tick(c) == TickEnded(c) \/ TickStopped(c)

-----------------------------------------------------------------------------
(* The background thread, crashes and the resumption of games *)

(* An INSERT of a row that exists already is an error, which is only logged.*)
Executed(q) ==
    CASE q.op = "delete" -> 0
      [] q.op = "insert" /\ rows[q.ch] = 0 -> q.id
      [] OTHER -> rows[q.ch]

BackgroundThreadNewestFirst ==                                    \* mutant
    /\ Up /\ queue # <<>>
    /\ LET q == queue[Len(queue)]
       IN  rows' = [rows EXCEPT ![q.ch] = Executed(q)]
    /\ queue' = SubSeq(queue, 1, Len(queue) - 1)
    /\ UNCHANGED <<games, cmds, begun, processVars>>

BackgroundThread ==
    /\ Up /\ queue # <<>>
    /\ rows' = [rows EXCEPT ![Head(queue).ch] = Executed(Head(queue))]
    /\ queue' = Tail(queue)
    /\ UNCHANGED <<games, cmds, begun, processVars>>

(* The process dies with its games, its commands and its queue. *)
Crash ==
    /\ Up /\ crashes < MaxCrashes
    /\ crashes' = crashes + 1
    /\ phase' = "down"
    /\ games' = [c \in Channels |-> NoGame]
    /\ queue' = <<>>
    /\ cmds' = [t \in Commands |-> Idle]
    /\ resuming' = NoRows
    /\ UNCHANGED <<rows, begun, premium>>

(* run-cluster.sh starts it again; commands are taken as shards connect. *)
Restart ==
    /\ phase = "down" /\ phase' = "connecting"
    /\ UNCHANGED <<games, rows, queue, cmds, resuming, begun, crashes, premium>>

(* OnAllShardsReady reads the table once... *)
AllShardsReady ==
    /\ phase = "connecting" /\ phase' = "ready"
    /\ resuming' = rows
    /\ UNCHANGED <<games, rows, queue, cmds, begun, crashes, premium>>

ResumeUnchecked(c) ==                                             \* mutant
    /\ Up /\ resuming[c] # 0
    /\ resuming' = [resuming EXCEPT ![c] = 0]
    /\ games' = [games EXCEPT ![c] = NewGame(resuming[c], "resumed")]
    /\ UNCHANGED <<rows, queue, cmds, phase, begun, crashes, premium>>

(* ...and then resumes row by row, unless the channel has a game by now.    *)
(* Asking the current question again may fail and end the game.             *)
Resume(c) ==
    /\ Up /\ resuming[c] # 0
    /\ resuming' = [resuming EXCEPT ![c] = 0]
    /\ IF Present(c)
         THEN UNCHANGED games
         ELSE \E failed \in BOOLEAN :
                games' = [games EXCEPT ![c] =
                    [NewGame(resuming[c], "resumed") EXCEPT !.ended = failed]]
    /\ UNCHANGED <<rows, queue, cmds, phase, begun, crashes, premium>>

-----------------------------------------------------------------------------
StartStep(t) ==
    \/ GuildCheckSupersedes(t) \/ GuildCheck(t) \/ RunCheck(t) \/ LogEnd(t)
    \/ Validate(t) \/ InsertGame(t) \/ LogStart(t)

Next ==
    \/ \E t \in Commands, c \in Channels, f \in Sources : StartCommand(t, c, f)
    \/ \E t \in Commands : StartStep(t)
    \/ \E c \in Channels : StopCommand(c) \/ GameOver(c) \/ Tick(c) \/ Resume(c)
    \/ BackgroundThread \/ Crash \/ Restart \/ AllShardsReady

(* The tick and background threads run for ever, a started command goes on  *)
(* and a restarted process resumes; commands and crashes need not happen.   *)
Fairness ==
    /\ \A c \in Channels : WF_vars(Tick(c)) /\ WF_vars(Resume(c))
    /\ \A t \in Commands : WF_vars(StartStep(t))
    /\ WF_vars(BackgroundThread) /\ WF_vars(Restart) /\ WF_vars(AllShardsReady)

Spec == Init /\ [][Next]_vars /\ Fairness

-----------------------------------------------------------------------------
(* Properties *)

(* A game that is being played, or will be. *)
Active(c) == Present(c) /\ ~games[c].ended /\ ~games[c].terminating

GameLimit == IF premium THEN 2 ELSE 1

(* "Can't start two rounds at once on one server!" (lang.json, NOWAY), nor  *)
(* three in a premium guild (TOO_MANY_PREM).                                *)
WithinGameLimit == Cardinality({c \in Channels : Active(c)}) <= GameLimit

(* The channel will have a row when the queue is executed. *)
DeletedAfter(c, i) == \E j \in (i + 1)..Len(queue) : queue[j] = Delete(c)
WillHaveRow(c) ==
    \/ rows[c] # 0 /\ ~DeletedAfter(c, 0)
    \/ \E i \in 1..Len(queue) :
         queue[i].op = "insert" /\ queue[i].ch = c /\ ~DeletedAfter(c, i)

BeingStarted(c) == \E t \in Commands : cmds[t] # Idle /\ cmds[t].ch = c

(* active_games is "used for resuming of games on crash or restart"         *)
(* (webrequest.cpp:590): a game that a command started, and that is neither *)
(* over nor stopped, has a row once the start commands for its channel and  *)
(* the queue are through, whatever starts and stops overlapped there.       *)
StartedGamesAreResumable ==
    \A c \in Channels :
        Active(c) /\ games[c].origin = "started" /\ ~BeingStarted(c)
            => WillHaveRow(c)

(* "Check that impatient user didn't (re)start the round while bot was      *)
(* synching guilds!" (trivia.cpp:230): resuming never takes a channel from  *)
(* the game that runs there.                                                *)
ResumeSparesNewGames ==
    [][\A c \in Channels :
         Present(c) /\ games'[c].origin = "resumed"
            => games'[c].id = games[c].id]_vars

(* Whatever starts, stops, ends, crashes and resumptions overlap, a channel *)
(* sees one game at a time; a game begins once, and is played and resumed   *)
(* in no other channel, and never in another game's place (states is keyed  *)
(* by channel, the row by guild and channel, trivia.cpp:231).               *)
Guild == INSTANCE GuildGames
           WITH playing <- [c \in Channels |-> IF Active(c) THEN games[c].id ELSE 0]
KeepsGuildPromises == Guild!Spec

(* A game that was stopped, or is over, gives up its channel: it is removed *)
(* or replaced.                                                             *)
FinishedGamesLeave ==
    \A c \in Channels, i \in GameIds :
        (games[c].id = i /\ (games[c].ended \/ games[c].terminating))
            ~> games[c].id # i
=============================================================================
