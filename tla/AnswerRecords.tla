---------------------------- MODULE AnswerRecords ----------------------------
(***************************************************************************)
(* What a right answer leaves in the database besides its points           *)
(* (state.cpp:308-394, webrequest.cpp:738-812): the points of the player's *)
(* team with the player's share of them, and the longest streaks, of the   *)
(* guild and of all guilds.                                                *)
(*                                                                         *)
(* Team and record are read by queries, and what is to be written is       *)
(* queued: each cluster, a process of its own, has a queue and judges one  *)
(* answer at a time.  Coins, and the texts that are sent, are left out.    *)
(***************************************************************************)
EXTENDS Integers, Sequences, SequencesExt, FiniteSets, FiniteSetsExt

CONSTANTS
    Players, TeamNames, Games, Clusters,
    GuildOfGame, ClusterOfGame,
    MaxCarried,     \* bound: streak carried over
    MaxAnswers,     \* bound: right answers
    MaxMoves        \* bound: teams joined and left, streaks lost

ASSUME RecordsAssumption ==
    /\ DOMAIN GuildOfGame = Games
    /\ ClusterOfGame \in [Games -> Clusters]
    /\ {MaxCarried, MaxAnswers, MaxMoves} \subseteq Nat
    /\ IsFiniteSet(Players) /\ IsFiniteSet(Clusters)
    /\ "nobody" \notin Players \cup TeamNames

VARIABLES
    streakOf, lastOf,    \* streak and last_to_answer of each game
    bestStreaks,         \* of each player: in each guild, and everywhere
    scoreOf,             \* of each team
    membership,          \* of each player: the team, and points_contributed
    queued,              \* background queries of each cluster
    judging,             \* the answer each cluster is at
    answers, moves,
    behind,              \* history: players whose record was read too early
    movedOn              \* history: players who left a team their points went to

recordsVars == <<streakOf, lastOf, bestStreaks, scoreOf, membership, queued, judging,
                 answers, moves, behind, movedOn>>
gamesVars == <<streakOf, lastOf>>
tables == <<bestStreaks, scoreOf, membership>>

Nobody == "nobody"
NoAnswer == [at |-> "none"]
NoTeam == [team |-> Nobody, points |-> 0]
Everywhere == "everywhere"
Scopes == {GuildOfGame[g] : g \in Games} \cup {Everywhere}

(* A game carries on the streak of its channel's game before.               *)
RecordsInit ==
    /\ streakOf \in [Games -> 1..MaxCarried] /\ lastOf \in [Games -> Players \cup {Nobody}]
    /\ \A g \in Games : streakOf[g] > 1 <=> lastOf[g] # Nobody
    /\ bestStreaks = [p \in Players |-> [s \in Scopes |-> 0]]
    /\ scoreOf = [n \in TeamNames |-> 0]
    /\ membership \in [Players -> {NoTeam} \cup [team : TeamNames, points : {0}]]
    /\ queued = [c \in Clusters |-> <<>>]
    /\ judging = [c \in Clusters |-> NoAnswer]
    /\ answers = 0 /\ moves = 0 /\ behind = {} /\ movedOn = {}

JudgingAt(c, step) == judging[c].at = step
Goes(c, step) == judging' = [judging EXCEPT ![c].at = step]
Judged(c) == judging' = [judging EXCEPT ![c] = NoAnswer]
Enqueue(c, queries) == queued' = [queued EXCEPT ![c] = @ \o queries]
SameHistory == UNCHANGED <<answers, moves, behind, movedOn>>

-----------------------------------------------------------------------------
(* handle_message, with states_mutex, once the answer was found right.  A   *)
(* question may be one of the guild's own.                                  *)
RightAnswer(g, p) ==
    LET c == ClusterOfGame[g] IN
    /\ judging[c] = NoAnswer
    /\ answers < MaxAnswers /\ answers' = answers + 1
    /\ \E own \in BOOLEAN :
           judging' = [judging EXCEPT ![c] = [at |-> "team", game |-> g, player |-> p, own |-> own,
                                              team |-> Nobody, scope |-> GuildOfGame[g], best |-> 0]]
    /\ UNCHANGED <<gamesVars, tables, queued, moves, behind, movedOn>>

get_current_team(c) ==
    /\ JudgingAt(c, "team")
    /\ judging' = [judging EXCEPT ![c].team = membership[judging[c].player].team,
                                  ![c].at = IF membership[judging[c].player] # NoTeam /\ ~judging[c].own
                                            THEN "points" ELSE "streak"]
    /\ UNCHANGED <<gamesVars, tables, queued>> /\ SameHistory

TeamQueries(c) == <<[do |-> "team score", team |-> judging[c].team],
                    [do |-> "contribution", player |-> judging[c].player]>>
ShareFirst(c) == Reverse(TeamQueries(c))                          \* mutant

TeamPoints(c) == TeamQueries(c)

add_team_points(c) ==
    /\ JudgingAt(c, "points") /\ Goes(c, "streak")
    /\ Enqueue(c, TeamPoints(c))
    /\ UNCHANGED <<gamesVars, tables>> /\ SameHistory

(* The streak goes on, or is the first answer of a new one.                 *)
CountStreak(c) ==
    LET g == judging[c].game
        p == judging[c].player
    IN  /\ JudgingAt(c, "streak")
        /\ IF lastOf[g] = p
           THEN streakOf' = [streakOf EXCEPT ![g] = @ + 1] /\ Goes(c, "record")
           ELSE streakOf' = [streakOf EXCEPT ![g] = 1] /\ Judged(c)
        /\ lastOf' = [lastOf EXCEPT ![g] = p]
        /\ UNCHANGED <<tables, queued>> /\ SameHistory

(* A longer streak of the player's that is not in the table yet.            *)
Pending(p, scope) ==
    \E d \in Clusters :
        \/ \E i \in DOMAIN queued[d] : /\ queued[d][i].do = "streak"
                                       /\ queued[d][i].player = p /\ queued[d][i].scope = scope
        \/ JudgingAt(d, "compare") /\ judging[d].player = p /\ judging[d].scope = scope

(* The guild's record, and that of all guilds for a question of the bot's.  *)
get_streak(c) ==
    /\ JudgingAt(c, "record")
    /\ judging' = [judging EXCEPT ![c].at = "compare",
                                  ![c].best = bestStreaks[judging[c].player][judging[c].scope]]
    /\ behind' = IF Pending(judging[c].player, judging[c].scope)
                 THEN behind \cup {judging[c].player} ELSE behind
    /\ UNCHANGED <<gamesVars, tables, queued, answers, moves, movedOn>>

BeatenAlways(streak, best) == TRUE                                \* mutant
Beaten(streak, best) == streak > best

change_streak(c) ==
    LET j == judging[c]
        streak == streakOf[j.game]
    IN  /\ JudgingAt(c, "compare")
        /\ IF Beaten(streak, j.best)
           THEN Enqueue(c, <<[do |-> "streak", player |-> j.player, scope |-> j.scope, streak |-> streak]>>)
           ELSE UNCHANGED queued
        /\ IF j.scope = Everywhere \/ j.own THEN Judged(c)
           ELSE judging' = [judging EXCEPT ![c].at = "record", ![c].scope = Everywhere]
        /\ UNCHANGED <<gamesVars, tables>> /\ SameHistory

-----------------------------------------------------------------------------
(* The queues, and what else changes streaks and teams *)

RecordsExecuted(q) ==
    /\ scoreOf' = IF q.do = "team score" THEN [scoreOf EXCEPT ![q.team] = @ + 1] ELSE scoreOf
    /\ membership' = IF q.do = "contribution" /\ membership[q.player] # NoTeam
                     THEN [membership EXCEPT ![q.player].points = @ + 1] ELSE membership
    /\ bestStreaks' = IF q.do = "streak" THEN [bestStreaks EXCEPT ![q.player][q.scope] = q.streak]
                      ELSE bestStreaks

ClusterQueue(c) ==
    /\ queued[c] # <<>> /\ queued' = [queued EXCEPT ![c] = Tail(@)]
    /\ RecordsExecuted(Head(queued[c]))
    /\ UNCHANGED <<gamesVars, judging>> /\ SameHistory

Move == moves < MaxMoves /\ moves' = moves + 1 /\ UNCHANGED <<bestStreaks, scoreOf, answers, behind>>

(* Nobody answers a question in time.                                       *)
TimeUp(g) ==
    /\ Move /\ judging[ClusterOfGame[g]] = NoAnswer
    /\ streakOf' = [streakOf EXCEPT ![g] = 1] /\ lastOf' = [lastOf EXCEPT ![g] = Nobody]
    /\ UNCHANGED <<membership, queued, judging, movedOn>>

JoinTeam(p, n) ==
    /\ Move /\ membership[p] = NoTeam
    /\ membership' = [membership EXCEPT ![p] = [team |-> n, points |-> 0]]
    /\ UNCHANGED <<gamesVars, queued, judging, movedOn>>

PointsUnderWay(p) ==
    \E c \in Clusters :
        \/ JudgingAt(c, "points") /\ judging[c].player = p
        \/ \E i \in DOMAIN queued[c] : queued[c][i].do = "contribution" /\ queued[c][i].player = p

leave_team(p) ==
    /\ Move /\ membership[p] # NoTeam
    /\ membership' = [membership EXCEPT ![p] = NoTeam]
    /\ movedOn' = IF PointsUnderWay(p) THEN movedOn \cup {p} ELSE movedOn
    /\ UNCHANGED <<gamesVars, queued, judging>>

(* A cluster dies with its queue; its games are resumed, with their streaks *)
(* or with what they were before.                                           *)
ClusterDies(c) ==
    /\ queued' = [queued EXCEPT ![c] = <<>>] /\ judging' = [judging EXCEPT ![c] = NoAnswer]
    /\ \E lost \in SUBSET {g \in Games : ClusterOfGame[g] = c /\ streakOf[g] > 1} :
           streakOf' = [g \in Games |-> IF g \in lost THEN streakOf[g] - 1 ELSE streakOf[g]]
    /\ UNCHANGED <<lastOf, tables>> /\ SameHistory

RecordsNext ==
    \/ \E g \in Games : TimeUp(g) \/ \E p \in Players : RightAnswer(g, p)
    \/ \E c \in Clusters :
        \/ get_current_team(c) \/ add_team_points(c) \/ CountStreak(c)
        \/ get_streak(c) \/ change_streak(c) \/ ClusterQueue(c) \/ ClusterDies(c)
    \/ \E p \in Players : leave_team(p) \/ \E n \in TeamNames : JoinTeam(p, n)

RecordsSpec == RecordsInit /\ [][RecordsNext]_recordsVars

-----------------------------------------------------------------------------
(* Properties *)

(* What a team's members have contributed is in the team's score at any     *)
(* time, whichever clusters they play on, whoever leaves and whatever a     *)
(* crash leaves undone (webrequest.cpp:792), except for players who left a  *)
(* team while points were on their way to it: those count for their next    *)
(* team.                                                                    *)
ContributionsAreInTheScore ==
    \A n \in TeamNames :
        LET members == {p \in Players \ movedOn : membership[p].team = n}
        IN  MapThenSumSet(LAMBDA p : membership[p].points, members) <= scoreOf[n]

(* A player's longest streak falls only if it was compared with a record    *)
(* that a longer streak of the player's was on its way to: "BEATEN_BEST"    *)
(* may otherwise be told of a shorter one (state.cpp:338).                  *)
RecordsStand ==
    [][\A p \in Players \ behind, s \in Scopes : bestStreaks'[p][s] >= bestStreaks[p][s]]_recordsVars
=============================================================================
