---------------------- MODULE RecordsAndAccountsProofs -----------------------
(***************************************************************************)
(* What is proved of AnswerRecords, the points and streaks of players and  *)
(* teams that cross between the clusters and the web server, and of        *)
(* Accounts, the teams, hints, locks and premium: for every number of      *)
(* clusters, threads, players, teams, guilds and subscriptions.            *)
(*                                                                         *)
(* AnswerRecords: the invariant follows each answer from the cluster to    *)
(* the table, and the sum of the players' shares with it.                  *)
(*                                                                         *)
(* Accounts: the invariant says what each of its four parts owes to the    *)
(* commands that are under way: which guild will be looked at again, which *)
(* lock is new, which numbers of hints are still to be written, and who is *)
(* in no team.  The lemmas on the steps of commands say what each changes; *)
(* each conjunct of the invariant then follows from what its own steps do, *)
(* and from a lemma on all that leave its variables alone.                 *)
(***************************************************************************)
EXTENDS AnswerRecords, Accounts, SumTheorems, FiniteSetTheorems, SequenceTheorems, TLAPS

-----------------------------------------------------------------------------
(* AnswerRecords: sums of points *)

PointsOf(m, S) == MapThenSumSet(LAMBDA p : m[p].points, S)
PointsIn(m, S) == [p \in S |-> m[p].points]

(* The points of a set of players are a sum over them.                      *)
LEMMA PointsAreSums ==
    ASSUME NEW m, NEW S, IsFiniteSet(S)
    PROVE  PointsOf(m, S) = SumOf(PointsIn(m, S), S)
  <1> DEFINE Terms(h) == h = [s \in SUBSET S |->
                                 IF s = {} THEN 0 ELSE m[One(s)].points + h[s \ {One(s)}]]
  <1>1. \A h : Terms(h) <=> Sums(h, PointsIn(m, S), S)
    <2>1. \A s \in SUBSET S : s # {} => PointsIn(m, S)[One(s)] = m[One(s)].points
      BY DEF PointsIn, One
    <2>2. \A h : [s \in SUBSET S |-> IF s = {} THEN 0 ELSE m[One(s)].points + h[s \ {One(s)}]]
               = [s \in SUBSET S |-> Adds(h, PointsIn(m, S), s)]
      BY <2>1 DEF Adds
    <2> QED BY <2>2 DEF Sums
  <1>2. PointsOf(m, S) = (CHOOSE h : Terms(h))[S]
    BY DEF PointsOf, MapThenSumSet, MapThenFoldSet, One
  <1>3. Sums(CHOOSE h : Terms(h), PointsIn(m, S), S)
    <2>1. \E h : Terms(h)
      BY <1>1, SumsExist
    <2>2. Terms(CHOOSE h : Terms(h))
      BY <2>1
    <2> HIDE DEF Terms
    <2> QED BY <1>1, <2>2
  <1>4. S \in SUBSET S
    OBVIOUS
  <1> HIDE DEF Terms
  <1> QED BY <1>2, <1>3, <1>4, SumOfBySums

(* Whose points are the same has the same sum.                              *)
LEMMA PointsAlike ==
    ASSUME NEW m, NEW k, NEW S, IsFiniteSet(S), \A p \in S : m[p].points = k[p].points
    PROVE  PointsOf(m, S) = PointsOf(k, S)
  <1>1. \A p \in S : PointsIn(m, S)[p] = PointsIn(k, S)[p]
    BY DEF PointsIn
  <1>2. SumOf(PointsIn(m, S), S) = SumOf(PointsIn(k, S), S)
    BY <1>1, SumAlike
  <1>3. PointsOf(m, S) = SumOf(PointsIn(m, S), S) /\ PointsOf(k, S) = SumOf(PointsIn(k, S), S)
    BY PointsAreSums
  <1> QED BY <1>2, <1>3

(* Where nobody has points, the sum is zero.                                *)
LEMMA NoPoints ==
    ASSUME NEW m, NEW S, IsFiniteSet(S), \A p \in S : m[p].points = 0
    PROVE  PointsOf(m, S) = 0
  <1>1. \A p \in S : PointsIn(m, S)[p] = 0
    BY DEF PointsIn
  <1>2. SumOf(PointsIn(m, S), S) = 0
    BY <1>1, SumOfZeros
  <1> QED BY <1>2, PointsAreSums

(* The points of a set are those of any one member and those of the rest.   *)
LEMMA PointsApart ==
    ASSUME NEW m, NEW S, IsFiniteSet(S), \A p \in S : m[p].points \in Nat
    PROVE  /\ PointsOf(m, S) \in Nat
           /\ \A x \in S : PointsOf(m, S) = m[x].points + PointsOf(m, S \ {x})
  <1>1. \A p \in S : PointsIn(m, S)[p] = m[p].points /\ PointsIn(m, S)[p] \in Nat
    BY DEF PointsIn
  <1>2. /\ SumOf(PointsIn(m, S), S) \in Nat
        /\ \A x \in S : SumOf(PointsIn(m, S), S) = PointsIn(m, S)[x] + SumOf(PointsIn(m, S), S \ {x})
    BY <1>1, SumApart
  <1>3. PointsOf(m, S) = SumOf(PointsIn(m, S), S)
    BY PointsAreSums
  <1>4. ASSUME NEW x \in S PROVE SumOf(PointsIn(m, S), S \ {x}) = PointsOf(m, S \ {x})
    <2> DEFINE others == S \ {x}
    <2>1. IsFiniteSet(others) /\ others \subseteq S
      BY FS_Subset
    <2>2. \A p \in others : PointsIn(m, S)[p] = PointsIn(m, others)[p]
      BY DEF PointsIn
    <2> HIDE DEF others
    <2>3. SumOf(PointsIn(m, S), others) = SumOf(PointsIn(m, others), others)
      BY <2>1, <2>2, SumAlike
    <2>4. PointsOf(m, others) = SumOf(PointsIn(m, others), others)
      BY <2>1, PointsAreSums
    <2>5. SumOf(PointsIn(m, S), others) = PointsOf(m, others)
      BY <2>3, <2>4
    <2> QED BY <2>5 DEF others
  <1> QED BY <1>1, <1>2, <1>3, <1>4

-----------------------------------------------------------------------------
(* AnswerRecords: what its variables hold *)

Judgement ==
    [at : {"team", "points", "streak", "record", "compare"}, game : Games, player : Players,
     own : BOOLEAN, team : TeamNames \cup {Nobody}, scope : Scopes, best : Nat]
TeamUpdate == [do : {"team score"}, team : TeamNames]
ShareUpdate == [do : {"contribution"}, player : Players]
StreakUpdate == [do : {"streak"}, player : Players, scope : Scopes, streak : Nat]
Updates == TeamUpdate \cup ShareUpdate \cup StreakUpdate
Memberships == {NoTeam} \cup [team : TeamNames, points : Nat]

RecordsTypeOK ==
    /\ streakOf \in [Games -> Nat \ {0}] /\ lastOf \in [Games -> Players \cup {Nobody}]
    /\ bestStreaks \in [Players -> [Scopes -> Nat]]
    /\ scoreOf \in [TeamNames -> Nat]
    /\ membership \in [Players -> Memberships]
    /\ queued \in [Clusters -> Seq(Updates)]
    /\ judging \in [Clusters -> {NoAnswer} \cup Judgement]
    /\ behind \subseteq Players /\ movedOn \subseteq Players

StreakAt(c, i, p, s) ==
    queued[c][i].do = "streak" /\ queued[c][i].player = p /\ queued[c][i].scope = s
Compares(c, p, s) ==
    JudgingAt(c, "compare") /\ judging[c].player = p /\ judging[c].scope = s

(* A player whose record was never read too early has at most one longer    *)
(* streak on its way to each record: being compared with the record as it   *)
(* is, or queued.                                                           *)
OneStreakPending ==
    \A p \in Players \ behind, s \in Scopes, c \in Clusters, d \in Clusters :
        /\ Compares(c, p, s) => /\ judging[c].best = bestStreaks[p][s]
                                /\ Compares(d, p, s) => c = d
                                /\ \A i \in DOMAIN queued[d] : ~ StreakAt(d, i, p, s)
        /\ \A i \in DOMAIN queued[c] : StreakAt(c, i, p, s) =>
              /\ queued[c][i].streak >= bestStreaks[p][s]
              /\ \A j \in DOMAIN queued[d] : StreakAt(d, j, p, s) => c = d /\ i = j

Contributes(c, i) == queued[c][i].do = "contribution"

(* A player's share is queued right behind the points of the team, and      *)
(* meanwhile the player is in that team, or has moved on.                   *)
PointsTogether ==
    \A c \in Clusters :
        /\ JudgingAt(c, "points") =>
              /\ judging[c].team \in TeamNames
              /\ judging[c].player \notin movedOn => membership[judging[c].player].team = judging[c].team
        /\ \A i \in DOMAIN queued[c] : Contributes(c, i) =>
              /\ queued[c][i].player \notin movedOn => membership[queued[c][i].player].team # Nobody
              /\ i # 1 => /\ queued[c][i - 1].do = "team score"
                          /\ queued[c][i].player \notin movedOn =>
                                 queued[c][i - 1].team = membership[queued[c][i].player].team

(* Of a team: its members' shares, and those to be added next, by clusters  *)
(* that have given the team its points.                                     *)
Members(n) == {p \in Players \ movedOn : membership[p].team = n}
SharesNext(n) ==
    {c \in Clusters : /\ queued[c] # <<>> /\ Contributes(c, 1) /\ queued[c][1].player \notin movedOn
                      /\ membership[queued[c][1].player].team = n}
SharesAreInTheScore ==
    \A n \in TeamNames : PointsOf(membership, Members(n)) + Cardinality(SharesNext(n)) <= scoreOf[n]

RecordsInv == RecordsTypeOK /\ OneStreakPending /\ PointsTogether /\ SharesAreInTheScore

-----------------------------------------------------------------------------
(* Queues *)

(* What is where in a queue after others were added at its end.             *)
LEMMA Enqueued ==
    ASSUME NEW U, NEW s \in Seq(U), NEW t \in Seq(U)
    PROVE  /\ s \o t \in Seq(U) /\ Len(s \o t) = Len(s) + Len(t)
           /\ DOMAIN (s \o t) = 1..(Len(s) + Len(t)) /\ DOMAIN s = 1..Len(s)
           /\ Len(s) \in Nat /\ Len(t) \in Nat
           /\ \A i \in 1..Len(s) : (s \o t)[i] = s[i]
           /\ \A i \in 1..Len(t) : (s \o t)[Len(s) + i] = t[i]
  <1> QED BY ConcatProperties

(* What is where in a queue after the oldest was taken.                     *)
LEMMA Dequeued ==
    ASSUME NEW U, NEW s \in Seq(U), s # <<>>
    PROVE  /\ Head(s) = s[1] /\ s[1] \in U /\ 1 \in DOMAIN s
           /\ Tail(s) \in Seq(U) /\ DOMAIN s = 1..Len(s) /\ DOMAIN Tail(s) = 1..(Len(s) - 1)
           /\ Len(s) \in Nat \ {0}
           /\ \A i \in 1..(Len(s) - 1) : Tail(s)[i] = s[i + 1] /\ i + 1 \in DOMAIN s
  <1> QED OBVIOUS

(* Which queries are of which kind, and what they hold.                     *)
LEMMA UpdateKinds ==
    /\ \A q \in Updates : /\ q.do = "team score" => q \in TeamUpdate
                          /\ q.do = "contribution" => q \in ShareUpdate
                          /\ q.do = "streak" => q \in StreakUpdate
    /\ \A q \in TeamUpdate : q.do = "team score" /\ q.team \in TeamNames
    /\ \A q \in ShareUpdate : q.do = "contribution" /\ q.player \in Players
    /\ \A q \in StreakUpdate : /\ q.do = "streak" /\ q.player \in Players
                               /\ q.scope \in Scopes /\ q.streak \in Nat
  <1> QED BY DEF Updates, TeamUpdate, ShareUpdate, StreakUpdate

(* What a cluster that judges an answer holds.                              *)
LEMMA Judges ==
    ASSUME RecordsTypeOK, NEW c \in Clusters, judging[c].at # "none"
    PROVE  /\ judging[c] \in Judgement
           /\ judging[c].game \in Games /\ judging[c].player \in Players /\ judging[c].own \in BOOLEAN
           /\ judging[c].team \in TeamNames \cup {Nobody} /\ judging[c].scope \in Scopes
           /\ judging[c].best \in Nat
  <1>1. judging[c] \in Judgement
    BY DEF RecordsTypeOK, NoAnswer
  <1> QED BY <1>1 DEF Judgement

(* The invariant holds at first.                                            *)
LEMMA InitRecords == RecordsInit => RecordsInv
  <1> SUFFICES ASSUME RecordsInit PROVE RecordsInv
    OBVIOUS
  <1> USE DEF RecordsInit
  <1>1. RecordsTypeOK
    <2>1. membership \in [Players -> Memberships]
      BY DEF Memberships
    <2>2. streakOf \in [Games -> Nat \ {0}]
      BY RecordsAssumption DEF RecordsAssumption
    <2> QED BY <2>1, <2>2 DEF RecordsTypeOK
  <1>2. OneStreakPending
    BY DEF OneStreakPending, Compares, JudgingAt, NoAnswer
  <1>3. PointsTogether
    BY DEF PointsTogether, JudgingAt, NoAnswer
  <1>4. SharesAreInTheScore
    <2> SUFFICES ASSUME NEW n \in TeamNames
                 PROVE  PointsOf(membership, Members(n)) + Cardinality(SharesNext(n)) <= scoreOf[n]
      BY DEF SharesAreInTheScore
    <2>1. SharesNext(n) = {}
      BY DEF SharesNext
    <2>2. IsFiniteSet(Members(n))
      BY RecordsAssumption, FS_Subset DEF Members, RecordsAssumption
    <2>3. \A p \in Players : membership[p].points = 0
      BY DEF NoTeam
    <2>4. PointsOf(membership, Members(n)) = 0
      <3>1. \A p \in Members(n) : membership[p].points = 0
        BY <2>3 DEF Members
      <3> QED BY <2>2, <3>1, NoPoints
    <2> QED BY <2>1, <2>4, FS_EmptySet
  <1> QED BY <1>1, <1>2, <1>3, <1>4 DEF RecordsInv

(* A player is in a team exactly if the membership names one.               *)
LEMMA InTeam ==
    ASSUME RecordsTypeOK, NEW p \in Players
    PROVE  /\ membership[p] # NoTeam <=> membership[p].team # Nobody
           /\ membership[p] # NoTeam <=> membership[p].team \in TeamNames
           /\ membership[p] # NoTeam => membership[p] \in [team : TeamNames, points : Nat]
           /\ membership[p].points \in Nat
  <1>1. membership[p] \in Memberships /\ Nobody \notin TeamNames
    BY RecordsAssumption DEF RecordsTypeOK, Nobody, RecordsAssumption
  <1> QED BY <1>1 DEF Memberships, NoTeam

-----------------------------------------------------------------------------
(* Steps *)

(* Every step keeps the types.                                              *)
LEMMA RecordsTypeStep == RecordsTypeOK /\ PointsTogether /\ [RecordsNext]_recordsVars => RecordsTypeOK'
  <1> SUFFICES ASSUME RecordsTypeOK, PointsTogether, [RecordsNext]_recordsVars PROVE RecordsTypeOK'
    OBVIOUS
  <1>1. ASSUME NEW g \in Games, NEW p \in Players, RightAnswer(g, p) PROVE RecordsTypeOK'
    <2>1. PICK own \in BOOLEAN :
            judging' = [judging EXCEPT ![ClusterOfGame[g]] =
                [at |-> "team", game |-> g, player |-> p, own |-> own,
                 team |-> Nobody, scope |-> GuildOfGame[g], best |-> 0]]
      BY <1>1 DEF RightAnswer
    <2>2. [at |-> "team", game |-> g, player |-> p, own |-> own,
           team |-> Nobody, scope |-> GuildOfGame[g], best |-> 0] \in Judgement
      BY DEF Judgement, Scopes
    <2>3. judging' \in [Clusters -> {NoAnswer} \cup Judgement]
      BY <2>1, <2>2 DEF RecordsTypeOK
    <2> QED BY <1>1, <2>3 DEF RecordsTypeOK, RightAnswer, gamesVars, tables
  <1>2. ASSUME NEW c \in Clusters, get_current_team(c) PROVE RecordsTypeOK'
    <2>1. judging[c].at # "none"
      BY <1>2 DEF get_current_team, JudgingAt
    <2> DEFINE team == membership[judging[c].player].team
               at == IF membership[judging[c].player] # NoTeam /\ ~judging[c].own THEN "points" ELSE "streak"
    <2>2. team \in TeamNames \cup {Nobody}
      <3>1. membership[judging[c].player] \in Memberships
        BY <2>1, Judges DEF RecordsTypeOK
      <3> QED BY <3>1 DEF Memberships, NoTeam
    <2>3. at \in {"points", "streak"}
      OBVIOUS
    <2>4. judging' = [judging EXCEPT ![c].team = team, ![c].at = at]
      BY <1>2 DEF get_current_team
    <2> HIDE DEF team, at
    <2>5. [judging[c] EXCEPT !.team = team, !.at = at] \in Judgement
      BY <2>1, <2>2, <2>3, Judges DEF Judgement
    <2>6. judging' \in [Clusters -> {NoAnswer} \cup Judgement]
      BY <2>4, <2>5 DEF RecordsTypeOK
    <2> QED BY <1>2, <2>6 DEF RecordsTypeOK, get_current_team, gamesVars, tables, SameHistory
  <1>3. ASSUME NEW c \in Clusters, add_team_points(c) PROVE RecordsTypeOK'
    <2>1. judging[c].at = "points"
      BY <1>3 DEF add_team_points, JudgingAt
    <2>2. judging' \in [Clusters -> {NoAnswer} \cup Judgement]
      <3>1. [judging[c] EXCEPT !.at = "streak"] \in Judgement
        BY <2>1, Judges DEF Judgement
      <3> QED BY <1>3, <3>1 DEF add_team_points, Goes, RecordsTypeOK
    <2>3. TeamPoints(c) \in Seq(Updates)
      <3> DEFINE q == [do |-> "team score", team |-> judging[c].team]
                 r == [do |-> "contribution", player |-> judging[c].player]
      <3>1. q \in Updates
        BY <1>3, <2>1 DEF Updates, TeamUpdate, PointsTogether, JudgingAt
      <3>2. r \in Updates
        BY <2>1, Judges DEF Updates, ShareUpdate
      <3>3. TeamPoints(c) = <<q, r>>
        BY DEF TeamPoints, TeamQueries
      <3> HIDE DEF q, r
      <3> QED BY <3>1, <3>2, <3>3
    <2>4. queued' \in [Clusters -> Seq(Updates)]
      BY <1>3, <2>3, Enqueued DEF add_team_points, Enqueue, RecordsTypeOK
    <2> QED BY <1>3, <2>2, <2>4 DEF RecordsTypeOK, add_team_points, gamesVars, tables, SameHistory
  <1>4. ASSUME NEW c \in Clusters, CountStreak(c) PROVE RecordsTypeOK'
    <2>1. judging[c].at = "streak"
      BY <1>4 DEF CountStreak, JudgingAt
    <2>2. judging[c] \in Judgement /\ judging[c].game \in Games /\ judging[c].player \in Players
      BY <2>1, Judges
    <2>3. judging' \in [Clusters -> {NoAnswer} \cup Judgement]
      <3>1. [judging[c] EXCEPT !.at = "record"] \in Judgement
        BY <2>2 DEF Judgement
      <3> QED BY <1>4, <3>1 DEF CountStreak, Goes, Judged, RecordsTypeOK
    <2>4. streakOf' \in [Games -> Nat \ {0}] /\ lastOf' \in [Games -> Players \cup {Nobody}]
      BY <1>4, <2>2 DEF CountStreak, RecordsTypeOK
    <2> QED BY <1>4, <2>3, <2>4 DEF RecordsTypeOK, CountStreak, tables, SameHistory
  <1>5. ASSUME NEW c \in Clusters, get_streak(c) PROVE RecordsTypeOK'
    <2>1. judging[c].at = "record"
      BY <1>5 DEF get_streak, JudgingAt
    <2>2. /\ judging[c] \in Judgement /\ judging[c].player \in Players /\ judging[c].scope \in Scopes
          /\ bestStreaks[judging[c].player][judging[c].scope] \in Nat
      BY <2>1, Judges DEF RecordsTypeOK
    <2>3. judging' \in [Clusters -> {NoAnswer} \cup Judgement]
      <3>1. [judging[c] EXCEPT !.at = "compare", !.best = bestStreaks[judging[c].player][judging[c].scope]]
              \in Judgement
        BY <2>2 DEF Judgement
      <3> QED BY <1>5, <3>1 DEF get_streak, RecordsTypeOK
    <2>4. behind' \subseteq Players
      BY <1>5, <2>2 DEF get_streak, RecordsTypeOK
    <2> QED BY <1>5, <2>3, <2>4 DEF RecordsTypeOK, get_streak, gamesVars, tables
  <1>6. ASSUME NEW c \in Clusters, change_streak(c) PROVE RecordsTypeOK'
    <2>1. judging[c].at = "compare"
      BY <1>6 DEF change_streak, JudgingAt
    <2>2. /\ judging[c] \in Judgement /\ judging[c].player \in Players /\ judging[c].scope \in Scopes
          /\ streakOf[judging[c].game] \in Nat
      BY <2>1, Judges DEF RecordsTypeOK
    <2>3. judging' \in [Clusters -> {NoAnswer} \cup Judgement]
      <3>1. [judging[c] EXCEPT !.at = "record", !.scope = Everywhere] \in Judgement
        BY <2>2 DEF Judgement, Scopes
      <3> QED BY <1>6, <3>1 DEF change_streak, Judged, RecordsTypeOK
    <2>4. queued' \in [Clusters -> Seq(Updates)]
      <3> DEFINE q == [do |-> "streak", player |-> judging[c].player, scope |-> judging[c].scope,
                       streak |-> streakOf[judging[c].game]]
      <3>1. <<q>> \in Seq(Updates)
        BY <2>2 DEF Updates, StreakUpdate
      <3>2. queued' = [queued EXCEPT ![c] = @ \o <<q>>] \/ queued' = queued
        BY <1>6 DEF change_streak, Enqueue
      <3> HIDE DEF q
      <3>3. queued[c] \o <<q>> \in Seq(Updates)
        BY <3>1, Enqueued DEF RecordsTypeOK
      <3> QED BY <3>2, <3>3 DEF RecordsTypeOK
    <2> QED BY <1>6, <2>3, <2>4 DEF RecordsTypeOK, change_streak, gamesVars, tables, SameHistory
  <1>7. ASSUME NEW c \in Clusters, ClusterQueue(c) PROVE RecordsTypeOK'
    <2> DEFINE q == Head(queued[c])
    <2>1. queued[c] \in Seq(Updates) /\ queued[c] # <<>>
      BY <1>7 DEF ClusterQueue, RecordsTypeOK
    <2>2. q \in Updates /\ Tail(queued[c]) \in Seq(Updates)
      BY <2>1, Dequeued
    <2>3. RecordsExecuted(q)
      BY <1>7 DEF ClusterQueue
    <2> HIDE DEF q
    <2>4. scoreOf' \in [TeamNames -> Nat]
      <3>1. CASE q.do = "team score"
        <4>1. q.team \in TeamNames
          BY <2>2, <3>1, UpdateKinds
        <4>2. scoreOf[q.team] + 1 \in Nat
          BY <4>1 DEF RecordsTypeOK
        <4>3. scoreOf' = [scoreOf EXCEPT ![q.team] = scoreOf[q.team] + 1]
          BY <2>3, <3>1 DEF RecordsExecuted
        <4> QED BY <4>2, <4>3 DEF RecordsTypeOK
      <3> QED BY <2>3, <3>1 DEF RecordsExecuted, RecordsTypeOK
    <2>5. bestStreaks' \in [Players -> [Scopes -> Nat]]
      <3>1. CASE q.do = "streak"
        <4>1. q.player \in Players /\ q.scope \in Scopes /\ q.streak \in Nat
          BY <2>2, <3>1, UpdateKinds
        <4>2. bestStreaks[q.player] \in [Scopes -> Nat]
          BY <4>1 DEF RecordsTypeOK
        <4>3. [bestStreaks[q.player] EXCEPT ![q.scope] = q.streak] \in [Scopes -> Nat]
          BY <4>1, <4>2
        <4>4. bestStreaks' = [bestStreaks EXCEPT ![q.player] =
                                  [bestStreaks[q.player] EXCEPT ![q.scope] = q.streak]]
          BY <2>3, <3>1 DEF RecordsExecuted
        <4> QED BY <4>1, <4>3, <4>4 DEF RecordsTypeOK
      <3> QED BY <2>3, <3>1 DEF RecordsExecuted, RecordsTypeOK
    <2>6. membership' \in [Players -> Memberships]
      <3>1. CASE q.do = "contribution" /\ membership[q.player] # NoTeam
        <4>1. q.player \in Players
          BY <2>2, <3>1, UpdateKinds
        <4>2. membership[q.player] \in [team : TeamNames, points : Nat]
          BY <3>1, <4>1 DEF RecordsTypeOK, Memberships
        <4>3. [membership[q.player] EXCEPT !.points = @ + 1] \in Memberships
          BY <4>2 DEF Memberships
        <4> QED BY <2>3, <3>1, <4>3 DEF RecordsExecuted, RecordsTypeOK
      <3> QED BY <2>3, <3>1 DEF RecordsExecuted, RecordsTypeOK
    <2>7. queued' \in [Clusters -> Seq(Updates)]
      BY <1>7, <2>2 DEF ClusterQueue, RecordsTypeOK
    <2> QED BY <1>7, <2>4, <2>5, <2>6, <2>7 DEF RecordsTypeOK, ClusterQueue, gamesVars, SameHistory
  <1>8. ASSUME NEW g \in Games, TimeUp(g) PROVE RecordsTypeOK'
    BY <1>8 DEF TimeUp, Move, RecordsTypeOK
  <1>9. ASSUME NEW p \in Players, NEW n \in TeamNames, JoinTeam(p, n) PROVE RecordsTypeOK'
    <2>1. [team |-> n, points |-> 0] \in Memberships
      BY DEF Memberships
    <2>2. membership' \in [Players -> Memberships]
      BY <1>9, <2>1 DEF JoinTeam, RecordsTypeOK
    <2> QED BY <1>9, <2>2 DEF JoinTeam, Move, RecordsTypeOK, gamesVars
  <1>10. ASSUME NEW p \in Players, leave_team(p) PROVE RecordsTypeOK'
    <2>1. membership' \in [Players -> Memberships]
      BY <1>10 DEF leave_team, RecordsTypeOK, Memberships
    <2>2. movedOn' \subseteq Players
      BY <1>10 DEF leave_team, RecordsTypeOK
    <2> QED BY <1>10, <2>1, <2>2 DEF leave_team, Move, RecordsTypeOK, gamesVars
  <1>11. ASSUME NEW c \in Clusters, ClusterDies(c) PROVE RecordsTypeOK'
    <2>1. PICK lost \in SUBSET {g \in Games : ClusterOfGame[g] = c /\ streakOf[g] > 1} :
            streakOf' = [g \in Games |-> IF g \in lost THEN streakOf[g] - 1 ELSE streakOf[g]]
      BY <1>11 DEF ClusterDies
    <2>2. streakOf' \in [Games -> Nat \ {0}]
      <3>1. \A g \in lost : streakOf[g] - 1 \in Nat \ {0}
        BY DEF RecordsTypeOK
      <3> QED BY <2>1, <3>1 DEF RecordsTypeOK
    <2>3. <<>> \in Seq(Updates)
      OBVIOUS
    <2> QED BY <1>11, <2>2, <2>3 DEF ClusterDies, RecordsTypeOK, tables, SameHistory
  <1>12. CASE UNCHANGED recordsVars
    BY <1>12 DEF recordsVars, gamesVars, tables, RecordsTypeOK
  <1> QED BY <1>1, <1>2, <1>3, <1>4, <1>5, <1>6, <1>7, <1>8, <1>9, <1>10, <1>11, <1>12 DEF RecordsNext

(* The team's points and the player's share go to the end of the queue.     *)
LEMMA AddedPoints ==
    ASSUME RecordsTypeOK, PointsTogether, NEW c \in Clusters, add_team_points(c)
    PROVE  /\ judging[c].at = "points" /\ judging[c].team \in TeamNames /\ judging[c].player \in Players
           /\ \A d \in Clusters \ {c} : queued'[d] = queued[d]
           /\ DOMAIN queued[c] = 1..Len(queued[c]) /\ Len(queued[c]) \in Nat
           /\ DOMAIN queued'[c] = 1..(Len(queued[c]) + 2)
           /\ \A i \in 1..Len(queued[c]) : queued'[c][i] = queued[c][i]
           /\ LET n == Len(queued[c])
              IN  /\ queued'[c][n + 1].do = "team score" /\ queued'[c][n + 1].team = judging[c].team
                  /\ queued'[c][n + 2].do = "contribution" /\ queued'[c][n + 2].player = judging[c].player
           /\ \A d \in Clusters : \A i \in DOMAIN queued'[d] :
                  queued'[d][i].do = "streak" => i \in DOMAIN queued[d] /\ queued'[d][i] = queued[d][i]
  <1> DEFINE n == Len(queued[c])
             q == [do |-> "team score", team |-> judging[c].team]
             r == [do |-> "contribution", player |-> judging[c].player]
  <1>1. judging[c].at = "points"
    BY DEF add_team_points, JudgingAt
  <1>2. judging[c].team \in TeamNames /\ judging[c].player \in Players
    BY <1>1, Judges DEF PointsTogether, JudgingAt
  <1>3. q \in Updates /\ r \in Updates
    BY <1>2 DEF Updates, TeamUpdate, ShareUpdate
  <1>4. q.do = "team score" /\ q.team = judging[c].team /\ r.do = "contribution" /\ r.player = judging[c].player
    OBVIOUS
  <1>5. queued[c] \in Seq(Updates)
    BY DEF RecordsTypeOK
  <1>6. queued' = [queued EXCEPT ![c] = queued[c] \o <<q, r>>]
    BY DEF add_team_points, Enqueue, TeamPoints, TeamQueries
  <1> HIDE DEF q, r
  <1>7. <<q, r>> \in Seq(Updates) /\ Len(<<q, r>>) = 2 /\ <<q, r>>[1] = q /\ <<q, r>>[2] = r
    BY <1>3
  <1>8. queued'[c] = queued[c] \o <<q, r>> /\ \A d \in Clusters \ {c} : queued'[d] = queued[d]
    BY <1>6 DEF RecordsTypeOK
  <1>9. /\ DOMAIN queued[c] = 1..n /\ n \in Nat /\ DOMAIN queued'[c] = 1..(n + 2)
        /\ \A i \in 1..n : queued'[c][i] = queued[c][i]
        /\ queued'[c][n + 1] = q /\ queued'[c][n + 2] = r
    <2>1. 1 \in 1..2 /\ 2 \in 1..2
      OBVIOUS
    <2> QED BY <1>5, <1>7, <1>8, <2>1, Enqueued
  <1> HIDE DEF n
  <1>10. \A i \in DOMAIN queued'[c] :
             queued'[c][i].do = "streak" => i \in DOMAIN queued[c] /\ queued'[c][i] = queued[c][i]
    <2>1. \A i \in 1..(n + 2) : i \in 1..n \/ i = n + 1 \/ i = n + 2
      BY <1>9
    <2> QED BY <1>4, <1>9, <2>1
  <1> QED BY <1>1, <1>2, <1>4, <1>8, <1>9, <1>10 DEF n

(* What neither puts a longer streak on its way nor writes one.             *)
LEMMA NoStreaks ==
    ASSUME OneStreakPending, bestStreaks' = bestStreaks, behind' = behind,
           \A c \in Clusters : JudgingAt(c, "compare")' => judging'[c] = judging[c],
           \A c \in Clusters : \A i \in DOMAIN queued'[c] :
               queued'[c][i].do = "streak" => i \in DOMAIN queued[c] /\ queued'[c][i] = queued[c][i]
    PROVE  OneStreakPending'
  <1> SUFFICES ASSUME NEW p \in Players \ behind, NEW s \in Scopes, NEW c \in Clusters, NEW d \in Clusters
               PROVE  /\ Compares(c, p, s)' => /\ judging'[c].best = bestStreaks[p][s]
                                               /\ Compares(d, p, s)' => c = d
                                               /\ \A i \in DOMAIN queued'[d] : ~ StreakAt(d, i, p, s)'
                      /\ \A i \in DOMAIN queued'[c] : StreakAt(c, i, p, s)' =>
                            /\ queued'[c][i].streak >= bestStreaks[p][s]
                            /\ \A j \in DOMAIN queued'[d] : StreakAt(d, j, p, s)' => c = d /\ i = j
    BY DEF OneStreakPending
  <1>1. \A e \in Clusters : Compares(e, p, s)' => Compares(e, p, s) /\ judging'[e] = judging[e]
    BY DEF Compares, JudgingAt
  <1>2. \A e \in Clusters : \A i \in DOMAIN queued'[e] : StreakAt(e, i, p, s)' =>
            StreakAt(e, i, p, s) /\ i \in DOMAIN queued[e] /\ queued'[e][i] = queued[e][i]
    BY DEF StreakAt
  <1>3. Compares(c, p, s) => /\ judging[c].best = bestStreaks[p][s]
                             /\ Compares(d, p, s) => c = d
                             /\ \A i \in DOMAIN queued[d] : ~ StreakAt(d, i, p, s)
    BY DEF OneStreakPending
  <1>4. \A i \in DOMAIN queued[c] : StreakAt(c, i, p, s) =>
            /\ queued[c][i].streak >= bestStreaks[p][s]
            /\ \A j \in DOMAIN queued[d] : StreakAt(d, j, p, s) => c = d /\ i = j
    BY DEF OneStreakPending
  <1>5. Compares(c, p, s)' => /\ judging'[c].best = bestStreaks[p][s]
                              /\ Compares(d, p, s)' => c = d
                              /\ \A i \in DOMAIN queued'[d] : ~ StreakAt(d, i, p, s)'
    BY <1>1, <1>2, <1>3
  <1>6. \A i \in DOMAIN queued'[c] : StreakAt(c, i, p, s)' =>
            /\ queued'[c][i].streak >= bestStreaks[p][s]
            /\ \A j \in DOMAIN queued'[d] : StreakAt(d, j, p, s)' => c = d /\ i = j
    BY <1>2, <1>4
  <1> QED BY <1>5, <1>6

(* The comparison with the best streak known puts at most one longer streak *)
(* on its way.                                                              *)
LEMMA ChangedStreak ==
    ASSUME RecordsTypeOK, OneStreakPending, NEW c0 \in Clusters, change_streak(c0)
    PROVE  OneStreakPending'
  <1> DEFINE p0 == judging[c0].player
             s0 == judging[c0].scope
             n == Len(queued[c0])
             q == [do |-> "streak", player |-> p0, scope |-> s0, streak |-> streakOf[judging[c0].game]]
  <1>1. /\ judging[c0] \in Judgement /\ p0 \in Players /\ s0 \in Scopes
        /\ Compares(c0, p0, s0) /\ judging[c0].best \in Nat /\ streakOf[judging[c0].game] \in Nat
    <2>1. judging[c0].at = "compare"
      BY DEF change_streak, JudgingAt
    <2> QED BY <2>1, Judges DEF Compares, JudgingAt, RecordsTypeOK
  <1>2. judging'[c0].at # "compare" /\ \A d \in Clusters \ {c0} : judging'[d] = judging[d]
    BY <1>1 DEF change_streak, Judged, NoAnswer, RecordsTypeOK, Judgement
  <1>3. /\ bestStreaks' = bestStreaks /\ behind' = behind
        /\ \A d \in Clusters \ {c0} : queued'[d] = queued[d]
    BY DEF change_streak, tables, SameHistory, RecordsTypeOK, Enqueue
  <1>4. CASE queued' = queued
    <2>1. \A d \in Clusters : JudgingAt(d, "compare")' => judging'[d] = judging[d]
      BY <1>2 DEF JudgingAt
    <2> QED BY <1>3, <1>4, <2>1, NoStreaks
  <1>5. CASE streakOf[judging[c0].game] > judging[c0].best /\ queued' = [queued EXCEPT ![c0] = queued[c0] \o <<q>>]
    <2>1. q \in Updates /\ q.do = "streak" /\ q.player = p0 /\ q.scope = s0 /\ q.streak > judging[c0].best
      BY <1>1, <1>5 DEF Updates, StreakUpdate
    <2>2. queued'[c0] = queued[c0] \o <<q>> /\ queued[c0] \in Seq(Updates)
      BY <1>5 DEF RecordsTypeOK
    <2> HIDE DEF q, p0, s0
    <2>3. <<q>> \in Seq(Updates) /\ Len(<<q>>) = 1 /\ <<q>>[1] = q
      BY <2>1
    <2>4. /\ DOMAIN queued[c0] = 1..n /\ n \in Nat /\ DOMAIN queued'[c0] = 1..(n + 1)
          /\ \A i \in 1..n : queued'[c0][i] = queued[c0][i]
          /\ queued'[c0][n + 1] = q
      <3>1. 1 \in 1..1
        OBVIOUS
      <3> QED BY <2>2, <2>3, <3>1, Enqueued
    <2> HIDE DEF n
    <2>5. \A i \in 1..(n + 1) : i \in 1..n \/ i = n + 1
      BY <2>4
    <2> SUFFICES ASSUME NEW p \in Players \ behind, NEW s \in Scopes, NEW c \in Clusters, NEW d \in Clusters
                 PROVE  /\ Compares(c, p, s)' => /\ judging'[c].best = bestStreaks[p][s]
                                                 /\ Compares(d, p, s)' => c = d
                                                 /\ \A i \in DOMAIN queued'[d] : ~ StreakAt(d, i, p, s)'
                        /\ \A i \in DOMAIN queued'[c] : StreakAt(c, i, p, s)' =>
                              /\ queued'[c][i].streak >= bestStreaks[p][s]
                              /\ \A j \in DOMAIN queued'[d] : StreakAt(d, j, p, s)' => c = d /\ i = j
      BY <1>3 DEF OneStreakPending
    <2>6. \A e \in Clusters : Compares(e, p, s)' => e # c0 /\ Compares(e, p, s) /\ judging'[e] = judging[e]
      BY <1>2 DEF Compares, JudgingAt
    <2>7. \A e \in Clusters : \A i \in DOMAIN queued'[e] : StreakAt(e, i, p, s)' =>
              \/ e = c0 /\ i = n + 1 /\ p = p0 /\ s = s0
              \/ StreakAt(e, i, p, s) /\ i \in DOMAIN queued[e] /\ queued'[e][i] = queued[e][i]
      <3>1. ASSUME NEW i \in DOMAIN queued'[c0], StreakAt(c0, i, p, s)'
            PROVE  \/ i = n + 1 /\ p = p0 /\ s = s0
                   \/ StreakAt(c0, i, p, s) /\ i \in DOMAIN queued[c0] /\ queued'[c0][i] = queued[c0][i]
        <4>1. CASE i \in 1..n
          BY <2>4, <3>1, <4>1 DEF StreakAt
        <4>2. CASE i = n + 1
          BY <2>1, <2>4, <3>1, <4>2 DEF StreakAt
        <4> QED BY <2>4, <2>5, <4>1, <4>2
      <3>2. ASSUME NEW e \in Clusters \ {c0}, NEW i \in DOMAIN queued'[e], StreakAt(e, i, p, s)'
            PROVE  StreakAt(e, i, p, s) /\ i \in DOMAIN queued[e] /\ queued'[e][i] = queued[e][i]
        BY <1>3, <3>2 DEF StreakAt
      <3> QED BY <3>1, <3>2
    <2>8. \A e, f \in Clusters :
            /\ Compares(e, p, s) => /\ judging[e].best = bestStreaks[p][s]
                                    /\ Compares(f, p, s) => e = f
                                    /\ \A i \in DOMAIN queued[f] : ~ StreakAt(f, i, p, s)
            /\ \A i \in DOMAIN queued[e] : StreakAt(e, i, p, s) =>
                  /\ queued[e][i].streak >= bestStreaks[p][s]
                  /\ \A j \in DOMAIN queued[f] : StreakAt(f, j, p, s) => e = f /\ i = j
      BY DEF OneStreakPending
    <2>9. CASE p = p0 /\ s = s0
      <3>1. \A e \in Clusters : /\ Compares(e, p, s) => e = c0
                                /\ \A i \in DOMAIN queued[e] : ~ StreakAt(e, i, p, s)
        BY <1>1, <2>8, <2>9
      <3>2. ~ Compares(c, p, s)'
        BY <2>6, <3>1
      <3>3. \A e \in Clusters : \A i \in DOMAIN queued'[e] : StreakAt(e, i, p, s)' => e = c0 /\ i = n + 1
        BY <2>7, <3>1
      <3>4. q.streak >= bestStreaks[p][s]
        <4>1. judging[c0].best = bestStreaks[p][s]
          BY <1>1, <2>8, <2>9
        <4>2. q.streak \in Nat
          BY <1>1 DEF q
        <4> QED BY <1>1, <2>1, <4>1, <4>2
      <3> QED BY <2>4, <3>2, <3>3, <3>4
    <2>10. CASE ~ (p = p0 /\ s = s0)
      <3>1. \A e \in Clusters : \A i \in DOMAIN queued'[e] : StreakAt(e, i, p, s)' =>
                StreakAt(e, i, p, s) /\ i \in DOMAIN queued[e] /\ queued'[e][i] = queued[e][i]
        BY <2>7, <2>10
      <3> QED BY <2>6, <2>8, <3>1
    <2> QED BY <2>9, <2>10
  <1> QED BY <1>4, <1>5 DEF change_streak, Beaten, Enqueue

(* Writing a streak leaves no other of the player on its way, and lowers    *)
(* none.                                                                    *)
LEMMA ExecutedStreak ==
    ASSUME RecordsTypeOK, OneStreakPending, NEW c0 \in Clusters, ClusterQueue(c0)
    PROVE  /\ OneStreakPending'
           /\ \A p \in Players \ behind, s \in Scopes : bestStreaks'[p][s] >= bestStreaks[p][s]
  <1> DEFINE q == Head(queued[c0])
             n == Len(queued[c0])
  <1>1. queued[c0] \in Seq(Updates) /\ queued[c0] # <<>>
    BY DEF ClusterQueue, RecordsTypeOK
  <1>2. /\ q = queued[c0][1] /\ q \in Updates /\ 1 \in DOMAIN queued[c0]
        /\ DOMAIN queued[c0] = 1..n /\ DOMAIN Tail(queued[c0]) = 1..(n - 1) /\ n \in Nat \ {0}
        /\ \A i \in 1..(n - 1) : Tail(queued[c0])[i] = queued[c0][i + 1] /\ i + 1 \in DOMAIN queued[c0]
    BY <1>1, Dequeued
  <1>3. /\ RecordsExecuted(q) /\ judging' = judging /\ behind' = behind
        /\ queued'[c0] = Tail(queued[c0])
        /\ \A d \in Clusters \ {c0} : queued'[d] = queued[d]
    BY DEF ClusterQueue, SameHistory, RecordsTypeOK
  <1> HIDE DEF q, n
  <1>4. ASSUME NEW p \in Players, NEW s \in Scopes, ~ StreakAt(c0, 1, p, s)
        PROVE  bestStreaks'[p][s] = bestStreaks[p][s]
    <2>1. CASE q.do = "streak"
      <3>1. q.player \in Players /\ q.scope \in Scopes /\ (q.player # p \/ q.scope # s)
        BY <1>2, <1>4, <2>1, UpdateKinds DEF StreakAt
      <3>2. bestStreaks' = [bestStreaks EXCEPT ![q.player] = [bestStreaks[q.player] EXCEPT ![q.scope] = q.streak]]
        BY <1>3, <2>1 DEF RecordsExecuted
      <3>3. bestStreaks[q.player] \in [Scopes -> Nat]
        BY <3>1 DEF RecordsTypeOK
      <3> QED BY <3>1, <3>2, <3>3 DEF RecordsTypeOK
    <2>2. CASE q.do # "streak"
      BY <1>3, <2>2 DEF RecordsExecuted
    <2> QED BY <2>1, <2>2
  <1>5. ASSUME NEW p \in Players, NEW s \in Scopes, StreakAt(c0, 1, p, s)
        PROVE  bestStreaks'[p][s] = queued[c0][1].streak
    <2>1. q.do = "streak" /\ q.player = p /\ q.scope = s
      BY <1>2, <1>5 DEF StreakAt
    <2>2. bestStreaks' = [bestStreaks EXCEPT ![p] = [bestStreaks[p] EXCEPT ![s] = q.streak]]
      BY <1>3, <2>1 DEF RecordsExecuted
    <2>3. bestStreaks[p] \in [Scopes -> Nat]
      BY DEF RecordsTypeOK
    <2> QED BY <1>2, <2>2, <2>3 DEF RecordsTypeOK
  <1>6. ASSUME NEW p \in Players \ behind, NEW s \in Scopes
        PROVE  bestStreaks'[p][s] >= bestStreaks[p][s]
    <2>1. CASE StreakAt(c0, 1, p, s)
      BY <1>2, <1>5, <2>1 DEF OneStreakPending
    <2>2. CASE ~ StreakAt(c0, 1, p, s)
      <3>1. bestStreaks[p][s] \in Nat
        BY DEF RecordsTypeOK
      <3> QED BY <1>4, <2>2, <3>1
    <2> QED BY <2>1, <2>2
  <1>7. ASSUME NEW p \in Players \ behind, NEW s \in Scopes, NEW c \in Clusters, NEW d \in Clusters
        PROVE  /\ Compares(c, p, s)' => /\ judging'[c].best = bestStreaks'[p][s]
                                        /\ Compares(d, p, s)' => c = d
                                        /\ \A i \in DOMAIN queued'[d] : ~ StreakAt(d, i, p, s)'
               /\ \A i \in DOMAIN queued'[c] : StreakAt(c, i, p, s)' =>
                     /\ queued'[c][i].streak >= bestStreaks'[p][s]
                     /\ \A j \in DOMAIN queued'[d] : StreakAt(d, j, p, s)' => c = d /\ i = j
    <2> DEFINE before(e, i) == IF e = c0 THEN i + 1 ELSE i
    <2>1. \A e \in Clusters : \A i \in DOMAIN queued'[e] :
              /\ before(e, i) \in DOMAIN queued[e] /\ queued'[e][i] = queued[e][before(e, i)]
              /\ StreakAt(e, i, p, s)' => StreakAt(e, before(e, i), p, s)
              /\ e = c0 => i \in Nat \ {0}
      <3>1. ASSUME NEW i \in DOMAIN queued'[c0]
            PROVE  i \in Nat \ {0} /\ i + 1 \in DOMAIN queued[c0] /\ queued'[c0][i] = queued[c0][i + 1]
        BY <1>2, <1>3
      <3> QED BY <1>3, <3>1 DEF StreakAt
    <2>2. \A e, f \in Clusters :
            /\ Compares(e, p, s) => /\ judging[e].best = bestStreaks[p][s]
                                    /\ Compares(f, p, s) => e = f
                                    /\ \A i \in DOMAIN queued[f] : ~ StreakAt(f, i, p, s)
            /\ \A i \in DOMAIN queued[e] : StreakAt(e, i, p, s) =>
                  /\ queued[e][i].streak >= bestStreaks[p][s]
                  /\ \A j \in DOMAIN queued[f] : StreakAt(f, j, p, s) => e = f /\ i = j
      BY DEF OneStreakPending
    <2>3. \A e \in Clusters : Compares(e, p, s)' <=> Compares(e, p, s)
      BY <1>3 DEF Compares, JudgingAt
    <2>4. CASE StreakAt(c0, 1, p, s)
      <3>1. \A e \in Clusters : ~ Compares(e, p, s)
        BY <1>2, <2>2, <2>4
      <3>2. \A e \in Clusters : \A i \in DOMAIN queued'[e] : ~ StreakAt(e, i, p, s)'
        <4> SUFFICES ASSUME NEW e \in Clusters, NEW i \in DOMAIN queued'[e], StreakAt(e, i, p, s)'
                     PROVE  FALSE
          OBVIOUS
        <4>1. before(e, i) \in DOMAIN queued[e] /\ StreakAt(e, before(e, i), p, s)
          BY <2>1
        <4>2. e = c0 /\ before(e, i) = 1
          BY <1>2, <2>2, <2>4, <4>1
        <4>3. i \in Nat \ {0} /\ i + 1 = 1
          BY <2>1, <4>2
        <4> QED BY <4>3
      <3> QED BY <2>3, <3>1, <3>2
    <2>5. CASE ~ StreakAt(c0, 1, p, s)
      <3>1. bestStreaks'[p][s] = bestStreaks[p][s]
        BY <1>4, <2>5
      <3>2. Compares(c, p, s)' => /\ judging'[c].best = bestStreaks'[p][s]
                                  /\ Compares(d, p, s)' => c = d
                                  /\ \A i \in DOMAIN queued'[d] : ~ StreakAt(d, i, p, s)'
        BY <1>3, <2>1, <2>2, <2>3, <3>1
      <3>3. ASSUME NEW i \in DOMAIN queued'[c], StreakAt(c, i, p, s)'
            PROVE  /\ queued'[c][i].streak >= bestStreaks'[p][s]
                   /\ \A j \in DOMAIN queued'[d] : StreakAt(d, j, p, s)' => c = d /\ i = j
        <4>1. before(c, i) \in DOMAIN queued[c] /\ StreakAt(c, before(c, i), p, s)
          BY <2>1, <3>3
        <4>2. queued'[c][i].streak >= bestStreaks'[p][s]
          BY <2>1, <2>2, <3>1, <4>1
        <4>3. ASSUME NEW j \in DOMAIN queued'[d], StreakAt(d, j, p, s)' PROVE c = d /\ i = j
          <5>1. before(d, j) \in DOMAIN queued[d] /\ StreakAt(d, before(d, j), p, s)
            BY <2>1, <4>3
          <5>2. c = d /\ before(c, i) = before(d, j)
            BY <2>2, <4>1, <5>1
          <5> QED BY <2>1, <5>2
        <4> QED BY <4>2, <4>3
      <3> QED BY <3>2, <3>3
    <2> QED BY <2>4, <2>5
  <1>8. OneStreakPending'
    BY <1>3, <1>7 DEF OneStreakPending
  <1> QED BY <1>6, <1>8

(* Every step keeps one streak of a player on its way at most.              *)
LEMMA StreaksStep ==
    RecordsTypeOK /\ PointsTogether /\ OneStreakPending /\ [RecordsNext]_recordsVars => OneStreakPending'
  <1> SUFFICES ASSUME RecordsTypeOK, PointsTogether, OneStreakPending, [RecordsNext]_recordsVars
               PROVE  OneStreakPending'
    OBVIOUS
  <1>0. ASSUME NEW g \in Games PROVE ClusterOfGame[g] \in Clusters
    BY RecordsAssumption DEF RecordsAssumption
  <1>1. ASSUME NEW g \in Games, NEW p \in Players, RightAnswer(g, p) PROVE OneStreakPending'
    <2>1. \A c \in Clusters : JudgingAt(c, "compare")' => judging'[c] = judging[c]
      BY <1>0, <1>1 DEF RightAnswer, JudgingAt, RecordsTypeOK
    <2> QED BY <1>1, <2>1, NoStreaks DEF RightAnswer, tables
  <1>2. ASSUME NEW c \in Clusters, get_current_team(c) PROVE OneStreakPending'
    <2>1. judging'[c].at # "compare" /\ \A d \in Clusters \ {c} : judging'[d] = judging[d]
      <3>1. judging[c].at # "none"
        BY <1>2 DEF get_current_team, JudgingAt
      <3>2. judging[c] \in Judgement
        BY <3>1, Judges
      <3> QED BY <1>2, <3>2 DEF get_current_team, JudgingAt, RecordsTypeOK, Judgement
    <2>2. \A d \in Clusters : JudgingAt(d, "compare")' => judging'[d] = judging[d]
      BY <2>1 DEF JudgingAt
    <2> QED BY <1>2, <2>2, NoStreaks DEF get_current_team, tables, SameHistory
  <1>3. ASSUME NEW c \in Clusters, add_team_points(c) PROVE OneStreakPending'
    <2>1. judging'[c].at # "compare" /\ \A d \in Clusters \ {c} : judging'[d] = judging[d]
      <3>1. judging[c].at # "none"
        BY <1>3 DEF add_team_points, JudgingAt
      <3>2. judging[c] \in Judgement
        BY <3>1, Judges
      <3> QED BY <1>3, <3>2 DEF add_team_points, Goes, RecordsTypeOK, Judgement
    <2>2. \A d \in Clusters : JudgingAt(d, "compare")' => judging'[d] = judging[d]
      BY <2>1 DEF JudgingAt
    <2>3. \A d \in Clusters : \A i \in DOMAIN queued'[d] :
              queued'[d][i].do = "streak" => i \in DOMAIN queued[d] /\ queued'[d][i] = queued[d][i]
      BY <1>3, AddedPoints DEF add_team_points
    <2> QED BY <1>3, <2>2, <2>3, NoStreaks DEF add_team_points, tables, SameHistory
  <1>4. ASSUME NEW c \in Clusters, CountStreak(c) PROVE OneStreakPending'
    <2>1. judging'[c].at # "compare" /\ \A d \in Clusters \ {c} : judging'[d] = judging[d]
      <3>1. judging[c].at # "none"
        BY <1>4 DEF CountStreak, JudgingAt
      <3>2. judging[c] \in Judgement
        BY <3>1, Judges
      <3> QED BY <1>4, <3>2 DEF CountStreak, Goes, Judged, NoAnswer, RecordsTypeOK, Judgement
    <2>2. \A d \in Clusters : JudgingAt(d, "compare")' => judging'[d] = judging[d]
      BY <2>1 DEF JudgingAt
    <2> QED BY <1>4, <2>2, NoStreaks DEF CountStreak, tables, SameHistory
  <1>5. ASSUME NEW c0 \in Clusters, get_streak(c0) PROVE OneStreakPending'
    <2> DEFINE p0 == judging[c0].player
               s0 == judging[c0].scope
    <2>1. /\ judging[c0] \in Judgement /\ p0 \in Players /\ s0 \in Scopes
          /\ judging[c0].at = "record"
      <3>1. judging[c0].at = "record"
        BY <1>5 DEF get_streak, JudgingAt
      <3> QED BY <3>1, Judges
    <2>2. /\ judging'[c0].at = "compare" /\ judging'[c0].player = p0 /\ judging'[c0].scope = s0
          /\ judging'[c0].best = bestStreaks[p0][s0]
          /\ \A d \in Clusters \ {c0} : judging'[d] = judging[d]
          /\ queued' = queued /\ bestStreaks' = bestStreaks /\ behind \subseteq behind'
      BY <1>5, <2>1 DEF get_streak, RecordsTypeOK, Judgement, tables
    <2>3. p0 \notin behind' => /\ \A d \in Clusters : ~ Compares(d, p0, s0)
                               /\ \A d \in Clusters : \A i \in DOMAIN queued[d] : ~ StreakAt(d, i, p0, s0)
      <3>1. p0 \notin behind' => ~ Pending(p0, s0)
        BY <1>5, <2>1 DEF get_streak, RecordsTypeOK
      <3> QED BY <3>1 DEF Pending, Compares, StreakAt
    <2> HIDE DEF p0, s0
    <2> SUFFICES ASSUME NEW p \in Players \ behind', NEW s \in Scopes, NEW c \in Clusters, NEW d \in Clusters
                 PROVE  /\ Compares(c, p, s)' => /\ judging'[c].best = bestStreaks[p][s]
                                                 /\ Compares(d, p, s)' => c = d
                                                 /\ \A i \in DOMAIN queued[d] : ~ StreakAt(d, i, p, s)
                        /\ \A i \in DOMAIN queued[c] : StreakAt(c, i, p, s) =>
                              /\ queued[c][i].streak >= bestStreaks[p][s]
                              /\ \A j \in DOMAIN queued[d] : StreakAt(d, j, p, s) => c = d /\ i = j
      BY <2>2 DEF OneStreakPending, StreakAt
    <2>4. \A e \in Clusters : Compares(e, p, s)' => \/ e = c0 /\ p = p0 /\ s = s0
                                                    \/ e # c0 /\ Compares(e, p, s) /\ judging'[e] = judging[e]
      BY <2>2 DEF Compares, JudgingAt
    <2>5. p \in Players \ behind
      BY <2>2
    <2>6. /\ Compares(c, p, s) => /\ judging[c].best = bestStreaks[p][s]
                                  /\ Compares(d, p, s) => c = d
                                  /\ \A i \in DOMAIN queued[d] : ~ StreakAt(d, i, p, s)
          /\ \A i \in DOMAIN queued[c] : StreakAt(c, i, p, s) =>
                /\ queued[c][i].streak >= bestStreaks[p][s]
                /\ \A j \in DOMAIN queued[d] : StreakAt(d, j, p, s) => c = d /\ i = j
      BY <2>5 DEF OneStreakPending
    <2>7. ASSUME Compares(c, p, s)'
          PROVE  /\ judging'[c].best = bestStreaks[p][s]
                 /\ Compares(d, p, s)' => c = d
                 /\ \A i \in DOMAIN queued[d] : ~ StreakAt(d, i, p, s)
      <3>1. CASE c = c0 /\ p = p0 /\ s = s0
        BY <2>2, <2>3, <2>4, <3>1
      <3>2. CASE c # c0 /\ Compares(c, p, s) /\ judging'[c] = judging[c]
        BY <2>3, <2>4, <2>6, <3>2
      <3> QED BY <2>4, <2>7, <3>1, <3>2
    <2> QED BY <2>6, <2>7
  <1>6. ASSUME NEW c \in Clusters, change_streak(c) PROVE OneStreakPending'
    BY <1>6, ChangedStreak
  <1>7. ASSUME NEW c \in Clusters, ClusterQueue(c) PROVE OneStreakPending'
    BY <1>7, ExecutedStreak
  <1>8. ASSUME NEW g \in Games, TimeUp(g) PROVE OneStreakPending'
    BY <1>8, NoStreaks DEF TimeUp, Move
  <1>9. ASSUME NEW p \in Players, NEW n \in TeamNames, JoinTeam(p, n) PROVE OneStreakPending'
    BY <1>9, NoStreaks DEF JoinTeam, Move
  <1>10. ASSUME NEW p \in Players, leave_team(p) PROVE OneStreakPending'
    BY <1>10, NoStreaks DEF leave_team, Move
  <1>11. ASSUME NEW c \in Clusters, ClusterDies(c) PROVE OneStreakPending'
    <2>1. \A d \in Clusters : JudgingAt(d, "compare")' => judging'[d] = judging[d]
      BY <1>11 DEF ClusterDies, JudgingAt, NoAnswer, RecordsTypeOK
    <2>2. \A d \in Clusters : \A i \in DOMAIN queued'[d] :
              queued'[d][i].do = "streak" => i \in DOMAIN queued[d] /\ queued'[d][i] = queued[d][i]
      <3>1. queued'[c] = <<>> /\ \A d \in Clusters \ {c} : queued'[d] = queued[d]
        BY <1>11 DEF ClusterDies, RecordsTypeOK
      <3> QED BY <3>1
    <2> QED BY <1>11, <2>1, <2>2, NoStreaks DEF ClusterDies, tables, SameHistory
  <1>12. CASE UNCHANGED recordsVars
    BY <1>12, NoStreaks DEF recordsVars, tables
  <1> QED BY <1>1, <1>2, <1>3, <1>4, <1>5, <1>6, <1>7, <1>8, <1>9, <1>10, <1>11, <1>12 DEF RecordsNext

-----------------------------------------------------------------------------
(* Points under way *)

(* What neither adds points nor takes a player away whose points are on     *)
(* their way.                                                               *)
LEMMA PointsKept ==
    ASSUME RecordsTypeOK, PointsTogether, movedOn \subseteq movedOn',
           \A p \in Players \ movedOn' : membership'[p].team = membership[p].team \/ ~ PointsUnderWay(p),
           \A c \in Clusters : JudgingAt(c, "points")' => judging'[c] = judging[c],
           \A c \in Clusters : queued'[c] = queued[c] \/ queued'[c] = <<>>
    PROVE  PointsTogether'
  <1> SUFFICES ASSUME NEW c \in Clusters
               PROVE  /\ JudgingAt(c, "points")' =>
                            /\ judging'[c].team \in TeamNames
                            /\ judging'[c].player \notin movedOn' =>
                                   membership'[judging'[c].player].team = judging'[c].team
                      /\ \A i \in DOMAIN queued'[c] : Contributes(c, i)' =>
                            /\ queued'[c][i].player \notin movedOn' =>
                                   membership'[queued'[c][i].player].team # Nobody
                            /\ i # 1 => /\ queued'[c][i - 1].do = "team score"
                                        /\ queued'[c][i].player \notin movedOn' =>
                                             queued'[c][i - 1].team = membership'[queued'[c][i].player].team
    BY DEF PointsTogether
  <1>1. ASSUME JudgingAt(c, "points")'
        PROVE  /\ judging'[c].team \in TeamNames
               /\ judging'[c].player \notin movedOn' =>
                      membership'[judging'[c].player].team = judging'[c].team
    <2> DEFINE p == judging[c].player
    <2>1. judging'[c] = judging[c] /\ JudgingAt(c, "points")
      BY <1>1 DEF JudgingAt
    <2>2. p \in Players /\ PointsUnderWay(p)
      BY <2>1, Judges DEF PointsUnderWay, JudgingAt
    <2>3. /\ judging[c].team \in TeamNames
          /\ p \notin movedOn => membership[p].team = judging[c].team
      BY <2>1 DEF PointsTogether
    <2> QED BY <2>1, <2>2, <2>3
  <1>2. ASSUME NEW i \in DOMAIN queued'[c], Contributes(c, i)'
        PROVE  /\ queued'[c][i].player \notin movedOn' =>
                      membership'[queued'[c][i].player].team # Nobody
               /\ i # 1 => /\ queued'[c][i - 1].do = "team score"
                           /\ queued'[c][i].player \notin movedOn' =>
                                queued'[c][i - 1].team = membership'[queued'[c][i].player].team
    <2> DEFINE p == queued[c][i].player
    <2>1. queued'[c] = queued[c] /\ i \in DOMAIN queued[c] /\ Contributes(c, i)
      BY <1>2 DEF Contributes
    <2>2. p \in Players /\ PointsUnderWay(p)
      <3>1. queued[c][i] \in Updates
        BY <2>1 DEF RecordsTypeOK
      <3> QED BY <2>1, <3>1, UpdateKinds DEF PointsUnderWay, Contributes
    <2>3. /\ p \notin movedOn => membership[p].team # Nobody
          /\ i # 1 => /\ queued[c][i - 1].do = "team score"
                      /\ p \notin movedOn => queued[c][i - 1].team = membership[p].team
      BY <2>1 DEF PointsTogether
    <2> QED BY <2>1, <2>2, <2>3
  <1> QED BY <1>1, <1>2

(* A longer streak goes to the end of the queue, if it does.                *)
LEMMA StreakAddsNoPoints ==
    ASSUME RecordsTypeOK, PointsTogether, NEW c \in Clusters, change_streak(c)
    PROVE  /\ PointsTogether'
           /\ membership' = membership /\ movedOn' = movedOn /\ scoreOf' = scoreOf
           /\ \A d \in Clusters : /\ queued[d] # <<>> => queued'[d] # <<>> /\ queued'[d][1] = queued[d][1]
                                  /\ queued[d] = <<>> => queued'[d] = <<>> \/ ~ Contributes(d, 1)'
  <1> DEFINE n == Len(queued[c])
             q == [do |-> "streak", player |-> judging[c].player, scope |-> judging[c].scope,
                   streak |-> streakOf[judging[c].game]]
  <1>1. /\ judging[c] \in Judgement /\ judging[c].player \in Players /\ judging[c].scope \in Scopes
        /\ streakOf[judging[c].game] \in Nat
    <2>1. judging[c].at = "compare"
      BY DEF change_streak, JudgingAt
    <2> QED BY <2>1, Judges DEF RecordsTypeOK
  <1>2. q \in Updates /\ q.do = "streak"
    BY <1>1 DEF Updates, StreakUpdate
  <1>3. queued' = queued \/ queued' = [queued EXCEPT ![c] = queued[c] \o <<q>>]
    BY DEF change_streak, Enqueue
  <1>4. /\ membership' = membership /\ movedOn' = movedOn /\ scoreOf' = scoreOf
        /\ \A d \in Clusters : JudgingAt(d, "points")' => judging'[d] = judging[d]
    BY <1>1 DEF change_streak, tables, SameHistory, Judged, NoAnswer, JudgingAt, RecordsTypeOK, Judgement
  <1> HIDE DEF q
  <1>5. CASE queued' = queued
    BY <1>4, <1>5, PointsKept
  <1>6. CASE queued' = [queued EXCEPT ![c] = queued[c] \o <<q>>]
    <2>1. /\ queued'[c] = queued[c] \o <<q>> /\ queued[c] \in Seq(Updates)
          /\ \A d \in Clusters \ {c} : queued'[d] = queued[d]
      BY <1>6 DEF RecordsTypeOK
    <2>2. <<q>> \in Seq(Updates) /\ Len(<<q>>) = 1 /\ <<q>>[1] = q /\ 1 \in 1..1
      BY <1>2
    <2>3. /\ DOMAIN queued[c] = 1..n /\ n \in Nat /\ DOMAIN queued'[c] = 1..(n + 1)
          /\ \A i \in 1..n : queued'[c][i] = queued[c][i]
          /\ queued'[c][n + 1] = q
      BY <2>1, <2>2, Enqueued
    <2>4. queued[c] = <<>> <=> n = 0
      BY <2>1
    <2>5. queued'[c] # <<>>
      BY <2>3
    <2> HIDE DEF n
    <2>6. ASSUME NEW d \in Clusters, NEW i \in DOMAIN queued'[d], Contributes(d, i)'
          PROVE  /\ i \in DOMAIN queued[d] /\ Contributes(d, i) /\ queued'[d][i] = queued[d][i]
                 /\ i # 1 => queued'[d][i - 1] = queued[d][i - 1]
      <3>1. CASE d # c
        BY <2>1, <2>6, <3>1 DEF Contributes
      <3>2. CASE d = c /\ i \in 1..n
        <4>1. i - 1 \in 1..n \/ i = 1
          BY <2>3, <3>2
        <4> QED BY <2>3, <2>6, <3>2, <4>1 DEF Contributes
      <3>3. CASE d = c /\ i = n + 1
        BY <1>2, <2>3, <2>6, <3>3 DEF Contributes
      <3>4. \A j \in 1..(n + 1) : j \in 1..n \/ j = n + 1
        BY <2>3
      <3> QED BY <2>3, <3>1, <3>2, <3>3, <3>4
    <2>7. ASSUME NEW d \in Clusters, JudgingAt(d, "points")'
          PROVE  /\ judging'[d].team \in TeamNames
                 /\ judging'[d].player \notin movedOn =>
                        membership[judging'[d].player].team = judging'[d].team
      BY <1>4, <2>7 DEF PointsTogether, JudgingAt
    <2>8. PointsTogether'
      <3>1. ASSUME NEW d \in Clusters, NEW i \in DOMAIN queued'[d], Contributes(d, i)'
            PROVE  /\ queued'[d][i].player \notin movedOn => membership[queued'[d][i].player].team # Nobody
                   /\ i # 1 => /\ queued'[d][i - 1].do = "team score"
                               /\ queued'[d][i].player \notin movedOn =>
                                    queued'[d][i - 1].team = membership[queued'[d][i].player].team
        <4>1. i \in DOMAIN queued[d] /\ Contributes(d, i) /\ queued'[d][i] = queued[d][i]
          BY <2>6, <3>1
        <4>2. i # 1 => queued'[d][i - 1] = queued[d][i - 1]
          BY <2>6, <3>1
        <4>3. /\ queued[d][i].player \notin movedOn => membership[queued[d][i].player].team # Nobody
              /\ i # 1 => /\ queued[d][i - 1].do = "team score"
                          /\ queued[d][i].player \notin movedOn =>
                               queued[d][i - 1].team = membership[queued[d][i].player].team
          BY <4>1 DEF PointsTogether
        <4> QED BY <4>1, <4>2, <4>3
      <3> QED BY <1>4, <2>7, <3>1 DEF PointsTogether
    <2>9. \A d \in Clusters : /\ queued[d] # <<>> => queued'[d] # <<>> /\ queued'[d][1] = queued[d][1]
                              /\ queued[d] = <<>> => queued'[d] = <<>> \/ ~ Contributes(d, 1)'
      <3>1. CASE n = 0
        <4>1. ~ Contributes(c, 1)'
          BY <1>2, <2>3, <3>1 DEF Contributes
        <4> QED BY <2>1, <2>4, <3>1, <4>1
      <3>2. CASE n # 0
        <4>1. 1 \in 1..n
          BY <2>3, <3>2
        <4> QED BY <2>1, <2>3, <2>4, <2>5, <3>2, <4>1
      <3> QED BY <3>1, <3>2
    <2> QED BY <1>4, <2>8, <2>9
  <1> QED BY <1>3, <1>4, <1>5, <1>6

(* A share is one point more for its player, who stays where they are.      *)
LEMMA ExecutedMemberships ==
    ASSUME RecordsTypeOK, NEW q \in Updates, RecordsExecuted(q), NEW p \in Players
    PROVE  /\ membership'[p].team = membership[p].team
           /\ q.do = "contribution" /\ membership[p] # NoTeam /\ q.player = p =>
                  membership'[p].points = membership[p].points + 1
           /\ ~ (q.do = "contribution" /\ membership[p] # NoTeam /\ q.player = p) =>
                  membership'[p] = membership[p]
  <1>1. CASE q.do = "contribution" /\ membership[q.player] # NoTeam
    <2> DEFINE r == membership[q.player]
    <2>1. q.player \in Players /\ r \in [team : TeamNames, points : Nat]
      BY <1>1, UpdateKinds, InTeam
    <2>2. membership' = [membership EXCEPT ![q.player] = [r EXCEPT !.points = r.points + 1]]
      BY <1>1 DEF RecordsExecuted
    <2> HIDE DEF r
    <2>3. /\ [r EXCEPT !.points = r.points + 1].team = r.team
          /\ [r EXCEPT !.points = r.points + 1].points = r.points + 1
      BY <2>1
    <2>4. CASE p = q.player
      BY <1>1, <2>1, <2>2, <2>3, <2>4 DEF r, RecordsTypeOK
    <2>5. CASE p # q.player
      BY <2>1, <2>2, <2>5 DEF RecordsTypeOK
    <2> QED BY <2>4, <2>5
  <1>2. CASE ~ (q.do = "contribution" /\ membership[q.player] # NoTeam)
    BY <1>2 DEF RecordsExecuted
  <1> QED BY <1>1, <1>2

(* What executing the oldest query does to the points under way.            *)
LEMMA ExecutedPoints ==
    ASSUME RecordsTypeOK, PointsTogether, NEW c \in Clusters, ClusterQueue(c)
    PROVE  PointsTogether'
  <1> DEFINE n == Len(queued[c])
  <1>1. queued[c] \in Seq(Updates) /\ queued[c] # <<>>
    BY DEF ClusterQueue, RecordsTypeOK
  <1>2. /\ DOMAIN queued[c] = 1..n /\ DOMAIN Tail(queued[c]) = 1..(n - 1) /\ n \in Nat \ {0}
        /\ \A i \in 1..(n - 1) : Tail(queued[c])[i] = queued[c][i + 1] /\ i + 1 \in DOMAIN queued[c]
        /\ Head(queued[c]) \in Updates
    BY <1>1, Dequeued
  <1>3. /\ judging' = judging /\ movedOn' = movedOn /\ queued'[c] = Tail(queued[c])
        /\ \A d \in Clusters \ {c} : queued'[d] = queued[d]
    BY DEF ClusterQueue, SameHistory, RecordsTypeOK
  <1>4. \A p \in Players : membership'[p].team = membership[p].team
    BY <1>2, ExecutedMemberships DEF ClusterQueue
  <1> HIDE DEF n
  <1>5. ASSUME NEW d \in Clusters, JudgingAt(d, "points")'
        PROVE  /\ judging'[d].team \in TeamNames
               /\ judging'[d].player \notin movedOn =>
                      membership'[judging'[d].player].team = judging'[d].team
    <2>1. JudgingAt(d, "points") /\ judging[d].player \in Players
      BY <1>3, <1>5, Judges DEF JudgingAt
    <2> QED BY <1>3, <1>4, <2>1 DEF PointsTogether
  <1>6. ASSUME NEW d \in Clusters, NEW i \in DOMAIN queued'[d], Contributes(d, i)'
        PROVE  /\ queued'[d][i].player \notin movedOn => membership'[queued'[d][i].player].team # Nobody
               /\ i # 1 => /\ queued'[d][i - 1].do = "team score"
                           /\ queued'[d][i].player \notin movedOn =>
                                queued'[d][i - 1].team = membership'[queued'[d][i].player].team
    <2> DEFINE j == IF d = c THEN i + 1 ELSE i
    <2>1. /\ j \in DOMAIN queued[d] /\ queued'[d][i] = queued[d][j]
          /\ i # 1 => j # 1 /\ queued'[d][i - 1] = queued[d][j - 1]
      <3>1. CASE d # c
        BY <1>3, <3>1
      <3>2. CASE d = c
        <4>1. i \in 1..(n - 1)
          BY <1>2, <1>3, <3>2
        <4>2. i # 1 => i - 1 \in 1..(n - 1) /\ (i - 1) + 1 = i /\ (i + 1) - 1 = i /\ i + 1 # 1
          BY <1>2, <4>1
        <4> QED BY <1>2, <1>3, <3>2, <4>1, <4>2
      <3> QED BY <3>1, <3>2
    <2> HIDE DEF j
    <2>2. Contributes(d, j)
      BY <1>6, <2>1 DEF Contributes
    <2>3. queued[d][j].player \in Players
      <3>1. queued[d][j] \in Updates
        BY <2>1 DEF RecordsTypeOK
      <3> QED BY <2>2, <3>1, UpdateKinds DEF Contributes
    <2>4. /\ queued[d][j].player \notin movedOn => membership[queued[d][j].player].team # Nobody
          /\ j # 1 => /\ queued[d][j - 1].do = "team score"
                      /\ queued[d][j].player \notin movedOn =>
                           queued[d][j - 1].team = membership[queued[d][j].player].team
      BY <2>1, <2>2 DEF PointsTogether
    <2> QED BY <1>4, <2>1, <2>3, <2>4
  <1> QED BY <1>3, <1>5, <1>6 DEF PointsTogether

(* The two queries of the points go to the end of the queue together.       *)
LEMMA AddedTogether ==
    ASSUME RecordsTypeOK, PointsTogether, NEW c \in Clusters, add_team_points(c)
    PROVE  PointsTogether'
  <1> DEFINE n == Len(queued[c])
  <1>1. /\ JudgingAt(c, "points") /\ membership' = membership /\ movedOn' = movedOn
        /\ \A d \in Clusters : JudgingAt(d, "points")' => judging'[d] = judging[d]
    <2>1. judging[c].at # "none"
      BY DEF add_team_points, JudgingAt
    <2>2. judging[c] \in Judgement
      BY <2>1, Judges
    <2> QED BY <2>2 DEF add_team_points, Goes, JudgingAt, RecordsTypeOK, Judgement, tables, SameHistory
  <1>2. /\ judging[c].team \in TeamNames /\ judging[c].player \in Players
        /\ judging[c].player \notin movedOn => membership[judging[c].player].team = judging[c].team
    BY <1>1, AddedPoints DEF PointsTogether
  <1>3. /\ \A d \in Clusters \ {c} : queued'[d] = queued[d]
        /\ DOMAIN queued[c] = 1..n /\ n \in Nat /\ DOMAIN queued'[c] = 1..(n + 2)
        /\ \A i \in 1..n : queued'[c][i] = queued[c][i]
    BY AddedPoints
  <1>9. /\ queued'[c][n + 1].do = "team score" /\ queued'[c][n + 1].team = judging[c].team
        /\ queued'[c][n + 2].do = "contribution" /\ queued'[c][n + 2].player = judging[c].player
    BY AddedPoints
  <1> HIDE DEF n
  <1>4. Nobody \notin TeamNames
    BY RecordsAssumption DEF RecordsAssumption, Nobody
  <1>5. ASSUME NEW d \in Clusters, NEW i \in DOMAIN queued'[d], Contributes(d, i)'
        PROVE  /\ queued'[d][i].player \notin movedOn => membership[queued'[d][i].player].team # Nobody
               /\ i # 1 => /\ queued'[d][i - 1].do = "team score"
                           /\ queued'[d][i].player \notin movedOn =>
                                queued'[d][i - 1].team = membership[queued'[d][i].player].team
    <2>1. CASE d # c
      <3>1. queued'[d] = queued[d] /\ i \in DOMAIN queued[d] /\ Contributes(d, i)
        BY <1>3, <1>5, <2>1 DEF Contributes
      <3>2. /\ queued[d][i].player \notin movedOn => membership[queued[d][i].player].team # Nobody
            /\ i # 1 => /\ queued[d][i - 1].do = "team score"
                        /\ queued[d][i].player \notin movedOn =>
                             queued[d][i - 1].team = membership[queued[d][i].player].team
        BY <3>1 DEF PointsTogether
      <3> QED BY <3>1, <3>2
    <2>2. CASE d = c /\ i \in 1..n
      <3>1. i - 1 \in 1..n \/ i = 1
        BY <1>3, <2>2
      <3>2. i \in DOMAIN queued[c] /\ Contributes(c, i)
        BY <1>3, <1>5, <2>2 DEF Contributes
      <3>3. /\ queued[c][i].player \notin movedOn => membership[queued[c][i].player].team # Nobody
            /\ i # 1 => /\ queued[c][i - 1].do = "team score"
                        /\ queued[c][i].player \notin movedOn =>
                             queued[c][i - 1].team = membership[queued[c][i].player].team
        BY <3>2 DEF PointsTogether
      <3> QED BY <1>3, <2>2, <3>1, <3>3
    <2>3. CASE d = c /\ i = n + 1
      BY <1>9, <1>5, <2>3 DEF Contributes
    <2>4. CASE d = c /\ i = n + 2
      <3>1. i - 1 = n + 1
        BY <1>3, <2>4
      <3> QED BY <1>2, <1>3, <1>9, <1>4, <2>4, <3>1
    <2>5. \A j \in 1..(n + 2) : j \in 1..n \/ j = n + 1 \/ j = n + 2
      BY <1>3
    <2> QED BY <1>3, <2>1, <2>2, <2>3, <2>4, <2>5
  <1>6. ASSUME NEW d \in Clusters, JudgingAt(d, "points")'
        PROVE  /\ judging'[d].team \in TeamNames
               /\ judging'[d].player \notin movedOn =>
                      membership[judging'[d].player].team = judging'[d].team
    BY <1>1, <1>6 DEF PointsTogether, JudgingAt
  <1> QED BY <1>1, <1>5, <1>6 DEF PointsTogether

(* Every step keeps the share of a point next to the point of the team.     *)
LEMMA PointsStep ==
    RecordsTypeOK /\ PointsTogether /\ [RecordsNext]_recordsVars => PointsTogether'
  <1> SUFFICES ASSUME RecordsTypeOK, PointsTogether, [RecordsNext]_recordsVars PROVE PointsTogether'
    OBVIOUS
  <1>0. ASSUME NEW g \in Games PROVE ClusterOfGame[g] \in Clusters
    BY RecordsAssumption DEF RecordsAssumption
  <1>1. ASSUME NEW g \in Games, NEW p \in Players, RightAnswer(g, p) PROVE PointsTogether'
    <2>1. \A c \in Clusters : JudgingAt(c, "points")' => judging'[c] = judging[c]
      BY <1>0, <1>1 DEF RightAnswer, JudgingAt, RecordsTypeOK
    <2> QED BY <1>1, <2>1, PointsKept DEF RightAnswer, tables
  <1>2. ASSUME NEW c \in Clusters, get_current_team(c) PROVE PointsTogether'
    <2> DEFINE p == judging[c].player
    <2>1. judging[c].at = "team"
      BY <1>2 DEF get_current_team, JudgingAt
    <2>2. judging[c] \in Judgement /\ p \in Players
      BY <2>1, Judges
    <2>3. /\ judging'[c].team = membership[p].team /\ judging'[c].player = p
          /\ judging'[c].at = "points" => membership[p] # NoTeam
          /\ \A d \in Clusters \ {c} : judging'[d] = judging[d]
          /\ queued' = queued /\ membership' = membership /\ movedOn' = movedOn
      BY <1>2, <2>2 DEF get_current_team, RecordsTypeOK, Judgement, tables, SameHistory
    <2> HIDE DEF p
    <2>4. JudgingAt(c, "points")' =>
              /\ judging'[c].team \in TeamNames
              /\ judging'[c].player \notin movedOn' =>
                     membership'[judging'[c].player].team = judging'[c].team
      BY <2>2, <2>3, InTeam DEF JudgingAt
    <2>5. ASSUME NEW d \in Clusters \ {c}, JudgingAt(d, "points")'
          PROVE  /\ judging'[d].team \in TeamNames
                 /\ judging'[d].player \notin movedOn' =>
                        membership'[judging'[d].player].team = judging'[d].team
      BY <2>3, <2>5 DEF PointsTogether, JudgingAt
    <2> QED BY <2>3, <2>4, <2>5, ZenonT(60) DEF PointsTogether, Contributes
  <1>3. ASSUME NEW c \in Clusters, add_team_points(c) PROVE PointsTogether'
    BY <1>3, AddedTogether
  <1>4. ASSUME NEW c \in Clusters, CountStreak(c) PROVE PointsTogether'
    <2>1. \A d \in Clusters : JudgingAt(d, "points")' => judging'[d] = judging[d]
      <3>1. judging[c].at # "none"
        BY <1>4 DEF CountStreak, JudgingAt
      <3>2. judging[c] \in Judgement
        BY <3>1, Judges
      <3> QED BY <1>4, <3>2 DEF CountStreak, Goes, Judged, NoAnswer, JudgingAt, RecordsTypeOK, Judgement
    <2> QED BY <1>4, <2>1, PointsKept DEF CountStreak, tables, SameHistory
  <1>5. ASSUME NEW c \in Clusters, get_streak(c) PROVE PointsTogether'
    <2>1. \A d \in Clusters : JudgingAt(d, "points")' => judging'[d] = judging[d]
      <3>1. judging[c].at # "none"
        BY <1>5 DEF get_streak, JudgingAt
      <3>2. judging[c] \in Judgement
        BY <3>1, Judges
      <3> QED BY <1>5, <3>2 DEF get_streak, JudgingAt, RecordsTypeOK, Judgement
    <2> QED BY <1>5, <2>1, PointsKept DEF get_streak, tables
  <1>6. ASSUME NEW c \in Clusters, change_streak(c) PROVE PointsTogether'
    BY <1>6, StreakAddsNoPoints
  <1>7. ASSUME NEW c \in Clusters, ClusterQueue(c) PROVE PointsTogether'
    BY <1>7, ExecutedPoints
  <1>8. ASSUME NEW g \in Games, TimeUp(g) PROVE PointsTogether'
    BY <1>8, PointsKept DEF TimeUp, Move
  <1>9. ASSUME NEW p \in Players, NEW n \in TeamNames, JoinTeam(p, n) PROVE PointsTogether'
    <2>1. p \notin movedOn => ~ PointsUnderWay(p)
      <3> SUFFICES ASSUME p \notin movedOn, PointsUnderWay(p) PROVE FALSE
        OBVIOUS
      <3>1. membership[p].team = Nobody /\ Nobody \notin TeamNames
        BY <1>9, RecordsAssumption DEF JoinTeam, NoTeam, RecordsAssumption, Nobody
      <3>2. PICK c \in Clusters :
                \/ JudgingAt(c, "points") /\ judging[c].player = p
                \/ \E i \in DOMAIN queued[c] : queued[c][i].do = "contribution" /\ queued[c][i].player = p
        BY DEF PointsUnderWay
      <3> QED BY <3>1, <3>2 DEF PointsTogether, Contributes
    <2>2. movedOn' = movedOn /\ \A q \in Players \ {p} : membership'[q] = membership[q]
      BY <1>9 DEF JoinTeam, RecordsTypeOK
    <2> QED BY <1>9, <2>1, <2>2, PointsKept DEF JoinTeam
  <1>10. ASSUME NEW p \in Players, leave_team(p) PROVE PointsTogether'
    <2>1. /\ movedOn \subseteq movedOn' /\ PointsUnderWay(p) => p \in movedOn'
          /\ \A q \in Players \ {p} : membership'[q] = membership[q]
      BY <1>10 DEF leave_team, RecordsTypeOK
    <2> QED BY <1>10, <2>1, PointsKept DEF leave_team
  <1>11. ASSUME NEW c \in Clusters, ClusterDies(c) PROVE PointsTogether'
    <2>1. \A d \in Clusters : JudgingAt(d, "points")' => judging'[d] = judging[d]
      BY <1>11 DEF ClusterDies, JudgingAt, NoAnswer, RecordsTypeOK
    <2>2. \A d \in Clusters : queued'[d] = queued[d] \/ queued'[d] = <<>>
      BY <1>11 DEF ClusterDies, RecordsTypeOK
    <2> QED BY <1>11, <2>1, <2>2, PointsKept DEF ClusterDies, tables, SameHistory
  <1>12. CASE UNCHANGED recordsVars
    BY <1>12, PointsKept DEF recordsVars, tables
  <1> QED BY <1>1, <1>2, <1>3, <1>4, <1>5, <1>6, <1>7, <1>8, <1>9, <1>10, <1>11, <1>12 DEF RecordsNext

-----------------------------------------------------------------------------
(* The points of the teams *)

(* The members of a team are finitely many, and so are the shares about to  *)
(* be written.                                                              *)
LEMMA FiniteMembers ==
    ASSUME RecordsTypeOK, NEW n
    PROVE  /\ IsFiniteSet(Members(n)) /\ Members(n) \subseteq Players
           /\ \A p \in Members(n) : membership[p].points \in Nat
           /\ PointsOf(membership, Members(n)) \in Nat
           /\ IsFiniteSet(SharesNext(n)) /\ Cardinality(SharesNext(n)) \in Nat
  <1>1. IsFiniteSet(Players) /\ IsFiniteSet(Clusters)
    BY RecordsAssumption DEF RecordsAssumption
  <1>2. Members(n) \subseteq Players /\ SharesNext(n) \subseteq Clusters
    BY DEF Members, SharesNext
  <1>3. IsFiniteSet(Members(n)) /\ IsFiniteSet(SharesNext(n))
    BY <1>1, <1>2, FS_Subset
  <1>4. \A p \in Members(n) : membership[p].points \in Nat
    BY <1>2, InTeam
  <1> QED BY <1>2, <1>3, <1>4, PointsApart, FS_CardinalityType

(* What changes neither scores nor members' shares, and brings no share to  *)
(* the head of a queue.                                                     *)
LEMMA ScoreKept ==
    ASSUME RecordsTypeOK, SharesAreInTheScore,
           membership' = membership, movedOn' = movedOn, scoreOf' = scoreOf,
           \A c \in Clusters : queued'[c] # <<>> /\ Contributes(c, 1)' =>
               queued[c] # <<>> /\ queued'[c][1] = queued[c][1]
    PROVE  SharesAreInTheScore'
  <1> SUFFICES ASSUME NEW n \in TeamNames
               PROVE  PointsOf(membership, Members(n)) + Cardinality(SharesNext(n)') <= scoreOf[n]
    BY DEF SharesAreInTheScore, Members
  <1>1. SharesNext(n)' \subseteq SharesNext(n)
    BY DEF SharesNext, Contributes
  <1>2. Cardinality(SharesNext(n)') \in Nat /\ Cardinality(SharesNext(n)') <= Cardinality(SharesNext(n))
    BY <1>1, FiniteMembers, FS_Subset, FS_CardinalityType
  <1>3. /\ PointsOf(membership, Members(n)) + Cardinality(SharesNext(n)) <= scoreOf[n]
        /\ scoreOf[n] \in Nat /\ PointsOf(membership, Members(n)) \in Nat /\ Cardinality(SharesNext(n)) \in Nat
    BY FiniteMembers DEF SharesAreInTheScore, RecordsTypeOK
  <1> QED BY <1>2, <1>3

(* A player who joins a team brings no points, and one who leaves it takes  *)
(* theirs away.                                                             *)
LEMMA ScoreOfMoved ==
    ASSUME RecordsTypeOK, RecordsTypeOK', PointsTogether, SharesAreInTheScore, NEW p \in Players,
           \/ \E n \in TeamNames : JoinTeam(p, n)
           \/ leave_team(p)
    PROVE  SharesAreInTheScore'
  <1>0. Nobody \notin TeamNames
    BY RecordsAssumption DEF RecordsAssumption, Nobody
  <1>1. /\ scoreOf' = scoreOf /\ queued' = queued /\ movedOn \subseteq movedOn' /\ movedOn' \subseteq movedOn \cup {p}
        /\ \A q \in Players \ {p} : membership'[q] = membership[q]
    BY DEF JoinTeam, leave_team, Move, RecordsTypeOK
  <1>2. \/ membership[p] = NoTeam /\ membership'[p].points = 0
        \/ membership'[p].team = Nobody
    BY DEF JoinTeam, leave_team, NoTeam, RecordsTypeOK
  <1> SUFFICES ASSUME NEW n \in TeamNames
               PROVE  PointsOf(membership', Members(n)') + Cardinality(SharesNext(n)') <= scoreOf[n]
    BY <1>1 DEF SharesAreInTheScore
  <1>3. SharesNext(n)' \subseteq SharesNext(n)
    <2> SUFFICES ASSUME NEW c \in SharesNext(n)' PROVE c \in SharesNext(n)
      OBVIOUS
    <2> DEFINE q == queued[c][1].player
    <2>1. /\ c \in Clusters /\ queued[c] # <<>> /\ Contributes(c, 1) /\ q \notin movedOn
          /\ membership'[q].team = n
      BY <1>1 DEF SharesNext, Contributes
    <2>2. 1 \in DOMAIN queued[c] /\ queued[c][1] \in Updates
      BY <2>1, Dequeued DEF RecordsTypeOK
    <2>3. q \in Players
      BY <2>1, <2>2, UpdateKinds DEF Contributes
    <2>4. membership[q].team # Nobody
      BY <2>1, <2>2 DEF PointsTogether
    <2>5. q # p
      BY <1>0, <1>2, <2>1, <2>4 DEF NoTeam
    <2> QED BY <1>1, <2>1, <2>3, <2>5 DEF SharesNext
  <1>4. Cardinality(SharesNext(n)') \in Nat /\ Cardinality(SharesNext(n)') <= Cardinality(SharesNext(n))
    BY <1>3, FiniteMembers, FS_Subset, FS_CardinalityType
  <1>5. Members(n)' \subseteq Players /\ IsFiniteSet(Members(n)')
    BY RecordsAssumption, FS_Subset DEF Members, RecordsAssumption
  <1>6. \A q \in Players \ {p} : q \in Members(n)' <=> q \in Members(n)
    BY <1>1 DEF Members
  <1>7. PointsOf(membership', Members(n)') <= PointsOf(membership, Members(n))
    <2> DEFINE others == Members(n) \ {p}
    <2>1. IsFiniteSet(others) /\ others \subseteq Players
      BY FiniteMembers, FS_RemoveElement
    <2>2. PointsOf(membership', others) = PointsOf(membership, others)
      BY <1>1, <2>1, PointsAlike
    <2>3. PointsOf(membership, others) \in Nat /\ PointsOf(membership, others) <= PointsOf(membership, Members(n))
      <3>1. \A q \in others : membership[q].points \in Nat
        BY FiniteMembers
      <3>2. PointsOf(membership, others) \in Nat
        BY <2>1, <3>1, PointsApart
      <3>3. CASE p \in Members(n)
        <4>1. PointsOf(membership, Members(n)) = membership[p].points + PointsOf(membership, others)
          BY <3>3, FiniteMembers, PointsApart
        <4>2. membership[p].points \in Nat
          BY InTeam
        <4> QED BY <3>2, <4>1, <4>2
      <3>4. CASE p \notin Members(n)
        <4>1. others = Members(n)
          BY <3>4
        <4> QED BY <3>2, <4>1
      <3> QED BY <3>2, <3>3, <3>4
    <2>4. CASE p \notin Members(n)'
      <3>1. Members(n)' = others
        BY <1>5, <1>6, <2>4, FiniteMembers
      <3> QED BY <2>2, <2>3, <3>1
    <2>5. CASE p \in Members(n)'
      <3>1. Members(n)' \ {p} = others
        BY <1>5, <1>6, FiniteMembers
      <3>2. membership'[p].points = 0
        BY <1>0, <1>2, <2>5 DEF Members
      <3>3. \A q \in Members(n)' : membership'[q].points \in Nat
        <4>1. \A q \in Members(n)' : q = p \/ q \in Members(n)
          BY <1>5, <1>6
        <4>2. \A q \in Members(n) : q # p => membership'[q] = membership[q] /\ membership[q].points \in Nat
          BY <1>1, FiniteMembers
        <4> QED BY <3>2, <4>1, <4>2
      <3>4. PointsOf(membership', Members(n)') = membership'[p].points + PointsOf(membership', Members(n)' \ {p})
        BY <1>5, <2>5, <3>3, PointsApart
      <3> HIDE DEF others
      <3> QED BY <2>2, <2>3, <3>1, <3>2, <3>4
    <2> QED BY <2>4, <2>5
  <1>8. PointsOf(membership', Members(n)') \in Nat
    <2>1. \A q \in Members(n)' : membership'[q].points \in Nat
      <3>1. \A q \in Players : membership'[q] \in Memberships
        BY DEF RecordsTypeOK
      <3> QED BY <1>5, <3>1 DEF Memberships, NoTeam
    <2> QED BY <1>5, <2>1, PointsApart
  <1>9. /\ PointsOf(membership, Members(n)) + Cardinality(SharesNext(n)) <= scoreOf[n]
        /\ scoreOf[n] \in Nat /\ PointsOf(membership, Members(n)) \in Nat /\ Cardinality(SharesNext(n)) \in Nat
    BY FiniteMembers DEF SharesAreInTheScore, RecordsTypeOK
  <1> QED BY <1>4, <1>7, <1>8, <1>9

(* A team's points bring the share behind them to the head of the queue,    *)
(* and a share that is executed makes room for something else.              *)
LEMMA ScoreOfExecuted ==
    ASSUME RecordsTypeOK, PointsTogether, SharesAreInTheScore, NEW c \in Clusters, ClusterQueue(c)
    PROVE  SharesAreInTheScore'
  <1> DEFINE q == queued[c][1]
  <1>1. queued[c] \in Seq(Updates) /\ queued[c] # <<>>
    BY DEF ClusterQueue, RecordsTypeOK
  <1>2. q \in Updates /\ q = Head(queued[c]) /\ 1 \in DOMAIN queued[c]
    BY <1>1, Dequeued
  <1>3. /\ RecordsExecuted(q) /\ movedOn' = movedOn
        /\ queued'[c] = Tail(queued[c]) /\ \A d \in Clusters \ {c} : queued'[d] = queued[d]
    BY <1>2 DEF ClusterQueue, SameHistory, RecordsTypeOK
  <1>4. queued'[c] # <<>> => queued'[c][1] = queued[c][2] /\ 2 \in DOMAIN queued[c] /\ queued[c][2] \in Updates
    <2>1. queued'[c] # <<>> => Len(queued[c]) >= 2
      BY <1>1, <1>3
    <2>2. Len(queued[c]) >= 2 => /\ Tail(queued[c])[1] = queued[c][2] /\ 2 \in DOMAIN queued[c]
                                 /\ queued[c][2] \in Updates
      BY <1>1
    <2> QED BY <1>3, <2>1, <2>2
  <1>5. \A p \in Players : membership'[p].team = membership[p].team
    BY <1>2, <1>3, ExecutedMemberships
  <1> HIDE DEF q
  <1>6. \A n \in TeamNames : /\ IsFiniteSet(Members(n)) /\ Members(n) \subseteq Players /\ Members(n)' = Members(n)
                             /\ \A p \in Members(n) : membership[p].points \in Nat
    BY <1>3, <1>5, FiniteMembers DEF Members
  <1>7. \A n \in TeamNames, d \in Clusters \ {c} : d \in SharesNext(n)' => d \in SharesNext(n)
    <2> SUFFICES ASSUME NEW n \in TeamNames, NEW d \in Clusters \ {c}, d \in SharesNext(n)'
                 PROVE  d \in SharesNext(n)
      OBVIOUS
    <2>1. /\ queued[d] # <<>> /\ Contributes(d, 1) /\ queued[d][1].player \notin movedOn
          /\ membership'[queued[d][1].player].team = n
      BY <1>3 DEF SharesNext, Contributes
    <2>2. queued[d][1] \in Updates
      BY <2>1, Dequeued DEF RecordsTypeOK
    <2>3. queued[d][1].player \in Players
      BY <2>1, <2>2, UpdateKinds DEF Contributes
    <2> QED BY <1>5, <2>1, <2>3 DEF SharesNext
  <1>8. \A n \in TeamNames : c \in SharesNext(n)' => q.do = "team score" /\ q.team = n
    <2> SUFFICES ASSUME NEW n \in TeamNames, c \in SharesNext(n)' PROVE q.do = "team score" /\ q.team = n
      OBVIOUS
    <2>1. /\ queued'[c] # <<>> /\ queued[c][2].do = "contribution" /\ queued[c][2].player \notin movedOn
          /\ membership'[queued[c][2].player].team = n
      BY <1>3, <1>4 DEF SharesNext, Contributes
    <2>2. queued[c][2].player \in Players /\ 2 \in DOMAIN queued[c]
      BY <1>4, <2>1, UpdateKinds
    <2>3. 2 # 1 /\ 2 - 1 = 1
      OBVIOUS
    <2>4. q.do = "team score" /\ q.team = membership[queued[c][2].player].team
      <3>1. queued[c][2 - 1].do = "team score"
            /\ queued[c][2 - 1].team = membership[queued[c][2].player].team
        BY <2>1, <2>2, <2>3 DEF PointsTogether, Contributes
      <3> QED BY <2>3, <3>1 DEF q
    <2> QED BY <1>5, <2>1, <2>2, <2>4
  <1> SUFFICES ASSUME NEW n \in TeamNames
               PROVE  PointsOf(membership', Members(n)) + Cardinality(SharesNext(n)') <= scoreOf'[n]
    BY <1>6 DEF SharesAreInTheScore
  <1>9. /\ PointsOf(membership, Members(n)) + Cardinality(SharesNext(n)) <= scoreOf[n]
        /\ scoreOf[n] \in Nat /\ PointsOf(membership, Members(n)) \in Nat
        /\ IsFiniteSet(SharesNext(n)) /\ Cardinality(SharesNext(n)) \in Nat
    BY FiniteMembers DEF SharesAreInTheScore, RecordsTypeOK
  <1>10. SharesNext(n)' \subseteq SharesNext(n) \cup {c}
    BY <1>7 DEF SharesNext
  <1>11. CASE q.do = "team score"
    <2>1. q.team \in TeamNames /\ scoreOf' = [scoreOf EXCEPT ![q.team] = @ + 1] /\ membership' = membership
      BY <1>2, <1>3, <1>11, UpdateKinds DEF RecordsExecuted
    <2>2. CASE q.team = n
      <3>1. scoreOf'[n] = scoreOf[n] + 1
        BY <2>1, <2>2 DEF RecordsTypeOK
      <3>2. IsFiniteSet(SharesNext(n) \cup {c}) /\ Cardinality(SharesNext(n) \cup {c}) <= Cardinality(SharesNext(n)) + 1
            /\ Cardinality(SharesNext(n) \cup {c}) \in Nat
        <4>1. /\ IsFiniteSet(SharesNext(n) \cup {c})
              /\ \/ Cardinality(SharesNext(n) \cup {c}) = Cardinality(SharesNext(n))
                 \/ Cardinality(SharesNext(n) \cup {c}) = Cardinality(SharesNext(n)) + 1
          BY <1>9, FS_AddElement
        <4> QED BY <1>9, <4>1
      <3>3. Cardinality(SharesNext(n)') \in Nat /\ Cardinality(SharesNext(n)') <= Cardinality(SharesNext(n) \cup {c})
        BY <1>10, <3>2, FS_Subset, FS_CardinalityType
      <3> QED BY <1>9, <2>1, <3>1, <3>2, <3>3
    <2>3. CASE q.team # n
      <3>1. scoreOf'[n] = scoreOf[n]
        BY <2>1, <2>3 DEF RecordsTypeOK
      <3>2. SharesNext(n)' \subseteq SharesNext(n)
        BY <1>8, <1>10, <2>3
      <3>3. Cardinality(SharesNext(n)') \in Nat /\ Cardinality(SharesNext(n)') <= Cardinality(SharesNext(n))
        BY <1>9, <3>2, FS_Subset, FS_CardinalityType
      <3> QED BY <1>9, <2>1, <3>1, <3>3
    <2> QED BY <2>2, <2>3
  <1>12. CASE q.do # "team score"
    <2>1. scoreOf' = scoreOf
      BY <1>3, <1>12 DEF RecordsExecuted
    <2>2. SharesNext(n)' \subseteq SharesNext(n) \ {c}
      BY <1>8, <1>10, <1>12
    <2>3. /\ IsFiniteSet(SharesNext(n) \ {c})
          /\ Cardinality(SharesNext(n) \ {c}) =
                 IF c \in SharesNext(n) THEN Cardinality(SharesNext(n)) - 1 ELSE Cardinality(SharesNext(n))
      BY <1>9, FS_RemoveElement
    <2>4. /\ Cardinality(SharesNext(n) \ {c}) \in Nat
          /\ Cardinality(SharesNext(n)') \in Nat /\ Cardinality(SharesNext(n)') <= Cardinality(SharesNext(n) \ {c})
      BY <2>2, <2>3, FS_Subset, FS_CardinalityType
    <2>5. CASE q.do = "contribution" /\ q.player \in Members(n)
      <3> DEFINE p == q.player
      <3>1. p \in Players /\ p \notin movedOn /\ membership[p].team = n
        BY <2>5, <1>6 DEF Members
      <3>2. c \in SharesNext(n)
        BY <1>1, <2>5, <3>1 DEF SharesNext, Contributes, q
      <3>3. membership[p] # NoTeam
        BY <3>1, InTeam
      <3>4. membership'[p].points = membership[p].points + 1 /\ \A r \in Players \ {p} : membership'[r] = membership[r]
        BY <1>2, <1>3, <2>5, <3>1, <3>3, ExecutedMemberships
      <3> HIDE DEF p
      <3>5. p \in Members(n)
        BY <2>5 DEF p
      <3> DEFINE others == Members(n) \ {p}
      <3>6. IsFiniteSet(others) /\ others \subseteq Players
        BY <1>6, FS_RemoveElement
      <3>7. PointsOf(membership', others) = PointsOf(membership, others)
        BY <3>4, <3>6, PointsAlike
      <3>8. PointsOf(membership, others) \in Nat /\ membership[p].points \in Nat
        BY <1>6, <3>5, <3>6, PointsApart
      <3>9. PointsOf(membership, Members(n)) = membership[p].points + PointsOf(membership, others)
        BY <1>6, <3>5, PointsApart
      <3>10. \A r \in Members(n) : membership'[r].points \in Nat
        <4>1. \A r \in Members(n) : r = p \/ membership'[r] = membership[r]
          BY <1>6, <3>4
        <4> QED BY <1>6, <3>4, <3>8, <4>1
      <3>11. PointsOf(membership', Members(n)) = membership'[p].points + PointsOf(membership', others)
        BY <1>6, <3>5, <3>10, PointsApart
      <3> HIDE DEF others
      <3>12. PointsOf(membership', Members(n)) = PointsOf(membership, Members(n)) + 1
        BY <3>4, <3>7, <3>8, <3>9, <3>11
      <3> QED BY <1>9, <2>1, <2>3, <2>4, <3>2, <3>12
    <2>6. CASE ~ (q.do = "contribution" /\ q.player \in Members(n))
      <3>1. \A p \in Members(n) : membership'[p] = membership[p]
        BY <1>2, <1>3, <1>6, <2>6, ExecutedMemberships
      <3>2. PointsOf(membership', Members(n)) = PointsOf(membership, Members(n))
        BY <1>6, <3>1, PointsAlike
      <3> QED BY <1>9, <2>1, <2>3, <2>4, <3>2
    <2> QED BY <2>5, <2>6
  <1> QED BY <1>11, <1>12

(* Every step keeps the score of a team at or above the shares of its       *)
(* members.                                                                 *)
LEMMA ScoreStep ==
    RecordsTypeOK /\ RecordsTypeOK' /\ PointsTogether /\ SharesAreInTheScore /\ [RecordsNext]_recordsVars
        => SharesAreInTheScore'
  <1> SUFFICES ASSUME RecordsTypeOK, RecordsTypeOK', PointsTogether, SharesAreInTheScore,
                      [RecordsNext]_recordsVars
               PROVE  SharesAreInTheScore'
    OBVIOUS
  <1>1. ASSUME NEW g \in Games, NEW p \in Players, RightAnswer(g, p) PROVE SharesAreInTheScore'
    BY <1>1, ScoreKept DEF RightAnswer, tables, Contributes
  <1>2. ASSUME NEW c \in Clusters, get_current_team(c) PROVE SharesAreInTheScore'
    BY <1>2, ScoreKept DEF get_current_team, tables, SameHistory, Contributes
  <1>3. ASSUME NEW c \in Clusters, add_team_points(c) PROVE SharesAreInTheScore'
    <2>1. \A d \in Clusters : queued'[d] # <<>> /\ Contributes(d, 1)' =>
              queued[d] # <<>> /\ queued'[d][1] = queued[d][1]
      <3>1. CASE queued[c] = <<>>
        <4>1. Len(queued[c]) = 0 /\ 0 + 1 = 1
          BY <3>1
        <4>2. queued'[c][1].do = "team score"
          BY <1>3, <4>1, AddedPoints
        <4> QED BY <1>3, <4>2, AddedPoints DEF Contributes
      <3>2. CASE queued[c] # <<>>
        <4>1. 1 \in 1..Len(queued[c])
          BY <3>2 DEF RecordsTypeOK
        <4> QED BY <1>3, <3>2, <4>1, AddedPoints
      <3> QED BY <3>1, <3>2
    <2> QED BY <1>3, <2>1, ScoreKept DEF add_team_points, tables, SameHistory
  <1>4. ASSUME NEW c \in Clusters, CountStreak(c) PROVE SharesAreInTheScore'
    BY <1>4, ScoreKept DEF CountStreak, tables, SameHistory, Contributes
  <1>5. ASSUME NEW c \in Clusters, get_streak(c) PROVE SharesAreInTheScore'
    BY <1>5, ScoreKept DEF get_streak, tables, Contributes
  <1>6. ASSUME NEW c \in Clusters, change_streak(c) PROVE SharesAreInTheScore'
    BY <1>6, StreakAddsNoPoints, ScoreKept
  <1>7. ASSUME NEW c \in Clusters, ClusterQueue(c) PROVE SharesAreInTheScore'
    BY <1>7, ScoreOfExecuted
  <1>8. ASSUME NEW g \in Games, TimeUp(g) PROVE SharesAreInTheScore'
    BY <1>8, ScoreKept DEF TimeUp, Move, Contributes
  <1>9. ASSUME NEW p \in Players, NEW n \in TeamNames, JoinTeam(p, n) PROVE SharesAreInTheScore'
    BY <1>9, ScoreOfMoved
  <1>10. ASSUME NEW p \in Players, leave_team(p) PROVE SharesAreInTheScore'
    BY <1>10, ScoreOfMoved
  <1>11. ASSUME NEW c \in Clusters, ClusterDies(c) PROVE SharesAreInTheScore'
    <2>1. queued'[c] = <<>> /\ \A d \in Clusters \ {c} : queued'[d] = queued[d]
      BY <1>11 DEF ClusterDies, RecordsTypeOK
    <2>2. \A d \in Clusters : queued'[d] # <<>> /\ Contributes(d, 1)' =>
              queued[d] # <<>> /\ queued'[d][1] = queued[d][1]
      BY <2>1
    <2> QED BY <1>11, <2>2, ScoreKept DEF ClusterDies, tables, SameHistory
  <1>12. CASE UNCHANGED recordsVars
    BY <1>12, ScoreKept DEF recordsVars, tables, Contributes
  <1> QED BY <1>1, <1>2, <1>3, <1>4, <1>5, <1>6, <1>7, <1>8, <1>9, <1>10, <1>11, <1>12 DEF RecordsNext

(* Every step keeps the invariant.                                          *)
LEMMA NextRecordsInv == RecordsInv /\ [RecordsNext]_recordsVars => RecordsInv'
  <1>1. RecordsInv /\ [RecordsNext]_recordsVars => RecordsTypeOK'
    BY RecordsTypeStep DEF RecordsInv
  <1> QED BY <1>1, StreaksStep, PointsStep, ScoreStep DEF RecordsInv

(* At any time each longer streak under way is longer than the record it    *)
(* was compared with, and each share of a team's points has the team's      *)
(* points before it.                                                        *)
THEOREM RecordsInvariance == RecordsSpec => []RecordsInv
  <1> QED BY InitRecords, NextRecordsInv, PTL DEF RecordsSpec

(* What a team's members have contributed is in the team's score            *)
(* (webrequest.cpp:792), for any number of players, teams and clusters: the *)
(* team's points are queued first and by the same cluster, so that a share  *)
(* is never executed without them.                                          *)
THEOREM SharesCounted == RecordsSpec => []ContributionsAreInTheScore
  <1>1. RecordsInv => ContributionsAreInTheScore
    <2> SUFFICES ASSUME RecordsInv, NEW n \in TeamNames
                 PROVE  MapThenSumSet(LAMBDA p : membership[p].points,
                                      {p \in Players \ movedOn : membership[p].team = n}) <= scoreOf[n]
      BY DEF ContributionsAreInTheScore
    <2>1. /\ PointsOf(membership, Members(n)) + Cardinality(SharesNext(n)) <= scoreOf[n]
          /\ scoreOf[n] \in Nat /\ PointsOf(membership, Members(n)) \in Nat /\ Cardinality(SharesNext(n)) \in Nat
      BY FiniteMembers DEF RecordsInv, SharesAreInTheScore, RecordsTypeOK
    <2>2. PointsOf(membership, Members(n)) <= scoreOf[n]
      BY <2>1
    <2> QED BY <2>2 DEF PointsOf, Members
  <1> QED BY <1>1, RecordsInvariance, PTL

(* A longest streak falls only for a player whose record was read while a   *)
(* longer streak was on its way to it (state.cpp:338).                      *)
THEOREM RecordsKept == RecordsSpec => RecordsStand
  <1>1. RecordsInv /\ [RecordsNext]_recordsVars
            => [\A p \in Players \ behind, s \in Scopes : bestStreaks'[p][s] >= bestStreaks[p][s]]_recordsVars
    <2> SUFFICES ASSUME RecordsInv, RecordsNext, NEW p \in Players \ behind, NEW s \in Scopes
                 PROVE  bestStreaks'[p][s] >= bestStreaks[p][s]
      OBVIOUS
    <2>1. bestStreaks[p][s] \in Nat
      BY DEF RecordsInv, RecordsTypeOK
    <2>2. ASSUME bestStreaks' = bestStreaks PROVE bestStreaks'[p][s] >= bestStreaks[p][s]
      BY <2>1, <2>2
    <2>3. ASSUME NEW c \in Clusters, ClusterQueue(c) PROVE bestStreaks'[p][s] >= bestStreaks[p][s]
      BY <2>3, ExecutedStreak DEF RecordsInv
    <2> QED BY <2>2, <2>3 DEF RecordsNext, TimeUp, RightAnswer, get_current_team, add_team_points, CountStreak,
               get_streak, change_streak, ClusterDies, leave_team, JoinTeam, Move, tables
  <1> QED BY <1>1, RecordsInvariance, PTL DEF RecordsSpec, RecordsStand

-----------------------------------------------------------------------------
(* Accounts: what its variables hold *)

Creates == [do : {"create"}, step : {"current", "filtered", "insert"}, user : Users, team : Teams]
Joins ==
    [do : {"join"}, step : {"select", "member", "delete", "insert", "own"}, user : Users, team : Teams]
Leaves == [do : {"leave"}, step : {"current", "delete"}, user : Users]
Hints == [do : {"hint"}, step : {"lock", "subtract"}, user : Users, left : 0..MaxHints]
Answers == [do : {"answer"}, step : {"upsert", "check"}, user : Users, guild : Guilds]
Entitlements ==
    [do : {"entitlement"}, event : {"created", "updated", "deleted"}, step : {"credit", "refresh"},
     sub : Subscriptions]
Commands == {NoCommand} \cup Creates \cup Joins \cup Leaves \cup Hints \cup Answers \cup Entitlements

Queries ==
    [do : {"cache"}, user : Users] \cup [do : {"own"}, user : Users, team : Teams]
    \cup [do : {"hints"}, user : Users, left : 0..MaxHints]

Credits == {[guild |-> None, active |-> FALSE]} \cup [guild : Guilds, active : BOOLEAN]
Locks == [guild : Guilds \cup {None}, age : 0..LockSeconds]

AccountsTypeOK ==
    /\ known \subseteq Users
    /\ teams \in [Teams -> [exists : BOOLEAN, owner : Users \cup {None}]]
    /\ team_membership \in [Users -> Teams \cup {None}]
    /\ dm_hints \in [Users -> 0..MaxHints]
    /\ score_locks \in [Users -> Locks] /\ scored \in [Users -> Locks]
    /\ premium_credits \in [Subscriptions -> Credits]
    /\ premium \in [Guilds -> BOOLEAN]
    /\ bg \in Seq(Queries)
    /\ states_mutex \in Threads \cup {"free"}
    /\ cmd \in [Threads -> Commands]
    /\ begun \in Nat
    /\ overlapped \subseteq Users /\ toppedUp \subseteq Users /\ unsettled \subseteq Guilds

(* A guild's premium is right, or about to be put right, unless it is       *)
(* unsettled.                                                               *)
PremiumSettles ==
    /\ \A g \in Guilds \ unsettled :
           \/ premium[g] = HasActiveCredit(g)
           \/ \E t \in Threads : At(t, "entitlement", "refresh") /\ GuildOf[cmd[t].sub] = g
    /\ \A s \in Subscriptions : premium_credits[s].guild \in {None, GuildOf[s]} \cup unsettled

(* Where a player scored less than a minute ago, the lock is; and a lock    *)
(* that a cluster is about to find its own is new.                          *)
LocksHold ==
    /\ \A u \in Users : scored[u].age < LockSeconds =>
           score_locks[u].guild = scored[u].guild /\ score_locks[u].age <= scored[u].age
    /\ \A t \in Threads :
           At(t, "answer", "check") /\ score_locks[cmd[t].user].guild = cmd[t].guild
               => score_locks[cmd[t].user].age = 0

Writes(q, u) == q.do = "hints" /\ q.user = u
Subtracts(t, u) == At(t, "hint", "subtract") /\ cmd[t].user = u

(* The numbers on their way to the database are what is there or one less,  *)
(* and never rise from one to the next; the number read under states_mutex  *)
(* comes after them.                                                        *)
HintsFall ==
    /\ \A t \in Threads : At(t, "hint", "subtract") => states_mutex = t
    /\ \A u \in Users \ toppedUp :
        /\ \A i \in DOMAIN bg : Writes(bg[i], u) =>
              /\ bg[i].left \in {dm_hints[u] - 1, dm_hints[u]}
              /\ \A j \in DOMAIN bg : j < i /\ Writes(bg[j], u) => bg[i].left <= bg[j].left
              /\ \A t \in Threads : Subtracts(t, u) => cmd[t].left <= bg[i].left
        /\ \A t \in Threads : Subtracts(t, u) => cmd[t].left \in {dm_hints[u] - 1, dm_hints[u]}

HasUser(t) == cmd[t].do \in {"create", "join", "leave", "hint", "answer"}

(* Only those who overlapped have two commands; a player about to be        *)
(* removed from any team by joining one is in none.                         *)
TeamsKept ==
    /\ \A s, t \in Threads :
           s # t /\ HasUser(s) /\ HasUser(t) /\ cmd[s].user = cmd[t].user => cmd[s].user \in overlapped
    /\ \A t \in Threads : At(t, "join", "delete") /\ cmd[t].user \notin overlapped
           => team_membership[cmd[t].user] = None

AccountsInv == AccountsTypeOK /\ PremiumSettles /\ LocksHold /\ HintsFall /\ TeamsKept

-----------------------------------------------------------------------------
(* Commands *)

(* What each kind of command holds: its operands, and their types.          *)
LEMMA CommandKinds ==
    ASSUME NEW c \in Commands
    PROVE  /\ c.do = "create" => /\ c \in Creates /\ c.user \in Users /\ c.team \in Teams
                                 /\ DOMAIN c = {"do", "step", "user", "team"}
           /\ c.do = "join" => /\ c \in Joins /\ c.user \in Users /\ c.team \in Teams
                               /\ DOMAIN c = {"do", "step", "user", "team"}
           /\ c.do = "leave" => c \in Leaves /\ c.user \in Users /\ DOMAIN c = {"do", "step", "user"}
           /\ c.do = "hint" => /\ c \in Hints /\ c.user \in Users /\ c.left \in 0..MaxHints
                               /\ DOMAIN c = {"do", "step", "user", "left"}
           /\ c.do = "answer" => /\ c \in Answers /\ c.user \in Users /\ c.guild \in Guilds
                                 /\ DOMAIN c = {"do", "step", "user", "guild"}
           /\ c.do = "entitlement" => /\ c \in Entitlements /\ c.sub \in Subscriptions
                                      /\ c.event \in {"created", "updated", "deleted"}
                                      /\ DOMAIN c = {"do", "event", "step", "sub"}
           /\ c # NoCommand => c.do \in {"create", "join", "leave", "hint", "answer", "entitlement"}
           /\ c = NoCommand => c.do = None /\ DOMAIN c = {"do"}
  <1> QED BY DEF Commands, Creates, Joins, Leaves, Hints, Answers, Entitlements, NoCommand, None

(* A command that goes on keeps everything but its step.                    *)
LEMMA GoesOn ==
    ASSUME cmd \in [Threads -> Commands], NEW t \in Threads, cmd[t] # NoCommand, NEW step, To(t, step)
    PROVE  /\ cmd'[t].do = cmd[t].do /\ cmd'[t].step = step
           /\ HasUser(t) => cmd'[t].user = cmd[t].user
           /\ cmd[t].do \in {"create", "join"} => cmd'[t].team = cmd[t].team
           /\ cmd[t].do = "hint" => cmd'[t].left = cmd[t].left
           /\ cmd[t].do = "answer" => cmd'[t].guild = cmd[t].guild
           /\ cmd[t].do = "entitlement" => cmd'[t].sub = cmd[t].sub /\ cmd'[t].event = cmd[t].event
           /\ \A s \in Threads \ {t} : cmd'[s] = cmd[s]
           /\ \/ cmd[t].do = "create" /\ step \in {"current", "filtered", "insert"}
              \/ cmd[t].do = "join" /\ step \in {"select", "member", "delete", "insert", "own"}
              \/ cmd[t].do = "leave" /\ step \in {"current", "delete"}
              \/ cmd[t].do = "hint" /\ step \in {"lock", "subtract"}
              \/ cmd[t].do = "answer" /\ step \in {"upsert", "check"}
              \/ cmd[t].do = "entitlement" /\ step \in {"credit", "refresh"}
              => cmd' \in [Threads -> Commands]
  <1> DEFINE c == cmd[t]
             d == [c EXCEPT !.step = step]
  <1>1. c \in Commands /\ c # NoCommand
    OBVIOUS
  <1>2. cmd' = [cmd EXCEPT ![t] = d]
    BY DEF To
  <1>3. cmd'[t] = d /\ \A s \in Threads \ {t} : cmd'[s] = cmd[s]
    BY <1>2
  <1> HIDE DEF c
  <1>4. "do" \in DOMAIN c /\ "step" \in DOMAIN c
    BY <1>1, CommandKinds
  <1>5. d.do = c.do /\ d.step = step /\ \A x \in DOMAIN c \ {"step"} : d[x] = c[x]
    BY <1>4
  <1>6. /\ c.do \in {"create", "join", "leave", "hint", "answer"} => d.user = c.user
        /\ c.do \in {"create", "join"} => d.team = c.team
        /\ c.do = "hint" => d.left = c.left
        /\ c.do = "answer" => d.guild = c.guild
        /\ c.do = "entitlement" => d.sub = c.sub /\ d.event = c.event
    BY <1>1, <1>5, CommandKinds
  <1>7. \/ c.do = "create" /\ step \in {"current", "filtered", "insert"}
        \/ c.do = "join" /\ step \in {"select", "member", "delete", "insert", "own"}
        \/ c.do = "leave" /\ step \in {"current", "delete"}
        \/ c.do = "hint" /\ step \in {"lock", "subtract"}
        \/ c.do = "answer" /\ step \in {"upsert", "check"}
        \/ c.do = "entitlement" /\ step \in {"credit", "refresh"}
        => d \in Commands
    <2>1. CASE c.do = "create" /\ step \in {"current", "filtered", "insert"}
      BY <1>1, <2>1, CommandKinds DEF Commands, Creates
    <2>2. CASE c.do = "join" /\ step \in {"select", "member", "delete", "insert", "own"}
      BY <1>1, <2>2, CommandKinds DEF Commands, Joins
    <2>3. CASE c.do = "leave" /\ step \in {"current", "delete"}
      BY <1>1, <2>3, CommandKinds DEF Commands, Leaves
    <2>4. CASE c.do = "hint" /\ step \in {"lock", "subtract"}
      BY <1>1, <2>4, CommandKinds DEF Commands, Hints
    <2>5. CASE c.do = "answer" /\ step \in {"upsert", "check"}
      BY <1>1, <2>5, CommandKinds DEF Commands, Answers
    <2>6. CASE c.do = "entitlement" /\ step \in {"credit", "refresh"}
      BY <1>1, <2>6, CommandKinds DEF Commands, Entitlements
    <2> QED BY <2>1, <2>2, <2>3, <2>4, <2>5, <2>6
  <1> HIDE DEF d
  <1>8. d \in Commands => cmd' \in [Threads -> Commands]
    BY <1>2
  <1> QED BY <1>3, <1>5, <1>6, <1>7, <1>8 DEF c, HasUser

(* The command of a thread that is done is nobody's; those of others stay.  *)
LEMMA Finishes ==
    ASSUME cmd \in [Threads -> Commands], NEW t \in Threads, Done(t)
    PROVE  /\ cmd'[t] = NoCommand /\ \A s \in Threads \ {t} : cmd'[s] = cmd[s]
           /\ cmd' \in [Threads -> Commands]
  <1> QED BY DEF Done, Commands

(* A thread that begins a command had none.                                 *)
LEMMA Begins ==
    ASSUME cmd \in [Threads -> Commands], NEW t \in Threads, NEW c \in Commands, Begin(t, c)
    PROVE  /\ cmd'[t] = c /\ cmd[t] = NoCommand /\ \A s \in Threads \ {t} : cmd'[s] = cmd[s]
           /\ cmd' \in [Threads -> Commands]
  <1> QED BY DEF Begin

(* What each command is when it begins.                                     *)
LEMMA FirstSteps ==
    ASSUME NEW t \in Threads
    PROVE  /\ Create(t) => \E c \in Creates : Begin(t, c) /\ c.step = "current"
           /\ Join(t) => \E c \in Joins : Begin(t, c) /\ c.step = "select"
           /\ Leave(t) => \E c \in Leaves : Begin(t, c) /\ c.step = "current"
           /\ VoteHint(t) => \E c \in Hints : Begin(t, c) /\ c.step = "lock"
           /\ Answer(t) => \E c \in Answers : Begin(t, c) /\ c.step = "upsert"
           /\ OnEntitlement(t) => \E c \in Entitlements : Begin(t, c) /\ c.step = "credit"
  <1>1. ASSUME Create(t) PROVE \E c \in Creates : Begin(t, c) /\ c.step = "current"
    <2>1. PICK u \in Users, n \in Teams : Begin(t, [do |-> "create", step |-> "current", user |-> u, team |-> n])
      BY <1>1 DEF Create
    <2>2. [do |-> "create", step |-> "current", user |-> u, team |-> n] \in Creates
      BY DEF Creates
    <2> QED BY <2>1, <2>2
  <1>2. ASSUME Join(t) PROVE \E c \in Joins : Begin(t, c) /\ c.step = "select"
    <2>1. PICK u \in Users, n \in Teams : Begin(t, [do |-> "join", step |-> "select", user |-> u, team |-> n])
      BY <1>2 DEF Join
    <2>2. [do |-> "join", step |-> "select", user |-> u, team |-> n] \in Joins
      BY DEF Joins
    <2> QED BY <2>1, <2>2
  <1>3. ASSUME Leave(t) PROVE \E c \in Leaves : Begin(t, c) /\ c.step = "current"
    <2>1. PICK u \in Users : Begin(t, [do |-> "leave", step |-> "current", user |-> u])
      BY <1>3 DEF Leave
    <2>2. [do |-> "leave", step |-> "current", user |-> u] \in Leaves
      BY DEF Leaves
    <2> QED BY <2>1, <2>2
  <1>4. ASSUME VoteHint(t) PROVE \E c \in Hints : Begin(t, c) /\ c.step = "lock"
    <2>1. PICK u \in Users : Begin(t, [do |-> "hint", step |-> "lock", user |-> u, left |-> 0])
      BY <1>4 DEF VoteHint
    <2>2. [do |-> "hint", step |-> "lock", user |-> u, left |-> 0] \in Hints
      BY AccountsAssumption DEF Hints, AccountsAssumption
    <2> QED BY <2>1, <2>2
  <1>5. ASSUME Answer(t) PROVE \E c \in Answers : Begin(t, c) /\ c.step = "upsert"
    <2>1. PICK u \in Users, g \in Guilds :
              Begin(t, [do |-> "answer", step |-> "upsert", user |-> u, guild |-> g])
      BY <1>5 DEF Answer
    <2>2. [do |-> "answer", step |-> "upsert", user |-> u, guild |-> g] \in Answers
      BY DEF Answers
    <2> QED BY <2>1, <2>2
  <1>6. ASSUME OnEntitlement(t) PROVE \E c \in Entitlements : Begin(t, c) /\ c.step = "credit"
    <2>1. PICK s \in Subscriptions, e \in {"created", "updated", "deleted"} :
              Begin(t, [do |-> "entitlement", event |-> e, step |-> "credit", sub |-> s])
      BY <1>6 DEF OnEntitlement
    <2>2. [do |-> "entitlement", event |-> e, step |-> "credit", sub |-> s] \in Entitlements
      BY DEF Entitlements
    <2> QED BY <2>1, <2>2
  <1> QED BY <1>1, <1>2, <1>3, <1>4, <1>5, <1>6

-----------------------------------------------------------------------------
(* Steps of commands *)

First == {"current", "select", "lock", "upsert", "credit"}

(* A command that begins changes nothing else, but that a player may now    *)
(* have two.                                                                *)
LEMMA BeginStep ==
    ASSUME AccountsTypeOK, NEW t \in Threads,
           Create(t) \/ Join(t) \/ Leave(t) \/ VoteHint(t) \/ Answer(t) \/ OnEntitlement(t)
    PROVE  /\ cmd[t] = NoCommand /\ cmd' \in [Threads -> Commands] /\ \A s \in Threads \ {t} : cmd'[s] = cmd[s]
           /\ cmd'[t].step \in First
           /\ UNCHANGED <<teamVars, dm_hints, lockVars, premiumVars, bg, states_mutex, toppedUp>>
           /\ begun' \in Nat /\ overlapped \subseteq overlapped' /\ overlapped' \subseteq Users
           /\ \A s \in Threads \ {t} :
                  HasUser(s) /\ HasUser(t)' /\ cmd[s].user = cmd'[t].user => cmd[s].user \in overlapped'
  <1>1. PICK c \in Commands : Begin(t, c) /\ c.step \in First
    BY FirstSteps DEF First, Commands
  <1>2. /\ cmd[t] = NoCommand /\ cmd'[t] = c /\ cmd' \in [Threads -> Commands]
        /\ \A s \in Threads \ {t} : cmd'[s] = cmd[s]
    BY <1>1, Begins DEF AccountsTypeOK
  <1>3. /\ UNCHANGED <<teamVars, dm_hints, lockVars, premiumVars, bg, states_mutex, toppedUp>>
        /\ begun' \in Nat
        /\ overlapped' = overlapped \cup {u \in Users : \E s \in Threads \ {t} :
               "user" \in DOMAIN c \cap DOMAIN cmd[s] /\ cmd[s].user = u /\ c.user = u}
    BY <1>1 DEF Begin, AccountsTypeOK
  <1>4. ASSUME NEW s \in Threads \ {t}, HasUser(s), HasUser(t)', cmd[s].user = cmd'[t].user
        PROVE  cmd[s].user \in overlapped'
    <2>1. cmd[s] \in Commands /\ cmd[s].do \in {"create", "join", "leave", "hint", "answer"}
          /\ c.do \in {"create", "join", "leave", "hint", "answer"}
      BY <1>2, <1>4 DEF AccountsTypeOK, HasUser
    <2>2. "user" \in DOMAIN c /\ "user" \in DOMAIN cmd[s] /\ c.user \in Users
      BY <2>1, CommandKinds
    <2> QED BY <1>2, <1>3, <1>4, <2>2
  <1>5. overlapped \subseteq overlapped' /\ overlapped' \subseteq Users
    BY <1>3 DEF AccountsTypeOK
  <1> QED BY <1>1, <1>2, <1>3, <1>4, <1>5

Queued(S) == bg' = bg \/ \E q \in Queries : bg' = Append(bg, q) /\ q.do \in S

(* The queries that commands queue, and their operands.                     *)
LEMMA QueriesAre ==
    /\ \A u \in Users : [do |-> "cache", user |-> u] \in Queries
    /\ \A u \in Users, n \in Teams : [do |-> "own", user |-> u, team |-> n] \in Queries
    /\ \A u \in Users, k \in 0..MaxHints : [do |-> "hints", user |-> u, left |-> k] \in Queries
    /\ \A q \in Queries : /\ q.do = "cache" => q.user \in Users
                          /\ q.do = "own" => q.user \in Users /\ q.team \in Teams
                          /\ q.do = "hints" => q.user \in Users /\ q.left \in 0..MaxHints
  <1> QED BY DEF Queries

(* Giving a team its owner keeps the table of teams well typed.             *)
LEMMA OwnedTyped ==
    ASSUME AccountsTypeOK, NEW u \in Users, NEW n \in Teams
    PROVE  Owned(teams, u, n) \in [Teams -> [exists : BOOLEAN, owner : Users \cup {None}]]
  <1>1. teams[n] \in [exists : BOOLEAN, owner : Users \cup {None}]
    BY DEF AccountsTypeOK
  <1>2. [teams[n] EXCEPT !.owner = u] \in [exists : BOOLEAN, owner : Users \cup {None}]
    BY <1>1
  <1>3. [teams EXCEPT ![n].owner = u] = [teams EXCEPT ![n] = [teams[n] EXCEPT !.owner = u]]
    OBVIOUS
  <1> QED BY <1>2, <1>3 DEF Owned, AccountsTypeOK

TeamCommands == {"create", "join", "leave"}

(* What any step of a command about teams does.                             *)
TeamMoved(t) ==
    /\ cmd[t].do \in TeamCommands /\ cmd' \in [Threads -> Commands]
    /\ \A s \in Threads \ {t} : cmd'[s] = cmd[s]
    /\ \/ cmd'[t] = NoCommand
       \/ /\ cmd'[t].do \in TeamCommands /\ cmd'[t].user = cmd[t].user
          /\ At(t, "join", "delete")' => team_membership[cmd[t].user] = None /\ team_membership' = team_membership
    /\ Queued({"cache", "own"})
    /\ known' = known
    /\ teams' \in [Teams -> [exists : BOOLEAN, owner : Users \cup {None}]]
    /\ team_membership' \in [Users -> Teams \cup {None}]
    /\ cmd[t].user \in Users /\ \A u \in Users \ {cmd[t].user} : team_membership'[u] = team_membership[u]
    /\ \A u \in Users : \/ team_membership'[u] = team_membership[u] \/ team_membership[u] = None
                        \/ At(t, "join", "delete") \/ At(t, "leave", "delete")
    /\ UNCHANGED <<dm_hints, lockVars, premiumVars, states_mutex, begun, overlapped, toppedUp>>

(* Every step of cmd_create, cmd_join and cmd_leave moves as TeamMoved      *)
(* says.                                                                    *)
LEMMA TeamStepMoves ==
    ASSUME AccountsTypeOK, NEW t \in Threads, TeamStep(t)
    PROVE  TeamMoved(t)
  <1>0. cmd \in [Threads -> Commands] /\ cmd[t] \in Commands
    BY DEF AccountsTypeOK
  <1>10. ASSUME cmd[t].do \in TeamCommands
        PROVE  /\ cmd[t].user \in Users /\ HasUser(t) /\ cmd[t] # NoCommand
               /\ cmd[t].do \in {"create", "join"} => cmd[t].team \in Teams
    BY <1>0, <1>10, CommandKinds DEF TeamCommands, HasUser, NoCommand, None
  <1>1. ASSUME CurrentTeam(t) PROVE TeamMoved(t)
    <2>1. cmd[t].do = "create"
      BY <1>1 DEF CurrentTeam, At
    <2>2. cmd[t] \in Creates /\ cmd[t].user \in Users
      BY <1>0, <2>1, CommandKinds
    <2>3. Queued({"cache", "own"})
      BY <1>1, <2>2, QueriesAre DEF CurrentTeam, CacheUser, Queue, Queued
    <2>4. /\ cmd' \in [Threads -> Commands] /\ \A s \in Threads \ {t} : cmd'[s] = cmd[s]
          /\ \/ cmd'[t] = NoCommand
             \/ cmd'[t].do = "create" /\ cmd'[t].user = cmd[t].user
      <3>1. CASE Done(t)
        BY <1>0, <3>1, Finishes
      <3>2. ASSUME NEW n \in Teams, cmd' = [cmd EXCEPT ![t].team = n, ![t].step = "filtered"]
            PROVE  /\ cmd' \in [Threads -> Commands] /\ \A s \in Threads \ {t} : cmd'[s] = cmd[s]
                   /\ cmd'[t].do = "create" /\ cmd'[t].user = cmd[t].user
        <4> DEFINE d == [cmd[t] EXCEPT !.team = n, !.step = "filtered"]
        <4>1. d \in Creates /\ d.do = "create" /\ d.user = cmd[t].user
          BY <2>2 DEF Creates
        <4>2. cmd' = [cmd EXCEPT ![t] = d]
          BY <3>2
        <4> HIDE DEF d
        <4> QED BY <1>0, <4>1, <4>2 DEF Commands
      <3> QED BY <1>1, <3>1, <3>2 DEF CurrentTeam
    <2>5. ~ At(t, "join", "delete")'
      BY <2>4 DEF At, NoCommand, None
    <2> QED BY <1>1, <2>1, <2>2, <2>3, <2>4, <2>5
            DEF CurrentTeam, Same, TeamMoved, TeamCommands, AccountsTypeOK, teamVars
  <1>2. ASSUME Filtered(t) PROVE TeamMoved(t)
    <2>1. cmd[t].do = "create" /\ cmd[t] # NoCommand
      BY <1>2 DEF Filtered, At, NoCommand, None
    <2>2. /\ cmd' \in [Threads -> Commands] /\ \A s \in Threads \ {t} : cmd'[s] = cmd[s]
          /\ \/ cmd'[t] = NoCommand
             \/ cmd'[t].do = "create" /\ cmd'[t].user = cmd[t].user
      BY <1>0, <1>2, <2>1, Finishes, GoesOn DEF Filtered, HasUser
    <2>3. ~ At(t, "join", "delete")'
      BY <2>2 DEF At, NoCommand, None
    <2> QED BY <1>2, <1>10, <2>1, <2>2, <2>3
            DEF Filtered, Same, TeamMoved, TeamCommands, AccountsTypeOK, teamVars, Queued
  <1>3. ASSUME InsertTeam(t) PROVE TeamMoved(t)
    <2>1. cmd[t].do = "create"
      BY <1>3 DEF InsertTeam, At
    <2>2. cmd[t] \in Creates /\ cmd[t].user \in Users /\ cmd[t].team \in Teams
      BY <1>0, <2>1, CommandKinds
    <2>3. /\ cmd' \in [Threads -> Commands] /\ \A s \in Threads \ {t} : cmd'[s] = cmd[s]
          /\ cmd'[t].do = "join" /\ cmd'[t].step = "select" /\ cmd'[t].user = cmd[t].user
      <3> DEFINE d == [cmd[t] EXCEPT !.do = "join", !.step = "select"]
      <3>1. d \in Joins /\ d.do = "join" /\ d.step = "select" /\ d.user = cmd[t].user
        BY <2>2 DEF Creates, Joins
      <3>2. cmd' = [cmd EXCEPT ![t] = d]
        BY <1>3 DEF InsertTeam
      <3> HIDE DEF d
      <3> QED BY <1>0, <3>1, <3>2 DEF Commands
    <2>4. teams' \in [Teams -> [exists : BOOLEAN, owner : Users \cup {None}]]
      <3>1. [teams[cmd[t].team] EXCEPT !.exists = TRUE] \in [exists : BOOLEAN, owner : Users \cup {None}]
        <4>1. teams[cmd[t].team] \in [exists : BOOLEAN, owner : Users \cup {None}]
          BY <2>2 DEF AccountsTypeOK
        <4> QED BY <4>1
      <3>2. teams' = [teams EXCEPT ![cmd[t].team] = [teams[cmd[t].team] EXCEPT !.exists = TRUE]]
        BY <1>3 DEF InsertTeam
      <3> QED BY <3>1, <3>2 DEF AccountsTypeOK
    <2>5. ~ At(t, "join", "delete")'
      BY <2>3 DEF At
    <2> QED BY <1>3, <2>1, <2>2, <2>3, <2>4, <2>5
            DEF InsertTeam, Same, TeamMoved, TeamCommands, AccountsTypeOK, Queued
  <1>4. ASSUME SelectTeam(t) PROVE TeamMoved(t)
    <2>1. cmd[t].do = "join" /\ cmd[t] # NoCommand
      BY <1>4 DEF SelectTeam, At, NoCommand, None
    <2>2. /\ cmd' \in [Threads -> Commands] /\ \A s \in Threads \ {t} : cmd'[s] = cmd[s]
          /\ \/ cmd'[t] = NoCommand
             \/ cmd'[t].do = "join" /\ cmd'[t].step = "member" /\ cmd'[t].user = cmd[t].user
      BY <1>0, <1>4, <2>1, Finishes, GoesOn DEF SelectTeam, HasUser
    <2>3. ~ At(t, "join", "delete")'
      BY <2>2 DEF At, NoCommand, None
    <2> QED BY <1>4, <1>10, <2>1, <2>2, <2>3
            DEF SelectTeam, Same, TeamMoved, TeamCommands, AccountsTypeOK, teamVars, Queued
  <1>5. ASSUME SelectMembership(t) PROVE TeamMoved(t)
    <2>1. cmd[t].do = "join" /\ cmd[t] # NoCommand
      BY <1>5 DEF SelectMembership, At, NoCommand, None
    <2>2. cmd[t].user \in Users /\ cmd[t].team \in Teams
      BY <1>0, <2>1, CommandKinds
    <2>3. /\ cmd' \in [Threads -> Commands] /\ \A s \in Threads \ {t} : cmd'[s] = cmd[s]
          /\ \/ cmd'[t] = NoCommand
             \/ /\ cmd'[t].do = "join" /\ cmd'[t].user = cmd[t].user
                /\ team_membership[cmd[t].user] = None
      BY <1>0, <1>5, <2>1, Finishes, GoesOn DEF SelectMembership, HasUser
    <2>4. Queued({"cache", "own"})
      BY <1>5, <2>2, QueriesAre DEF SelectMembership, Queue, Queued
    <2>5. UNCHANGED <<teamVars, dm_hints, lockVars, premiumVars, states_mutex, begun, overlapped, toppedUp>>
      BY <1>5 DEF SelectMembership, Same
    <2> QED BY <2>1, <2>2, <2>3, <2>4, <2>5 DEF TeamMoved, TeamCommands, AccountsTypeOK, teamVars
  <1>6. ASSUME DeleteMembership(t) PROVE TeamMoved(t)
    <2>1. cmd[t].do \in {"join", "leave"} /\ cmd[t] # NoCommand
      BY <1>6 DEF DeleteMembership, At, NoCommand, None
    <2>2. cmd[t].user \in Users
      BY <1>0, <2>1, CommandKinds
    <2>3. /\ cmd' \in [Threads -> Commands] /\ \A s \in Threads \ {t} : cmd'[s] = cmd[s]
          /\ \/ cmd'[t] = NoCommand
             \/ cmd'[t].do = "join" /\ cmd'[t].step = "insert" /\ cmd'[t].user = cmd[t].user
      BY <1>0, <1>6, <2>1, Finishes, GoesOn DEF DeleteMembership, HasUser
    <2>4. ~ At(t, "join", "delete")'
      BY <2>3 DEF At, NoCommand, None
    <2>5. /\ team_membership' = [team_membership EXCEPT ![cmd[t].user] = None]
          /\ At(t, "join", "delete") \/ At(t, "leave", "delete")
          /\ UNCHANGED <<known, teams, dm_hints, lockVars, premiumVars, bg, states_mutex, begun, overlapped,
                         toppedUp>>
      BY <1>6 DEF DeleteMembership, Same
    <2> QED BY <2>1, <2>2, <2>3, <2>4, <2>5 DEF TeamMoved, TeamCommands, AccountsTypeOK, Queued
  <1>7. ASSUME InsertMembership(t) PROVE TeamMoved(t)
    <2>1. cmd[t].do = "join" /\ cmd[t] # NoCommand
      BY <1>7 DEF InsertMembership, At, NoCommand, None
    <2>2. cmd[t].user \in Users /\ cmd[t].team \in Teams
      BY <1>0, <2>1, CommandKinds
    <2>3. /\ cmd' \in [Threads -> Commands] /\ \A s \in Threads \ {t} : cmd'[s] = cmd[s]
          /\ cmd'[t].do = "join" /\ cmd'[t].step = "own" /\ cmd'[t].user = cmd[t].user
      BY <1>0, <1>7, <2>1, GoesOn DEF InsertMembership, HasUser
    <2>4. ~ At(t, "join", "delete")'
      BY <2>3 DEF At
    <2>5. /\ team_membership' \in [Users -> Teams \cup {None}]
          /\ \A u \in Users \ {cmd[t].user} : team_membership'[u] = team_membership[u]
          /\ \A u \in Users : team_membership'[u] = team_membership[u] \/ team_membership[u] = None
      BY <1>7, <2>2 DEF InsertMembership, AccountsTypeOK
    <2>6. UNCHANGED <<known, teams, dm_hints, lockVars, premiumVars, bg, states_mutex, begun, overlapped,
                      toppedUp>>
      BY <1>7 DEF InsertMembership, Same
    <2> QED BY <2>1, <2>2, <2>3, <2>4, <2>5, <2>6 DEF TeamMoved, TeamCommands, AccountsTypeOK, Queued
  <1>8. ASSUME OwnTeam(t) PROVE TeamMoved(t)
    <2>1. cmd[t].do = "join"
      BY <1>8 DEF OwnTeam, At
    <2>2. cmd[t].user \in Users /\ cmd[t].team \in Teams
      BY <1>0, <2>1, CommandKinds
    <2>3. /\ cmd' \in [Threads -> Commands] /\ \A s \in Threads \ {t} : cmd'[s] = cmd[s]
          /\ cmd'[t] = NoCommand
      BY <1>0, <1>8, Finishes DEF OwnTeam
    <2>4. Queued({"cache", "own"})
      BY <1>8, <2>2, QueriesAre DEF OwnTeam, CacheUser, Queue, Queued
    <2>5. teams' \in [Teams -> [exists : BOOLEAN, owner : Users \cup {None}]]
      BY <1>8, <2>2, OwnedTyped DEF OwnTeam
    <2>6. UNCHANGED <<known, team_membership, dm_hints, lockVars, premiumVars, states_mutex, begun, overlapped,
                      toppedUp>>
      BY <1>8 DEF OwnTeam, Same
    <2> QED BY <2>1, <2>2, <2>3, <2>4, <2>5, <2>6 DEF TeamMoved, TeamCommands, AccountsTypeOK
  <1>9. ASSUME LeaveCurrent(t) PROVE TeamMoved(t)
    <2>1. cmd[t].do = "leave" /\ cmd[t] # NoCommand
      BY <1>9 DEF LeaveCurrent, At, NoCommand, None
    <2>2. /\ cmd' \in [Threads -> Commands] /\ \A s \in Threads \ {t} : cmd'[s] = cmd[s]
          /\ \/ cmd'[t] = NoCommand
             \/ cmd'[t].do = "leave" /\ cmd'[t].user = cmd[t].user
      BY <1>0, <1>9, <2>1, Finishes, GoesOn DEF LeaveCurrent, HasUser
    <2>3. ~ At(t, "join", "delete")'
      BY <2>2 DEF At, NoCommand, None
    <2> QED BY <1>9, <1>10, <2>1, <2>2, <2>3
            DEF LeaveCurrent, Same, TeamMoved, TeamCommands, AccountsTypeOK, teamVars, Queued
  <1> QED BY <1>1, <1>2, <1>3, <1>4, <1>5, <1>6, <1>7, <1>8, <1>9 DEF TeamStep

(* The steps of the other commands, and what each leaves alone.             *)
LEMMA HintSteps ==
    ASSUME AccountsTypeOK, NEW t \in Threads
    PROVE  /\ SelectHints(t) =>
                  /\ cmd' \in [Threads -> Commands] /\ \A s \in Threads \ {t} : cmd'[s] = cmd[s]
                  /\ cmd[t].do = "hint" /\ cmd[t].user \in Users /\ states_mutex = "free"
                  /\ \/ cmd'[t] = NoCommand /\ states_mutex' = states_mutex
                     \/ /\ cmd'[t].do = "hint" /\ cmd'[t].step = "subtract" /\ cmd'[t].user = cmd[t].user
                        /\ cmd'[t].left = dm_hints[cmd[t].user] - 1 /\ states_mutex' = t
                  /\ UNCHANGED <<teamVars, dm_hints, lockVars, premiumVars, bg, begun, overlapped, toppedUp>>
           /\ SubtractHint(t) =>
                  /\ cmd' \in [Threads -> Commands] /\ \A s \in Threads \ {t} : cmd'[s] = cmd[s]
                  /\ At(t, "hint", "subtract") /\ cmd[t].user \in Users /\ cmd'[t] = NoCommand
                  /\ states_mutex' = "free"
                  /\ \E q \in Queries : /\ bg' = Append(bg, q)
                                        /\ q.do = "hints" /\ q.user = cmd[t].user /\ q.left = cmd[t].left
                  /\ UNCHANGED <<teamVars, dm_hints, lockVars, premiumVars, begun, overlapped, toppedUp>>
  <1>0. cmd \in [Threads -> Commands] /\ cmd[t] \in Commands
    BY DEF AccountsTypeOK
  <1>1. ASSUME cmd[t].do = "hint"
        PROVE  /\ cmd[t] \in Hints /\ cmd[t].user \in Users /\ cmd[t].left \in 0..MaxHints
    BY <1>0, <1>1, CommandKinds
  <1>2. ASSUME SelectHints(t)
        PROVE  /\ cmd' \in [Threads -> Commands] /\ \A s \in Threads \ {t} : cmd'[s] = cmd[s]
               /\ cmd[t].do = "hint" /\ cmd[t].user \in Users /\ states_mutex = "free"
               /\ \/ cmd'[t] = NoCommand /\ states_mutex' = states_mutex
                  \/ /\ cmd'[t].do = "hint" /\ cmd'[t].step = "subtract" /\ cmd'[t].user = cmd[t].user
                     /\ cmd'[t].left = dm_hints[cmd[t].user] - 1 /\ states_mutex' = t
    <2> DEFINE u == cmd[t].user
               d == [cmd[t] EXCEPT !.step = "subtract", !.left = dm_hints[u] - 1]
    <2>1. cmd[t].do = "hint" /\ states_mutex = "free"
      BY <1>2 DEF SelectHints, At
    <2>2. cmd[t] \in Hints /\ u \in Users
      BY <1>1, <2>1
    <2>3. CASE dm_hints[u] < 1
      <3>1. Done(t) /\ states_mutex' = states_mutex
        BY <1>2, <2>3 DEF SelectHints
      <3> QED BY <1>0, <2>1, <2>2, <3>1, Finishes
    <2>4. CASE ~ (dm_hints[u] < 1)
      <3>1. cmd' = [cmd EXCEPT ![t] = d] /\ states_mutex' = t
        BY <1>2, <2>4 DEF SelectHints
      <3>2. dm_hints[u] - 1 \in 0..MaxHints
        BY <2>2, <2>4, AccountsAssumption DEF AccountsTypeOK, AccountsAssumption
      <3>3. /\ d \in Hints /\ d.do = "hint" /\ d.step = "subtract" /\ d.user = u
            /\ d.left = dm_hints[u] - 1
        BY <2>2, <3>2 DEF Hints
      <3> HIDE DEF d
      <3> QED BY <1>0, <2>1, <2>2, <3>1, <3>3 DEF Commands
    <2> QED BY <2>3, <2>4
  <1>3. ASSUME SubtractHint(t)
        PROVE  /\ cmd' \in [Threads -> Commands] /\ \A s \in Threads \ {t} : cmd'[s] = cmd[s]
               /\ At(t, "hint", "subtract") /\ cmd[t].user \in Users /\ cmd'[t] = NoCommand
               /\ states_mutex' = "free"
               /\ \E q \in Queries : /\ bg' = Append(bg, q)
                                     /\ q.do = "hints" /\ q.user = cmd[t].user /\ q.left = cmd[t].left
    <2>1. At(t, "hint", "subtract") /\ states_mutex' = "free" /\ Done(t)
      BY <1>3 DEF SubtractHint
    <2>2. cmd[t].user \in Users /\ cmd[t].left \in 0..MaxHints
      BY <1>1, <2>1 DEF At
    <2> DEFINE q == [do |-> "hints", user |-> cmd[t].user, left |-> cmd[t].left]
    <2>3. q \in Queries /\ q.do = "hints" /\ q.user = cmd[t].user /\ q.left = cmd[t].left
      BY <2>2, QueriesAre
    <2>4. bg' = Append(bg, q)
      BY <1>3 DEF SubtractHint, Queue
    <2> HIDE DEF q
    <2> QED BY <1>0, <2>1, <2>2, <2>3, <2>4, Finishes
  <1> QED BY <1>2, <1>3 DEF SelectHints, SubtractHint, Same

(* The two queries of can_score_on_guild, and what they leave alone.        *)
LEMMA LockSteps ==
    ASSUME AccountsTypeOK, NEW t \in Threads
    PROVE  /\ UpsertLock(t) =>
                  /\ cmd' \in [Threads -> Commands] /\ \A s \in Threads \ {t} : cmd'[s] = cmd[s]
                  /\ cmd[t].do = "answer" /\ cmd[t].user \in Users /\ cmd[t].guild \in Guilds
                  /\ cmd'[t].do = "answer" /\ cmd'[t].step = "check" /\ cmd'[t].user = cmd[t].user
                  /\ cmd'[t].guild = cmd[t].guild
                  /\ score_locks' = [score_locks EXCEPT ![cmd[t].user] =
                                         LockedBy(score_locks[cmd[t].user], cmd[t].guild)]
                  /\ scored' = scored
                  /\ UNCHANGED <<teamVars, dm_hints, premiumVars, bg, states_mutex, begun, overlapped, toppedUp>>
           /\ CheckLock(t) =>
                  /\ cmd' \in [Threads -> Commands] /\ \A s \in Threads \ {t} : cmd'[s] = cmd[s]
                  /\ At(t, "answer", "check") /\ cmd[t].user \in Users /\ cmd[t].guild \in Guilds
                  /\ cmd'[t] = NoCommand
                  /\ scored' = IF score_locks[cmd[t].user].guild = cmd[t].guild
                               THEN [scored EXCEPT ![cmd[t].user] = [guild |-> cmd[t].guild, age |-> 0]]
                               ELSE scored
                  /\ score_locks' = score_locks
                  /\ Queued({"cache"})
                  /\ UNCHANGED <<teamVars, dm_hints, premiumVars, states_mutex, begun, overlapped, toppedUp>>
  <1>0. cmd \in [Threads -> Commands] /\ cmd[t] \in Commands
    BY DEF AccountsTypeOK
  <1>1. ASSUME cmd[t].do = "answer"
        PROVE  cmd[t].user \in Users /\ cmd[t].guild \in Guilds /\ cmd[t] # NoCommand /\ HasUser(t)
    BY <1>0, <1>1, CommandKinds DEF NoCommand, None, HasUser
  <1>2. ASSUME UpsertLock(t)
        PROVE  /\ cmd' \in [Threads -> Commands] /\ \A s \in Threads \ {t} : cmd'[s] = cmd[s]
               /\ cmd[t].do = "answer" /\ cmd[t].user \in Users /\ cmd[t].guild \in Guilds
               /\ cmd'[t].do = "answer" /\ cmd'[t].step = "check" /\ cmd'[t].user = cmd[t].user
               /\ cmd'[t].guild = cmd[t].guild
    <2>1. cmd[t].do = "answer" /\ To(t, "check")
      BY <1>2 DEF UpsertLock, At
    <2> QED BY <1>0, <1>1, <2>1, GoesOn
  <1>3. ASSUME CheckLock(t)
        PROVE  /\ cmd' \in [Threads -> Commands] /\ \A s \in Threads \ {t} : cmd'[s] = cmd[s]
               /\ At(t, "answer", "check") /\ cmd[t].user \in Users /\ cmd[t].guild \in Guilds
               /\ cmd'[t] = NoCommand /\ Queued({"cache"})
    <2>1. At(t, "answer", "check") /\ cmd[t].do = "answer" /\ Done(t)
      BY <1>3 DEF CheckLock, At
    <2>2. Queued({"cache"})
      BY <1>1, <1>3, <2>1, QueriesAre DEF CheckLock, CacheUser, Queue, Queued
    <2> QED BY <1>0, <1>1, <2>1, <2>2, Finishes
  <1> QED BY <1>2, <1>3 DEF UpsertLock, CheckLock, Same

(* The two queries of an entitlement event, and what they leave alone.      *)
LEMMA EntitlementSteps ==
    ASSUME AccountsTypeOK, NEW t \in Threads
    PROVE  /\ Credit(t) =>
                  /\ cmd' \in [Threads -> Commands] /\ \A s \in Threads \ {t} : cmd'[s] = cmd[s]
                  /\ cmd[t].do = "entitlement" /\ cmd[t].step = "credit" /\ cmd[t].sub \in Subscriptions
                  /\ cmd'[t].do = "entitlement" /\ cmd'[t].step = "refresh" /\ cmd'[t].sub = cmd[t].sub
                  /\ \E row \in CreditedAs(cmd[t].event, premium_credits[cmd[t].sub], GuildOf[cmd[t].sub]) :
                         premium_credits' = [premium_credits EXCEPT ![cmd[t].sub] = row]
                  /\ UNCHANGED <<teamVars, dm_hints, lockVars, premium, unsettled, bg, states_mutex, begun,
                                 overlapped, toppedUp>>
           /\ RefreshGuildPremium(t) =>
                  /\ cmd' \in [Threads -> Commands] /\ \A s \in Threads \ {t} : cmd'[s] = cmd[s]
                  /\ At(t, "entitlement", "refresh") /\ cmd[t].sub \in Subscriptions /\ cmd'[t] = NoCommand
                  /\ premium' = [premium EXCEPT ![GuildOf[cmd[t].sub]] = HasActiveCredit(GuildOf[cmd[t].sub])]
                  /\ UNCHANGED <<teamVars, dm_hints, lockVars, premium_credits, unsettled, bg, states_mutex, begun,
                                 overlapped, toppedUp>>
  <1>0. cmd \in [Threads -> Commands] /\ cmd[t] \in Commands
    BY DEF AccountsTypeOK
  <1>1. ASSUME cmd[t].do = "entitlement" PROVE cmd[t].sub \in Subscriptions /\ cmd[t] # NoCommand
    BY <1>0, <1>1, CommandKinds DEF NoCommand, None
  <1>2. ASSUME Credit(t)
        PROVE  /\ cmd' \in [Threads -> Commands] /\ \A s \in Threads \ {t} : cmd'[s] = cmd[s]
               /\ cmd[t].do = "entitlement" /\ cmd[t].step = "credit" /\ cmd[t].sub \in Subscriptions
               /\ cmd'[t].do = "entitlement" /\ cmd'[t].step = "refresh" /\ cmd'[t].sub = cmd[t].sub
    <2>1. cmd[t].do = "entitlement" /\ cmd[t].step = "credit" /\ To(t, "refresh")
      BY <1>2 DEF Credit, At
    <2> QED BY <1>0, <1>1, <2>1, GoesOn
  <1>3. ASSUME RefreshGuildPremium(t)
        PROVE  /\ cmd' \in [Threads -> Commands] /\ \A s \in Threads \ {t} : cmd'[s] = cmd[s]
               /\ At(t, "entitlement", "refresh") /\ cmd[t].sub \in Subscriptions /\ cmd'[t] = NoCommand
    <2>1. At(t, "entitlement", "refresh") /\ cmd[t].do = "entitlement" /\ Done(t)
      BY <1>3 DEF RefreshGuildPremium, At
    <2> QED BY <1>0, <1>1, <2>1, Finishes
  <1> QED BY <1>2, <1>3 DEF Credit, RefreshGuildPremium, Same

(* A row that an event writes is of the guild it was of before, or of the   *)
(* entitlement's if the row is new.                                         *)
LEMMA CreditsTyped ==
    ASSUME AccountsTypeOK, NEW s \in Subscriptions, NEW event,
           NEW row \in CreditedAs(event, premium_credits[s], GuildOf[s])
    PROVE  /\ row \in Credits
           /\ row.guild \in {premium_credits[s].guild, GuildOf[s]}
           /\ premium_credits[s].guild # None => row.guild = premium_credits[s].guild
  <1> DEFINE r == premium_credits[s]
             c == [guild |-> IF r.guild = None THEN GuildOf[s] ELSE r.guild, active |-> TRUE]
             d == [c EXCEPT !.active = FALSE]
  <1>1. r \in Credits /\ GuildOf[s] \in Guilds
    BY AccountsAssumption DEF AccountsTypeOK, AccountsAssumption
  <1>2. /\ c.guild \in {r.guild, GuildOf[s]} /\ (r.guild # None => c.guild = r.guild)
        /\ c \in [guild : Guilds, active : BOOLEAN]
    BY <1>1 DEF Credits
  <1>3. CreditedAs(event, r, GuildOf[s]) =
            IF event = "created" THEN {c}
            ELSE IF r.guild = None THEN {r}
            ELSE IF event = "updated" THEN {c, d} ELSE {d}
    BY DEF CreditedAs
  <1>7. row \in CreditedAs(event, r, GuildOf[s])
    OBVIOUS
  <1> HIDE DEF c
  <1>4. d.guild = c.guild /\ d \in [guild : Guilds, active : BOOLEAN]
    BY <1>2
  <1> HIDE DEF r, d
  <1>5. row \in {r, c} \/ (row = d /\ r.guild # None)
    <2>1. CASE event = "created"
      BY <1>3, <1>7, <2>1
    <2>2. CASE event # "created" /\ r.guild = None
      BY <1>3, <1>7, <2>2
    <2>3. CASE event # "created" /\ r.guild # None
      <3>1. CreditedAs(event, r, GuildOf[s]) = IF event = "updated" THEN {c, d} ELSE {d}
        BY <1>3, <2>3
      <3>2. CreditedAs(event, r, GuildOf[s]) \subseteq {c, d}
        BY <3>1
      <3> QED BY <1>7, <2>3, <3>2
    <2> QED BY <2>1, <2>2, <2>3
  <1>6. /\ row \in Credits /\ row.guild \in {r.guild, GuildOf[s]}
        /\ r.guild # None => row.guild = r.guild
    BY <1>1, <1>2, <1>4, <1>5 DEF Credits
  <1> QED BY <1>6 DEF r

(* What the background thread writes is well typed.                         *)
LEMMA ExecutedTyped ==
    ASSUME AccountsTypeOK, NEW q \in Queries, Execute(q)
    PROVE  /\ known' \subseteq Users
           /\ teams' \in [Teams -> [exists : BOOLEAN, owner : Users \cup {None}]]
           /\ dm_hints' \in [Users -> 0..MaxHints]
  <1>1. known' \subseteq Users
    BY QueriesAre DEF Execute, AccountsTypeOK
  <1>2. teams' \in [Teams -> [exists : BOOLEAN, owner : Users \cup {None}]]
    <2>1. CASE q.do = "own"
      BY <2>1, QueriesAre, OwnedTyped DEF Execute
    <2>2. CASE q.do # "own"
      BY <2>2 DEF Execute, AccountsTypeOK
    <2> QED BY <2>1, <2>2
  <1>3. dm_hints' \in [Users -> 0..MaxHints]
    BY QueriesAre DEF Execute, AccountsTypeOK
  <1> QED BY <1>1, <1>2, <1>3

(* Every step keeps the types.                                              *)
LEMMA AccountsTypeStep == AccountsTypeOK /\ [Next]_vars => AccountsTypeOK'
  <1> SUFFICES ASSUME AccountsTypeOK, [Next]_vars PROVE AccountsTypeOK'
    OBVIOUS
  <1> USE DEF teamVars, premiumVars, lockVars
  <1>0. ASSUME NEW S, Queued(S) PROVE bg' \in Seq(Queries)
    <2>1. bg \in Seq(Queries)
      BY DEF AccountsTypeOK
    <2> QED BY <1>0, <2>1 DEF Queued
  <1>1. ASSUME NEW t \in Threads,
               Create(t) \/ Join(t) \/ Leave(t) \/ VoteHint(t) \/ Answer(t) \/ OnEntitlement(t)
        PROVE  AccountsTypeOK'
    BY <1>1, BeginStep DEF AccountsTypeOK
  <1>2. ASSUME NEW t \in Threads, TeamStep(t) PROVE AccountsTypeOK'
    BY <1>0, <1>2, TeamStepMoves DEF TeamMoved, AccountsTypeOK
  <1>3. ASSUME NEW t \in Threads, SelectHints(t) PROVE AccountsTypeOK'
    BY <1>3, HintSteps DEF AccountsTypeOK
  <1>4. ASSUME NEW t \in Threads, SubtractHint(t) PROVE AccountsTypeOK'
    <2>1. bg' \in Seq(Queries)
      <3>1. PICK q \in Queries : bg' = Append(bg, q)
        BY <1>4, HintSteps
      <3> QED BY <3>1 DEF AccountsTypeOK
    <2> QED BY <1>4, <2>1, HintSteps DEF AccountsTypeOK
  <1>5. ASSUME NEW t \in Threads, UpsertLock(t) PROVE AccountsTypeOK'
    <2>1. score_locks' \in [Users -> Locks]
      <3>1. score_locks[cmd[t].user] \in Locks /\ cmd[t].user \in Users /\ cmd[t].guild \in Guilds
        BY <1>5, LockSteps DEF AccountsTypeOK
      <3>2. LockedBy(score_locks[cmd[t].user], cmd[t].guild) \in Locks
        BY <3>1, AccountsAssumption DEF LockedBy, Locks, AccountsAssumption
      <3> QED BY <1>5, <3>1, <3>2, LockSteps DEF AccountsTypeOK
    <2> QED BY <1>5, <2>1, LockSteps, ZenonT(60) DEF AccountsTypeOK
  <1>6. ASSUME NEW t \in Threads, CheckLock(t) PROVE AccountsTypeOK'
    <2>1. scored' \in [Users -> Locks]
      <3>1. cmd[t].user \in Users /\ [guild |-> cmd[t].guild, age |-> 0] \in Locks
        <4>1. cmd[t].user \in Users /\ cmd[t].guild \in Guilds
          BY <1>6, LockSteps
        <4>2. 0 \in 0..LockSeconds
          BY AccountsAssumption DEF AccountsAssumption
        <4> QED BY <4>1, <4>2 DEF Locks
      <3> QED BY <1>6, <3>1, LockSteps DEF AccountsTypeOK
    <2> QED BY <1>0, <1>6, <2>1, LockSteps, ZenonT(60) DEF AccountsTypeOK
  <1>7. ASSUME NEW t \in Threads, Credit(t) PROVE AccountsTypeOK'
    <2>1. premium_credits' \in [Subscriptions -> Credits]
      <3>1. PICK row \in CreditedAs(cmd[t].event, premium_credits[cmd[t].sub], GuildOf[cmd[t].sub]) :
                premium_credits' = [premium_credits EXCEPT ![cmd[t].sub] = row]
        BY <1>7, EntitlementSteps
      <3>2. row \in Credits
        BY <1>7, EntitlementSteps, CreditsTyped
      <3> QED BY <3>1, <3>2 DEF AccountsTypeOK
    <2> QED BY <1>7, <2>1, EntitlementSteps DEF AccountsTypeOK
  <1>8. ASSUME NEW t \in Threads, RefreshGuildPremium(t) PROVE AccountsTypeOK'
    <2>1. premium' \in [Guilds -> BOOLEAN]
      <3>1. HasActiveCredit(GuildOf[cmd[t].sub]) \in BOOLEAN
        BY DEF HasActiveCredit
      <3> QED BY <1>8, <3>1, EntitlementSteps DEF AccountsTypeOK
    <2> QED BY <1>8, <2>1, EntitlementSteps DEF AccountsTypeOK
  <1>9. ASSUME NEW u \in Users, Vote(u) PROVE AccountsTypeOK'
    <2>1. dm_hints' \in [Users -> 0..MaxHints]
      BY <1>9, AccountsAssumption DEF Vote, AccountsTypeOK, AccountsAssumption
    <2> QED BY <1>9, <2>1 DEF Vote, AccountsTypeOK
  <1>10. ASSUME NEW s \in Subscriptions, NEW g \in Guilds, ReassignPremium(s, g) PROVE AccountsTypeOK'
    <2>1. premium' \in [Guilds -> BOOLEAN] /\ unsettled' = unsettled \cup {premium_credits[s].guild, g}
      BY <1>10 DEF ReassignPremium
    <2>2. premium_credits' \in [Subscriptions -> Credits] /\ premium_credits[s].guild \in Guilds
      <3>1. /\ [premium_credits[s] EXCEPT !.guild = g] \in Credits
            /\ premium_credits[s].guild \in Guilds
        <4>1. premium_credits[s] \in [guild : Guilds, active : BOOLEAN]
          BY <1>10 DEF AccountsTypeOK, Credits, ReassignPremium
        <4> QED BY <4>1 DEF Credits
      <3>2. premium_credits' = [premium_credits EXCEPT ![s] = [premium_credits[s] EXCEPT !.guild = g]]
        BY <1>10 DEF ReassignPremium
      <3> QED BY <3>1, <3>2 DEF AccountsTypeOK
    <2> QED BY <1>10, <2>1, <2>2 DEF ReassignPremium, Same, AccountsTypeOK
  <1>11. ASSUME SecondPasses PROVE AccountsTypeOK'
    <2>1. \A row \in Locks : Older(row) \in Locks
      BY AccountsAssumption DEF Older, Locks, AccountsAssumption
    <2>2. score_locks' \in [Users -> Locks] /\ scored' \in [Users -> Locks]
      BY <1>11, <2>1 DEF SecondPasses, AccountsTypeOK
    <2> QED BY <1>11, <2>2 DEF SecondPasses, Same, AccountsTypeOK
  <1>12. ASSUME BackgroundThread PROVE AccountsTypeOK'
    <2>1. bg # <<>> /\ bg \in Seq(Queries)
      BY <1>12 DEF BackgroundThread, AccountsTypeOK
    <2>2. Head(bg) \in Queries /\ Tail(bg) \in Seq(Queries)
      BY <2>1
    <2> QED BY <1>12, <2>2, ExecutedTyped DEF BackgroundThread, Same, AccountsTypeOK
  <1>13. ASSUME Crash PROVE AccountsTypeOK'
    <2>1. cmd' \in [Threads -> Commands]
      BY <1>13 DEF Crash, Commands
    <2>2. unsettled' \subseteq Guilds
      <3>1. \A t \in Threads : At(t, "entitlement", "refresh") => GuildOf[cmd[t].sub] \in Guilds
        BY CommandKinds, AccountsAssumption DEF At, AccountsTypeOK, AccountsAssumption
      <3> QED BY <1>13, <3>1 DEF Crash, AccountsTypeOK
    <2> QED BY <1>13, <2>1, <2>2 DEF Crash, Same, AccountsTypeOK
  <1>14. CASE UNCHANGED vars
    BY <1>14 DEF vars, AccountsTypeOK
  <1> QED BY <1>1, <1>2, <1>3, <1>4, <1>5, <1>6, <1>7, <1>8, <1>9, <1>10, <1>11, <1>12, <1>13, <1>14 DEF Next

-----------------------------------------------------------------------------
(* Premium *)

(* A row that is another guild's before and after changes nothing for a     *)
(* guild.                                                                   *)
LEMMA CreditElsewhere ==
    ASSUME NEW g, NEW s0 \in Subscriptions,
           premium_credits[s0].guild # g, premium_credits'[s0].guild # g,
           \A s \in Subscriptions \ {s0} : premium_credits'[s] = premium_credits[s]
    PROVE  HasActiveCredit(g)' = HasActiveCredit(g)
  <1> DEFINE row == [guild |-> g, active |-> TRUE]
  <1>1. row.guild = g
    OBVIOUS
  <1>2. HasActiveCredit(g) <=> \E s \in Subscriptions : premium_credits[s] = row
    BY DEF HasActiveCredit
  <1>3. HasActiveCredit(g)' <=> \E s \in Subscriptions : premium_credits'[s] = row
    BY DEF HasActiveCredit
  <1> HIDE DEF row
  <1>4. (\E s \in Subscriptions : premium_credits[s] = row)
            <=> (\E s \in Subscriptions : premium_credits'[s] = row)
    <2>1. premium_credits[s0] # row /\ premium_credits'[s0] # row
      BY <1>1
    <2> QED BY <2>1
  <1>5. HasActiveCredit(g)' \in BOOLEAN /\ HasActiveCredit(g) \in BOOLEAN
    BY DEF HasActiveCredit
  <1> QED BY <1>2, <1>3, <1>4, <1>5

(* What touches neither credits nor premium, and ends no event.             *)
LEMMA PremiumSame ==
    ASSUME PremiumSettles, premium_credits' = premium_credits, premium' = premium, unsettled' = unsettled,
           \A t \in Threads : At(t, "entitlement", "refresh") => cmd'[t] = cmd[t]
    PROVE  PremiumSettles'
  <1>1. \A g \in Guilds : HasActiveCredit(g)' <=> HasActiveCredit(g)
    BY DEF HasActiveCredit
  <1>2. \A t \in Threads : At(t, "entitlement", "refresh") =>
            At(t, "entitlement", "refresh")' /\ cmd'[t].sub = cmd[t].sub
    BY DEF At
  <1>3. ASSUME NEW g \in Guilds \ unsettled
        PROVE  \/ premium[g] = HasActiveCredit(g)'
               \/ \E t \in Threads : At(t, "entitlement", "refresh")' /\ GuildOf[cmd'[t].sub] = g
    <2>1. \/ premium[g] = HasActiveCredit(g)
          \/ \E t \in Threads : At(t, "entitlement", "refresh") /\ GuildOf[cmd[t].sub] = g
      BY DEF PremiumSettles
    <2>2. HasActiveCredit(g)' = HasActiveCredit(g)
      BY DEF HasActiveCredit
    <2> QED BY <1>2, <2>1, <2>2
  <1> QED BY <1>3 DEF PremiumSettles

(* The row of a subscription changes, and the guild is looked at next.      *)
LEMMA CreditStep ==
    ASSUME AccountsTypeOK, PremiumSettles, NEW t \in Threads, Credit(t)
    PROVE  PremiumSettles'
  <1> DEFINE s0 == cmd[t].sub
  <1>1. /\ s0 \in Subscriptions
        /\ cmd[t].step = "credit" /\ At(t, "entitlement", "refresh")' /\ cmd'[t].sub = s0
        /\ \A s \in Threads \ {t} : cmd'[s] = cmd[s]
        /\ premium' = premium /\ unsettled' = unsettled
    BY EntitlementSteps DEF At
  <1>2. PICK row \in CreditedAs(cmd[t].event, premium_credits[s0], GuildOf[s0]) :
            premium_credits' = [premium_credits EXCEPT ![s0] = row]
    BY EntitlementSteps
  <1>3. /\ row.guild \in {premium_credits[s0].guild, GuildOf[s0]}
        /\ premium_credits[s0].guild # None => row.guild = premium_credits[s0].guild
    BY <1>1, CreditsTyped
  <1> HIDE DEF s0
  <1>4. /\ premium_credits'[s0] = row
        /\ \A s \in Subscriptions \ {s0} : premium_credits'[s] = premium_credits[s]
    BY <1>1, <1>2 DEF AccountsTypeOK
  <1>5. \A s \in Subscriptions : premium_credits'[s].guild \in {None, GuildOf[s]} \cup unsettled
    BY <1>1, <1>3, <1>4 DEF PremiumSettles
  <1>6. ASSUME NEW g \in Guilds \ unsettled
        PROVE  \/ premium[g] = HasActiveCredit(g)'
               \/ \E r \in Threads : At(r, "entitlement", "refresh")' /\ GuildOf[cmd'[r].sub] = g
    <2>1. CASE g = GuildOf[s0]
      BY <1>1, <2>1
    <2>2. CASE g # GuildOf[s0] /\ g # None
      <3>1. premium_credits[s0].guild # g /\ row.guild # g
        BY <1>1, <1>3, <1>6, <2>2 DEF PremiumSettles
      <3>2. HasActiveCredit(g)' = HasActiveCredit(g)
        BY <1>1, <1>4, <3>1, CreditElsewhere
      <3>3. \/ premium[g] = HasActiveCredit(g)
            \/ \E r \in Threads : At(r, "entitlement", "refresh") /\ GuildOf[cmd[r].sub] = g
        BY <1>6 DEF PremiumSettles
      <3>4. \A r \in Threads : At(r, "entitlement", "refresh") =>
                At(r, "entitlement", "refresh")' /\ cmd'[r].sub = cmd[r].sub
        BY <1>1 DEF At
      <3> QED BY <3>2, <3>3, <3>4
    <2> QED BY <2>1, <2>2, AccountsAssumption DEF AccountsAssumption, None
  <1> QED BY <1>1, <1>5, <1>6 DEF PremiumSettles

(* Every step keeps premium right, about to be put right, or unsettled.     *)
LEMMA PremiumStep == AccountsTypeOK /\ PremiumSettles /\ [Next]_vars => PremiumSettles'
  <1> SUFFICES ASSUME AccountsTypeOK, PremiumSettles, [Next]_vars PROVE PremiumSettles'
    OBVIOUS
  <1> USE DEF premiumVars
  <1>1. ASSUME NEW t \in Threads,
               Create(t) \/ Join(t) \/ Leave(t) \/ VoteHint(t) \/ Answer(t) \/ OnEntitlement(t)
        PROVE  PremiumSettles'
    <2>1. \A s \in Threads : At(s, "entitlement", "refresh") => cmd'[s] = cmd[s]
      BY <1>1, BeginStep DEF At, NoCommand, None
    <2> QED BY <1>1, <2>1, BeginStep, PremiumSame
  <1>2. ASSUME NEW t \in Threads, TeamStep(t) PROVE PremiumSettles'
    <2>1. \A s \in Threads : At(s, "entitlement", "refresh") => cmd'[s] = cmd[s]
      BY <1>2, TeamStepMoves DEF At, TeamMoved, TeamCommands
    <2> QED BY <1>2, <2>1, TeamStepMoves, PremiumSame DEF TeamMoved
  <1>3. ASSUME NEW t \in Threads, SelectHints(t) \/ SubtractHint(t) PROVE PremiumSettles'
    <2>1. \A s \in Threads : At(s, "entitlement", "refresh") => cmd'[s] = cmd[s]
      BY <1>3, HintSteps DEF At
    <2> QED BY <1>3, <2>1, HintSteps, PremiumSame
  <1>4. ASSUME NEW t \in Threads, UpsertLock(t) \/ CheckLock(t) PROVE PremiumSettles'
    <2>1. \A s \in Threads : At(s, "entitlement", "refresh") => cmd'[s] = cmd[s]
      BY <1>4, LockSteps DEF At
    <2> QED BY <1>4, <2>1, LockSteps, PremiumSame
  <1>5. ASSUME NEW t \in Threads, Credit(t) PROVE PremiumSettles'
    BY <1>5, CreditStep
  <1>6. ASSUME NEW t \in Threads, RefreshGuildPremium(t) PROVE PremiumSettles'
    <2> DEFINE h == GuildOf[cmd[t].sub]
    <2>1. /\ h \in Guilds /\ premium' = [premium EXCEPT ![h] = HasActiveCredit(h)]
          /\ premium_credits' = premium_credits /\ unsettled' = unsettled
          /\ \A s \in Threads \ {t} : cmd'[s] = cmd[s]
      BY <1>6, EntitlementSteps, AccountsAssumption DEF AccountsAssumption
    <2>2. \A r \in Threads : At(r, "entitlement", "refresh") /\ GuildOf[cmd[r].sub] # h =>
              At(r, "entitlement", "refresh")' /\ cmd'[r].sub = cmd[r].sub
      BY <2>1 DEF At
    <2> HIDE DEF h
    <2>3. ASSUME NEW g \in Guilds \ unsettled
          PROVE  \/ premium'[g] = HasActiveCredit(g)'
                 \/ \E r \in Threads : At(r, "entitlement", "refresh")' /\ GuildOf[cmd'[r].sub] = g
      <3>1. HasActiveCredit(g)' = HasActiveCredit(g)
        BY <2>1 DEF HasActiveCredit
      <3>2. CASE g = h
        BY <2>1, <3>1, <3>2 DEF AccountsTypeOK
      <3>3. CASE g # h
        <4>1. premium'[g] = premium[g]
          BY <2>1, <3>3 DEF AccountsTypeOK
        <4>2. \/ premium[g] = HasActiveCredit(g)
              \/ \E r \in Threads : At(r, "entitlement", "refresh") /\ GuildOf[cmd[r].sub] = g
          BY <2>3 DEF PremiumSettles
        <4> QED BY <2>2, <3>1, <3>3, <4>1, <4>2
      <3> QED BY <3>2, <3>3
    <2> QED BY <2>1, <2>3 DEF PremiumSettles
  <1>7. ASSUME NEW u \in Users, Vote(u) PROVE PremiumSettles'
    BY <1>7, PremiumSame DEF Vote
  <1>8. ASSUME NEW s0 \in Subscriptions, NEW h \in Guilds, ReassignPremium(s0, h) PROVE PremiumSettles'
    <2> DEFINE from == premium_credits[s0].guild
    <2>1. /\ premium_credits'[s0].guild = h /\ unsettled' = unsettled \cup {from, h} /\ cmd' = cmd
          /\ \A s \in Subscriptions \ {s0} : premium_credits'[s] = premium_credits[s]
          /\ \A g \in Guilds \ {from, h} : premium'[g] = premium[g]
      <3>1. premium_credits[s0] \in [guild : Guilds, active : BOOLEAN]
        BY <1>8 DEF AccountsTypeOK, Credits, ReassignPremium
      <3>2. [premium_credits[s0] EXCEPT !.guild = h].guild = h
        BY <3>1
      <3>3. premium_credits' = [premium_credits EXCEPT ![s0] = [premium_credits[s0] EXCEPT !.guild = h]]
        BY <1>8 DEF ReassignPremium
      <3>4. /\ premium_credits'[s0].guild = h
            /\ \A s \in Subscriptions \ {s0} : premium_credits'[s] = premium_credits[s]
        BY <3>2, <3>3 DEF AccountsTypeOK
      <3> QED BY <1>8, <3>4 DEF ReassignPremium
    <2> HIDE DEF from
    <2>2. \A s \in Subscriptions : premium_credits'[s].guild \in {None, GuildOf[s]} \cup unsettled'
      BY <2>1 DEF PremiumSettles
    <2>3. ASSUME NEW g \in Guilds \ unsettled'
          PROVE  \/ premium'[g] = HasActiveCredit(g)'
                 \/ \E r \in Threads : At(r, "entitlement", "refresh")' /\ GuildOf[cmd'[r].sub] = g
      <3>1. g # from /\ g # h /\ g \in Guilds \ unsettled
        BY <2>1
      <3>2. HasActiveCredit(g)' = HasActiveCredit(g)
        <4>1. premium_credits[s0].guild # g /\ premium_credits'[s0].guild # g
          BY <2>1, <3>1 DEF from
        <4> QED BY <1>8, <2>1, <4>1, CreditElsewhere
      <3>3. \/ premium[g] = HasActiveCredit(g)
            \/ \E r \in Threads : At(r, "entitlement", "refresh") /\ GuildOf[cmd[r].sub] = g
        BY <3>1 DEF PremiumSettles
      <3> QED BY <2>1, <3>1, <3>2, <3>3 DEF At
    <2> QED BY <2>2, <2>3 DEF PremiumSettles
  <1>9. ASSUME SecondPasses PROVE PremiumSettles'
    BY <1>9, PremiumSame DEF SecondPasses
  <1>10. ASSUME BackgroundThread PROVE PremiumSettles'
    BY <1>10, PremiumSame DEF BackgroundThread
  <1>11. ASSUME Crash PROVE PremiumSettles'
    <2>1. /\ premium' = premium /\ premium_credits' = premium_credits /\ unsettled \subseteq unsettled'
          /\ \A t \in Threads : At(t, "entitlement", "refresh") => GuildOf[cmd[t].sub] \in unsettled'
      BY <1>11 DEF Crash
    <2>2. \A g \in Guilds : HasActiveCredit(g)' = HasActiveCredit(g)
      BY <2>1 DEF HasActiveCredit
    <2>3. \A g \in Guilds \ unsettled' : premium'[g] = HasActiveCredit(g)'
      <3> TAKE g \in Guilds \ unsettled'
      <3>1. \/ premium[g] = HasActiveCredit(g)
            \/ \E t \in Threads : At(t, "entitlement", "refresh") /\ GuildOf[cmd[t].sub] = g
        BY <2>1 DEF PremiumSettles
      <3> QED BY <2>1, <2>2, <3>1
    <2> QED BY <2>1, <2>3 DEF PremiumSettles
  <1>12. CASE UNCHANGED vars
    BY <1>12, PremiumSame DEF vars
  <1> QED BY <1>1, <1>2, <1>3, <1>4, <1>5, <1>6, <1>7, <1>8, <1>9, <1>10, <1>11, <1>12 DEF Next


-----------------------------------------------------------------------------
(* Locks *)

(* What changes no lock, and sends no answer to its second query.           *)
LEMMA LocksSame ==
    ASSUME LocksHold, score_locks' = score_locks, scored' = scored,
           \A t \in Threads : At(t, "answer", "check")' => cmd'[t] = cmd[t]
    PROVE  LocksHold'
  <1>1. \A t \in Threads : At(t, "answer", "check")' => At(t, "answer", "check")
    BY DEF At
  <1> QED BY <1>1 DEF LocksHold

(* A lock passes to another guild only when it is a minute old, and is new  *)
(* then.                                                                    *)
LEMMA UpsertStep ==
    ASSUME AccountsTypeOK, LocksHold, NEW t \in Threads, UpsertLock(t)
    PROVE  LocksHold'
  <1> DEFINE u0 == cmd[t].user
             g0 == cmd[t].guild
             new == LockedBy(score_locks[u0], g0)
  <1>1. /\ u0 \in Users /\ cmd'[t].user = u0 /\ cmd'[t].guild = g0 /\ scored' = scored
        /\ \A s \in Threads \ {t} : cmd'[s] = cmd[s]
        /\ score_locks' = [score_locks EXCEPT ![u0] = new]
    BY LockSteps
  <1>2. \/ new.guild = g0 /\ new.age = 0
        \/ new = score_locks[u0] /\ new.guild # g0 /\ ~ (new.age >= LockSeconds)
    <2>1. CASE score_locks[u0].guild = g0 \/ score_locks[u0].age >= LockSeconds
      BY <2>1 DEF LockedBy
    <2>2. CASE ~ (score_locks[u0].guild = g0 \/ score_locks[u0].age >= LockSeconds)
      BY <2>2 DEF LockedBy
    <2> QED BY <2>1, <2>2
  <1>3. /\ score_locks[u0] \in Locks /\ scored[u0] \in Locks /\ LockSeconds \in Nat
        /\ new.guild # score_locks[u0].guild => score_locks[u0].age >= LockSeconds
    BY <1>1, <1>2, AccountsAssumption DEF LockedBy, AccountsTypeOK, AccountsAssumption
  <1> HIDE DEF u0, g0, new
  <1>4. score_locks'[u0] = new /\ \A u \in Users \ {u0} : score_locks'[u] = score_locks[u]
    BY <1>1 DEF AccountsTypeOK
  <1>5. ASSUME NEW u \in Users, scored[u].age < LockSeconds
        PROVE  score_locks'[u].guild = scored[u].guild /\ score_locks'[u].age <= scored[u].age
    <2>1. score_locks[u].guild = scored[u].guild /\ score_locks[u].age <= scored[u].age
      BY <1>5 DEF LocksHold
    <2>2. CASE u # u0
      BY <1>4, <2>1, <2>2
    <2>3. CASE u = u0
      <3>1. score_locks[u].age \in Nat /\ scored[u].age \in Nat
        BY <1>3, <2>3 DEF Locks
      <3>2. ~ (score_locks[u].age >= LockSeconds)
        BY <1>3, <1>5, <2>1, <3>1
      <3>3. new.guild = scored[u].guild
        BY <1>3, <2>1, <2>3, <3>2
      <3>4. new.age <= scored[u].age
        BY <1>2, <2>1, <2>3, <3>1
      <3> QED BY <1>4, <2>3, <3>3, <3>4
    <2> QED BY <2>2, <2>3
  <1>6. ASSUME NEW s \in Threads, At(s, "answer", "check")', score_locks'[cmd'[s].user].guild = cmd'[s].guild
        PROVE  score_locks'[cmd'[s].user].age = 0
    <2>1. CASE cmd'[s].user = u0
      <3>1. score_locks'[u0] = new /\ new.guild = cmd'[s].guild
        BY <1>4, <1>6, <2>1
      <3>2. CASE new.age = 0
        BY <2>1, <3>1, <3>2
      <3>3. CASE new = score_locks[u0] /\ new.guild # g0
        <4>1. s # t /\ cmd'[s] = cmd[s]
          BY <1>1, <3>1, <3>3
        <4>2. At(s, "answer", "check") /\ score_locks[cmd[s].user].guild = cmd[s].guild
          BY <1>6, <2>1, <3>1, <3>3, <4>1 DEF At
        <4>3. score_locks[cmd[s].user].age = 0
          BY <4>2 DEF LocksHold
        <4> QED BY <2>1, <3>1, <3>3, <4>1, <4>3
      <3> QED BY <1>2, <3>2, <3>3
    <2>2. CASE cmd'[s].user # u0
      <3>1. s # t /\ cmd'[s] = cmd[s]
        BY <1>1, <2>2
      <3>2. cmd[s].user \in Users
        BY <1>6, <3>1, CommandKinds DEF At, AccountsTypeOK
      <3> QED BY <1>4, <1>6, <2>2, <3>1, <3>2 DEF LocksHold, At
    <2> QED BY <2>1, <2>2
  <1> QED BY <1>1, <1>5, <1>6 DEF LocksHold

(* Who scores scores where the lock is, which is new.                       *)
LEMMA CheckStep ==
    ASSUME AccountsTypeOK, LocksHold, NEW t \in Threads, CheckLock(t)
    PROVE  LocksHold'
  <1> DEFINE u0 == cmd[t].user
             here == [guild |-> cmd[t].guild, age |-> 0]
  <1>1. /\ u0 \in Users /\ cmd'[t] = NoCommand /\ At(t, "answer", "check")
        /\ \A s \in Threads \ {t} : cmd'[s] = cmd[s]
        /\ scored' = IF score_locks[u0].guild = cmd[t].guild THEN [scored EXCEPT ![u0] = here] ELSE scored
        /\ score_locks' = score_locks
    BY LockSteps
  <1>2. \A s \in Threads : At(s, "answer", "check")' => cmd'[s] = cmd[s]
    BY <1>1 DEF At, NoCommand, None
  <1>3. CASE scored' = scored
    BY <1>1, <1>2, <1>3, LocksSame
  <1>4. CASE scored' # scored
    <2>1. score_locks[u0].guild = cmd[t].guild /\ scored' = [scored EXCEPT ![u0] = here]
      BY <1>1, <1>4
    <2>2. score_locks[u0].age = 0
      BY <1>1, <2>1 DEF LocksHold
    <2>3. here.guild = cmd[t].guild /\ here.age = 0
      OBVIOUS
    <2> HIDE DEF u0, here
    <2>4. scored'[u0] = here /\ \A u \in Users \ {u0} : scored'[u] = scored[u]
      BY <1>1, <2>1 DEF AccountsTypeOK
    <2>5. ASSUME NEW u \in Users, scored'[u].age < LockSeconds
          PROVE  score_locks[u].guild = scored'[u].guild /\ score_locks[u].age <= scored'[u].age
      <3>1. CASE u = u0
        BY <2>1, <2>2, <2>3, <2>4, <3>1
      <3>2. CASE u # u0
        BY <2>4, <2>5, <3>2 DEF LocksHold
      <3> QED BY <3>1, <3>2
    <2>6. \A s \in Threads : At(s, "answer", "check")' => At(s, "answer", "check") /\ cmd'[s] = cmd[s]
      BY <1>2 DEF At
    <2> QED BY <1>1, <2>5, <2>6 DEF LocksHold
  <1> QED BY <1>3, <1>4

(* Locks and scores grow older together.                                    *)
LEMMA SecondStep ==
    ASSUME AccountsTypeOK, LocksHold, SecondPasses
    PROVE  LocksHold'
  <1>1. \A t \in Threads : cmd'[t].do # "answer"
    BY DEF SecondPasses
  <1>2. ASSUME NEW u \in Users, scored'[u].age < LockSeconds
        PROVE  score_locks'[u].guild = scored'[u].guild /\ score_locks'[u].age <= scored'[u].age
    <2> DEFINE a == score_locks[u]
               b == scored[u]
    <2>1. score_locks'[u] = Older(a) /\ scored'[u] = Older(b) /\ a \in Locks /\ b \in Locks
          /\ LockSeconds \in Nat
      BY AccountsAssumption DEF SecondPasses, AccountsTypeOK, AccountsAssumption
    <2>2. b.age < LockSeconds => a.guild = b.guild /\ a.age <= b.age
      BY DEF LocksHold
    <2> HIDE DEF a, b
    <2>3. /\ a.age \in Nat /\ b.age \in Nat
          /\ Older(a).guild = a.guild /\ Older(a).age = IF a.age < LockSeconds THEN a.age + 1 ELSE a.age
          /\ Older(b).guild = b.guild /\ Older(b).age = IF b.age < LockSeconds THEN b.age + 1 ELSE b.age
      BY <2>1 DEF Older, Locks
    <2>4. Older(b).age < LockSeconds
      BY <1>2, <2>1
    <2>5. b.age < LockSeconds /\ Older(b).age = b.age + 1
      BY <2>1, <2>3, <2>4
    <2>6. Older(a).age <= a.age + 1
      BY <2>1, <2>3
    <2>7. Older(a).guild = Older(b).guild
      BY <2>2, <2>3, <2>5
    <2>8. Older(a).age <= Older(b).age
      BY <2>1, <2>2, <2>3, <2>5, <2>6
    <2> QED BY <2>1, <2>7, <2>8
  <1> QED BY <1>1, <1>2 DEF LocksHold, At

(* Every step keeps the lock where its player scored last.                  *)
LEMMA LocksStep == AccountsTypeOK /\ LocksHold /\ [Next]_vars => LocksHold'
  <1> SUFFICES ASSUME AccountsTypeOK, LocksHold, [Next]_vars PROVE LocksHold'
    OBVIOUS
  <1> USE DEF lockVars
  <1>1. ASSUME NEW t \in Threads,
               Create(t) \/ Join(t) \/ Leave(t) \/ VoteHint(t) \/ Answer(t) \/ OnEntitlement(t)
        PROVE  LocksHold'
    <2>1. \A s \in Threads : At(s, "answer", "check")' => cmd'[s] = cmd[s]
      BY <1>1, BeginStep DEF At, First
    <2> QED BY <1>1, <2>1, BeginStep, LocksSame
  <1>2. ASSUME NEW t \in Threads, TeamStep(t) PROVE LocksHold'
    <2>1. \A s \in Threads : At(s, "answer", "check")' => cmd'[s] = cmd[s]
      BY <1>2, TeamStepMoves DEF At, TeamMoved, TeamCommands, NoCommand, None
    <2> QED BY <1>2, <2>1, TeamStepMoves, LocksSame DEF TeamMoved
  <1>3. ASSUME NEW t \in Threads, SelectHints(t) \/ SubtractHint(t) PROVE LocksHold'
    <2>1. \A s \in Threads : At(s, "answer", "check")' => cmd'[s] = cmd[s]
      BY <1>3, HintSteps DEF At, NoCommand, None
    <2> QED BY <1>3, <2>1, HintSteps, LocksSame
  <1>4. ASSUME NEW t \in Threads, Credit(t) \/ RefreshGuildPremium(t) PROVE LocksHold'
    <2>1. \A s \in Threads : At(s, "answer", "check")' => cmd'[s] = cmd[s]
      BY <1>4, EntitlementSteps DEF At, NoCommand, None
    <2> QED BY <1>4, <2>1, EntitlementSteps, LocksSame
  <1>5. ASSUME NEW u \in Users, Vote(u) PROVE LocksHold'
    BY <1>5, LocksSame DEF Vote
  <1>6. ASSUME NEW s \in Subscriptions, NEW g \in Guilds, ReassignPremium(s, g) PROVE LocksHold'
    BY <1>6, LocksSame DEF ReassignPremium
  <1>7. ASSUME BackgroundThread PROVE LocksHold'
    BY <1>7, LocksSame DEF BackgroundThread
  <1>8. ASSUME Crash PROVE LocksHold'
    <2>1. \A s \in Threads : ~ At(s, "answer", "check")'
      BY <1>8 DEF Crash, At, NoCommand, None
    <2> QED BY <1>8, <2>1, LocksSame DEF Crash
  <1>9. CASE UNCHANGED vars
    BY <1>9, LocksSame DEF vars
  <1> QED BY <1>1, <1>2, <1>3, <1>4, <1>5, <1>6, <1>7, <1>8, <1>9, UpsertStep, CheckStep, SecondStep DEF Next

-----------------------------------------------------------------------------
(* Teams *)

(* What moves nobody in or out of a team, gives nobody a command, and sends *)
(* none on to delete a membership.                                          *)
LEMMA TeamsSame ==
    ASSUME TeamsKept, team_membership' = team_membership, overlapped' = overlapped,
           \A s \in Threads : /\ HasUser(s)' => HasUser(s) /\ cmd'[s].user = cmd[s].user
                              /\ At(s, "join", "delete")' => cmd'[s] = cmd[s]
    PROVE  TeamsKept'
  <1>1. \A s \in Threads : At(s, "join", "delete")' => At(s, "join", "delete") /\ cmd'[s].user = cmd[s].user
    BY DEF At
  <1> QED BY <1>1 DEF TeamsKept

(* Every step keeps a player whose membership is about to be deleted by a   *)
(* join out of any team.                                                    *)
LEMMA TeamsStep == AccountsTypeOK /\ TeamsKept /\ [Next]_vars => TeamsKept'
  <1> SUFFICES ASSUME AccountsTypeOK, TeamsKept, [Next]_vars PROVE TeamsKept'
    OBVIOUS
  <1> USE DEF teamVars
  <1>1. ASSUME NEW t \in Threads,
               Create(t) \/ Join(t) \/ Leave(t) \/ VoteHint(t) \/ Answer(t) \/ OnEntitlement(t)
        PROVE  TeamsKept'
    <2>1. /\ cmd[t] = NoCommand /\ \A s \in Threads \ {t} : cmd'[s] = cmd[s]
          /\ cmd'[t].step \in First /\ team_membership' = team_membership /\ overlapped \subseteq overlapped'
          /\ \A s \in Threads \ {t} :
                 HasUser(s) /\ HasUser(t)' /\ cmd[s].user = cmd'[t].user => cmd[s].user \in overlapped'
      BY <1>1, BeginStep
    <2>2. \A s \in Threads \ {t} : HasUser(s)' <=> HasUser(s)
      BY <2>1 DEF HasUser
    <2>3. ASSUME NEW r \in Threads, NEW s \in Threads,
                 r # s, HasUser(r)', HasUser(s)', cmd'[r].user = cmd'[s].user
          PROVE  cmd'[r].user \in overlapped'
      <3>1. CASE r = t
        BY <2>1, <2>2, <2>3, <3>1
      <3>2. CASE s = t
        BY <2>1, <2>2, <2>3, <3>2
      <3>3. CASE r # t /\ s # t
        BY <2>1, <2>2, <2>3, <3>3 DEF TeamsKept
      <3> QED BY <3>1, <3>2, <3>3
    <2>4. \A s \in Threads : At(s, "join", "delete")' => cmd'[s] = cmd[s] /\ At(s, "join", "delete")
      BY <2>1 DEF At, First
    <2> QED BY <2>1, <2>3, <2>4 DEF TeamsKept
  <1>2. ASSUME NEW t \in Threads, TeamStep(t) PROVE TeamsKept'
    <2>1. /\ cmd[t].do \in TeamCommands /\ overlapped' = overlapped
          /\ \A s \in Threads \ {t} : cmd'[s] = cmd[s]
          /\ \/ cmd'[t] = NoCommand
             \/ /\ cmd'[t].do \in TeamCommands /\ cmd'[t].user = cmd[t].user
                /\ At(t, "join", "delete")' => team_membership[cmd[t].user] = None /\ team_membership' = team_membership
          /\ \A u \in Users \ {cmd[t].user} : team_membership'[u] = team_membership[u]
      BY <1>2, TeamStepMoves DEF TeamMoved
    <2>2. HasUser(t) /\ (HasUser(t)' => cmd'[t].user = cmd[t].user)
      BY <2>1 DEF HasUser, TeamCommands, NoCommand, None
    <2>3. \A s \in Threads : HasUser(s)' => HasUser(s) /\ cmd'[s].user = cmd[s].user
      BY <2>1, <2>2 DEF HasUser
    <2>4. ASSUME NEW s \in Threads, At(s, "join", "delete")', cmd'[s].user \notin overlapped'
          PROVE  team_membership'[cmd'[s].user] = None
      <3>1. CASE s = t
        BY <2>1, <2>4, <3>1 DEF At, NoCommand, None
      <3>2. CASE s # t
        <4>1. /\ cmd'[s] = cmd[s] /\ At(s, "join", "delete") /\ HasUser(s)
              /\ cmd[s].user \notin overlapped /\ cmd[s].user \in Users
          BY <2>1, <2>4, <3>2, CommandKinds DEF At, HasUser, AccountsTypeOK
        <4>2. team_membership[cmd[s].user] = None /\ cmd[s].user # cmd[t].user
          BY <2>2, <3>2, <4>1 DEF TeamsKept
        <4> QED BY <2>1, <4>1, <4>2
      <3> QED BY <3>1, <3>2
    <2> QED BY <2>1, <2>3, <2>4 DEF TeamsKept
  <1>3. ASSUME NEW t \in Threads, SelectHints(t) \/ SubtractHint(t) PROVE TeamsKept'
    <2>1. /\ cmd[t].do = "hint" /\ team_membership' = team_membership /\ overlapped' = overlapped
          /\ \A s \in Threads \ {t} : cmd'[s] = cmd[s]
          /\ cmd'[t] = NoCommand \/ (cmd'[t].do = "hint" /\ cmd'[t].user = cmd[t].user)
      BY <1>3, HintSteps DEF At
    <2>2. \A s \in Threads : /\ HasUser(s)' => HasUser(s) /\ cmd'[s].user = cmd[s].user
                             /\ At(s, "join", "delete")' => cmd'[s] = cmd[s]
      BY <2>1 DEF HasUser, At, NoCommand, None
    <2> QED BY <2>1, <2>2, TeamsSame
  <1>4. ASSUME NEW t \in Threads, UpsertLock(t) \/ CheckLock(t) PROVE TeamsKept'
    <2>1. /\ cmd[t].do = "answer" /\ team_membership' = team_membership /\ overlapped' = overlapped
          /\ \A s \in Threads \ {t} : cmd'[s] = cmd[s]
          /\ cmd'[t] = NoCommand \/ (cmd'[t].do = "answer" /\ cmd'[t].user = cmd[t].user)
      BY <1>4, LockSteps DEF At
    <2>2. \A s \in Threads : /\ HasUser(s)' => HasUser(s) /\ cmd'[s].user = cmd[s].user
                             /\ At(s, "join", "delete")' => cmd'[s] = cmd[s]
      BY <2>1 DEF HasUser, At, NoCommand, None
    <2> QED BY <2>1, <2>2, TeamsSame
  <1>5. ASSUME NEW t \in Threads, Credit(t) \/ RefreshGuildPremium(t) PROVE TeamsKept'
    <2>1. /\ team_membership' = team_membership /\ overlapped' = overlapped
          /\ \A s \in Threads \ {t} : cmd'[s] = cmd[s]
          /\ cmd'[t] = NoCommand \/ cmd'[t].do = "entitlement"
      BY <1>5, EntitlementSteps
    <2>2. \A s \in Threads : /\ HasUser(s)' => HasUser(s) /\ cmd'[s].user = cmd[s].user
                             /\ At(s, "join", "delete")' => cmd'[s] = cmd[s]
      BY <2>1 DEF HasUser, At, NoCommand, None
    <2> QED BY <2>1, <2>2, TeamsSame
  <1>6. ASSUME cmd' = cmd, team_membership' = team_membership, overlapped' = overlapped PROVE TeamsKept'
    BY <1>6, TeamsSame DEF HasUser
  <1>7. ASSUME NEW u \in Users, Vote(u) PROVE TeamsKept'
    BY <1>6, <1>7 DEF Vote
  <1>8. ASSUME NEW s \in Subscriptions, NEW g \in Guilds, ReassignPremium(s, g) PROVE TeamsKept'
    BY <1>6, <1>8 DEF ReassignPremium, Same
  <1>9. ASSUME SecondPasses PROVE TeamsKept'
    BY <1>6, <1>9 DEF SecondPasses, Same
  <1>10. ASSUME BackgroundThread PROVE TeamsKept'
    BY <1>6, <1>10 DEF BackgroundThread, Same
  <1>11. ASSUME Crash PROVE TeamsKept'
    <2>1. \A s \in Threads : ~ HasUser(s)' /\ ~ At(s, "join", "delete")'
      BY <1>11 DEF Crash, HasUser, At, NoCommand, None
    <2> QED BY <2>1 DEF TeamsKept
  <1>12. CASE UNCHANGED vars
    BY <1>6, <1>12 DEF vars
  <1> QED BY <1>1, <1>2, <1>3, <1>4, <1>5, <1>7, <1>8, <1>9, <1>10, <1>11, <1>12 DEF Next

-----------------------------------------------------------------------------
(* Hints *)

(* What is written of the hints, or about to be, for a player.              *)
Falls(u) ==
    /\ \A i \in DOMAIN bg : Writes(bg[i], u) =>
          /\ bg[i].left \in {dm_hints[u] - 1, dm_hints[u]}
          /\ \A j \in DOMAIN bg : j < i /\ Writes(bg[j], u) => bg[i].left <= bg[j].left
          /\ \A t \in Threads : Subtracts(t, u) => cmd[t].left <= bg[i].left
    /\ \A t \in Threads : Subtracts(t, u) => cmd[t].left \in {dm_hints[u] - 1, dm_hints[u]}

OneSubtracts == \A t \in Threads : At(t, "hint", "subtract") => states_mutex = t

(* HintsFall in its parts: one thread subtracts at a time, and the numbers  *)
(* of each player fall.                                                     *)
LEMMA HintsFallParts == HintsFall <=> OneSubtracts /\ \A u \in Users \ toppedUp : Falls(u)
  <1> QED BY DEF HintsFall, OneSubtracts, Falls

(* The same of the next state.                                              *)
LEMMA HintsFallNext == (OneSubtracts /\ \A u \in Users \ toppedUp : Falls(u))' => HintsFall'
  <1>1. OneSubtracts /\ (\A u \in Users \ toppedUp : Falls(u)) => HintsFall
    BY HintsFallParts
  <1> QED BY <1>1, PTL

(* What writes no number of hints, queues none, and sends nobody on to      *)
(* subtract one.                                                            *)
LEMMA HintsSame ==
    ASSUME AccountsTypeOK, HintsFall, NEW S, "hints" \notin S, Queued(S),
           dm_hints' = dm_hints, toppedUp' = toppedUp, states_mutex' = states_mutex,
           \A t \in Threads : At(t, "hint", "subtract")' => cmd'[t] = cmd[t]
    PROVE  HintsFall'
  <1>1. ASSUME NEW i \in DOMAIN bg', NEW u, Writes(bg'[i], u)
        PROVE  i \in DOMAIN bg /\ bg'[i] = bg[i]
    <2>1. CASE bg' = bg
      BY <2>1
    <2>2. ASSUME NEW q \in Queries, bg' = Append(bg, q), q.do \in S PROVE i \in DOMAIN bg /\ bg'[i] = bg[i]
      <3>1. bg \in Seq(Queries) /\ Len(bg) \in Nat
        BY DEF AccountsTypeOK
      <3>2. q.do # "hints"
        BY <2>2
      <3>3. bg'[i].do = "hints"
        BY <1>1 DEF Writes
      <3> HIDE DEF Queries
      <3>4. i \in 1..Len(bg) + 1 /\ (i = Len(bg) + 1 => bg'[i] = q) /\ (i \in 1..Len(bg) => bg'[i] = bg[i])
        BY <2>2, <3>1
      <3>5. i # Len(bg) + 1
        BY <3>2, <3>3, <3>4
      <3> QED BY <3>1, <3>4, <3>5
    <2> QED BY <2>1, <2>2 DEF Queued
  <1>2. \A t \in Threads : At(t, "hint", "subtract")' => At(t, "hint", "subtract") /\ cmd'[t] = cmd[t]
    BY DEF At
  <1>3. OneSubtracts'
    BY <1>2, HintsFallParts DEF OneSubtracts
  <1>4. ASSUME NEW u \in Users \ toppedUp PROVE Falls(u)'
    <2>1. Falls(u)
      BY HintsFallParts
    <2>2. \A t \in Threads : Subtracts(t, u)' => Subtracts(t, u) /\ cmd'[t] = cmd[t]
      BY <1>2 DEF Subtracts
    <2>3. ASSUME NEW i \in DOMAIN bg', Writes(bg'[i], u)
          PROVE  /\ bg'[i].left \in {dm_hints[u] - 1, dm_hints[u]}
                 /\ \A j \in DOMAIN bg' : j < i /\ Writes(bg'[j], u) => bg'[i].left <= bg'[j].left
                 /\ \A t \in Threads : Subtracts(t, u)' => cmd'[t].left <= bg'[i].left
      <3>1. i \in DOMAIN bg /\ bg'[i] = bg[i]
        BY <1>1, <2>3
      <3>2. \A j \in DOMAIN bg' : Writes(bg'[j], u) => j \in DOMAIN bg /\ bg'[j] = bg[j]
        BY <1>1
      <3> QED BY <2>1, <2>2, <2>3, <3>1, <3>2 DEF Falls
    <2>4. \A t \in Threads : Subtracts(t, u)' => cmd'[t].left \in {dm_hints[u] - 1, dm_hints[u]}
      BY <2>1, <2>2 DEF Falls
    <2>5. (\A i \in DOMAIN bg : Writes(bg[i], u) =>
              /\ bg[i].left \in {dm_hints[u] - 1, dm_hints[u]}
              /\ \A j \in DOMAIN bg : j < i /\ Writes(bg[j], u) => bg[i].left <= bg[j].left
              /\ \A t \in Threads : Subtracts(t, u) => cmd[t].left <= bg[i].left)'
      BY <2>3 DEF Writes
    <2> QED BY <2>4, <2>5 DEF Falls
  <1> QED BY <1>3, <1>4, HintsFallNext

(* The number is read under states_mutex.                                   *)
LEMMA SelectStep ==
    ASSUME AccountsTypeOK, HintsFall, NEW t \in Threads, SelectHints(t)
    PROVE  HintsFall'
  <1> DEFINE u0 == cmd[t].user
  <1>1. /\ u0 \in Users /\ \A s \in Threads \ {t} : cmd'[s] = cmd[s]
        /\ states_mutex = "free" /\ bg' = bg /\ dm_hints' = dm_hints /\ toppedUp' = toppedUp
        /\ \/ cmd'[t] = NoCommand /\ states_mutex' = states_mutex
           \/ /\ cmd'[t].user = u0 /\ cmd'[t].left = dm_hints[u0] - 1 /\ states_mutex' = t
    BY HintSteps
  <1>2. \A s \in Threads : ~ At(s, "hint", "subtract")
    BY <1>1, AccountsAssumption DEF HintsFall, AccountsAssumption
  <1> HIDE DEF u0
  <1>3. \A s \in Threads : At(s, "hint", "subtract")' =>
            s = t /\ cmd'[s].user = u0 /\ cmd'[s].left = dm_hints[u0] - 1 /\ states_mutex' = t
    BY <1>1, <1>2 DEF At, NoCommand, None
  <1>4. OneSubtracts'
    BY <1>3 DEF OneSubtracts
  <1>5. ASSUME NEW u \in Users \ toppedUp PROVE Falls(u)'
    <2>1. Falls(u) /\ dm_hints[u] \in Nat
      BY HintsFallParts, AccountsAssumption DEF AccountsTypeOK, AccountsAssumption
    <2>2. \A s \in Threads : Subtracts(s, u)' => cmd'[s].left = dm_hints[u] - 1
      BY <1>3 DEF Subtracts
    <2>3. \A i \in DOMAIN bg : Writes(bg[i], u) => bg[i].left \in {dm_hints[u] - 1, dm_hints[u]}
      BY <2>1 DEF Falls
    <2>4. \A i \in DOMAIN bg : Writes(bg[i], u) => dm_hints[u] - 1 <= bg[i].left
      BY <2>1, <2>3
    <2>5. \A i \in DOMAIN bg : Writes(bg[i], u) =>
              \A j \in DOMAIN bg : j < i /\ Writes(bg[j], u) => bg[i].left <= bg[j].left
      BY <2>1 DEF Falls
    <2>6. \A i \in DOMAIN bg : Writes(bg[i], u) =>
              \A s \in Threads : Subtracts(s, u)' => cmd'[s].left <= bg[i].left
      BY <2>2, <2>4
    <2>7. \A s \in Threads : Subtracts(s, u)' => cmd'[s].left \in {dm_hints[u] - 1, dm_hints[u]}
      BY <2>2
    <2>8. (\A i \in DOMAIN bg : Writes(bg[i], u) =>
              /\ bg[i].left \in {dm_hints[u] - 1, dm_hints[u]}
              /\ \A j \in DOMAIN bg : j < i /\ Writes(bg[j], u) => bg[i].left <= bg[j].left
              /\ \A s \in Threads : Subtracts(s, u) => cmd[s].left <= bg[i].left)'
      BY <1>1, <2>3, <2>5, <2>6 DEF Writes
    <2> QED BY <1>1, <2>7, <2>8 DEF Falls
  <1> QED BY <1>1, <1>4, <1>5, HintsFallNext

(* It is queued before states_mutex is given up.                            *)
LEMMA SubtractStep ==
    ASSUME AccountsTypeOK, HintsFall, NEW t \in Threads, SubtractHint(t)
    PROVE  HintsFall'
  <1>1. /\ At(t, "hint", "subtract") /\ cmd'[t] = NoCommand
        /\ \A s \in Threads \ {t} : cmd'[s] = cmd[s]
        /\ UNCHANGED <<dm_hints, toppedUp>>
    BY HintSteps
  <1>2. PICK q \in Queries : /\ bg' = Append(bg, q)
                             /\ q.do = "hints" /\ q.user = cmd[t].user /\ q.left = cmd[t].left
    BY HintSteps
  <1>3. \A s \in Threads : ~ At(s, "hint", "subtract")'
    BY <1>1 DEF At, NoCommand, None, HintsFall
  <1>4. /\ bg \in Seq(Queries) /\ Len(bg) \in Nat
        /\ DOMAIN bg = 1..Len(bg) /\ DOMAIN bg' = 1..Len(bg) + 1
        /\ bg'[Len(bg) + 1] = q /\ \A i \in DOMAIN bg : bg'[i] = bg[i]
    BY <1>2 DEF AccountsTypeOK
  <1>5. ASSUME NEW u \in Users \ toppedUp PROVE Falls(u)'
    <2>1. Falls(u)
      BY HintsFallParts
    <2>2. \A s \in Threads : ~ Subtracts(s, u)'
      BY <1>3 DEF Subtracts
    <2>3. Writes(q, u) => Subtracts(t, u)
      BY <1>1, <1>2 DEF Writes, Subtracts
    <2>4. Writes(q, u) => q.left \in {dm_hints[u] - 1, dm_hints[u]}
      BY <1>2, <2>1, <2>3 DEF Falls
    <2>5. ASSUME Writes(q, u) PROVE \A j \in DOMAIN bg : Writes(bg[j], u) => q.left <= bg[j].left
      BY <1>2, <2>1, <2>3, <2>5 DEF Falls
    <2>6. ASSUME NEW i \in DOMAIN bg', Writes(bg'[i], u)
          PROVE  /\ bg'[i].left \in {dm_hints[u] - 1, dm_hints[u]}
                 /\ \A j \in DOMAIN bg' : j < i /\ Writes(bg'[j], u) => bg'[i].left <= bg'[j].left
      <3>1. \A j \in DOMAIN bg' : j < i => j \in DOMAIN bg /\ bg'[j] = bg[j]
        BY <1>4
      <3>2. CASE i \in DOMAIN bg
        BY <1>4, <2>1, <2>6, <3>1, <3>2 DEF Falls
      <3>3. CASE i \notin DOMAIN bg
        <4>1. bg'[i] = q
          BY <1>4, <3>3
        <4> QED BY <2>4, <2>5, <2>6, <3>1, <4>1
      <3> QED BY <3>2, <3>3
    <2>7. (\A i \in DOMAIN bg : Writes(bg[i], u) =>
              /\ bg[i].left \in {dm_hints[u] - 1, dm_hints[u]}
              /\ \A j \in DOMAIN bg : j < i /\ Writes(bg[j], u) => bg[i].left <= bg[j].left
              /\ \A s \in Threads : Subtracts(s, u) => cmd[s].left <= bg[i].left)'
      BY <1>1, <2>2, <2>6 DEF Writes
    <2> QED BY <2>2, <2>7 DEF Falls
  <1>6. OneSubtracts'
    BY <1>3 DEF OneSubtracts
  <1> QED BY <1>1, <1>5, <1>6, HintsFallNext

(* The oldest number is written, and the others are not above it.           *)
LEMMA WriteStep ==
    ASSUME AccountsTypeOK, HintsFall, BackgroundThread
    PROVE  /\ HintsFall'
           /\ \A u \in Users \ toppedUp : dm_hints'[u] <= dm_hints[u]
  <1> DEFINE q == Head(bg)
  <1>1. /\ bg \in Seq(Queries) /\ bg # <<>> /\ bg' = Tail(bg) /\ Execute(q)
        /\ UNCHANGED <<cmd, states_mutex, toppedUp>>
    BY DEF BackgroundThread, Same, AccountsTypeOK
  <1>2. q \in Queries /\ q = bg[1]
    BY <1>1
  <1>3. /\ Len(bg) \in Nat /\ 1 \in DOMAIN bg
        /\ \A i \in DOMAIN bg' : i + 1 \in DOMAIN bg /\ bg'[i] = bg[i + 1] /\ 1 < i + 1
        /\ \A i \in DOMAIN bg' : i \in Int
    BY <1>1
  <1> HIDE DEF q
  <1>4. dm_hints' = IF q.do = "hints" THEN [dm_hints EXCEPT ![q.user] = q.left] ELSE dm_hints
    BY <1>1 DEF Execute
  <1>5. ASSUME NEW u \in Users \ toppedUp
        PROVE  Falls(u)' /\ dm_hints'[u] <= dm_hints[u]
    <2>1. Falls(u) /\ dm_hints[u] \in Nat
      BY HintsFallParts, AccountsAssumption DEF AccountsTypeOK, AccountsAssumption
    <2>2. dm_hints'[u] = IF Writes(q, u) THEN q.left ELSE dm_hints[u]
      BY <1>4 DEF Writes, AccountsTypeOK
    <2>3. \A t \in Threads : Subtracts(t, u)' <=> Subtracts(t, u)
      BY <1>1 DEF Subtracts, At
    <2>4. \A i \in DOMAIN bg : Writes(bg[i], u) => bg[i].left \in {dm_hints[u] - 1, dm_hints[u]}
      BY <2>1 DEF Falls
    <2>5. \A i, j \in DOMAIN bg : j < i /\ Writes(bg[i], u) /\ Writes(bg[j], u) => bg[i].left <= bg[j].left
      BY <2>1 DEF Falls
    <2>6. \A i \in DOMAIN bg : Writes(bg[i], u) => \A t \in Threads : Subtracts(t, u) => cmd[t].left <= bg[i].left
      BY <2>1 DEF Falls
    <2>7. \A t \in Threads : Subtracts(t, u) => cmd[t].left \in {dm_hints[u] - 1, dm_hints[u]}
      BY <2>1 DEF Falls
    <2>8. Writes(q, u) => q.left \in {dm_hints[u] - 1, dm_hints[u]}
      BY <1>2, <1>3, <2>4
    <2>9. dm_hints'[u] \in {dm_hints[u] - 1, dm_hints[u]} /\ dm_hints'[u] <= dm_hints[u]
      BY <2>1, <2>2, <2>8
    <2>10. \A i \in DOMAIN bg' : Writes(bg'[i], u) => bg'[i].left \in {dm_hints'[u] - 1, dm_hints'[u]}
      <3> SUFFICES ASSUME NEW i \in DOMAIN bg', Writes(bg'[i], u)
                   PROVE  bg'[i].left \in {dm_hints'[u] - 1, dm_hints'[u]}
        OBVIOUS
      <3>1. bg'[i].left \in {dm_hints[u] - 1, dm_hints[u]}
        BY <1>3, <2>4
      <3>2. CASE Writes(q, u)
        <4>1. bg'[i].left <= q.left
          BY <1>2, <1>3, <2>5, <3>2
        <4> QED BY <2>1, <2>2, <2>8, <3>1, <3>2, <4>1
      <3>3. CASE ~ Writes(q, u)
        BY <2>2, <3>1, <3>3
      <3> QED BY <3>2, <3>3
    <2>11. \A i, j \in DOMAIN bg' : j < i /\ Writes(bg'[i], u) /\ Writes(bg'[j], u) => bg'[i].left <= bg'[j].left
      <3> SUFFICES ASSUME NEW i \in DOMAIN bg', NEW j \in DOMAIN bg',
                          j < i, Writes(bg'[i], u), Writes(bg'[j], u)
                   PROVE  bg'[i].left <= bg'[j].left
        OBVIOUS
      <3>1. i + 1 \in DOMAIN bg /\ j + 1 \in DOMAIN bg /\ j + 1 < i + 1
        BY <1>3
      <3>2. bg'[i] = bg[i + 1] /\ bg'[j] = bg[j + 1]
        BY <1>3
      <3> QED BY <2>5, <3>1, <3>2
    <2>12. \A i \in DOMAIN bg' : Writes(bg'[i], u) =>
               \A t \in Threads : Subtracts(t, u)' => cmd'[t].left <= bg'[i].left
      BY <1>1, <1>3, <2>3, <2>6
    <2>13. \A t \in Threads : Subtracts(t, u)' => cmd'[t].left \in {dm_hints'[u] - 1, dm_hints'[u]}
      <3> SUFFICES ASSUME NEW t \in Threads, Subtracts(t, u)
                   PROVE  cmd[t].left \in {dm_hints'[u] - 1, dm_hints'[u]}
        BY <1>1, <2>3
      <3>1. cmd[t].left \in {dm_hints[u] - 1, dm_hints[u]}
        BY <2>7
      <3>2. CASE Writes(q, u)
        <4>1. cmd[t].left <= q.left
          BY <1>2, <1>3, <2>6, <3>2
        <4> QED BY <2>1, <2>2, <2>8, <3>1, <3>2, <4>1
      <3>3. CASE ~ Writes(q, u)
        BY <2>2, <3>1, <3>3
      <3> QED BY <3>2, <3>3
    <2>14. (\A i \in DOMAIN bg : Writes(bg[i], u) =>
               /\ bg[i].left \in {dm_hints[u] - 1, dm_hints[u]}
               /\ \A j \in DOMAIN bg : j < i /\ Writes(bg[j], u) => bg[i].left <= bg[j].left
               /\ \A t \in Threads : Subtracts(t, u) => cmd[t].left <= bg[i].left)'
      BY <2>10, <2>11, <2>12 DEF Writes
    <2> QED BY <2>9, <2>13, <2>14 DEF Falls
  <1>6. OneSubtracts'
    BY <1>1, HintsFallParts DEF OneSubtracts, At
  <1> QED BY <1>1, <1>5, <1>6, HintsFallNext

(* Every step keeps the numbers of hints on their way from rising.          *)
LEMMA HintsStep == AccountsTypeOK /\ HintsFall /\ [Next]_vars => HintsFall'
  <1> SUFFICES ASSUME AccountsTypeOK, HintsFall, [Next]_vars PROVE HintsFall'
    OBVIOUS
  <1>0. ASSUME bg' = bg PROVE Queued({"cache", "own"})
    BY <1>0 DEF Queued
  <1>1. ASSUME NEW t \in Threads,
               Create(t) \/ Join(t) \/ Leave(t) \/ VoteHint(t) \/ Answer(t) \/ OnEntitlement(t)
        PROVE  HintsFall'
    <2>1. \A s \in Threads : At(s, "hint", "subtract")' => cmd'[s] = cmd[s]
      BY <1>1, BeginStep DEF At, First
    <2>2. /\ bg' = bg /\ dm_hints' = dm_hints /\ toppedUp' = toppedUp /\ states_mutex' = states_mutex
      BY <1>1, BeginStep
    <2> QED BY <1>0, <2>1, <2>2, HintsSame
  <1>2. ASSUME NEW t \in Threads, TeamStep(t) PROVE HintsFall'
    <2>1. \A s \in Threads : At(s, "hint", "subtract")' => cmd'[s] = cmd[s]
      BY <1>2, TeamStepMoves DEF At, TeamMoved, TeamCommands, NoCommand, None
    <2> QED BY <1>2, <2>1, TeamStepMoves, HintsSame DEF TeamMoved
  <1>3. ASSUME NEW t \in Threads, UpsertLock(t) \/ CheckLock(t) PROVE HintsFall'
    <2>1. \A s \in Threads : At(s, "hint", "subtract")' => cmd'[s] = cmd[s]
      <3>1. /\ \A s \in Threads \ {t} : cmd'[s] = cmd[s]
            /\ cmd'[t].do = "answer" \/ cmd'[t] = NoCommand
        BY <1>3, LockSteps
      <3> QED BY <3>1 DEF At, NoCommand, None
    <2>2. /\ dm_hints' = dm_hints /\ toppedUp' = toppedUp /\ states_mutex' = states_mutex
          /\ Queued({"cache", "own"})
      <3>1. CASE UpsertLock(t)
        BY <1>0, <3>1, LockSteps
      <3>2. CASE CheckLock(t)
        BY <3>2, LockSteps DEF Queued
      <3> QED BY <1>3, <3>1, <3>2
    <2> QED BY <2>1, <2>2, HintsSame
  <1>4. ASSUME NEW t \in Threads, Credit(t) \/ RefreshGuildPremium(t) PROVE HintsFall'
    <2>1. \A s \in Threads : At(s, "hint", "subtract")' => cmd'[s] = cmd[s]
      BY <1>4, EntitlementSteps DEF At, NoCommand, None
    <2>2. bg' = bg /\ dm_hints' = dm_hints /\ toppedUp' = toppedUp /\ states_mutex' = states_mutex
      BY <1>4, EntitlementSteps
    <2> QED BY <1>0, <2>1, <2>2, HintsSame
  <1>5. ASSUME NEW u0 \in Users, Vote(u0) PROVE HintsFall'
    <2>1. /\ bg' = bg /\ cmd' = cmd /\ states_mutex' = states_mutex /\ toppedUp' = toppedUp \cup {u0}
          /\ \A u \in Users \ {u0} : dm_hints'[u] = dm_hints[u]
      BY <1>5 DEF Vote, AccountsTypeOK
    <2>2. OneSubtracts'
      BY <2>1, HintsFallParts DEF OneSubtracts, At
    <2>3. ASSUME NEW u \in Users \ toppedUp' PROVE Falls(u)'
      <3>1. Falls(u) /\ dm_hints'[u] = dm_hints[u]
        BY <2>1, HintsFallParts
      <3>2. \A t \in Threads : Subtracts(t, u)' <=> Subtracts(t, u)
        BY <2>1 DEF Subtracts, At
      <3> QED BY <2>1, <3>1, <3>2 DEF Falls, Writes
    <2> QED BY <2>2, <2>3, HintsFallNext
  <1>6. ASSUME NEW s \in Subscriptions, NEW g \in Guilds, ReassignPremium(s, g) PROVE HintsFall'
    BY <1>0, <1>6, HintsSame DEF ReassignPremium, Same
  <1>7. ASSUME SecondPasses PROVE HintsFall'
    BY <1>0, <1>7, HintsSame DEF SecondPasses, Same
  <1>8. ASSUME Crash PROVE HintsFall'
    <2>1. \A s \in Threads : ~ At(s, "hint", "subtract")'
      BY <1>8 DEF Crash, At, NoCommand, None
    <2>2. \A s \in Threads, u \in Users : ~ Subtracts(s, u)'
      BY <2>1 DEF Subtracts
    <2>3. DOMAIN bg' = {}
      BY <1>8 DEF Crash
    <2> QED BY <2>1, <2>2, <2>3 DEF HintsFall
  <1>9. CASE UNCHANGED vars
    BY <1>0, <1>9, HintsSame DEF vars
  <1> QED BY <1>1, <1>2, <1>3, <1>4, <1>5, <1>6, <1>7, <1>8, <1>9, SelectStep, SubtractStep, WriteStep DEF Next

-----------------------------------------------------------------------------
(* The theorems *)

(* The invariant holds at first.                                            *)
LEMMA InitAccounts == Init => AccountsInv
  <1> SUFFICES ASSUME Init PROVE AccountsInv
    OBVIOUS
  <1>1. \A t \in Threads : cmd[t] = NoCommand /\ cmd[t].do = None
    BY DEF Init, NoCommand
  <1>2. AccountsTypeOK
    <2>1. Never \in Locks /\ MaxHints \in 0..MaxHints
      BY AccountsAssumption DEF AccountsAssumption, Never, Locks
    <2>2. NoCommand \in Commands /\ [guild |-> None, active |-> FALSE] \in Credits
      BY DEF Commands, Credits
    <2>3. teams \in [Teams -> [exists : BOOLEAN, owner : Users \cup {None}]]
      <3>1. {[exists |-> FALSE, owner |-> None], [exists |-> TRUE, owner |-> None]}
                \subseteq [exists : BOOLEAN, owner : Users \cup {None}]
        OBVIOUS
      <3>2. teams \in [Teams -> {[exists |-> FALSE, owner |-> None], [exists |-> TRUE, owner |-> None]}]
        BY DEF Init
      <3> QED BY <3>1, <3>2
    <2> QED BY <2>1, <2>2, <2>3 DEF Init, AccountsTypeOK
  <1>3. PremiumSettles
    <2>1. \A s \in Subscriptions : premium_credits[s] = [guild |-> None, active |-> FALSE]
      BY DEF Init
    <2>2. ASSUME NEW g \in Guilds PROVE ~ HasActiveCredit(g) /\ premium[g] = FALSE
      <3>1. [guild |-> None, active |-> FALSE].active # [guild |-> g, active |-> TRUE].active
        OBVIOUS
      <3> QED BY <2>1, <3>1 DEF HasActiveCredit, Init
    <2>3. \A s \in Subscriptions : premium_credits[s].guild = None
      BY <2>1
    <2>4. \A g \in Guilds : premium[g] = HasActiveCredit(g)
      <3> TAKE g \in Guilds
      <3>1. HasActiveCredit(g) \in BOOLEAN
        BY DEF HasActiveCredit
      <3> QED BY <2>2, <3>1
    <2> QED BY <2>3, <2>4 DEF PremiumSettles
  <1>4. LocksHold
    <2>1. \A u \in Users : scored[u].age = LockSeconds
      BY DEF Init, Never
    <2>2. LockSeconds \in Nat
      BY AccountsAssumption DEF AccountsAssumption
    <2> QED BY <1>1, <2>1, <2>2 DEF LocksHold, At, None
  <1>5. HintsFall
    <2>1. DOMAIN bg = {}
      BY DEF Init
    <2> QED BY <1>1, <2>1 DEF HintsFall, Subtracts, At, None
  <1>6. TeamsKept
    BY <1>1 DEF TeamsKept, HasUser, At, None
  <1> QED BY <1>2, <1>3, <1>4, <1>5, <1>6 DEF AccountsInv

(* The inductive invariant of the accounts: the types of all variables, and *)
(* what premium, locks, hints and memberships owe to the steps under way.   *)
THEOREM AccountsInvariance == Spec => []AccountsInv
  <1>1. AccountsInv /\ [Next]_vars => AccountsInv'
    BY AccountsTypeStep, PremiumStep, LocksStep, HintsStep, TeamsStep DEF AccountsInv
  <1> QED BY <1>1, InitAccounts, PTL DEF Spec

(* A guild is premium exactly while it has an active subscription           *)
(* (entitlement.cpp:27), for any number of threads, guilds and              *)
(* subscriptions, once the events under way are over.                       *)
THEOREM PremiumFollows == Spec => []PremiumFollowsCredits
  <1>1. AccountsInv => PremiumFollowsCredits
    <2> SUFFICES ASSUME PremiumSettles, \A t \in Threads : cmd[t].do # "entitlement",
                        NEW g \in Guilds \ unsettled
                 PROVE  premium[g] = HasActiveCredit(g)
      BY DEF AccountsInv, PremiumFollowsCredits
    <2> QED BY DEF PremiumSettles, At
  <1> QED BY <1>1, AccountsInvariance, PTL

(* Nobody who sends one command at a time loses a team but by leaving it    *)
(* (webrequest.cpp:722), in any interleaving of the commands of others, of  *)
(* the background thread and of crashes.                                    *)
THEOREM TeamsAreKept == Spec => TeamKeptUntilLeave
  <1> DEFINE Left(u) == team_membership[u] # None /\ team_membership'[u] # team_membership[u]
                            => \E t \in Threads : At(t, "leave", "delete") /\ cmd[t].user = u
  <1>1. AccountsInv /\ [Next]_vars => [\A u \in Users \ overlapped : Left(u)]_vars
    <2> SUFFICES ASSUME AccountsTypeOK, TeamsKept, Next, NEW u \in Users \ overlapped,
                        team_membership[u] # None, team_membership'[u] # team_membership[u]
                 PROVE  \E t \in Threads : At(t, "leave", "delete") /\ cmd[t].user = u
      BY DEF AccountsInv
    <2> USE DEF teamVars
    <2>1. ASSUME NEW t \in Threads, TeamStep(t) PROVE At(t, "leave", "delete") /\ cmd[t].user = u
      <3>1. /\ cmd[t].user = u
            /\ At(t, "join", "delete") \/ At(t, "leave", "delete")
        BY <2>1, TeamStepMoves DEF TeamMoved
      <3> QED BY <3>1 DEF TeamsKept
    <2>2. ASSUME team_membership' = team_membership PROVE FALSE
      BY <2>2
    <2>3. ASSUME NEW t \in Threads,
                 Create(t) \/ Join(t) \/ Leave(t) \/ VoteHint(t) \/ Answer(t) \/ OnEntitlement(t)
          PROVE  FALSE
      BY <2>2, <2>3, BeginStep
    <2>4. \A t \in Threads : ~ SelectHints(t) /\ ~ SubtractHint(t)
      BY <2>2, HintSteps
    <2>5. \A t \in Threads : ~ UpsertLock(t) /\ ~ CheckLock(t)
      BY <2>2, LockSteps
    <2>6. \A t \in Threads : ~ Credit(t) /\ ~ RefreshGuildPremium(t)
      BY <2>2, EntitlementSteps
    <2>7. \A v \in Users : ~ Vote(v)
      BY <2>2 DEF Vote
    <2>8. \A s \in Subscriptions, g \in Guilds : ~ ReassignPremium(s, g)
      BY <2>2 DEF ReassignPremium
    <2>9. ~ SecondPasses /\ ~ BackgroundThread /\ ~ Crash
      BY <2>2 DEF SecondPasses, BackgroundThread, Crash
    <2> QED BY <2>1, <2>3, <2>4, <2>5, <2>6, <2>7, <2>8, <2>9 DEF Next
  <1>2. Spec => [][\A u \in Users \ overlapped : Left(u)]_vars
    BY <1>1, AccountsInvariance, PTL DEF Spec
  <1> QED BY <1>2 DEF TeamKeptUntilLeave

(* Only a vote gives a player more hints (cmd_votehint.cpp:41, :116),       *)
(* however late the numbers are written.                                    *)
THEOREM HintsOnlyFall == Spec => HintsNeverRise
  <1>1. AccountsInv /\ [Next]_vars => [\A u \in Users : dm_hints'[u] > dm_hints[u] => u \in toppedUp']_vars
    <2> SUFFICES ASSUME AccountsTypeOK, HintsFall, Next, NEW u \in Users, dm_hints'[u] > dm_hints[u],
                        u \notin toppedUp'
                 PROVE  FALSE
      BY DEF AccountsInv
    <2>0. dm_hints[u] \in Nat
      BY AccountsAssumption DEF AccountsTypeOK, AccountsAssumption
    <2>1. ASSUME dm_hints' = dm_hints PROVE FALSE
      BY <2>0, <2>1
    <2>2. ~ BackgroundThread
      <3> SUFFICES ASSUME BackgroundThread PROVE FALSE
        OBVIOUS
      <3>1. toppedUp' = toppedUp
        BY DEF BackgroundThread, Same
      <3>2. dm_hints'[u] <= dm_hints[u]
        BY <3>1, WriteStep
      <3>3. dm_hints'[u] \in Nat
        <4>1. Head(bg) \in Queries
          BY DEF BackgroundThread, AccountsTypeOK
        <4>2. dm_hints' \in [Users -> 0..MaxHints]
          BY <4>1, ExecutedTyped DEF BackgroundThread
        <4> QED BY <4>2, AccountsAssumption DEF AccountsAssumption
      <3> QED BY <2>0, <3>2, <3>3
    <2>3. \A v \in Users : ~ Vote(v)
      <3> SUFFICES ASSUME NEW v \in Users, Vote(v) PROVE FALSE
        OBVIOUS
      <3>1. v # u /\ dm_hints'[u] = dm_hints[u]
        BY DEF Vote, AccountsTypeOK
      <3> QED BY <2>0, <3>1
    <2>4. ASSUME NEW t \in Threads,
                 Create(t) \/ Join(t) \/ Leave(t) \/ VoteHint(t) \/ Answer(t) \/ OnEntitlement(t)
          PROVE  FALSE
      BY <2>1, <2>4, BeginStep
    <2>5. \A t \in Threads : ~ TeamStep(t)
      BY <2>1, TeamStepMoves DEF TeamMoved
    <2>6. \A t \in Threads : ~ SelectHints(t) /\ ~ SubtractHint(t)
      BY <2>1, HintSteps
    <2>7. \A t \in Threads : ~ UpsertLock(t) /\ ~ CheckLock(t)
      BY <2>1, LockSteps
    <2>8. \A t \in Threads : ~ Credit(t) /\ ~ RefreshGuildPremium(t)
      BY <2>1, EntitlementSteps
    <2>9. ~ SecondPasses /\ ~ Crash
      BY <2>1 DEF SecondPasses, Crash
    <2>10. \A s \in Subscriptions, g \in Guilds : ~ ReassignPremium(s, g)
      BY <2>1 DEF ReassignPremium
    <2> QED BY <2>2, <2>3, <2>4, <2>5, <2>6, <2>7, <2>8, <2>9, <2>10 DEF Next
  <1>2. Spec => [][\A u \in Users : dm_hints'[u] > dm_hints[u] => u \in toppedUp']_vars
    BY <1>1, AccountsInvariance, PTL DEF Spec
  <1> QED BY <1>2 DEF HintsNeverRise

(* A player scores on one guild a minute (state.cpp:48), whatever clusters  *)
(* the answers come from and however their two queries interleave.          *)
THEOREM OneGuild == Spec => OneGuildPerMinute
  <1> DEFINE Waits(u) == scored'[u].guild # scored[u].guild => scored[u].age >= LockSeconds
  <1>1. AccountsInv /\ [Next]_vars => [\A u \in Users : Waits(u)]_vars
    <2> SUFFICES ASSUME AccountsTypeOK, LocksHold, Next, NEW u \in Users,
                        scored'[u].guild # scored[u].guild
                 PROVE  scored[u].age >= LockSeconds
      BY DEF AccountsInv
    <2> USE DEF lockVars
    <2>0. scored[u] \in Locks /\ LockSeconds \in Nat
      BY AccountsAssumption DEF AccountsTypeOK, AccountsAssumption
    <2>1. ASSUME scored' = scored PROVE FALSE
      BY <2>1
    <2>2. ASSUME NEW t \in Threads, CheckLock(t) PROVE scored[u].age >= LockSeconds
      <3> DEFINE here == [guild |-> cmd[t].guild, age |-> 0]
      <3>1. here.guild = cmd[t].guild
        OBVIOUS
      <3>2. /\ score_locks[cmd[t].user].guild = cmd[t].guild /\ cmd[t].user \in Users
            /\ scored' = [scored EXCEPT ![cmd[t].user] = here]
        BY <2>1, <2>2, LockSteps
      <3> HIDE DEF here
      <3>3. cmd[t].user = u /\ scored'[u].guild = score_locks[u].guild
        BY <3>1, <3>2 DEF AccountsTypeOK
      <3>4. ~ (scored[u].age < LockSeconds)
        BY <3>3 DEF LocksHold
      <3>5. scored[u].age \in Nat
        BY <2>0 DEF Locks
      <3> QED BY <2>0, <3>4, <3>5
    <2>3. ~ SecondPasses
      <3>1. Older(scored[u]).guild = scored[u].guild
        BY <2>0 DEF Older, Locks
      <3> QED BY <3>1 DEF SecondPasses
    <2>4. ASSUME NEW t \in Threads,
                 Create(t) \/ Join(t) \/ Leave(t) \/ VoteHint(t) \/ Answer(t) \/ OnEntitlement(t)
          PROVE  FALSE
      BY <2>1, <2>4, BeginStep
    <2>5. \A t \in Threads : ~ TeamStep(t)
      BY <2>1, TeamStepMoves DEF TeamMoved
    <2>6. \A t \in Threads : ~ SelectHints(t) /\ ~ SubtractHint(t)
      BY <2>1, HintSteps
    <2>7. \A t \in Threads : ~ UpsertLock(t)
      BY <2>1, LockSteps
    <2>8. \A t \in Threads : ~ Credit(t) /\ ~ RefreshGuildPremium(t)
      BY <2>1, EntitlementSteps
    <2>9. ~ BackgroundThread /\ ~ Crash /\ \A v \in Users : ~ Vote(v)
      BY <2>1 DEF BackgroundThread, Crash, Vote
    <2>10. \A s \in Subscriptions, g \in Guilds : ~ ReassignPremium(s, g)
      BY <2>1 DEF ReassignPremium
    <2> QED BY <2>2, <2>3, <2>4, <2>5, <2>6, <2>7, <2>8, <2>9, <2>10 DEF Next
  <1>2. Spec => [][\A u \in Users : Waits(u)]_vars
    BY <1>1, AccountsInvariance, PTL DEF Spec
  <1> QED BY <1>2 DEF OneGuildPerMinute
=============================================================================
