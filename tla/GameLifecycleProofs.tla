------------------------ MODULE GameLifecycleProofs ------------------------
(***************************************************************************)
(* What starts, stops, crashes and resumptions keep of a guild's games and *)
(* of their rows, for any number of channels, commands and crashes.        *)
(***************************************************************************)
EXTENDS GameLifecycle, SumTheorems

-----------------------------------------------------------------------------
(* Types *)

(* A row is only ever written for a game, and 0 stands for no row.          *)
InsertsNameGames ==
    /\ \A i \in 1..Len(queue) : queue[i].op = "insert" <=> queue[i].id # 0
    /\ \A t \in Commands : cmds[t].pc = "log_start" => cmds[t].id # 0

IInv == TypeOK /\ InsertsNameGames

(* The types of the commands.                                               *)
CmdsOK == cmds \in [Commands -> {Idle} \cup InProgress]

(* A command in progress has a channel and knows where it came from.        *)
LEMMA CommandInProgress ==
    ASSUME TypeOK, NEW t \in Commands, cmds[t].pc # "idle"
    PROVE  /\ cmds[t] \in InProgress
           /\ cmds[t].pc \in PCs
           /\ cmds[t].ch \in Channels
           /\ cmds[t].from \in Sources
           /\ cmds[t].id \in 0..MaxGames
           /\ cmds[t] # Idle
  <1>1. cmds[t] \in {Idle} \cup InProgress
    BY DEF TypeOK
  <1>2. cmds[t] # Idle
    BY DEF Idle
  <1>3. cmds[t] \in InProgress
    BY <1>1, <1>2
  <1> QED BY <1>2, <1>3 DEF InProgress

(* A command that goes on keeps the rest of what it knows.                  *)
LEMMA GoesOn ==
    ASSUME TypeOK, NEW t \in Commands, cmds[t].pc # "idle",
           NEW pc \in PCs, Goto(t, pc)
    PROVE  /\ CmdsOK'
           /\ cmds'[t].pc = pc /\ cmds'[t].ch = cmds[t].ch /\ cmds'[t].id = cmds[t].id
           /\ cmds'[t].from = cmds[t].from
           /\ \A u \in Commands \ {t} : cmds'[u] = cmds[u]
  <1>1. cmds[t] \in InProgress
    BY CommandInProgress
  <1>2. cmds \in [Commands -> {Idle} \cup InProgress]
    BY DEF TypeOK
  <1>3. cmds' = [cmds EXCEPT ![t] = [cmds[t] EXCEPT !.pc = pc]]
    BY DEF Goto
  <1>4. /\ [cmds[t] EXCEPT !.pc = pc] \in InProgress
        /\ [cmds[t] EXCEPT !.pc = pc].pc = pc
        /\ [cmds[t] EXCEPT !.pc = pc].ch = cmds[t].ch
        /\ [cmds[t] EXCEPT !.pc = pc].id = cmds[t].id
        /\ [cmds[t] EXCEPT !.pc = pc].from = cmds[t].from
    BY <1>1 DEF InProgress
  <1>5. cmds'[t] = [cmds[t] EXCEPT !.pc = pc]
    BY <1>2, <1>3
  <1>6. \A u \in Commands \ {t} : cmds'[u] = cmds[u]
    BY <1>2, <1>3
  <1>7. CmdsOK'
    BY <1>2, <1>3, <1>4 DEF CmdsOK
  <1> QED BY <1>4, <1>5, <1>6, <1>7

(* A command that returns leaves the others alone.                          *)
LEMMA Returns ==
    ASSUME TypeOK, NEW t \in Commands, Return(t)
    PROVE  /\ CmdsOK'
           /\ cmds'[t] = Idle
           /\ \A u \in Commands \ {t} : cmds'[u] = cmds[u]
  BY DEF TypeOK, Return, CmdsOK

(* What is queued is a query.                                               *)
LEMMA Queries ==
    ASSUME TypeOK, NEW c \in Channels, NEW i \in 0..MaxGames
    PROVE  Insert(c, i) \in Query /\ Delete(c) \in Query
  BY LifecycleAssumption DEF Insert, Delete, Query

(* A query that is queued is the last one.                                  *)
LEMMA Queued ==
    ASSUME queue \in Seq(Query), NEW q \in Query, Enqueue(q)
    PROVE  /\ queue' \in Seq(Query)
           /\ Len(queue') = Len(queue) + 1
           /\ queue'[Len(queue) + 1] = q
           /\ \A i \in 1..Len(queue) : queue'[i] = queue[i]
  BY DEF Enqueue

(* The first query is taken off the queue.                                  *)
LEMMA Dequeued ==
    ASSUME queue \in Seq(Query), queue # <<>>, queue' = Tail(queue)
    PROVE  /\ Head(queue) \in Query /\ Head(queue) = queue[1]
           /\ queue' \in Seq(Query)
           /\ Len(queue) \in Nat /\ Len(queue) >= 1
           /\ Len(queue') = Len(queue) - 1
           /\ \A i \in 1..Len(queue') : queue'[i] = queue[i + 1]
  OBVIOUS

(* The game of a channel that has one.                                      *)
LEMMA PresentGame ==
    ASSUME TypeOK, NEW c \in Channels, Present(c)
    PROVE  games[c] \in Game
  BY DEF TypeOK, Present, NoGame

(* The game that a dashboard's start removes is one of the guild's others.  *)
LEMMA FirstOtherIsOther ==
    ASSUME NEW c, OtherGames(c) # {}
    PROVE  FirstOther(c) \in OtherGames(c) /\ FirstOther(c) \in Channels
  <1>1. OtherGames(c) \subseteq Channels /\ OtherGames(c) \subseteq Nat
    BY LifecycleAssumption DEF OtherGames
  <1>2. \E d \in OtherGames(c) : \A e \in OtherGames(c) : d <= e
    BY <1>1, LeastNumber
  <1>3. FirstOther(c) \in OtherGames(c)
    BY <1>2 DEF FirstOther
  <1> QED BY <1>1, <1>3

(* A game that has just started or is resumed.                              *)
LEMMA NewGames ==
    ASSUME NEW i \in GameIds, NEW o \in {"started", "resumed"}, NEW f \in BOOLEAN
    PROVE  /\ NewGame(i, o) \in Game
           /\ NewGame(i, o).id = i /\ NewGame(i, o).origin = o
           /\ [NewGame(i, o) EXCEPT !.ended = f] \in Game
           /\ [NewGame(i, o) EXCEPT !.ended = f].id = i
           /\ [NewGame(i, o) EXCEPT !.ended = f].origin = o
  BY DEF NewGame, Game

(* A game that ends, or is stopped, is the same game.                       *)
LEMMA MarkedGames ==
    ASSUME NEW g \in Game
    PROVE  /\ [g EXCEPT !.ended = TRUE] \in Game
           /\ [g EXCEPT !.ended = TRUE].id = g.id
           /\ [g EXCEPT !.ended = TRUE].origin = g.origin
           /\ [g EXCEPT !.ended = TRUE].ended = TRUE
           /\ [g EXCEPT !.ended = TRUE].terminating = g.terminating
           /\ [g EXCEPT !.terminating = TRUE] \in Game
           /\ [g EXCEPT !.terminating = TRUE].id = g.id
           /\ [g EXCEPT !.terminating = TRUE].origin = g.origin
           /\ [g EXCEPT !.terminating = TRUE].ended = g.ended
           /\ [g EXCEPT !.terminating = TRUE].terminating = TRUE
  BY DEF Game

(* The guild starts with no games, rows, queries or commands.               *)
LEMMA InitIInv == Init => IInv
  BY LifecycleAssumption
  DEF Init, IInv, TypeOK, InsertsNameGames, NoRows, Idle

(* Queueing a query that may be an INSERT of a game.                        *)
LEMMA QueuedNamesGame ==
    ASSUME TypeOK, InsertsNameGames, NEW q \in Query, q.op = "insert" <=> q.id # 0,
           Enqueue(q)
    PROVE  \A i \in 1..Len(queue') : queue'[i].op = "insert" <=> queue'[i].id # 0
  <1>1. queue \in Seq(Query)
    BY DEF TypeOK
  <1>2. /\ Len(queue) \in Nat /\ Len(queue') = Len(queue) + 1
        /\ queue'[Len(queue) + 1] = q
        /\ \A i \in 1..Len(queue) : queue'[i] = queue[i]
    BY <1>1, Queued
  <1> QED BY <1>2 DEF InsertsNameGames

(* The outcome of the check of the guild's games.                           *)
LEMMA GuildCheckDecides ==
    ASSUME TypeOK, NEW t \in Commands, At(t, "guild_check"), AfterGuildCheck(t)
    PROVE  /\ CmdsOK'
           /\ \/ /\ GuildFull(t)
                 /\ cmds'[t] = Idle
              \/ /\ ~GuildFull(t)
                 /\ cmds'[t].pc = "run_check" /\ cmds'[t].ch = cmds[t].ch
           /\ \A u \in Commands \ {t} : cmds'[u] = cmds[u]
  <1>1. CASE GuildFull(t)
    BY <1>1, Returns DEF AfterGuildCheck
  <1>2. CASE ~GuildFull(t)
    <2>1. Goto(t, "run_check")
      BY <1>2 DEF AfterGuildCheck
    <2> QED BY <1>2, <2>1, GoesOn DEF PCs, At
  <1> QED BY <1>1, <1>2

(* Steps of a start command keep the types.                                 *)
LEMMA StartTypes ==
    ASSUME IInv, NEW t \in Commands, StartStep(t)
    PROVE  IInv'
<1> USE DEF IInv
<1>t. /\ games \in [Channels -> Game \cup {NoGame}] /\ queue \in Seq(Query)
      /\ cmds \in [Commands -> {Idle} \cup InProgress]
  BY DEF TypeOK
<1>i. Idle.pc = "idle"
  BY DEF Idle
<1>1. ASSUME GuildCheckSupersedes(t) PROVE IInv'
  <2> DEFINE d == FirstOther(cmds[t].ch)
  <2>1. At(t, "guild_check") /\ Supersedes(t) /\ AfterGuildCheck(t)
    BY <1>1 DEF GuildCheckSupersedes
  <2>2. PICK e \in Channels : e = d
    BY <2>1, FirstOtherIsOther DEF Supersedes
  <2>3. games' = [games EXCEPT ![e] = NoGame] /\ Enqueue(Delete(e))
    BY <1>1, <2>2 DEF GuildCheckSupersedes
  <2>4. CmdsOK' /\ \A u \in Commands : cmds'[u].pc = "log_start" => cmds'[u] = cmds[u]
    BY <2>1, <1>i, GuildCheckDecides
  <2>5. Delete(e) \in Query /\ Delete(e).op # "insert" /\ Delete(e).id = 0
    BY Queries, LifecycleAssumption DEF Delete
  <2>6. queue' \in Seq(Query)
    BY <1>t, <2>3, <2>5, Queued
  <2>7. InsertsNameGames'
    BY <2>3, <2>4, <2>5, QueuedNamesGame DEF InsertsNameGames
  <2>8. UNCHANGED <<rows, begun, processVars>>
    BY <1>1 DEF GuildCheckSupersedes
  <2>9. games' \in [Channels -> Game \cup {NoGame}]
    BY <1>t, <2>3
  <2> QED BY <2>4, <2>6, <2>7, <2>8, <2>9 DEF TypeOK, CmdsOK, processVars
<1>2. ASSUME GuildCheck(t) PROVE IInv'
  <2>1. At(t, "guild_check") /\ AfterGuildCheck(t)
    BY <1>2 DEF GuildCheck
  <2>2. CmdsOK' /\ \A u \in Commands : cmds'[u].pc = "log_start" => cmds'[u] = cmds[u]
    BY <2>1, <1>i, GuildCheckDecides
  <2>3. UNCHANGED <<games, rows, queue, begun, processVars>>
    BY <1>2 DEF GuildCheck
  <2> QED BY <2>2, <2>3 DEF TypeOK, CmdsOK, processVars, InsertsNameGames
<1>3. ASSUME RunCheck(t) PROVE IInv'
  <2>1. UNCHANGED <<games, rows, queue, begun, processVars>> /\ cmds[t].pc # "idle"
    BY <1>3 DEF RunCheck, At
  <2>2. Goto(t, "validate") \/ Goto(t, "log_end") \/ Return(t)
    BY <1>3 DEF RunCheck
  <2>3. CmdsOK' /\ \A u \in Commands : cmds'[u].pc = "log_start" => cmds'[u] = cmds[u]
    BY <2>1, <2>2, <1>i, GoesOn, Returns DEF PCs
  <2> QED BY <2>1, <2>3 DEF TypeOK, CmdsOK, processVars, InsertsNameGames
<1>4. ASSUME LogEnd(t) PROVE IInv'
  <2>1. /\ UNCHANGED <<games, rows, begun, processVars>> /\ cmds[t].pc # "idle"
        /\ Goto(t, "validate") /\ Enqueue(Delete(cmds[t].ch))
    BY <1>4 DEF LogEnd, At
  <2>2. CmdsOK' /\ \A u \in Commands : cmds'[u].pc = "log_start" => cmds'[u] = cmds[u]
    BY <2>1, GoesOn DEF PCs
  <2>3. PICK c \in Channels : c = cmds[t].ch
    BY <2>1, CommandInProgress
  <2>4. Delete(c) \in Query /\ Delete(c).op # "insert" /\ Delete(c).id = 0
    BY Queries, LifecycleAssumption DEF Delete
  <2>5. queue' \in Seq(Query)
    BY <1>t, <2>1, <2>3, <2>4, Queued
  <2>6. InsertsNameGames'
    BY <2>1, <2>2, <2>3, <2>4, QueuedNamesGame DEF InsertsNameGames
  <2> QED BY <2>1, <2>2, <2>5, <2>6 DEF TypeOK, CmdsOK, processVars
<1>5. ASSUME Validate(t) PROVE IInv'
  <2>1. /\ UNCHANGED <<games, rows, queue, begun, processVars>> /\ cmds[t].pc # "idle"
        /\ Goto(t, "insert") \/ Return(t)
    BY <1>5 DEF Validate, At
  <2>2. CmdsOK' /\ \A u \in Commands : cmds'[u].pc = "log_start" => cmds'[u] = cmds[u]
    BY <2>1, <1>i, GoesOn, Returns DEF PCs
  <2> QED BY <2>1, <2>2 DEF TypeOK, CmdsOK, processVars, InsertsNameGames
<1>6. ASSUME InsertGame(t) PROVE IInv'
  <2>1. /\ UNCHANGED <<rows, queue, processVars>> /\ cmds[t].pc # "idle"
        /\ Len(begun) < MaxGames /\ begun' = Append(begun, cmds[t].ch)
        /\ cmds' = [cmds EXCEPT ![t] = [cmds[t] EXCEPT !.pc = "log_start", !.id = Len(begun')]]
        /\ games' = [games EXCEPT ![cmds[t].ch] = NewGame(Len(begun'), "started")]
    BY <1>6 DEF InsertGame, At
  <2>2. /\ begun' \in Seq(Channels) /\ Len(begun') <= MaxGames
        /\ Len(begun') \in GameIds /\ Len(begun') # 0
    <3>1. begun \in Seq(Channels) /\ Len(begun) \in Nat /\ MaxGames \in Nat
      BY LifecycleAssumption DEF TypeOK
    <3>2. PICK c \in Channels : c = cmds[t].ch
      BY <2>1, CommandInProgress
    <3>3. begun' \in Seq(Channels) /\ Len(begun') = Len(begun) + 1
      BY <2>1, <3>1, <3>2
    <3> QED BY <2>1, <3>1, <3>3 DEF GameIds
  <2>3. NewGame(Len(begun'), "started") \in Game
    BY <2>2, NewGames
  <2>4. games' \in [Channels -> Game \cup {NoGame}]
    BY <1>t, <2>1, <2>3
  <2>5. cmds[t] \in InProgress
    BY <2>1, CommandInProgress
  <2>6. /\ [cmds[t] EXCEPT !.pc = "log_start", !.id = Len(begun')] \in InProgress
        /\ [cmds[t] EXCEPT !.pc = "log_start", !.id = Len(begun')].id = Len(begun')
    <3>1. Len(begun') \in 0..MaxGames
      BY <2>2, LifecycleAssumption DEF GameIds
    <3>2. "log_start" \in PCs
      BY DEF PCs
    <3> QED BY <2>5, <3>1, <3>2 DEF InProgress
  <2>7. CmdsOK' /\ cmds'[t].id # 0 /\ \A u \in Commands \ {t} : cmds'[u] = cmds[u]
    BY <1>t, <2>1, <2>2, <2>6 DEF CmdsOK
  <2>8. InsertsNameGames'
    BY <2>1, <2>7 DEF InsertsNameGames
  <2> QED BY <2>1, <2>2, <2>4, <2>7, <2>8 DEF TypeOK, CmdsOK, processVars
<1>7. ASSUME LogStart(t) PROVE IInv'
  <2>1. /\ UNCHANGED <<games, rows, begun, processVars>> /\ cmds[t].pc = "log_start"
        /\ Enqueue(Insert(cmds[t].ch, cmds[t].id)) /\ Return(t)
    BY <1>7 DEF LogStart, At
  <2>2. CmdsOK' /\ \A u \in Commands : cmds'[u].pc = "log_start" => cmds'[u] = cmds[u]
    BY <2>1, <1>i, Returns
  <2>3. PICK c \in Channels, i \in 0..MaxGames : c = cmds[t].ch /\ i = cmds[t].id
    BY <2>1, CommandInProgress
  <2>4. Insert(c, i) \in Query
    BY Queries
  <2>5. Insert(c, i).id = i /\ i # 0
    BY <2>1, <2>3 DEF Insert, InsertsNameGames
  <2>8. Insert(c, i).op = "insert"
    BY DEF Insert
  <2>6. queue' \in Seq(Query)
    BY <1>t, <2>1, <2>3, <2>4, Queued
  <2>7. InsertsNameGames'
    BY <2>1, <2>2, <2>3, <2>4, <2>5, <2>8, QueuedNamesGame DEF InsertsNameGames
  <2> QED BY <2>1, <2>2, <2>6, <2>7 DEF TypeOK, CmdsOK, processVars
<1> QED BY <1>1, <1>2, <1>3, <1>4, <1>5, <1>6, <1>7 DEF StartStep

(* The other steps keep the types.                                          *)
LEMMA OtherTypes ==
    ASSUME IInv,
           \/ \E t \in Commands, c \in Channels, f \in Sources : StartCommand(t, c, f)
           \/ \E c \in Channels : StopCommand(c) \/ GameOver(c) \/ Tick(c) \/ Resume(c)
           \/ BackgroundThread \/ Crash \/ Restart \/ AllShardsReady
           \/ UNCHANGED vars
    PROVE  IInv'
<1> USE DEF IInv
<1>t. /\ games \in [Channels -> Game \cup {NoGame}] /\ queue \in Seq(Query)
      /\ cmds \in [Commands -> {Idle} \cup InProgress]
      /\ rows \in [Channels -> 0..MaxGames] /\ resuming \in [Channels -> 0..MaxGames]
      /\ MaxGames \in Nat /\ MaxCrashes \in Nat
  BY LifecycleAssumption DEF TypeOK
<1>1. ASSUME NEW t \in Commands, NEW c \in Channels, NEW f \in Sources, StartCommand(t, c, f)
      PROVE  IInv'
  <2>1. /\ UNCHANGED <<games, rows, queue, begun, processVars>>
        /\ cmds' = [cmds EXCEPT ![t] = [pc |-> "guild_check", ch |-> c, from |-> f, id |-> 0]]
    BY <1>1 DEF StartCommand
  <2>2. [pc |-> "guild_check", ch |-> c, from |-> f, id |-> 0] \in InProgress
    BY <1>t DEF InProgress, PCs
  <2>3. /\ CmdsOK'
        /\ cmds'[t].pc # "log_start" /\ \A u \in Commands \ {t} : cmds'[u] = cmds[u]
    BY <1>t, <2>1, <2>2 DEF CmdsOK
  <2>4. InsertsNameGames'
    BY <2>1, <2>3 DEF InsertsNameGames
  <2> QED BY <2>1, <2>3, <2>4 DEF TypeOK, CmdsOK, processVars
<1>2. ASSUME NEW c \in Channels, StopCommand(c) PROVE IInv'
  <2>1. /\ UNCHANGED <<rows, cmds, begun, processVars>> /\ Present(c)
        /\ games' = [games EXCEPT ![c] = [games[c] EXCEPT !.terminating = TRUE]]
        /\ Enqueue(Delete(c))
    BY <1>2 DEF StopCommand
  <2>2. [games[c] EXCEPT !.terminating = TRUE] \in Game
    BY <2>1, PresentGame, MarkedGames
  <2>3. Delete(c) \in Query /\ Delete(c).op # "insert" /\ Delete(c).id = 0
    BY <1>t, Queries DEF Delete
  <2>4. queue' \in Seq(Query) /\ games' \in [Channels -> Game \cup {NoGame}]
    BY <1>t, <2>1, <2>2, <2>3, Queued
  <2>5. InsertsNameGames'
    BY <2>1, <2>3, QueuedNamesGame DEF InsertsNameGames
  <2> QED BY <2>1, <2>4, <2>5 DEF TypeOK, processVars
<1>3. ASSUME NEW c \in Channels, GameOver(c) PROVE IInv'
  <2>1. /\ UNCHANGED <<rows, queue, cmds, begun, processVars>> /\ Present(c)
        /\ games' = [games EXCEPT ![c] = [games[c] EXCEPT !.ended = TRUE]]
    BY <1>3 DEF GameOver
  <2>2. [games[c] EXCEPT !.ended = TRUE] \in Game
    BY <2>1, PresentGame, MarkedGames
  <2>3. games' \in [Channels -> Game \cup {NoGame}]
    BY <1>t, <2>1, <2>2
  <2> QED BY <2>1, <2>3 DEF TypeOK, processVars, InsertsNameGames
<1>4. ASSUME NEW c \in Channels, TickEnded(c) PROVE IInv'
  <2>1. /\ UNCHANGED <<rows, cmds, begun, processVars>>
        /\ games' = [games EXCEPT ![c] = NoGame] /\ Enqueue(Delete(c))
    BY <1>4 DEF TickEnded
  <2>2. Delete(c) \in Query /\ Delete(c).op # "insert" /\ Delete(c).id = 0
    BY <1>t, Queries DEF Delete
  <2>3. queue' \in Seq(Query) /\ games' \in [Channels -> Game \cup {NoGame}]
    BY <1>t, <2>1, <2>2, Queued
  <2>4. InsertsNameGames'
    BY <2>1, <2>2, QueuedNamesGame DEF InsertsNameGames
  <2> QED BY <2>1, <2>3, <2>4 DEF TypeOK, processVars
<1>5. ASSUME NEW c \in Channels, TickStopped(c) PROVE IInv'
  <2>1. /\ UNCHANGED <<rows, queue, cmds, begun, processVars>>
        /\ games' = [games EXCEPT ![c] = NoGame]
    BY <1>5 DEF TickStopped
  <2>2. games' \in [Channels -> Game \cup {NoGame}]
    BY <1>t, <2>1
  <2> QED BY <2>1, <2>2 DEF TypeOK, processVars, InsertsNameGames
<1>6. ASSUME NEW c \in Channels, Resume(c) PROVE IInv'
  <2>1. /\ UNCHANGED <<rows, queue, cmds, phase, begun, crashes, premium>>
        /\ resuming[c] # 0 /\ resuming' = [resuming EXCEPT ![c] = 0]
        /\ \/ UNCHANGED games
           \/ \E failed \in BOOLEAN :
                games' = [games EXCEPT ![c] =
                    [NewGame(resuming[c], "resumed") EXCEPT !.ended = failed]]
    BY <1>6 DEF Resume
  <2>2. resuming[c] \in GameIds
    BY <1>t, <2>1 DEF GameIds
  <2>3. \A failed \in BOOLEAN : [NewGame(resuming[c], "resumed") EXCEPT !.ended = failed] \in Game
    BY <2>2, NewGames
  <2>4. games' \in [Channels -> Game \cup {NoGame}]
    BY <1>t, <2>1, <2>3
  <2>5. resuming' \in [Channels -> 0..MaxGames]
    BY <1>t, <2>1
  <2> QED BY <2>1, <2>4, <2>5 DEF TypeOK, InsertsNameGames
<1>7. ASSUME BackgroundThread PROVE IInv'
  <2>1. /\ UNCHANGED <<games, cmds, begun, processVars>> /\ queue # <<>>
        /\ rows' = [rows EXCEPT ![Head(queue).ch] = Executed(Head(queue))]
        /\ queue' = Tail(queue)
    BY <1>7 DEF BackgroundThread
  <2>2. /\ Head(queue) \in Query /\ queue' \in Seq(Query)
        /\ Len(queue) \in Nat /\ Len(queue) >= 1 /\ Len(queue') = Len(queue) - 1
        /\ \A i \in 1..Len(queue') : queue'[i] = queue[i + 1]
    BY <1>t, <2>1, Dequeued
  <2>3. Executed(Head(queue)) \in 0..MaxGames
    BY <1>t, <2>2, SMTT(30) DEF Executed, Query
  <2>4. rows' \in [Channels -> 0..MaxGames]
    BY <1>t, <2>1, <2>3
  <2>5. InsertsNameGames'
    BY <2>1, <2>2 DEF InsertsNameGames
  <2> QED BY <2>1, <2>2, <2>4, <2>5 DEF TypeOK, processVars
<1>8. ASSUME Crash PROVE IInv'
  <2>1. /\ UNCHANGED <<rows, begun, premium>> /\ crashes < MaxCrashes /\ crashes' = crashes + 1
        /\ phase' = "down" /\ games' = [c \in Channels |-> NoGame] /\ queue' = <<>>
        /\ cmds' = [t \in Commands |-> Idle] /\ resuming' = NoRows
    BY <1>8 DEF Crash
  <2>2. /\ games' \in [Channels -> Game \cup {NoGame}]
        /\ cmds' \in [Commands -> {Idle} \cup InProgress]
        /\ resuming' \in [Channels -> 0..MaxGames] /\ crashes' \in 0..MaxCrashes
        /\ queue' \in Seq(Query)
    BY <1>t, <2>1 DEF NoRows, TypeOK
  <2>3. InsertsNameGames'
    BY <2>1 DEF InsertsNameGames, Idle
  <2> QED BY <2>1, <2>2, <2>3 DEF TypeOK
<1>9. ASSUME Restart \/ AllShardsReady PROVE IInv'
  <2>1. /\ UNCHANGED <<games, rows, queue, cmds, begun, crashes, premium>>
        /\ phase' \in {"connecting", "ready"} /\ resuming' \in {resuming, rows}
    BY <1>9 DEF Restart, AllShardsReady
  <2> QED BY <1>t, <2>1 DEF TypeOK, InsertsNameGames
<1>10. ASSUME UNCHANGED vars PROVE IInv'
  BY <1>10 DEF vars, processVars, TypeOK, InsertsNameGames
<1> QED BY <1>1, <1>2, <1>3, <1>4, <1>5, <1>6, <1>7, <1>8, <1>9, <1>10 DEF Tick

(* Every step keeps the types.                                              *)
LEMMA NextIInv == IInv /\ [Next]_vars => IInv'
  BY StartTypes, OtherTypes DEF Next

(* Every reachable state is well-typed and every row names a game, for any  *)
(* number of channels, commands, crashes and waiting queries.               *)
THEOREM LifecycleInvariance == Spec => []IInv
  BY InitIInv, NextIInv, PTL DEF Spec

-----------------------------------------------------------------------------
(* The resumption *)

(* A channel's game after a step is the one it was, possibly marked, or     *)
(* none, or one that has just started, or one resumed where there was none. *)
LEMMA GameSteps ==
    ASSUME IInv, [Next]_vars, NEW c \in Channels
    PROVE  \/ games'[c].id = games[c].id
           \/ games'[c].origin # "resumed"
           \/ ~Present(c)
<1>t. games \in [Channels -> Game \cup {NoGame}] /\ NoGame.origin # "resumed"
  BY DEF IInv, TypeOK, NoGame
<1>1. CASE UNCHANGED games
  BY <1>1
<1>2. CASE \E d \in Channels : games' = [games EXCEPT ![d] = NoGame]
  BY <1>t, <1>2
<1>3. CASE \E d \in Channels : Present(d) /\
            \/ games' = [games EXCEPT ![d] = [games[d] EXCEPT !.terminating = TRUE]]
            \/ games' = [games EXCEPT ![d] = [games[d] EXCEPT !.ended = TRUE]]
  <2>1. PICK d \in Channels : Present(d) /\
            \/ games' = [games EXCEPT ![d] = [games[d] EXCEPT !.terminating = TRUE]]
            \/ games' = [games EXCEPT ![d] = [games[d] EXCEPT !.ended = TRUE]]
    BY <1>3
  <2>2. games[d] \in Game
    BY <2>1, PresentGame DEF IInv
  <2>3. /\ [games[d] EXCEPT !.terminating = TRUE].id = games[d].id
        /\ [games[d] EXCEPT !.ended = TRUE].id = games[d].id
    BY <2>2, MarkedGames
  <2> QED BY <1>t, <2>1, <2>3
<1>4. ASSUME NEW t \in Commands, InsertGame(t)
      PROVE  games'[c].id = games[c].id \/ games'[c].origin # "resumed"
  BY <1>t, <1>4 DEF InsertGame, NewGame
<1>5. ASSUME NEW d \in Channels, Resume(d)
      PROVE  games'[c].id = games[c].id \/ ~Present(c)
  BY <1>t, <1>5 DEF Resume
<1>6. ASSUME Crash PROVE games'[c].origin # "resumed"
  BY <1>t, <1>6 DEF Crash
<1>7. ASSUME NEW t \in Commands, GuildCheckSupersedes(t)
      PROVE  \E d \in Channels : games' = [games EXCEPT ![d] = NoGame]
  BY <1>7, FirstOtherIsOther DEF GuildCheckSupersedes, Supersedes
<1>8. ASSUME NEW t \in Commands, StartStep(t)
      PROVE  \/ UNCHANGED games \/ GuildCheckSupersedes(t) \/ InsertGame(t)
  BY <1>8 DEF StartStep, GuildCheck, RunCheck, LogEnd, Validate, LogStart
<1>9. ASSUME NEW d \in Channels, StopCommand(d) \/ GameOver(d)
      PROVE  Present(d) /\
            \/ games' = [games EXCEPT ![d] = [games[d] EXCEPT !.terminating = TRUE]]
            \/ games' = [games EXCEPT ![d] = [games[d] EXCEPT !.ended = TRUE]]
  BY <1>9 DEF StopCommand, GameOver
<1>10. ASSUME NEW d \in Channels, Tick(d)
       PROVE  games' = [games EXCEPT ![d] = NoGame]
  BY <1>10 DEF Tick, TickEnded, TickStopped
<1>11. ASSUME \/ \E t \in Commands, d \in Channels, f \in Sources : StartCommand(t, d, f)
              \/ BackgroundThread \/ Restart \/ AllShardsReady \/ UNCHANGED vars
       PROVE  UNCHANGED games
  BY <1>11 DEF StartCommand, BackgroundThread, Restart, AllShardsReady, vars
<1> QED
  BY <1>1, <1>2, <1>3, <1>4, <1>5, <1>6, <1>7, <1>8, <1>9, <1>10, <1>11 DEF Next

(* Resuming a game from its row never takes a channel from the game that    *)
(* runs there, however the commands and the resumption are interleaved      *)
(* (trivia.cpp:230).                                                        *)
THEOREM ResumptionSparesGames == Spec => ResumeSparesNewGames
<1>1. IInv /\ [Next]_vars =>
        [\A c \in Channels :
           Present(c) /\ games'[c].origin = "resumed" => games'[c].id = games[c].id]_vars
  BY GameSteps
<1> QED BY <1>1, LifecycleInvariance, PTL DEF Spec, ResumeSparesNewGames

-----------------------------------------------------------------------------
(* The rows that a crash would leave *)

(* A game that a command started has a row once the queue is through, or    *)
(* its command has not logged it yet.                                       *)
Logging(c) == \E t \in Commands : cmds[t].pc = "log_start" /\ cmds[t].ch = c
RowsCome ==
    \A c \in Channels :
        Active(c) /\ games[c].origin = "started" => WillHaveRow(c) \/ Logging(c)

(* A start that takes nothing from a running game: all come from users.     *)
UsersOnly == Sources \subseteq {"user"}

(* Only the dashboard's starts end a running game's row (log_end).          *)
NoLogEnd == \A t \in Commands : cmds[t].pc # "log_end"

ResumableInv == IInv /\ UsersOnly /\ NoLogEnd /\ RowsCome

(* A query other than the channel's DELETE leaves the channel its row.      *)
LEMMA QueuedKeepsRow ==
    ASSUME queue \in Seq(Query), NEW q \in Query, Enqueue(q), UNCHANGED rows,
           NEW c \in Channels, WillHaveRow(c), q # Delete(c)
    PROVE  WillHaveRow(c)'
  <1>1. /\ Len(queue) \in Nat /\ Len(queue') = Len(queue) + 1
        /\ queue'[Len(queue) + 1] = q
        /\ \A i \in 1..Len(queue) : queue'[i] = queue[i]
    BY Queued
  <1>2. \A i \in 0..Len(queue) : ~DeletedAfter(c, i) => ~DeletedAfter(c, i)'
    <2> SUFFICES ASSUME NEW i \in 0..Len(queue), DeletedAfter(c, i)'
                 PROVE  DeletedAfter(c, i)
      OBVIOUS
    <2>1. PICK j \in (i + 1)..Len(queue') : queue'[j] = Delete(c)
      BY DEF DeletedAfter, Delete
    <2>2. j \in (i + 1)..Len(queue) /\ queue[j] = Delete(c)
      BY <1>1, <2>1
    <2> QED BY <2>2 DEF DeletedAfter
  <1>3. CASE rows[c] # 0 /\ ~DeletedAfter(c, 0)
    BY <1>1, <1>2, <1>3 DEF WillHaveRow
  <1>4. CASE \E i \in 1..Len(queue) :
               queue[i].op = "insert" /\ queue[i].ch = c /\ ~DeletedAfter(c, i)
    <2>1. PICK i \in 1..Len(queue) :
               queue[i].op = "insert" /\ queue[i].ch = c /\ ~DeletedAfter(c, i)
      BY <1>4
    <2>2. i \in 1..Len(queue') /\ queue'[i].op = "insert" /\ queue'[i].ch = c
      BY <1>1, <2>1
    <2>3. ~DeletedAfter(c, i)'
      BY <1>1, <1>2, <2>1
    <2> QED BY <2>2, <2>3 DEF WillHaveRow
  <1> QED BY <1>3, <1>4 DEF WillHaveRow

(* The INSERT of a game, queued last, is executed after every DELETE.       *)
LEMMA QueuedInsertGivesRow ==
    ASSUME queue \in Seq(Query), NEW c \in Channels, NEW i,
           Insert(c, i) \in Query, Enqueue(Insert(c, i))
    PROVE  WillHaveRow(c)'
  <1>1. /\ Len(queue) \in Nat /\ Len(queue') = Len(queue) + 1
        /\ queue'[Len(queue) + 1] = Insert(c, i)
    BY Queued
  <1>2. Insert(c, i).op = "insert" /\ Insert(c, i).ch = c
    BY DEF Insert
  <1> PICK n \in Nat : n = Len(queue) + 1
    BY <1>1
  <1>3. ~DeletedAfter(c, n)'
    BY <1>1 DEF DeletedAfter
  <1>4. n \in 1..Len(queue') /\ queue'[n] = Insert(c, i)
    BY <1>1
  <1> QED BY <1>1, <1>2, <1>3, <1>4 DEF WillHaveRow

(* Executing the first query of the queue keeps what the queue will do.     *)
LEMMA ExecutedKeepsRow ==
    ASSUME IInv, BackgroundThread, NEW c \in Channels, WillHaveRow(c)
    PROVE  WillHaveRow(c)'
  <1>t. queue \in Seq(Query) /\ rows \in [Channels -> 0..MaxGames]
    BY DEF IInv, TypeOK
  <1>1. /\ queue # <<>>
        /\ rows' = [rows EXCEPT ![Head(queue).ch] = Executed(Head(queue))]
        /\ queue' = Tail(queue)
    BY DEF BackgroundThread
  <1>2. /\ Head(queue) \in Query /\ Head(queue) = queue[1]
        /\ Len(queue) \in Nat /\ Len(queue) >= 1 /\ Len(queue') = Len(queue) - 1
        /\ \A i \in 1..Len(queue') : queue'[i] = queue[i + 1]
    BY <1>t, <1>1, Dequeued
  <1>3. \A i \in 1..Len(queue) : ~DeletedAfter(c, i) => ~DeletedAfter(c, i - 1)'
    <2> SUFFICES ASSUME NEW i \in 1..Len(queue), DeletedAfter(c, i - 1)'
                 PROVE  DeletedAfter(c, i)
      OBVIOUS
    <2>1. PICK j \in ((i - 1) + 1)..Len(queue') : queue'[j] = Delete(c)
      BY DEF DeletedAfter, Delete
    <2>2. j + 1 \in (i + 1)..Len(queue) /\ queue[j + 1] = Delete(c)
      BY <1>2, <2>1
    <2> QED BY <2>2 DEF DeletedAfter
  <1>4. ~DeletedAfter(c, 0) => ~DeletedAfter(c, 1) /\ Head(queue) # Delete(c)
    BY <1>2 DEF DeletedAfter
  <1>5. ASSUME rows'[c] # 0, ~DeletedAfter(c, 1) PROVE WillHaveRow(c)'
    <2>1. ~DeletedAfter(c, 0)'
      BY <1>2, <1>3, <1>5
    <2> QED BY <1>5, <2>1 DEF WillHaveRow
  <1>6. CASE rows[c] # 0 /\ ~DeletedAfter(c, 0)
    <2>1. Head(queue).op \in {"insert", "delete"}
      BY <1>2 DEF Query
    <2>2. CASE Head(queue).ch = c /\ Head(queue).op = "insert"
      BY <1>t, <1>1, <1>4, <1>5, <1>6, <2>2 DEF Executed
    <2>3. CASE Head(queue).ch # c
      BY <1>t, <1>1, <1>4, <1>5, <1>6, <2>3
    <2>4. CASE Head(queue).ch = c /\ Head(queue).op = "delete"
      <3>1. Head(queue) = Delete(c)
        BY <1>2, <2>4 DEF Query, Delete, IInv, InsertsNameGames
      <3> QED BY <1>4, <1>6, <3>1
    <2> QED BY <2>1, <2>2, <2>3, <2>4
  <1>7. CASE \E i \in 1..Len(queue) :
               queue[i].op = "insert" /\ queue[i].ch = c /\ ~DeletedAfter(c, i)
    <2>1. PICK i \in 1..Len(queue) :
               queue[i].op = "insert" /\ queue[i].ch = c /\ ~DeletedAfter(c, i)
      BY <1>7
    <2>2. CASE i = 1
      <3>1. Head(queue).op = "insert" /\ Head(queue).ch = c /\ Head(queue).id # 0
        BY <1>2, <2>1, <2>2 DEF IInv, InsertsNameGames
      <3>2. rows'[c] # 0
        BY <1>t, <1>1, <3>1 DEF Executed
      <3> QED BY <1>5, <2>1, <2>2, <3>2
    <2>3. CASE i # 1
      <3>1. /\ i - 1 \in 1..Len(queue') /\ queue'[i - 1].op = "insert"
            /\ queue'[i - 1].ch = c
        BY <1>2, <2>1, <2>3
      <3>2. ~DeletedAfter(c, i - 1)'
        BY <1>3, <2>1
      <3> QED BY <3>1, <3>2 DEF WillHaveRow
    <2> QED BY <2>2, <2>3
  <1> QED BY <1>6, <1>7 DEF WillHaveRow

(* Users' starts never write the end of a game.                             *)
LEMMA NextNoLogEnd ==
    ASSUME IInv, UsersOnly, NoLogEnd, [Next]_vars
    PROVE  NoLogEnd'
<1>i. Idle.pc = "idle"
  BY DEF Idle
<1>1. ASSUME NEW t \in Commands, StartStep(t) PROVE NoLogEnd'
  <2>1. \/ AfterGuildCheck(t) /\ At(t, "guild_check")
        \/ RunCheck(t) \/ Validate(t) \/ InsertGame(t) \/ LogStart(t)
    BY <1>1 DEF StartStep, GuildCheckSupersedes, GuildCheck, LogEnd, At, NoLogEnd
  <2>2. CASE AfterGuildCheck(t) /\ At(t, "guild_check")
    BY <1>i, <2>2, GuildCheckDecides DEF IInv, NoLogEnd
  <2>3. CASE RunCheck(t)
    <3>1. cmds[t].pc = "run_check" /\ cmds[t].from # "dashboard"
      BY <2>3, CommandInProgress DEF RunCheck, At, IInv, UsersOnly
    <3>2. Goto(t, "validate") \/ Return(t)
      BY <2>3, <3>1 DEF RunCheck
    <3> QED BY <1>i, <3>1, <3>2, GoesOn, Returns DEF IInv, NoLogEnd, PCs
  <2>4. CASE Validate(t)
    BY <1>i, <2>4, GoesOn, Returns DEF Validate, At, IInv, NoLogEnd, PCs
  <2>5. CASE InsertGame(t)
    <3>1. cmds' = [cmds EXCEPT ![t] = [cmds[t] EXCEPT !.pc = "log_start", !.id = Len(begun')]]
      BY <2>5 DEF InsertGame
    <3>2. cmds[t] \in InProgress
      BY <2>5, CommandInProgress DEF InsertGame, At, IInv
    <3>3. [cmds[t] EXCEPT !.pc = "log_start", !.id = Len(begun')].pc = "log_start"
      BY <3>2 DEF InProgress
    <3> QED BY <3>1, <3>3 DEF IInv, TypeOK, NoLogEnd
  <2>6. CASE LogStart(t)
    BY <1>i, <2>6, Returns DEF LogStart, IInv, NoLogEnd
  <2> QED BY <2>1, <2>2, <2>3, <2>4, <2>5, <2>6
<1>2. ASSUME NEW t \in Commands, NEW c \in Channels, NEW f \in Sources, StartCommand(t, c, f)
      PROVE  NoLogEnd'
  BY <1>2 DEF StartCommand, IInv, TypeOK, NoLogEnd
<1>3. ASSUME Crash PROVE NoLogEnd'
  BY <1>i, <1>3 DEF Crash, NoLogEnd
<1>4. ASSUME \/ \E c \in Channels : StopCommand(c) \/ GameOver(c) \/ Tick(c) \/ Resume(c)
             \/ BackgroundThread \/ Restart \/ AllShardsReady \/ UNCHANGED vars
      PROVE  NoLogEnd'
  <2>1. UNCHANGED cmds
    BY <1>4 DEF StopCommand, GameOver, Tick, TickEnded, TickStopped, Resume,
                BackgroundThread, Restart, AllShardsReady, vars
  <2> QED BY <2>1 DEF NoLogEnd
<1> QED BY <1>1, <1>2, <1>3, <1>4 DEF Next

(* A channel whose game stays, whose row is not deleted and whose starts    *)
(* are still to be logged, is where it was.                                 *)
LEMMA RowStillComes ==
    ASSUME RowsCome, NEW c \in Channels, games'[c] = games[c],
           WillHaveRow(c) => WillHaveRow(c)',
           \A u \in Commands :
               cmds[u].pc = "log_start" /\ cmds[u].ch = c => cmds'[u] = cmds[u],
           Active(c)', games'[c].origin = "started"
    PROVE  WillHaveRow(c)' \/ Logging(c)'
  <1>1. Active(c)
    BY DEF Active, Present
  <1>2. WillHaveRow(c) \/ Logging(c)
    BY <1>1 DEF RowsCome
  <1> QED BY <1>2 DEF Logging

(* With its table and queue a channel's future row stays.                   *)
LEMMA UntouchedRow ==
    ASSUME NEW c \in Channels, WillHaveRow(c), UNCHANGED <<rows, queue>>
    PROVE  WillHaveRow(c)'
  BY DEF WillHaveRow, DeletedAfter, Delete

(* What each step does to the row of a channel whose game was started and   *)
(* is neither over nor stopped.                                             *)
LEMMA NextRowsCome ==
    ASSUME ResumableInv, [Next]_vars
    PROVE  RowsCome'
<1> SUFFICES ASSUME NEW c \in Channels, Active(c)', games'[c].origin = "started"
             PROVE  WillHaveRow(c)' \/ Logging(c)'
  BY DEF RowsCome
<1>t. /\ TypeOK /\ InsertsNameGames /\ UsersOnly /\ NoLogEnd /\ RowsCome /\ IInv
      /\ games \in [Channels -> Game \cup {NoGame}] /\ queue \in Seq(Query)
      /\ cmds \in [Commands -> {Idle} \cup InProgress]
  BY DEF ResumableInv, IInv, TypeOK
<1>n. NoGame.id = 0 /\ Idle.pc = "idle"
  BY DEF NoGame, Idle
<1>a. games'[c].id # 0 /\ ~games'[c].ended /\ ~games'[c].terminating
  BY DEF Active, Present
<1>1. ASSUME NEW t \in Commands, NEW d \in Channels, NEW f \in Sources, StartCommand(t, d, f)
      PROVE  WillHaveRow(c)' \/ Logging(c)'
  <2>1. UNCHANGED <<games, rows, queue>>
    BY <1>1 DEF StartCommand
  <2>2. \A u \in Commands : cmds[u].pc = "log_start" => cmds'[u] = cmds[u]
    BY <1>1, <1>t, <1>n DEF StartCommand
  <2> QED BY <1>t, <2>1, <2>2, UntouchedRow, RowStillComes
<1>2. ASSUME NEW t \in Commands, GuildCheck(t) \/ RunCheck(t) \/ Validate(t)
      PROVE  WillHaveRow(c)' \/ Logging(c)'
  <2>1. UNCHANGED <<games, rows, queue>>
    BY <1>2 DEF GuildCheck, RunCheck, Validate
  <2>2. cmds[t].pc \notin {"idle", "log_start"}
    BY <1>2 DEF GuildCheck, RunCheck, Validate, At
  <2>3. Return(t) \/ \E pc \in PCs : Goto(t, pc)
    BY <1>2 DEF GuildCheck, AfterGuildCheck, RunCheck, Validate, PCs
  <2>4. \A u \in Commands \ {t} : cmds'[u] = cmds[u]
    BY <1>t, <2>2, <2>3, GoesOn, Returns
  <2>5. \A u \in Commands : cmds[u].pc = "log_start" => cmds'[u] = cmds[u]
    BY <2>2, <2>4
  <2> QED BY <1>t, <2>1, <2>5, UntouchedRow, RowStillComes
<1>3. ASSUME NEW t \in Commands, GuildCheckSupersedes(t) \/ LogEnd(t) PROVE FALSE
  <2>1. cmds[t].pc = "guild_check" /\ cmds[t].from = "dashboard"
    BY <1>3, <1>t DEF GuildCheckSupersedes, LogEnd, At, NoLogEnd, Supersedes
  <2> QED BY <1>t, <2>1, CommandInProgress DEF UsersOnly
<1>4. ASSUME NEW t \in Commands, InsertGame(t)
      PROVE  WillHaveRow(c)' \/ Logging(c)'
  <2>1. /\ UNCHANGED <<rows, queue>> /\ cmds[t].pc = "insert"
        /\ cmds' = [cmds EXCEPT ![t] = [cmds[t] EXCEPT !.pc = "log_start", !.id = Len(begun')]]
        /\ games' = [games EXCEPT ![cmds[t].ch] = NewGame(Len(begun'), "started")]
    BY <1>4 DEF InsertGame, At
  <2>2. \A u \in Commands : cmds[u].pc = "log_start" => cmds'[u] = cmds[u]
    BY <1>t, <2>1
  <2>3. CASE cmds[t].ch = c
    <3>1. cmds[t] \in InProgress
      BY <1>t, <2>1, CommandInProgress
    <3>2. /\ [cmds[t] EXCEPT !.pc = "log_start", !.id = Len(begun')].pc = "log_start"
          /\ [cmds[t] EXCEPT !.pc = "log_start", !.id = Len(begun')].ch = cmds[t].ch
      BY <3>1 DEF InProgress
    <3>3. cmds'[t] = [cmds[t] EXCEPT !.pc = "log_start", !.id = Len(begun')]
      BY <1>t, <2>1
    <3> QED BY <2>3, <3>2, <3>3 DEF Logging
  <2>4. CASE cmds[t].ch # c
    <3>1. games'[c] = games[c]
      BY <1>t, <2>1, <2>4
    <3> QED BY <1>t, <2>1, <2>2, <3>1, UntouchedRow, RowStillComes
  <2> QED BY <2>3, <2>4
<1>5. ASSUME NEW t \in Commands, LogStart(t)
      PROVE  WillHaveRow(c)' \/ Logging(c)'
  <2>1. /\ UNCHANGED <<games, rows>> /\ cmds[t].pc = "log_start"
        /\ Enqueue(Insert(cmds[t].ch, cmds[t].id)) /\ Return(t)
    BY <1>5 DEF LogStart, At
  <2>2. PICK d \in Channels, i \in 0..MaxGames : d = cmds[t].ch /\ i = cmds[t].id
    BY <1>t, <2>1, CommandInProgress
  <2>3. Insert(d, i) \in Query /\ Enqueue(Insert(d, i)) /\ Insert(d, i) # Delete(c)
    <3>1. Insert(d, i).op # Delete(c).op
      BY DEF Insert, Delete
    <3> QED BY <1>t, <2>1, <2>2, <3>1, Queries
  <2>4. CASE d = c
    BY <1>t, <2>3, <2>4, QueuedInsertGivesRow
  <2>5. CASE d # c
    <3>1. \A u \in Commands : cmds[u].pc = "log_start" /\ cmds[u].ch = c => cmds'[u] = cmds[u]
      BY <1>t, <2>1, <2>2, <2>5, Returns
    <3>2. WillHaveRow(c) => WillHaveRow(c)'
      BY <1>t, <2>1, <2>3, QueuedKeepsRow
    <3> QED BY <1>t, <2>1, <3>1, <3>2, RowStillComes
  <2> QED BY <2>4, <2>5
<1>6. ASSUME NEW d \in Channels, StopCommand(d)
      PROVE  WillHaveRow(c)' \/ Logging(c)'
  <2>1. /\ UNCHANGED <<rows, cmds>> /\ Present(d) /\ Enqueue(Delete(d))
        /\ games' = [games EXCEPT ![d] = [games[d] EXCEPT !.terminating = TRUE]]
    BY <1>6 DEF StopCommand
  <2>2. [games[d] EXCEPT !.terminating = TRUE].terminating = TRUE
    BY <1>t, <2>1, PresentGame, MarkedGames
  <2>3. c # d
    BY <1>t, <1>a, <2>1, <2>2
  <2>4. Delete(d) \in Query /\ Delete(d) # Delete(c)
    BY <1>t, <2>3, Queries, LifecycleAssumption DEF Delete
  <2>5. WillHaveRow(c) => WillHaveRow(c)'
    BY <1>t, <2>1, <2>4, QueuedKeepsRow
  <2>6. games'[c] = games[c]
    BY <1>t, <2>1, <2>3
  <2> QED BY <1>t, <2>1, <2>5, <2>6, RowStillComes
<1>7. ASSUME NEW d \in Channels, TickEnded(d)
      PROVE  WillHaveRow(c)' \/ Logging(c)'
  <2>1. /\ UNCHANGED <<rows, cmds>> /\ Enqueue(Delete(d))
        /\ games' = [games EXCEPT ![d] = NoGame]
    BY <1>7 DEF TickEnded
  <2>2. c # d
    BY <1>t, <1>a, <1>n, <2>1
  <2>3. Delete(d) \in Query /\ Delete(d) # Delete(c)
    BY <1>t, <2>2, Queries, LifecycleAssumption DEF Delete
  <2>4. WillHaveRow(c) => WillHaveRow(c)'
    BY <1>t, <2>1, <2>3, QueuedKeepsRow
  <2>5. games'[c] = games[c]
    BY <1>t, <2>1, <2>2
  <2> QED BY <1>t, <2>1, <2>4, <2>5, RowStillComes
<1>8. ASSUME NEW d \in Channels, GameOver(d) \/ TickStopped(d) \/ Resume(d)
      PROVE  WillHaveRow(c)' \/ Logging(c)'
  <2>1. UNCHANGED <<rows, queue, cmds>>
    BY <1>8 DEF GameOver, TickStopped, Resume
  <2>2. games'[c] = games[c]
    <3>1. CASE GameOver(d)
      <4>1. [games[d] EXCEPT !.ended = TRUE].ended = TRUE
        BY <1>t, <3>1, PresentGame, MarkedGames DEF GameOver
      <4> QED BY <1>t, <1>a, <3>1, <4>1 DEF GameOver
    <3>2. CASE TickStopped(d)
      BY <1>t, <1>a, <1>n, <3>2 DEF TickStopped
    <3>3. CASE Resume(d)
      <4>1. \A f \in BOOLEAN :
              [NewGame(resuming[d], "resumed") EXCEPT !.ended = f].origin # "started"
        BY DEF NewGame
      <4> QED BY <1>t, <3>3, <4>1 DEF Resume
    <3> QED BY <1>8, <3>1, <3>2, <3>3
  <2> QED BY <1>t, <2>1, <2>2, UntouchedRow, RowStillComes
<1>9. ASSUME BackgroundThread
      PROVE  WillHaveRow(c)' \/ Logging(c)'
  <2>1. UNCHANGED <<games, cmds>>
    BY <1>9 DEF BackgroundThread
  <2>2. WillHaveRow(c) => WillHaveRow(c)'
    BY <1>t, <1>9, ExecutedKeepsRow
  <2> QED BY <1>t, <2>1, <2>2, RowStillComes
<1>10. ASSUME Crash PROVE FALSE
  BY <1>a, <1>n, <1>10 DEF Crash
<1>11. ASSUME Restart \/ AllShardsReady \/ UNCHANGED vars
       PROVE  WillHaveRow(c)' \/ Logging(c)'
  <2>1. UNCHANGED <<games, rows, queue, cmds>>
    BY <1>11 DEF Restart, AllShardsReady, vars
  <2> QED BY <1>t, <2>1, UntouchedRow, RowStillComes
<1> QED
  BY <1>1, <1>2, <1>3, <1>4, <1>5, <1>6, <1>7, <1>8, <1>9, <1>10, <1>11
  DEF Next, StartStep, Tick

(* Whatever users' starts, stops, ends and crashes overlap, a started game  *)
(* that is neither over nor stopped has a row to resume it from once the    *)
(* queue is through and no start is under way in its channel                *)
(* (webrequest.cpp:590).  A dashboard's start may take the row of a running *)
(* game and then fail: the hypothesis excludes it.                          *)
THEOREM StartedGamesHaveRows ==
    UsersOnly /\ Spec => []StartedGamesAreResumable
<1>1. Init /\ UsersOnly => ResumableInv
  BY InitIInv DEF Init, ResumableInv, RowsCome, Active, Present, NoLogEnd, NoGame, Idle
<1>2. ResumableInv /\ [Next]_vars => ResumableInv'
  <2> SUFFICES ASSUME ResumableInv, [Next]_vars PROVE ResumableInv'
    OBVIOUS
  <2>1. IInv'
    BY NextIInv DEF ResumableInv
  <2>2. UsersOnly' /\ NoLogEnd'
    BY NextNoLogEnd DEF ResumableInv, UsersOnly
  <2> QED BY <2>1, <2>2, NextRowsCome DEF ResumableInv
<1>3. ResumableInv => StartedGamesAreResumable
  <2> SUFFICES ASSUME ResumableInv, NEW c \in Channels,
                      Active(c) /\ games[c].origin = "started" /\ ~BeingStarted(c)
               PROVE  WillHaveRow(c)
    BY DEF StartedGamesAreResumable
  <2>1. ~Logging(c)
    BY DEF Logging, BeingStarted, Idle
  <2> QED BY <2>1 DEF ResumableInv, RowsCome
<1> QED BY <1>1, <1>2, <1>3, PTL DEF Spec

-----------------------------------------------------------------------------
(* The limit of concurrent games *)

(* One start command of the guild at a time, and no crash.                  *)
OneAtATime == \A t, u \in Commands : cmds[t] # Idle /\ cmds[u] # Idle => t = u
NoCrashes == MaxCrashes = 0

Running == {c \in Channels : Present(c) /\ ~games[c].ended}
Passed == {"run_check", "log_end", "validate", "insert"}

(* A command that has passed the check of the guild's games has left room   *)
(* for one more than those in other channels.                               *)
RoomIsKept ==
    /\ phase = "ready" /\ resuming = NoRows
    /\ Cardinality(Running) <= GameLimit
    /\ \A t \in Commands :
         cmds[t].pc \in Passed => Cardinality(Running \ {cmds[t].ch}) < GameLimit

LimitInv == IInv /\ NoCrashes /\ RoomIsKept

(* The games of a guild are finitely many.                                  *)
LEMMA RunningIsFinite ==
    /\ IsFiniteSet(Running)
    /\ Cardinality(Running) \in Nat
    /\ \A c : /\ IsFiniteSet(Running \ {c})
              /\ Cardinality(Running \ {c}) \in Nat
              /\ Cardinality(Running \ {c}) <= Cardinality(Running)
    /\ \A S : S \subseteq Running => IsFiniteSet(S) /\ Cardinality(S) <= Cardinality(Running)
  <1>1. IsFiniteSet(Running)
    <2>1. Running \in SUBSET Channels
      BY DEF Running
    <2> QED BY <2>1, LifecycleAssumption, FS_Subset
  <1>2. \A S : S \subseteq Running => IsFiniteSet(S) /\ Cardinality(S) <= Cardinality(Running)
    BY <1>1, FS_Subset
  <1>3. \A c : Running \ {c} \subseteq Running
    OBVIOUS
  <1> QED BY <1>1, <1>2, <1>3, FS_CardinalityType

(* A step that adds no game and lets no command pass keeps the room.        *)
LEMMA RoomStays ==
    ASSUME RoomIsKept, Running' \subseteq Running, premium' = premium,
           phase' = phase, resuming' = resuming,
           \A u \in Commands :
               cmds'[u].pc \in Passed =>
                   cmds[u].pc \in Passed /\ cmds'[u].ch = cmds[u].ch
    PROVE  RoomIsKept'
  <1>1. GameLimit' = GameLimit /\ GameLimit \in Nat
    BY DEF GameLimit
  <1>2. PICK R : R = Running'
    OBVIOUS
  <1>3. Cardinality(R) <= Cardinality(Running) /\ Cardinality(R) \in Nat
    BY <1>2, RunningIsFinite, FS_CardinalityType
  <1>4. ASSUME NEW u \in Commands, cmds'[u].pc \in Passed
        PROVE  Cardinality(R \ {cmds'[u].ch}) < GameLimit
    <2>1. PICK c : c = cmds'[u].ch
      OBVIOUS
    <2>2. Cardinality(Running \ {c}) < GameLimit
      BY <1>4, <2>1 DEF RoomIsKept
    <2>3. R \ {c} \in SUBSET (Running \ {c})
      BY <1>2
    <2>4. IsFiniteSet(Running \ {c}) /\ Cardinality(Running \ {c}) \in Nat
      BY RunningIsFinite
    <2>5. IsFiniteSet(R \ {c}) /\ Cardinality(R \ {c}) <= Cardinality(Running \ {c})
      BY <2>3, <2>4, FS_Subset
    <2>6. Cardinality(R \ {c}) \in Nat
      BY <2>5, FS_CardinalityType
    <2> QED BY <1>1, <2>1, <2>2, <2>4, <2>5, <2>6
  <1>5. Cardinality(Running) <= GameLimit /\ Cardinality(Running) \in Nat
    BY RunningIsFinite DEF RoomIsKept
  <1>6. Cardinality(R) <= GameLimit
    BY <1>1, <1>3, <1>5
  <1>7. phase' = "ready" /\ resuming' = NoRows' /\ Passed' = Passed
    BY DEF RoomIsKept, NoRows, Passed
  <1> QED BY <1>1, <1>2, <1>4, <1>6, <1>7 DEF RoomIsKept

(* Another game of the guild is a running one elsewhere.                    *)
LEMMA OthersRun ==
    ASSUME NEW c PROVE OtherGames(c) = Running \ {c}
  BY DEF OtherGames, Running

(* A command that finds room, with no game to supersede, leaves room.       *)
LEMMA CountedRoom ==
    ASSUME NEW t \in Commands, ~Supersedes(t), ~GuildFull(t)
    PROVE  Cardinality(Running \ {cmds[t].ch}) < GameLimit
  <1>1. CASE premium
    <2>1. NumberOfGames(t) = Cardinality({d \in Channels : Present(d)})
      BY DEF NumberOfGames
    <2> PICK P : P = {d \in Channels : Present(d)}
      OBVIOUS
    <2>2. IsFiniteSet(P) /\ Cardinality(P) \in Nat
      <3>1. P \in SUBSET Channels
        OBVIOUS
      <3> QED BY <3>1, LifecycleAssumption, FS_Subset, FS_CardinalityType
    <2>3. ~ (Cardinality(P) >= 2)
      BY <1>1, <2>1 DEF GuildFull
    <2>4. Running \ {cmds[t].ch} \in SUBSET P
      BY DEF Running
    <2>5. Cardinality(Running \ {cmds[t].ch}) <= Cardinality(P)
      BY <2>2, <2>4, FS_Subset
    <2>6. Cardinality(Running \ {cmds[t].ch}) \in Nat
      BY RunningIsFinite
    <2> QED BY <1>1, <2>2, <2>3, <2>5, <2>6 DEF GameLimit
  <1>2. CASE ~premium
    <2>1. Running \ {cmds[t].ch} = {}
      BY <1>2, OthersRun DEF GuildFull
    <2> QED BY <1>2, <2>1, FS_EmptySet DEF GameLimit
  <1> QED BY <1>1, <1>2

(* A start from the dashboard makes room by removing a game.                *)
LEMMA SupersededRoom ==
    ASSUME NEW t \in Commands, Supersedes(t), Cardinality(Running) <= GameLimit
    PROVE  /\ FirstOther(cmds[t].ch) \in Running
           /\ Cardinality(Running \ {FirstOther(cmds[t].ch)}) < GameLimit
  <1>1. FirstOther(cmds[t].ch) \in Running
    BY FirstOtherIsOther, OthersRun DEF Supersedes
  <1>2. Cardinality(Running \ {FirstOther(cmds[t].ch)}) = Cardinality(Running) - 1
    BY <1>1, RunningIsFinite, FS_RemoveElement
  <1>3. GameLimit \in Nat /\ Cardinality(Running) \in Nat
    BY RunningIsFinite DEF GameLimit
  <1> QED BY <1>1, <1>2, <1>3

(* The insertion of a game uses the room that was kept for it.              *)
LEMMA InsertedGame ==
    ASSUME NEW c, Cardinality(Running \ {c}) < GameLimit,
           NEW R, R \subseteq (Running \ {c}) \cup {c}
    PROVE  IsFiniteSet(R) /\ Cardinality(R) \in Nat /\ Cardinality(R) <= GameLimit
  <1>1. /\ IsFiniteSet((Running \ {c}) \cup {c})
        /\ Cardinality((Running \ {c}) \cup {c}) <= Cardinality(Running \ {c}) + 1
    BY RunningIsFinite, FS_AddElement
  <1>2. IsFiniteSet(R) /\ Cardinality(R) <= Cardinality((Running \ {c}) \cup {c})
    BY <1>1, FS_Subset
  <1>3. /\ Cardinality(R) \in Nat /\ Cardinality((Running \ {c}) \cup {c}) \in Nat
        /\ Cardinality(Running \ {c}) \in Nat /\ GameLimit \in Nat
    BY <1>1, <1>2, RunningIsFinite, FS_CardinalityType DEF GameLimit
  <1> QED BY <1>1, <1>2, <1>3

(* Every step of one command at a time keeps room for it.                   *)
LEMMA NextRoomIsKept ==
    ASSUME LimitInv, OneAtATime, [Next]_vars
    PROVE  RoomIsKept'
<1>t. /\ TypeOK /\ IInv /\ NoCrashes /\ RoomIsKept
      /\ games \in [Channels -> Game \cup {NoGame}]
      /\ cmds \in [Commands -> {Idle} \cup InProgress]
      /\ Cardinality(Running) <= GameLimit
  BY DEF LimitInv, IInv, TypeOK, RoomIsKept
<1>n. Idle.pc = "idle" /\ NoGame.id = 0
  BY DEF Idle, NoGame
<1>g. \A c \in Channels : games'[c] = games[c] => (c \in Running' <=> c \in Running)
  BY DEF Running, Present
<1>s. ASSUME UNCHANGED games PROVE Running' = Running
  BY <1>s DEF Running, Present
<1>r. ASSUME NEW d \in Channels, games' = [games EXCEPT ![d] = NoGame]
      PROVE  Running' = Running \ {d}
  <2>1. d \notin Running'
    BY <1>t, <1>n, <1>r DEF Running, Present
  <2>2. \A c \in Channels \ {d} : games'[c] = games[c]
    BY <1>t, <1>r
  <2>3. Running \subseteq Channels /\ Running' \subseteq Channels
    BY DEF Running
  <2> QED BY <1>g, <2>1, <2>2, <2>3
<1>1. ASSUME NEW t \in Commands, NEW d \in Channels, NEW f \in Sources, StartCommand(t, d, f)
      PROVE  RoomIsKept'
  <2>1. UNCHANGED <<games, processVars>>
    BY <1>1 DEF StartCommand
  <2>2. cmds' = [cmds EXCEPT ![t] = [pc |-> "guild_check", ch |-> d, from |-> f, id |-> 0]]
    BY <1>1 DEF StartCommand
  <2>3. \A u \in Commands : cmds'[u].pc \in Passed => cmds'[u] = cmds[u]
    BY <1>t, <2>2 DEF Passed
  <2> QED BY <1>t, <1>s, <2>1, <2>3, RoomStays DEF processVars
<1>2. ASSUME NEW t \in Commands, GuildCheck(t) \/ GuildCheckSupersedes(t)
      PROVE  RoomIsKept'
  <2>1. /\ At(t, "guild_check") /\ AfterGuildCheck(t) /\ UNCHANGED processVars
    BY <1>2 DEF GuildCheck, GuildCheckSupersedes
  <2>2. \A u \in Commands \ {t} : cmds'[u] = cmds[u]
    BY <1>t, <2>1, GuildCheckDecides
  <2>3. Running' \subseteq Running
    <3>1. CASE GuildCheck(t)
      BY <1>s, <3>1 DEF GuildCheck
    <3>2. CASE GuildCheckSupersedes(t)
      BY <1>r, <3>2, FirstOtherIsOther DEF GuildCheckSupersedes, Supersedes
    <3> QED BY <1>2, <3>1, <3>2
  <2>4. CASE cmds'[t] = Idle
    <3>1. \A u \in Commands : cmds'[u].pc \in Passed => cmds'[u] = cmds[u]
      BY <1>n, <2>2, <2>4 DEF Passed
    <3> QED BY <1>t, <2>1, <2>3, <3>1, RoomStays DEF processVars
  <2>5. CASE ~GuildFull(t) /\ cmds'[t].pc = "run_check" /\ cmds'[t].ch = cmds[t].ch
    <3> PICK c : c = cmds[t].ch
      OBVIOUS
    <3> PICK R : R = Running'
      OBVIOUS
    <3>1. IsFiniteSet(R) /\ Cardinality(R) \in Nat /\ Cardinality(R) <= Cardinality(Running)
      BY <2>3, RunningIsFinite, FS_CardinalityType
    <3>2. Cardinality(R \ {c}) < GameLimit
      <4>1. CASE GuildCheck(t)
        <5>1. Cardinality(Running \ {c}) < GameLimit
          BY <4>1, <2>5, CountedRoom DEF GuildCheck
        <5>2. R = Running
          BY <4>1, <1>s DEF GuildCheck
        <5> QED BY <5>1, <5>2
      <4>2. CASE GuildCheckSupersedes(t)
        <5>1. PICK d \in Running : d = FirstOther(c) /\ Cardinality(Running \ {d}) < GameLimit
          BY <1>t, <4>2, SupersededRoom DEF GuildCheckSupersedes
        <5>2. d \in Channels /\ games' = [games EXCEPT ![d] = NoGame]
          BY <4>2, <5>1 DEF GuildCheckSupersedes, Running
        <5>3. R = Running \ {d}
          BY <1>r, <5>2
        <5>4. R \ {c} \in SUBSET R
          OBVIOUS
        <5>5. IsFiniteSet(R \ {c}) /\ Cardinality(R \ {c}) <= Cardinality(R)
          BY <3>1, <5>4, FS_Subset
        <5>6. Cardinality(R \ {c}) \in Nat /\ GameLimit \in Nat
          BY <5>5, FS_CardinalityType DEF GameLimit
        <5> QED BY <3>1, <5>1, <5>3, <5>5, <5>6
      <4> QED BY <1>2, <4>1, <4>2
    <3>3. \A u \in Commands \ {t} : cmds'[u].pc \notin Passed
      <4>1. cmds[t] # Idle
        BY <1>n, <2>1 DEF At
      <4>2. \A u \in Commands \ {t} : cmds[u] = Idle
        BY <4>1 DEF OneAtATime
      <4> QED BY <1>n, <2>2, <4>2 DEF Passed
    <3>4. GameLimit' = GameLimit /\ phase' = phase /\ resuming' = resuming /\ GameLimit \in Nat
      BY <2>1 DEF GameLimit, processVars
    <3>5. Cardinality(R) <= GameLimit
      BY <1>t, <3>1, <3>4, RunningIsFinite
    <3>6. phase' = "ready" /\ resuming' = NoRows
      BY <1>t, <3>4 DEF RoomIsKept
    <3> QED BY <2>5, <3>2, <3>3, <3>4, <3>5, <3>6 DEF RoomIsKept, NoRows, Passed
  <2> QED BY <1>t, <2>1, <2>4, <2>5, GuildCheckDecides
<1>3. ASSUME NEW t \in Commands, RunCheck(t) \/ LogEnd(t) \/ Validate(t) \/ LogStart(t)
      PROVE  RoomIsKept'
  <2>1. UNCHANGED <<games, processVars>>
    BY <1>3 DEF RunCheck, LogEnd, Validate, LogStart
  <2>2. \/ Return(t)
        \/ cmds[t].pc \in Passed /\ \E pc \in PCs : Goto(t, pc)
    BY <1>3 DEF RunCheck, LogEnd, Validate, LogStart, At, PCs, Passed
  <2>3. CASE Return(t)
    <3>1. \A u \in Commands : cmds'[u].pc \in Passed => cmds'[u] = cmds[u]
      BY <1>t, <1>n, <2>3, Returns DEF Passed
    <3> QED BY <1>t, <1>s, <2>1, <3>1, RoomStays DEF processVars
  <2>4. CASE cmds[t].pc \in Passed /\ \E pc \in PCs : Goto(t, pc)
    <3>1. /\ cmds'[t].ch = cmds[t].ch
          /\ \A u \in Commands \ {t} : cmds'[u] = cmds[u]
      BY <1>t, <2>4, GoesOn DEF Passed
    <3>2. \A u \in Commands : cmds'[u].pc \in Passed =>
              cmds[u].pc \in Passed /\ cmds'[u].ch = cmds[u].ch
      BY <2>4, <3>1
    <3> QED BY <1>t, <1>s, <2>1, <3>2, RoomStays DEF processVars
  <2> QED BY <2>2, <2>3, <2>4
<1>4. ASSUME NEW t \in Commands, InsertGame(t)
      PROVE  RoomIsKept'
  <2>1. /\ UNCHANGED processVars /\ cmds[t].pc = "insert"
        /\ cmds' = [cmds EXCEPT ![t] = [cmds[t] EXCEPT !.pc = "log_start", !.id = Len(begun')]]
        /\ games' = [games EXCEPT ![cmds[t].ch] = NewGame(Len(begun'), "started")]
    BY <1>4 DEF InsertGame, At
  <2>2. PICK c \in Channels : c = cmds[t].ch
    BY <1>t, <2>1, CommandInProgress
  <2>3. Cardinality(Running \ {c}) < GameLimit
    BY <1>t, <2>1, <2>2 DEF RoomIsKept, Passed
  <2> PICK R : R = Running'
    OBVIOUS
  <2>4. R \subseteq (Running \ {c}) \cup {c}
    <3>1. \A d \in Channels \ {c} : games'[d] = games[d]
      BY <1>t, <2>1, <2>2
    <3>2. R \subseteq Channels
      BY DEF Running
    <3> QED BY <1>g, <3>1, <3>2
  <2>5. Cardinality(R) <= GameLimit
    BY <2>3, <2>4, InsertedGame
  <2>6. \A u \in Commands : cmds'[u].pc \notin Passed
    <3>1. cmds[t] # Idle /\ cmds[t] \in InProgress
      BY <1>t, <2>1, CommandInProgress
    <3>2. \A u \in Commands \ {t} : cmds[u] = Idle
      BY <3>1 DEF OneAtATime
    <3>3. [cmds[t] EXCEPT !.pc = "log_start", !.id = Len(begun')].pc = "log_start"
      BY <3>1 DEF InProgress
    <3>4. \A u \in Commands \ {t} : cmds'[u] = Idle
      BY <1>t, <2>1, <3>2
    <3>5. cmds'[t].pc = "log_start"
      BY <1>t, <2>1, <3>3
    <3> QED BY <1>n, <3>4, <3>5 DEF Passed
  <2>7. GameLimit' = GameLimit /\ phase' = "ready" /\ resuming' = NoRows
    BY <1>t, <2>1 DEF GameLimit, processVars, RoomIsKept
  <2> QED BY <2>5, <2>6, <2>7 DEF RoomIsKept, NoRows, Passed
<1>5. ASSUME NEW d \in Channels, StopCommand(d) \/ GameOver(d)
      PROVE  RoomIsKept'
  <2>1. UNCHANGED <<cmds, processVars>>
    BY <1>5 DEF StopCommand, GameOver
  <2>2. Running' \subseteq Running
    <3>1. /\ Present(d)
          /\ \/ games' = [games EXCEPT ![d] = [games[d] EXCEPT !.terminating = TRUE]]
             \/ games' = [games EXCEPT ![d] = [games[d] EXCEPT !.ended = TRUE]]
      BY <1>5 DEF StopCommand, GameOver
    <3>2. \A c \in Channels \ {d} : games'[c] = games[c]
      BY <1>t, <3>1
    <3>3. games'[d].ended = FALSE => games[d].ended = FALSE
      <4>1. games[d] \in Game
        BY <1>t, <3>1, PresentGame
      <4>2. /\ [games[d] EXCEPT !.terminating = TRUE].ended = games[d].ended
            /\ [games[d] EXCEPT !.ended = TRUE].ended = TRUE
        BY <4>1, MarkedGames
      <4> QED BY <1>t, <3>1, <4>2
    <3>4. games[d].ended \in BOOLEAN /\ games'[d].ended \in BOOLEAN
      <4>1. games[d] \in Game
        BY <1>t, <3>1, PresentGame
      <4>2. games'[d] \in Game
        BY <1>t, <3>1, <4>1, MarkedGames
      <4> QED BY <4>1, <4>2 DEF Game
    <3>5. d \in Running' => d \in Running
      BY <3>1, <3>3, <3>4 DEF Running, Present
    <3>6. Running' \subseteq Channels
      BY DEF Running
    <3> QED BY <1>g, <3>2, <3>5, <3>6
  <2> QED BY <1>t, <2>1, <2>2, RoomStays DEF processVars
<1>6. ASSUME NEW d \in Channels, Tick(d)
      PROVE  RoomIsKept'
  <2>1. UNCHANGED <<cmds, processVars>> /\ games' = [games EXCEPT ![d] = NoGame]
    BY <1>6 DEF Tick, TickEnded, TickStopped
  <2> QED BY <1>t, <1>r, <2>1, RoomStays DEF processVars
<1>7. ASSUME BackgroundThread \/ UNCHANGED vars
      PROVE  RoomIsKept'
  <2>1. UNCHANGED <<games, cmds, processVars>>
    BY <1>7 DEF BackgroundThread, vars
  <2> QED BY <1>t, <1>s, <2>1, RoomStays DEF processVars
<1>8. ASSUME Crash \/ Restart \/ AllShardsReady \/ \E d \in Channels : Resume(d)
      PROVE  FALSE
  <2>1. phase = "ready" /\ resuming = NoRows /\ crashes \in 0..0 /\ MaxCrashes = 0
    BY <1>t DEF RoomIsKept, NoCrashes, TypeOK
  <2>2. CASE Crash
    BY <2>1, <2>2 DEF Crash
  <2>3. CASE Restart \/ AllShardsReady
    BY <2>1, <2>3 DEF Restart, AllShardsReady
  <2>4. ASSUME NEW d \in Channels, Resume(d) PROVE FALSE
    BY <2>1, <2>4 DEF Resume, NoRows
  <2> QED BY <1>8, <2>2, <2>3, <2>4
<1> QED
  BY <1>1, <1>2, <1>3, <1>4, <1>5, <1>6, <1>7, <1>8 DEF Next, StartStep

(* Where the start commands of a guild do not overlap and nothing crashes,  *)
(* its games never exceed the limit, with and without premium, and whatever *)
(* the dashboard's starts supersede (NOWAY and TOO_MANY_PREM of lang.json). *)
(* Two overlapping starts both pass the check, and a resumption does not    *)
(* check: the hypotheses exclude them.                                      *)
THEOREM LimitHolds ==
    NoCrashes /\ Spec /\ []OneAtATime => []WithinGameLimit
<1>1. Init /\ NoCrashes => LimitInv
  <2> SUFFICES ASSUME Init, NoCrashes PROVE RoomIsKept
    BY InitIInv DEF LimitInv
  <2>1. Running = {}
    BY DEF Init, Running, Present, NoGame
  <2>2. Running \ {0} = {} /\ GameLimit \in Nat
    BY <2>1 DEF GameLimit
  <2> QED BY <2>1, <2>2, FS_EmptySet DEF Init, RoomIsKept, Passed, Idle
<1>2. LimitInv /\ OneAtATime /\ [Next]_vars => LimitInv'
  BY NextIInv, NextRoomIsKept DEF LimitInv, NoCrashes
<1>3. LimitInv => WithinGameLimit
  <2> SUFFICES ASSUME LimitInv PROVE WithinGameLimit
    OBVIOUS
  <2> PICK A : A = {c \in Channels : Active(c)}
    OBVIOUS
  <2>1. A \subseteq Running
    BY DEF Active, Running
  <2>2. Cardinality(A) <= Cardinality(Running) /\ IsFiniteSet(A)
    BY <2>1, RunningIsFinite
  <2>3. Cardinality(A) \in Nat /\ Cardinality(Running) \in Nat /\ GameLimit \in Nat
    BY <2>2, RunningIsFinite, FS_CardinalityType DEF GameLimit
  <2>4. Cardinality(Running) <= GameLimit
    BY DEF LimitInv, RoomIsKept
  <2> QED BY <2>2, <2>3, <2>4 DEF WithinGameLimit
<1> QED BY <1>1, <1>2, <1>3, PTL DEF Spec

-----------------------------------------------------------------------------
(* The promises to the guild's channels *)

(* A game is named in the channel it was begun in; 0 names no game.         *)
Home(b, i, c) == i = 0 \/ (i \in 1..Len(b) /\ b[i] = c)

(* Whatever still names a game names it in its channel: the map of games,   *)
(* the table and what was read from it, the queries that wait, and the      *)
(* commands in progress.  A row is resumed as it was read, and is read as   *)
(* it was written, perhaps several crashes earlier: so all of them count.   *)
HomesKnown ==
    /\ \A c \in Channels :
         Home(begun, games[c].id, c) /\ Home(begun, rows[c], c) /\ Home(begun, resuming[c], c)
    /\ \A i \in 1..Len(queue) : Home(begun, queue[i].id, queue[i].ch)
    /\ \A t \in Commands : Home(begun, cmds[t].id, cmds[t].ch)

(* Games that begin leave the others at home.                               *)
LEMMA HomesStay ==
    ASSUME TypeOK, NEW i, NEW c, Home(begun, i, c),
           \/ UNCHANGED begun
           \/ \E d \in Channels : begun' = Append(begun, d)
    PROVE  Home(begun', i, c)
  <1>1. CASE UNCHANGED begun
    BY <1>1 DEF Home
  <1>2. ASSUME NEW d \in Channels, begun' = Append(begun, d)
        PROVE  Home(begun', i, c)
    <2>1. begun \in Seq(Channels) /\ Len(begun) \in Nat
      BY DEF TypeOK
    <2>2. Len(begun') = Len(begun) + 1 /\ \A j \in 1..Len(begun) : begun'[j] = begun[j]
      BY <1>2, <2>1
    <2> QED BY <2>1, <2>2 DEF Home
  <1> QED BY <1>1, <1>2

(* A query that is queued names a game at home, if any.                     *)
LEMMA QueuedHomes ==
    ASSUME TypeOK, HomesKnown, UNCHANGED begun, NEW q \in Query, Enqueue(q),
           Home(begun, q.id, q.ch)
    PROVE  \A i \in 1..Len(queue') : Home(begun', queue'[i].id, queue'[i].ch)
  <1>1. queue \in Seq(Query)
    BY DEF TypeOK
  <1>2. /\ Len(queue) \in Nat /\ Len(queue') = Len(queue) + 1
        /\ queue'[Len(queue) + 1] = q
        /\ \A i \in 1..Len(queue) : queue'[i] = queue[i]
    BY <1>1, Queued
  <1> QED BY <1>2 DEF HomesKnown, Home

(* A query to delete a row names no game.                                   *)
LEMMA DeleteHomes ==
    ASSUME TypeOK, HomesKnown, UNCHANGED begun, NEW c \in Channels, Enqueue(Delete(c))
    PROVE  \A i \in 1..Len(queue') : Home(begun', queue'[i].id, queue'[i].ch)
  <1>1. Delete(c) \in Query /\ Delete(c).id = 0
    BY LifecycleAssumption, Queries DEF Delete
  <1> QED BY <1>1, QueuedHomes DEF Home

(* Of the commands, those that have not changed, or are idle, or keep what  *)
(* they know, are at home.                                                  *)
LEMMA CommandHomes ==
    ASSUME TypeOK, HomesKnown, UNCHANGED begun,
           \A t \in Commands :
             \/ cmds'[t].id = 0
             \/ cmds'[t].id = cmds[t].id /\ cmds'[t].ch = cmds[t].ch
    PROVE  \A t \in Commands : Home(begun', cmds'[t].id, cmds'[t].ch)
  BY DEF HomesKnown, Home

(* The games of channels, without a new one.                                *)
LEMMA GameHomes ==
    ASSUME TypeOK, HomesKnown, UNCHANGED begun,
           \A c \in Channels :
             games'[c].id = 0 \/ games'[c].id = games[c].id \/ games'[c].id = resuming[c]
    PROVE  \A c \in Channels : Home(begun', games'[c].id, c)
  BY DEF HomesKnown, Home

(* A step of a start command.                                               *)
LEMMA StartHomes ==
    ASSUME IInv, HomesKnown, NEW t \in Commands, StartStep(t)
    PROVE  HomesKnown'
<1>t. /\ TypeOK /\ InsertsNameGames /\ MaxGames \in Nat
      /\ games \in [Channels -> Game \cup {NoGame}] /\ queue \in Seq(Query)
      /\ cmds \in [Commands -> {Idle} \cup InProgress]
  BY LifecycleAssumption DEF IInv, TypeOK
<1>i. Idle.pc = "idle" /\ Idle.id = 0 /\ NoGame.id = 0
  BY DEF Idle, NoGame
<1>r. ASSUME Return(t)
      PROVE  \A u \in Commands : cmds'[u].id = 0 \/ cmds'[u] = cmds[u]
  BY <1>t, <1>i, <1>r, Returns
<1>g. ASSUME NEW pc \in PCs, Goto(t, pc), cmds[t].pc # "idle"
      PROVE  \A u \in Commands : cmds'[u].id = cmds[u].id /\ cmds'[u].ch = cmds[u].ch
  BY <1>t, <1>g, GoesOn
<1>1. ASSUME UNCHANGED <<rows, begun, processVars>>, GuildCheckSupersedes(t) PROVE HomesKnown'
  <2>1. At(t, "guild_check") /\ Supersedes(t) /\ AfterGuildCheck(t)
    BY <1>1 DEF GuildCheckSupersedes
  <2>2. PICK e \in Channels : e = FirstOther(cmds[t].ch)
    BY <2>1, FirstOtherIsOther DEF Supersedes
  <2>3. games' = [games EXCEPT ![e] = NoGame] /\ Enqueue(Delete(e))
    BY <1>1, <2>2 DEF GuildCheckSupersedes
  <2>4. \A c \in Channels : Home(begun', games'[c].id, c)
    BY <1>t, <1>i, <1>1, <2>3, GameHomes
  <2>5. \A i \in 1..Len(queue') : Home(begun', queue'[i].id, queue'[i].ch)
    BY <1>t, <1>1, <2>3, DeleteHomes
  <2>6. Return(t) \/ Goto(t, "run_check")
    BY <2>1 DEF AfterGuildCheck
  <2>7. \A u \in Commands : Home(begun', cmds'[u].id, cmds'[u].ch)
    BY <1>t, <1>r, <1>g, <1>1, <2>1, <2>6, CommandHomes DEF At, PCs
  <2> QED BY <1>1, <2>4, <2>5, <2>7 DEF HomesKnown, Home, processVars
<1>2. ASSUME GuildCheck(t) \/ RunCheck(t) \/ Validate(t) PROVE HomesKnown'
  <2>1. UNCHANGED <<games, rows, queue, begun, processVars>> /\ cmds[t].pc # "idle"
    BY <1>2 DEF GuildCheck, RunCheck, Validate, At
  <2>2. Return(t) \/ \E pc \in PCs : Goto(t, pc)
    BY <1>2 DEF GuildCheck, RunCheck, Validate, AfterGuildCheck, PCs
  <2>3. \A u \in Commands : Home(begun', cmds'[u].id, cmds'[u].ch)
    BY <1>t, <1>r, <1>g, <2>1, <2>2, CommandHomes
  <2> QED BY <2>1, <2>3 DEF HomesKnown, Home, processVars
<1>3. ASSUME LogEnd(t) PROVE HomesKnown'
  <2>1. /\ UNCHANGED <<games, rows, begun, processVars>> /\ cmds[t].pc # "idle"
        /\ Goto(t, "validate") /\ Enqueue(Delete(cmds[t].ch))
    BY <1>3 DEF LogEnd, At
  <2>2. PICK c \in Channels : c = cmds[t].ch
    BY <1>t, <2>1, CommandInProgress
  <2>3. \A i \in 1..Len(queue') : Home(begun', queue'[i].id, queue'[i].ch)
    BY <1>t, <2>1, <2>2, DeleteHomes
  <2>4. \A u \in Commands : Home(begun', cmds'[u].id, cmds'[u].ch)
    BY <1>t, <1>g, <2>1, CommandHomes DEF PCs
  <2> QED BY <2>1, <2>3, <2>4 DEF HomesKnown, Home, processVars
<1>4. ASSUME InsertGame(t) PROVE HomesKnown'
  <2>1. /\ UNCHANGED <<rows, queue, resuming>> /\ cmds[t].pc # "idle"
        /\ begun' = Append(begun, cmds[t].ch)
        /\ games' = [games EXCEPT ![cmds[t].ch] = NewGame(Len(begun'), "started")]
        /\ cmds' = [cmds EXCEPT ![t] = [cmds[t] EXCEPT !.pc = "log_start", !.id = Len(begun')]]
    BY <1>4 DEF InsertGame, At, processVars
  <2>2. PICK c \in Channels : c = cmds[t].ch
    BY <1>t, <2>1, CommandInProgress
  <2>3. PICK n : n = Len(begun')
    OBVIOUS
  <2>4. Home(begun', n, c)
    <3>1. begun \in Seq(Channels)
      BY <1>t DEF TypeOK
    <3>2. n \in 1..Len(begun') /\ begun'[n] = c
      BY <2>1, <2>2, <2>3, <3>1
    <3> QED BY <3>2 DEF Home
  <2>5. \A i, d : Home(begun, i, d) => Home(begun', i, d)
    BY <1>t, <2>1, <2>2, HomesStay
  <2>6. /\ games'[c].id = n /\ \A d \in Channels \ {c} : games'[d] = games[d]
    BY <1>t, <2>1, <2>2, <2>3 DEF NewGame
  <2>7. cmds'[t].id = n /\ cmds'[t].ch = c /\ \A u \in Commands \ {t} : cmds'[u] = cmds[u]
    <3>1. cmds[t] \in InProgress
      BY <1>t, <2>1, CommandInProgress
    <3>2. /\ [cmds[t] EXCEPT !.pc = "log_start", !.id = n].id = n
          /\ [cmds[t] EXCEPT !.pc = "log_start", !.id = n].ch = c
      BY <2>2, <3>1 DEF InProgress
    <3> QED BY <1>t, <2>1, <2>3, <3>2
  <2>8. \A d \in Channels : Home(begun', games'[d].id, d) /\ Home(begun', rows'[d], d) /\ Home(begun', resuming'[d], d)
    BY <2>1, <2>4, <2>5, <2>6 DEF HomesKnown
  <2>9. \A i \in 1..Len(queue') : Home(begun', queue'[i].id, queue'[i].ch)
    BY <2>1, <2>5 DEF HomesKnown
  <2>10. \A u \in Commands : Home(begun', cmds'[u].id, cmds'[u].ch)
    BY <2>4, <2>5, <2>7 DEF HomesKnown
  <2> QED BY <2>8, <2>9, <2>10 DEF HomesKnown, Home
<1>5. ASSUME LogStart(t) PROVE HomesKnown'
  <2>1. /\ UNCHANGED <<games, rows, begun, processVars>> /\ cmds[t].pc # "idle"
        /\ Enqueue(Insert(cmds[t].ch, cmds[t].id)) /\ Return(t)
    BY <1>5 DEF LogStart, At
  <2>2. PICK c \in Channels, i \in 0..MaxGames : c = cmds[t].ch /\ i = cmds[t].id
    BY <1>t, <2>1, CommandInProgress
  <2>3. Insert(c, i) \in Query /\ Insert(c, i).id = i /\ Insert(c, i).ch = c
    BY <1>t, Queries DEF Insert
  <2>4. Home(begun, i, c)
    BY <2>2 DEF HomesKnown
  <2>5. \A j \in 1..Len(queue') : Home(begun', queue'[j].id, queue'[j].ch)
    BY <1>t, <2>1, <2>2, <2>3, <2>4, QueuedHomes
  <2>6. \A u \in Commands : Home(begun', cmds'[u].id, cmds'[u].ch)
    BY <1>t, <1>r, <2>1, CommandHomes
  <2> QED BY <2>1, <2>5, <2>6 DEF HomesKnown, Home, processVars
<1>6. ASSUME GuildCheckSupersedes(t) PROVE UNCHANGED <<rows, begun, processVars>>
  BY <1>6 DEF GuildCheckSupersedes
<1> QED BY <1>1, <1>2, <1>3, <1>4, <1>5, <1>6 DEF StartStep

(* The other steps.                                                         *)
LEMMA OtherHomes ==
    ASSUME IInv, HomesKnown,
           \/ \E t \in Commands, c \in Channels, f \in Sources : StartCommand(t, c, f)
           \/ \E c \in Channels : StopCommand(c) \/ GameOver(c) \/ Tick(c) \/ Resume(c)
           \/ BackgroundThread \/ Crash \/ Restart \/ AllShardsReady
           \/ UNCHANGED vars
    PROVE  HomesKnown'
<1>t. /\ TypeOK /\ MaxGames \in Nat
      /\ games \in [Channels -> Game \cup {NoGame}] /\ queue \in Seq(Query)
      /\ cmds \in [Commands -> {Idle} \cup InProgress]
      /\ rows \in [Channels -> 0..MaxGames] /\ resuming \in [Channels -> 0..MaxGames]
  BY LifecycleAssumption DEF IInv, TypeOK
<1>i. Idle.id = 0 /\ NoGame.id = 0
  BY DEF Idle, NoGame
<1>1. ASSUME NEW t \in Commands, NEW c \in Channels, NEW f \in Sources, StartCommand(t, c, f)
      PROVE  HomesKnown'
  <2>1. /\ UNCHANGED <<games, rows, queue, begun, processVars>>
        /\ cmds' = [cmds EXCEPT ![t] = [pc |-> "guild_check", ch |-> c, from |-> f, id |-> 0]]
    BY <1>1 DEF StartCommand
  <2>2. \A u \in Commands : cmds'[u].id = 0 \/ cmds'[u] = cmds[u]
    BY <1>t, <2>1
  <2>3. \A u \in Commands : Home(begun', cmds'[u].id, cmds'[u].ch)
    BY <1>t, <2>1, <2>2, CommandHomes
  <2> QED BY <2>1, <2>3 DEF HomesKnown, Home, processVars
<1>2. ASSUME NEW c \in Channels, StopCommand(c) PROVE HomesKnown'
  <2>1. /\ UNCHANGED <<rows, cmds, begun, resuming>> /\ Present(c)
        /\ games' = [games EXCEPT ![c] = [games[c] EXCEPT !.terminating = TRUE]]
        /\ Enqueue(Delete(c))
    BY <1>2 DEF StopCommand, processVars
  <2>2. [games[c] EXCEPT !.terminating = TRUE].id = games[c].id
    BY <1>t, <2>1, PresentGame, MarkedGames
  <2>3. \A d \in Channels : Home(begun', games'[d].id, d)
    BY <1>t, <2>1, <2>2, GameHomes
  <2>4. \A i \in 1..Len(queue') : Home(begun', queue'[i].id, queue'[i].ch)
    BY <1>t, <2>1, DeleteHomes
  <2> QED BY <2>1, <2>3, <2>4 DEF HomesKnown, Home
<1>3. ASSUME NEW c \in Channels, GameOver(c) PROVE HomesKnown'
  <2>1. /\ UNCHANGED <<rows, queue, cmds, begun, resuming>> /\ Present(c)
        /\ games' = [games EXCEPT ![c] = [games[c] EXCEPT !.ended = TRUE]]
    BY <1>3 DEF GameOver, processVars
  <2>2. [games[c] EXCEPT !.ended = TRUE].id = games[c].id
    BY <1>t, <2>1, PresentGame, MarkedGames
  <2>3. \A d \in Channels : Home(begun', games'[d].id, d)
    BY <1>t, <2>1, <2>2, GameHomes
  <2> QED BY <2>1, <2>3 DEF HomesKnown, Home
<1>4. ASSUME NEW c \in Channels, Tick(c) PROVE HomesKnown'
  <2>1. /\ UNCHANGED <<rows, cmds, begun, resuming>>
        /\ games' = [games EXCEPT ![c] = NoGame]
        /\ Enqueue(Delete(c)) \/ UNCHANGED queue
    BY <1>4 DEF Tick, TickEnded, TickStopped, processVars
  <2>2. \A d \in Channels : Home(begun', games'[d].id, d)
    BY <1>t, <1>i, <2>1, GameHomes
  <2>3. \A i \in 1..Len(queue') : Home(begun', queue'[i].id, queue'[i].ch)
    <3>1. CASE Enqueue(Delete(c))
      BY <1>t, <2>1, <3>1, DeleteHomes
    <3>2. CASE UNCHANGED queue
      BY <2>1, <3>2 DEF HomesKnown, Home
    <3> QED BY <2>1, <3>1, <3>2
  <2> QED BY <2>1, <2>2, <2>3 DEF HomesKnown, Home
<1>5. ASSUME NEW c \in Channels, Resume(c) PROVE HomesKnown'
  <2>1. /\ UNCHANGED <<rows, queue, cmds, begun>>
        /\ resuming' = [resuming EXCEPT ![c] = 0] /\ resuming[c] # 0
        /\ \/ UNCHANGED games
           \/ \E failed \in BOOLEAN :
                games' = [games EXCEPT ![c] =
                    [NewGame(resuming[c], "resumed") EXCEPT !.ended = failed]]
    BY <1>5 DEF Resume
  <2>2. resuming[c] \in GameIds
    BY <1>t, <2>1 DEF GameIds
  <2>3. \A failed \in BOOLEAN :
          [NewGame(resuming[c], "resumed") EXCEPT !.ended = failed].id = resuming[c]
    BY <2>2, NewGames
  <2>4. \A d \in Channels : games'[d].id = games[d].id \/ games'[d].id = resuming[d]
    BY <1>t, <2>1, <2>3
  <2>5. \A d \in Channels : Home(begun', games'[d].id, d)
    BY <1>t, <2>1, <2>4, GameHomes
  <2>6. \A d \in Channels : resuming'[d] = 0 \/ resuming'[d] = resuming[d]
    BY <1>t, <2>1
  <2> QED BY <2>1, <2>5, <2>6 DEF HomesKnown, Home
<1>6. ASSUME BackgroundThread PROVE HomesKnown'
  <2>1. /\ UNCHANGED <<games, cmds, begun, resuming>> /\ queue # <<>>
        /\ rows' = [rows EXCEPT ![Head(queue).ch] = Executed(Head(queue))]
        /\ queue' = Tail(queue)
    BY <1>6 DEF BackgroundThread, processVars
  <2>2. /\ Head(queue) \in Query /\ Head(queue) = queue[1]
        /\ Len(queue) \in Nat /\ Len(queue) >= 1 /\ Len(queue') = Len(queue) - 1
        /\ \A i \in 1..Len(queue') : queue'[i] = queue[i + 1]
    BY <1>t, <2>1, Dequeued
  <2>3. PICK q \in Query : q = Head(queue)
    BY <2>2
  <2>4. Home(begun, q.id, q.ch)
    BY <2>2, <2>3 DEF HomesKnown
  <2>5. Executed(q) \in {0, q.id, rows[q.ch]}
    BY <2>3 DEF Executed, Query
  <2>6. \A d \in Channels : Home(begun, rows'[d], d)
    <3>1. rows' = [rows EXCEPT ![q.ch] = Executed(q)]
      BY <2>1, <2>3
    <3> QED BY <1>t, <2>4, <2>5, <3>1 DEF HomesKnown, Home
  <2>7. \A i \in 1..Len(queue') : Home(begun, queue'[i].id, queue'[i].ch)
    <3>1. \A i \in 1..Len(queue') : i + 1 \in 1..Len(queue)
      BY <2>2
    <3> QED BY <2>2, <3>1 DEF HomesKnown
  <2> QED BY <2>1, <2>6, <2>7 DEF HomesKnown
<1>7. ASSUME Crash PROVE HomesKnown'
  <2>1. /\ UNCHANGED <<rows, begun>> /\ queue' = <<>> /\ resuming' = NoRows
        /\ games' = [c \in Channels |-> NoGame] /\ cmds' = [t \in Commands |-> Idle]
    BY <1>7 DEF Crash
  <2> QED BY <1>i, <2>1 DEF HomesKnown, Home, NoRows
<1>8. ASSUME Restart \/ AllShardsReady PROVE HomesKnown'
  <2>1. UNCHANGED <<games, rows, queue, cmds, begun>> /\ resuming' \in {resuming, rows}
    BY <1>8 DEF Restart, AllShardsReady
  <2> QED BY <2>1 DEF HomesKnown
<1>9. ASSUME UNCHANGED vars PROVE HomesKnown'
  BY <1>9 DEF vars, processVars, HomesKnown
<1> QED BY <1>1, <1>2, <1>3, <1>4, <1>5, <1>6, <1>7, <1>8, <1>9

(* Every game is named in its channel only, whatever overlaps.              *)
LEMMA NextHomes == IInv /\ HomesKnown /\ [Next]_vars => HomesKnown'
  BY StartHomes, OtherHomes DEF Next

(* The game that is played in a channel.                                    *)
Played(c) == IF Active(c) THEN games[c].id ELSE 0

(* A step that changes one channel's game changes what is played there.     *)
LEMMA OnePlays ==
    ASSUME TypeOK, NEW c \in Channels, NEW g \in Game \cup {NoGame},
           games' = [games EXCEPT ![c] = g]
    PROVE  /\ Played(c)' = IF g.id # 0 /\ ~g.ended /\ ~g.terminating THEN g.id ELSE 0
           /\ [d \in Channels |-> Played(d)]' =
                [[d \in Channels |-> Played(d)] EXCEPT ![c] = Played(c)']
  <1>1. games \in [Channels -> Game \cup {NoGame}]
    BY DEF TypeOK
  <1>2. games'[c] = g /\ \A d \in Channels \ {c} : games'[d] = games[d]
    BY <1>1
  <1>3. \A d \in Channels \ {c} : Played(d)' = Played(d)
    BY <1>2 DEF Played, Active, Present
  <1>4. Played(c)' = IF g.id # 0 /\ ~g.ended /\ ~g.terminating THEN g.id ELSE 0
    BY <1>2 DEF Played, Active, Present
  <1> QED BY <1>3, <1>4

(* Every step of the games is a step of the promises, or none.              *)
LEMMA GuildSteps ==
    ASSUME IInv, HomesKnown, [Next]_vars
    PROVE  [Guild!Next]_(Guild!guildVars)
<1> DEFINE playing == [c \in Channels |-> Played(c)]
<1>p. playing = [c \in Channels |-> IF Active(c) THEN games[c].id ELSE 0]
  BY DEF Played
<1>q. playing' = [c \in Channels |-> IF Active(c) THEN games[c].id ELSE 0]'
  BY DEF Played
<1>t. /\ TypeOK /\ MaxGames \in Nat /\ InsertsNameGames
      /\ games \in [Channels -> Game \cup {NoGame}] /\ NoGame \in Game \cup {NoGame}
      /\ resuming \in [Channels -> 0..MaxGames]
  BY LifecycleAssumption DEF IInv, TypeOK
<1>n. NoGame.id = 0
  BY DEF NoGame
<1>1. CASE UNCHANGED games /\ UNCHANGED begun
  <2>1. playing' = playing
    BY <1>1 DEF Played, Active, Present
  <2> QED BY <1>1, <1>p, <1>q, <2>1 DEF Guild!guildVars
<1>2. ASSUME NEW c \in Channels, NEW g \in Game \cup {NoGame}, UNCHANGED begun,
             games' = [games EXCEPT ![c] = g], g.id = 0 \/ g.ended \/ g.terminating
      PROVE  Guild!Next
  <2>1. Played(c)' = 0
    BY <1>t, <1>2, OnePlays
  <2>2. playing' = [playing EXCEPT ![c] = 0]
    BY <1>t, <1>2, <2>1, OnePlays
  <2>3. Guild!End(c)
    BY <1>2, <1>p, <1>q, <2>2 DEF Guild!End
  <2> QED BY <2>3 DEF Guild!Next
<1>3. ASSUME NEW t \in Commands, InsertGame(t)
      PROVE  Guild!Next
  <2>1. PICK c \in Channels : c = cmds[t].ch
    BY <1>t, <1>3, CommandInProgress DEF InsertGame, At
  <2>2. PICK n : n = Len(begun')
    OBVIOUS
  <2>3. /\ begun' = Append(begun, c) /\ Len(begun) < MaxGames
        /\ games' = [games EXCEPT ![c] = NewGame(n, "started")]
    BY <1>3, <2>1, <2>2 DEF InsertGame
  <2>4. n \in GameIds /\ n # 0
    <3>1. begun \in Seq(Channels) /\ Len(begun) \in Nat
      BY <1>t DEF TypeOK
    <3>2. n = Len(begun) + 1
      BY <2>2, <2>3, <3>1
    <3> QED BY <1>t, <2>3, <3>1, <3>2 DEF GameIds
  <2>5. PICK g \in Game : g = NewGame(n, "started")
    BY <2>4, NewGames
  <2>6. g.id = n /\ ~g.ended /\ ~g.terminating
    BY <2>5 DEF NewGame
  <2>7. Played(c)' = n
    BY <1>t, <2>3, <2>4, <2>5, <2>6, OnePlays
  <2>8. playing' = [playing EXCEPT ![c] = n]
    BY <1>t, <2>3, <2>5, <2>7, OnePlays
  <2>9. Guild!Begin(c)
    BY <1>p, <1>q, <2>2, <2>3, <2>8 DEF Guild!Begin
  <2> QED BY <2>9 DEF Guild!Next
<1>4. ASSUME NEW c \in Channels, Resume(c)
      PROVE  [Guild!Next]_(Guild!guildVars)
  <2>1. UNCHANGED begun /\ resuming[c] # 0
    BY <1>4 DEF Resume
  <2>2. CASE Present(c)
    BY <1>1, <1>4, <2>1, <2>2 DEF Resume
  <2>3. CASE ~Present(c)
    <3>1. PICK failed \in BOOLEAN :
            games' = [games EXCEPT ![c] =
                [NewGame(resuming[c], "resumed") EXCEPT !.ended = failed]]
      BY <1>4, <2>3 DEF Resume
    <3>2. PICK i \in GameIds : i = resuming[c]
      BY <1>t, <2>1 DEF GameIds
    <3>3. PICK g \in Game : g = [NewGame(i, "resumed") EXCEPT !.ended = failed]
      BY <3>2, NewGames
    <3>4. g.id = i /\ g.ended = failed /\ ~g.terminating
      BY <3>3 DEF NewGame
    <3>5. games' = [games EXCEPT ![c] = g]
      BY <3>1, <3>2, <3>3
    <3>6. CASE failed
      BY <1>2, <2>1, <3>4, <3>5, <3>6
    <3>7. CASE ~failed
      <4>1. i # 0 /\ i \in 1..Len(begun) /\ begun[i] = c
        BY <2>1, <3>2 DEF HomesKnown, Home
      <4>2. Played(c)' = i
        BY <1>t, <3>4, <3>5, <3>7, <4>1, OnePlays
      <4>3. playing' = [playing EXCEPT ![c] = i]
        BY <1>t, <3>5, <4>2, OnePlays
      <4>4. playing[c] = 0
        BY <2>3 DEF Played, Active
      <4>5. i \in DOMAIN begun
        <5>1. begun \in Seq(Channels)
          BY <1>t DEF TypeOK
        <5> QED BY <4>1, <5>1
      <4>6. Guild!Resume(c)
        BY <1>p, <1>q, <2>1, <4>1, <4>3, <4>4, <4>5 DEF Guild!Resume
      <4> QED BY <4>6 DEF Guild!Next
    <3> QED BY <3>6, <3>7
  <2> QED BY <2>2, <2>3
<1>5. ASSUME Crash
      PROVE  Guild!Next
  <2>1. UNCHANGED begun /\ games' = [c \in Channels |-> NoGame]
    BY <1>5 DEF Crash
  <2>2. playing' = [c \in Channels |-> 0]
    BY <1>n, <2>1 DEF Played, Active, Present
  <2>3. Guild!EndAll
    BY <1>p, <1>q, <2>1, <2>2 DEF Guild!EndAll, Guild!Nothing
  <2> QED BY <2>3 DEF Guild!Next
<1>6. ASSUME NEW t \in Commands, GuildCheckSupersedes(t)
      PROVE  Guild!Next
  <2>1. PICK d \in Channels : UNCHANGED begun /\ games' = [games EXCEPT ![d] = NoGame]
    BY <1>6, FirstOtherIsOther DEF GuildCheckSupersedes, Supersedes
  <2> QED BY <1>2, <1>n, <1>t, <2>1
<1>7. ASSUME NEW c \in Channels, StopCommand(c) \/ GameOver(c)
      PROVE  Guild!Next
  <2>1. /\ Present(c) /\ UNCHANGED begun
        /\ \/ games' = [games EXCEPT ![c] = [games[c] EXCEPT !.terminating = TRUE]]
           \/ games' = [games EXCEPT ![c] = [games[c] EXCEPT !.ended = TRUE]]
    BY <1>7 DEF StopCommand, GameOver
  <2>2. games[c] \in Game
    BY <1>t, <2>1, PresentGame
  <2>3. PICK g \in Game : games' = [games EXCEPT ![c] = g] /\ (g.ended \/ g.terminating)
    BY <2>1, <2>2, MarkedGames
  <2> QED BY <1>2, <2>1, <2>3
<1>8. ASSUME NEW c \in Channels, Tick(c)
      PROVE  Guild!Next
  <2>1. UNCHANGED begun /\ games' = [games EXCEPT ![c] = NoGame]
    BY <1>8 DEF Tick, TickEnded, TickStopped
  <2> QED BY <1>2, <1>n, <1>t, <2>1
<1>9. ASSUME NEW t \in Commands,
             GuildCheck(t) \/ RunCheck(t) \/ LogEnd(t) \/ Validate(t) \/ LogStart(t)
      PROVE  UNCHANGED games /\ UNCHANGED begun
  BY <1>9 DEF GuildCheck, RunCheck, LogEnd, Validate, LogStart
<1>10. ASSUME \/ \E t \in Commands, d \in Channels, f \in Sources : StartCommand(t, d, f)
              \/ BackgroundThread \/ Restart \/ AllShardsReady \/ UNCHANGED vars
       PROVE  UNCHANGED games /\ UNCHANGED begun
  BY <1>10 DEF StartCommand, BackgroundThread, Restart, AllShardsReady, vars
<1> HIDE DEF playing
<1> QED
  BY <1>1, <1>3, <1>4, <1>5, <1>6, <1>7, <1>8, <1>9, <1>10 DEF Next, StartStep

(* Whatever starts, stops, ends, crashes and resumptions overlap, for any   *)
(* number of channels, commands and crashes, the games of a guild keep the  *)
(* promises of GuildGames: a channel has one game, a game is begun once and *)
(* is played, and resumed, in the channel it was begun in.  What makes it   *)
(* so is that a game's number only travels with its channel: through the    *)
(* command, the waiting INSERT, the row and what is read of it.             *)
THEOREM GamesKeepGuildPromises == Spec => KeepsGuildPromises
<1>1. Init => IInv /\ HomesKnown /\ Guild!Init
  <2> SUFFICES ASSUME Init PROVE HomesKnown /\ Guild!Init
    BY InitIInv
  <2>1. HomesKnown
    BY DEF Init, HomesKnown, Home, NoGame, NoRows, Idle
  <2>2. \A c \in Channels : ~Active(c)
    BY DEF Init, Active, Present, NoGame
  <2> QED BY <2>1, <2>2 DEF Init, Guild!Init, Guild!Nothing
<1>2. IInv /\ HomesKnown /\ [Next]_vars => (IInv /\ HomesKnown)'
  BY NextIInv, NextHomes
<1>3. IInv /\ HomesKnown /\ [Next]_vars => [Guild!Next]_(Guild!guildVars)
  BY GuildSteps
<1> QED BY <1>1, <1>2, <1>3, PTL DEF Spec, KeepsGuildPromises, Guild!Spec
=============================================================================
