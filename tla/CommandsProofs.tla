---------------------------- MODULE CommandsProofs ----------------------------
(***************************************************************************)
(* The safety properties of Commands, for all threads, channels, settings, *)
(* categories and periods, and any number of commands, clicks, starts and  *)
(* events.                                                                 *)
(*                                                                         *)
(* The invariant has a part for each property: what the cache, the row and *)
(* the queue owe each other, what the limiter knows of its channels, which *)
(* categories will be enabled again, and which start the timer is at.      *)
(* ThreadMoves says once and for all what the step of a thread may do;     *)
(* each part follows from it and from the steps that touch its variables.  *)
(***************************************************************************)
EXTENDS Commands, SumTheorems, SequenceTheorems, TLAPS

-----------------------------------------------------------------------------
(* What the variables hold *)

Starts == [id : Nat, ch : Channels]
Queries == [op : {"insert row", "cache user", "privacy_mode", "give_coins", "kicked"}]
           \cup [op : {"update row"}, value : Values] \cup [op : {"enable"}, category : Categories]

CommandSteps ==
    {"settings", "erase", "query", "insert row", "store", "limit", "limited", "set limit", "warn",
     "call", "insert category", "count", "find", "copy", "delete menu", "save menu", "put menu",
     "delete start"}
Handled ==
    [do : {"any", "disable", "menu", "button", "select", "start"}, step : CommandSteps,
     ch : Channels, user : Users \cup {None}, from : {"user", "menu", "dashboard"},
     with : {None} \cup Nat \cup Categories \cup SUBSET Starts, settings : {None} \cup Values]

TimerSteps ==
    {"settings", "erase", "query", "insert row", "store", "limit", "limited", "set limit", "call",
     "delete start"}

(* What a command holds at its step, and the timer's when it starts games.  *)
Sensible(k) ==
    /\ k.from = "dashboard" => /\ k.do = "start" /\ k.step \in TimerSteps
                               /\ k.with \in SUBSET Starts /\ k.with # {}
                               /\ k.ch = FirstOf(k.with).ch
    /\ k.from \in {"user", "menu"} => k.user \in Users
    /\ k.do = "menu" \/ k.step \in {"save menu", "put menu"} => k.with \in Nat
    /\ k.step \in {"insert row", "store"} => k.settings \in Values
    /\ k.step = "delete start" => k.from = "dashboard"
    /\ k.step \in {"insert category", "count"} => k.with \in Categories

CommandsTypeOK ==
    /\ row \in [exists : BOOLEAN, value : Values]
    /\ settings_cache \in {None} \cup [value : Values, age : Nat]
    /\ held \in [Values -> Nat]
    /\ limits \in [Channels -> Nat] /\ last_rl_warning \in [Channels -> Nat]
    /\ spaced \in [Channels -> [limit : Nat, warning : Nat]]
    /\ disabled_categories \subseteq Categories
    /\ active_menus \in [Users -> {None} \cup Nat]
    /\ start_queue \subseteq Starts
    /\ bg \in Seq(Queries)
    /\ cmd \in [Threads -> {Idle} \cup Handled]
    /\ \A t \in Threads : Sensible(cmd[t])
    /\ begun \in Nat /\ events \in Nat

(* The row is no older than what was read from it.                          *)
CacheIsFresh ==
    /\ held[row.value] = 0
    /\ settings_cache # None => /\ held[settings_cache.value] <= settings_cache.age
                                /\ settings_cache.age <= Expiry + 1
    /\ \A t \in Threads : cmd[t].step \in {"insert row", "store"} => held[cmd[t].settings] = 0

(* The guild has a row, or will have one when the queue is executed.        *)
Inserting == \E i \in DOMAIN bg : bg[i].op = "insert row"
Insured == row.exists \/ Inserting

(* A command that has its settings.                                         *)
Past(k) == k.step \notin {"none", "settings", "erase", "query", "insert row"}
RowIsInsured == settings_cache # None \/ (\E t \in Threads : Past(cmd[t])) => Insured

(* The setting confirmed last is in the row, or the last update queued is   *)
(* its, and finds a row.                                                    *)
Updating(i) == bg[i].op = "update row"
LastUpdate(i) == Updating(i) /\ \A j \in DOMAIN bg : Updating(j) => j <= i
ConfirmedIsQueued ==
    confirmed # None =>
        \/ row.exists /\ row.value = confirmed /\ \A i \in DOMAIN bg : ~ Updating(i)
        \/ \E i \in DOMAIN bg :
               /\ LastUpdate(i) /\ bg[i].value = confirmed
               /\ row.exists \/ \E j \in DOMAIN bg : j < i /\ bg[j].op = "insert row"

(* Enough questions are left if the categories are enabled that are about   *)
(* to be, or that may still be found to leave too few.                      *)
ToEnable ==
    {c \in Categories :
        \/ \E i \in DOMAIN bg : bg[i].op = "enable" /\ bg[i].category = c
        \/ \E t \in Threads : cmd[t].step = "count" /\ cmd[t].with = c}
EnoughToBeLeft ==
    QuestionsOf(Categories \ (disabled_categories \ ToEnable)) >= MIN_QUESTIONS

(* The seconds since a limit was set are those it has run.                  *)
LimitsRun ==
    \A c \in Channels : /\ limits[c] + spaced[c].limit = Period
                        /\ last_rl_warning[c] + spaced[c].warning = Period

(* In a channel whose commands do not overlap, nothing comes between the    *)
(* look for a limit and the setting of it.                                  *)
InTurn ==
    \A t \in Threads : cmd[t].ch \in Channels \ overlapped =>
        /\ \A s \in Threads : cmd[s].ch = cmd[t].ch => s = t
        /\ cmd[t].step = "set limit" => limits[cmd[t].ch] = 0
        /\ cmd[t].step = "warn" => last_rl_warning[cmd[t].ch] = 0

(* The start the timer is about to delete was handled.                      *)
StartIsHandled ==
    \A t \in Threads : cmd[t].step = "delete start" => FirstOf(cmd[t].with) \in executed

CommandsInv ==
    /\ CommandsTypeOK /\ CacheIsFresh /\ RowIsInsured /\ ConfirmedIsQueued /\ EnoughToBeLeft
    /\ LimitsRun /\ InTurn /\ StartIsHandled

-----------------------------------------------------------------------------
(* Sums of questions *)

(* More categories have no fewer questions.                                 *)
LEMMA MoreQuestions ==
    ASSUME NEW T \in SUBSET Categories, NEW S \in SUBSET T
    PROVE  QuestionsOf(S) \in Nat /\ QuestionsOf(S) <= QuestionsOf(T)
  <1>1. IsFiniteSet(Categories) /\ \A c \in Categories : QuestionsIn[c] \in Nat
    BY CommandsAssumption DEF CommandsAssumption
  <1>2. QuestionsOf(S) = SumOf(QuestionsIn, S) /\ QuestionsOf(T) = SumOf(QuestionsIn, T)
    BY DEF QuestionsOf, SumOf
  <1>3. IsFiniteSet(S) /\ IsFiniteSet(T)
    BY <1>1, FS_Subset
  <1>4. \A p \in T : QuestionsIn[p] \in Nat
    BY <1>1
  <1>5. SumOf(QuestionsIn, S) \in Nat /\ SumOf(QuestionsIn, S) <= SumOf(QuestionsIn, T)
    BY <1>3, <1>4, SumGrows
  <1> QED BY <1>2, <1>5

-----------------------------------------------------------------------------
(* Starts and queries *)

(* There is a first one of any starts.                                      *)
LEMMA FirstIsOne ==
    ASSUME NEW S \in SUBSET Starts, S # {}
    PROVE  FirstOf(S) \in S
  <1> DEFINE T == {s.id : s \in S}
  <1>1. \A s \in S : s.id \in Nat
    BY DEF Starts
  <1>2. T \subseteq Nat /\ T # {}
    BY <1>1
  <1>3. PICK n \in T : \A m \in T : n <= m
    BY <1>2, LeastNumber
  <1>4. PICK s \in S : s.id = n
    BY <1>3
  <1>5. \A r \in S : s.id <= r.id
    BY <1>3, <1>4
  <1> QED BY <1>5 DEF FirstOf

(* What is where in the queue after queries were added.                     *)
LEMMA Added ==
    ASSUME bg \in Seq(Queries), NEW queries \in Seq(Queries), Queue(queries)
    PROVE  /\ bg' \in Seq(Queries)
           /\ \A i \in DOMAIN bg : i \in DOMAIN bg' /\ bg'[i] = bg[i]
           /\ \A j \in DOMAIN queries : Len(bg) + j \in DOMAIN bg' /\ bg'[Len(bg) + j] = queries[j]
           /\ \A i \in DOMAIN bg' : i \in DOMAIN bg \/ \E j \in DOMAIN queries : i = Len(bg) + j
           /\ \A i \in DOMAIN bg, j \in DOMAIN queries : i < Len(bg) + j
  <1>1. bg' = bg \o queries
    BY DEF Queue
  <1>2. /\ bg' \in Seq(Queries) /\ DOMAIN bg' = 1..(Len(bg) + Len(queries))
        /\ DOMAIN bg = 1..Len(bg) /\ DOMAIN queries = 1..Len(queries)
        /\ Len(bg) \in Nat /\ Len(queries) \in Nat
        /\ \A i \in 1..Len(bg) : bg'[i] = bg[i]
        /\ \A j \in 1..Len(queries) : bg'[Len(bg) + j] = queries[j]
    BY <1>1, ConcatProperties
  <1>3. \A i \in DOMAIN bg' : i \in DOMAIN bg \/ \E j \in DOMAIN queries : i = Len(bg) + j
    <2> TAKE i \in DOMAIN bg'
    <2>1. CASE i <= Len(bg)
      BY <1>2, <2>1
    <2>2. CASE ~ (i <= Len(bg))
      <3>1. i - Len(bg) \in 1..Len(queries) /\ i = Len(bg) + (i - Len(bg))
        BY <1>2, <2>2
      <3> QED BY <1>2, <3>1
    <2> QED BY <2>1, <2>2
  <1> QED BY <1>2, <1>3

(* What is where in the queue after its head was executed.                  *)
LEMMA Executed ==
    ASSUME bg \in Seq(Queries), bg # <<>>, bg' = Tail(bg)
    PROVE  /\ Head(bg) = bg[1] /\ bg[1] \in Queries /\ 1 \in DOMAIN bg /\ bg' \in Seq(Queries)
           /\ \A i \in DOMAIN bg' : i + 1 \in DOMAIN bg /\ bg'[i] = bg[i + 1] /\ i \in Nat \ {0}
           /\ \A i \in DOMAIN bg : i # 1 => /\ i - 1 \in DOMAIN bg' /\ bg'[i - 1] = bg[i]
                                            /\ i \in Nat \ {0}
  <1>1. /\ DOMAIN bg = 1..Len(bg) /\ DOMAIN bg' = 1..(Len(bg) - 1) /\ Len(bg) \in Nat \ {0}
        /\ \A i \in 1..(Len(bg) - 1) : bg'[i] = bg[i + 1]
        /\ bg' \in Seq(Queries) /\ Head(bg) = bg[1] /\ bg[1] \in Queries
    OBVIOUS
  <1>2. \A i \in DOMAIN bg : i # 1 => i - 1 \in 1..(Len(bg) - 1) /\ (i - 1) + 1 = i /\ i \in Nat \ {0}
    BY <1>1
  <1>3. \A i \in DOMAIN bg' : i + 1 \in DOMAIN bg /\ bg'[i] = bg[i + 1] /\ i \in Nat \ {0}
    BY <1>1
  <1> QED BY <1>1, <1>2, <1>3

(* A sequence of one query.                                                 *)
LEMMA OneQuery ==
    ASSUME NEW s, NEW p \in Queries, s = <<p>>
    PROVE  s \in Seq(Queries) /\ s[1] = p /\ 1 \in DOMAIN s /\ \A j \in DOMAIN s : j = 1
  <1>1. <<p>> \in Seq(Queries)
    OBVIOUS
  <1>2. DOMAIN <<p>> = {1} /\ <<p>>[1] = p
    OBVIOUS
  <1> QED BY <1>1, <1>2

(* A sequence of two queries.                                               *)
LEMMA TwoQueries ==
    ASSUME NEW s, NEW p \in Queries, NEW q \in Queries, s = <<p, q>>
    PROVE  /\ s \in Seq(Queries) /\ s[1] = p /\ s[2] = q /\ 1 \in DOMAIN s /\ 2 \in DOMAIN s
           /\ \A j \in DOMAIN s : j = 1 \/ j = 2
  <1>1. <<p, q>> \in Seq(Queries)
    OBVIOUS
  <1>2. DOMAIN <<p, q>> = {1, 2}
    OBVIOUS
  <1>3. <<p, q>>[1] = p /\ <<p, q>>[2] = q
    OBVIOUS
  <1> QED BY <1>1, <1>2, <1>3

(* A sequence of one query or two, none of them an update.                  *)
LEMMA NoUpdate ==
    ASSUME NEW s, NEW p \in Queries, NEW q \in Queries,
           p.op # "update row", q.op # "update row", s = <<p>> \/ s = <<p, q>>
    PROVE  s \in Seq(Queries) /\ \A j \in DOMAIN s : s[j].op # "update row"
  <1>1. CASE s = <<p>>
    BY <1>1, OneQuery
  <1>2. CASE s = <<p, q>>
    <2>1. /\ s \in Seq(Queries) /\ s[1] = p /\ s[2] = q
          /\ \A j \in DOMAIN s : j = 1 \/ j = 2
      BY <1>2, TwoQueries
    <2> QED BY <2>1
  <1> QED BY <1>1, <1>2

(* A command queues nothing but queries, with one update at most, of the    *)
(* setting it confirms.                                                     *)
LEMMA CommandQueries ==
    ASSUME NEW queries \in AnyCommand
    PROVE  /\ queries \in Seq(Queries)
           /\ \/ ValuesSet(queries) = {} /\ \A j \in DOMAIN queries : queries[j].op # "update row"
              \/ \E v \in Values, j \in DOMAIN queries :
                     /\ ValuesSet(queries) = {v} /\ queries[j] = [op |-> "update row", value |-> v]
                     /\ \A i \in DOMAIN queries : queries[i].op = "update row" => i = j
  <1>0. /\ CacheUser \in Queries /\ \A v \in Values : Update(v) \in Queries
        /\ \A c \in Categories : [op |-> "enable", category |-> c] \in Queries
        /\ [op |-> "privacy_mode"] \in Queries /\ [op |-> "give_coins"] \in Queries
    BY DEF Queries, CacheUser, Update
  <1>1. \/ queries = <<>> \/ queries = <<CacheUser>>
        \/ queries = <<[op |-> "privacy_mode"], CacheUser>>
        \/ queries = <<[op |-> "give_coins"], CacheUser>>
        \/ \E v \in Values : queries = <<Update(v), CacheUser>> \/ queries = <<CacheUser, Update(v)>>
        \/ \E c \in Categories : queries = <<CacheUser, [op |-> "enable", category |-> c]>>
    <2>1. Default \in Values
      BY CommandsAssumption DEF CommandsAssumption
    <2> QED
      BY <2>1 DEF AnyCommand, DashboardToEnable, CoinsToHelp, custom_command, Shown, Achievements,
         Categories_, Coins, Dashboard, Global, Info, Invite, Nitro, Ping, ServerTime, Shard, Stats,
         TopTeams, VoteCommand, Help, Team, Profile, QueueCommand, Subscription, ForceLeave,
         ResetPrefix, Privacy, Give, Prefix, Language, Enable
  <1>2. /\ CacheUser.op = "cache user"
        /\ \A v \in Values : /\ Update(v) = [op |-> "update row", value |-> v]
                              /\ Update(v).op = "update row" /\ Update(v).value = v
    BY DEF CacheUser, Update
  <1>3. ASSUME \/ queries = <<>> \/ queries = <<CacheUser>>
               \/ queries = <<[op |-> "privacy_mode"], CacheUser>>
               \/ queries = <<[op |-> "give_coins"], CacheUser>>
               \/ \E c \in Categories : queries = <<CacheUser, [op |-> "enable", category |-> c]>>
        PROVE  /\ queries \in Seq(Queries) /\ ValuesSet(queries) = {}
               /\ \A j \in DOMAIN queries : queries[j].op # "update row"
    <2>1. /\ [op |-> "privacy_mode"].op # "update row" /\ [op |-> "give_coins"].op # "update row"
          /\ CacheUser.op # "update row"
          /\ \A c \in Categories : [op |-> "enable", category |-> c].op # "update row"
      BY <1>2
    <2>2. queries \in Seq(Queries) /\ \A j \in DOMAIN queries : queries[j].op # "update row"
      <3>1. CASE queries = <<>>
        BY <3>1
      <3>2. CASE queries = <<CacheUser>>
        BY <1>0, <2>1, <3>2, NoUpdate
      <3>3. CASE queries = <<[op |-> "privacy_mode"], CacheUser>>
        BY <1>0, <2>1, <3>3, NoUpdate
      <3>4. CASE queries = <<[op |-> "give_coins"], CacheUser>>
        BY <1>0, <2>1, <3>4, NoUpdate
      <3>5. ASSUME NEW c \in Categories, queries = <<CacheUser, [op |-> "enable", category |-> c]>>
            PROVE  queries \in Seq(Queries) /\ \A j \in DOMAIN queries : queries[j].op # "update row"
        BY <1>0, <2>1, <3>5, NoUpdate
      <3> QED BY <1>3, <3>1, <3>2, <3>3, <3>4, <3>5
    <2> QED BY <2>2 DEF ValuesSet
  <1>4. ASSUME NEW v \in Values, NEW j \in DOMAIN queries, queries[j] = Update(v),
               \A i \in DOMAIN queries : queries[i].op = "update row" => i = j
        PROVE  ValuesSet(queries) = {v}
    <2>1. queries[j].op = "update row" /\ queries[j].value = v
      BY <1>2, <1>4
    <2>2. {i \in DOMAIN queries : queries[i].op = "update row"} = {j}
      BY <1>4, <2>1
    <2> QED BY <2>1, <2>2 DEF ValuesSet
  <1>5. ASSUME NEW v \in Values, queries = <<Update(v), CacheUser>> \/ queries = <<CacheUser, Update(v)>>
        PROVE  /\ queries \in Seq(Queries)
               /\ \E j \in DOMAIN queries :
                     /\ ValuesSet(queries) = {v} /\ queries[j] = [op |-> "update row", value |-> v]
                     /\ \A i \in DOMAIN queries : queries[i].op = "update row" => i = j
    <2>0. Update(v) \in Queries /\ CacheUser \in Queries /\ CacheUser.op # "update row"
      BY <1>0, <1>2
    <2>1. CASE queries = <<Update(v), CacheUser>>
      <3>1. /\ queries \in Seq(Queries) /\ queries[1] = Update(v) /\ queries[2] = CacheUser
            /\ 1 \in DOMAIN queries /\ \A i \in DOMAIN queries : i = 1 \/ i = 2
        BY <2>0, <2>1, TwoQueries
      <3>2. \A i \in DOMAIN queries : queries[i].op = "update row" => i = 1
        BY <2>0, <3>1
      <3>3. ValuesSet(queries) = {v}
        BY <1>4, <3>1, <3>2
      <3> QED BY <1>2, <3>1, <3>2, <3>3
    <2>2. CASE queries = <<CacheUser, Update(v)>>
      <3>1. /\ queries \in Seq(Queries) /\ queries[2] = Update(v) /\ queries[1] = CacheUser
            /\ 2 \in DOMAIN queries /\ \A i \in DOMAIN queries : i = 1 \/ i = 2
        BY <2>0, <2>2, TwoQueries
      <3>2. \A i \in DOMAIN queries : queries[i].op = "update row" => i = 2
        BY <2>0, <3>1
      <3>3. ValuesSet(queries) = {v}
        BY <1>4, <3>1, <3>2
      <3> QED BY <1>2, <3>1, <3>2, <3>3
    <2> QED BY <1>5, <2>1, <2>2
  <1> QED BY <1>1, <1>3, <1>5

-----------------------------------------------------------------------------
(* Steps of threads *)

ThreadStep(t) ==
    \/ HandleInteraction(t) \/ HandleButton(t) \/ HandleSelect(t) \/ CheckForQueuedStarts(t)
    \/ LookUp(t) \/ Limiter(t)
    \/ Call(t) \/ Start(t)
    \/ Disable(t) \/ InsertCategory(t) \/ CountRemaining(t)
    \/ ContextMenu(t) \/ FindMenu(t) \/ ButtonClick(t) \/ SelectClick(t)
    \/ DeleteMenu(t) \/ SaveMenu(t) \/ PutMenu(t)
    \/ DeleteStart(t)

(* How the step of a thread moves it: which steps it comes to, and from     *)
(* which it knows what.                                                     *)
Moves(t) ==
    /\ cmd' = [cmd EXCEPT ![t] = cmd'[t]]
    /\ cmd'[t] \in {Idle} \cup Handled /\ Sensible(cmd'[t])
    /\ cmd'[t].step \in {"insert row", "store"} => QuerySettings(t) \/ InsertRow(t)
    /\ Past(cmd'[t]) /\ ~ Past(cmd[t]) => settings_cache # None \/ row.exists \/ InsertRow(t)
    /\ cmd'[t].step = "count" => InsertCategory(t)
    /\ cmd'[t].step = "set limit" => limits[cmd[t].ch] = 0 /\ cmd'[t].ch = cmd[t].ch
    /\ cmd'[t].step = "warn" => last_rl_warning[cmd[t].ch] = 0 /\ cmd'[t].ch = cmd[t].ch
    /\ cmd'[t].step = "delete start" => Start(t)
    /\ cmd'[t] = Idle \/ cmd'[t].ch = cmd[t].ch \/ Overlaps(t, cmd'[t].ch)

(* Which steps change which variables.                                      *)
Changes(t) ==
    /\ UNCHANGED settingVars \/ eraseCache(t) \/ StoreSettings(t) \/ Call(t)
    /\ UNCHANGED limitVars \/ set_limit(t) \/ set_rl_warn(t)
    /\ UNCHANGED disabled_categories \/ InsertCategory(t)
    /\ UNCHANGED bg \/ InsertRow(t) \/ Call(t) \/ CountRemaining(t) \/ Queue(<<CacheUser>>)
    /\ UNCHANGED start_queue \/ DeleteStart(t)
    /\ UNCHANGED executed \/ Start(t)
    /\ overlapped \subseteq overlapped' /\ begun' \in Nat /\ events' \in Nat
    /\ cmd[t].step = "count" => CountRemaining(t)

(* A command that goes on to another step keeps what else it is.            *)
LEMMA Stepped ==
    ASSUME CommandsTypeOK, NEW t \in Threads, cmd[t].step # "none", NEW s \in CommandSteps, To(t, s)
    PROVE  /\ cmd[t] \in Handled /\ Sensible(cmd[t]) /\ cmd' = [cmd EXCEPT ![t] = cmd'[t]]
           /\ cmd'[t] \in Handled /\ cmd'[t].step = s /\ cmd'[t].do = cmd[t].do
           /\ cmd'[t].ch = cmd[t].ch /\ cmd'[t].from = cmd[t].from /\ cmd'[t].with = cmd[t].with
           /\ cmd'[t].settings = cmd[t].settings /\ cmd'[t].user = cmd[t].user
  <1>1. cmd[t] \in Handled /\ Sensible(cmd[t])
    BY DEF CommandsTypeOK, Idle
  <1>2. cmd'[t] = [cmd[t] EXCEPT !.step = s] /\ cmd' = [cmd EXCEPT ![t] = cmd'[t]]
    BY DEF To, CommandsTypeOK
  <1> QED BY <1>1, <1>2 DEF Handled

(* One that goes on with another operand.                                   *)
LEMMA SteppedWith ==
    ASSUME CommandsTypeOK, NEW t \in Threads, cmd[t].step # "none", NEW s \in CommandSteps,
           NEW w \in Nat \cup Categories \cup {None}, ToWith(t, s, w)
    PROVE  /\ cmd[t] \in Handled /\ Sensible(cmd[t]) /\ cmd' = [cmd EXCEPT ![t] = cmd'[t]]
           /\ cmd'[t] \in Handled /\ cmd'[t].step = s /\ cmd'[t].do = cmd[t].do
           /\ cmd'[t].ch = cmd[t].ch /\ cmd'[t].from = cmd[t].from /\ cmd'[t].with = w
           /\ cmd'[t].user = cmd[t].user
  <1>1. cmd[t] \in Handled /\ Sensible(cmd[t])
    BY DEF CommandsTypeOK, Idle
  <1>2. cmd'[t] = [cmd[t] EXCEPT !.step = s, !.with = w] /\ cmd' = [cmd EXCEPT ![t] = cmd'[t]]
    BY DEF ToWith, CommandsTypeOK
  <1> QED BY <1>1, <1>2 DEF Handled

(* One that is done.                                                        *)
LEMMA IsDone ==
    ASSUME CommandsTypeOK, NEW t \in Threads, Done(t)
    PROVE  cmd' = [cmd EXCEPT ![t] = cmd'[t]] /\ cmd'[t] = Idle
  <1> QED BY DEF Done, CommandsTypeOK

(* Nothing is asked of an idle thread, and it moves nothing.                *)
LEMMA DoneMoves ==
    ASSUME CommandsTypeOK, NEW t \in Threads, Done(t)
    PROVE  Moves(t)
  <1>1. Idle.step = "none" /\ Idle.from = "none" /\ Sensible(Idle) /\ ~ Past(Idle)
    BY DEF Idle, Sensible, Past
  <1> QED BY <1>1, IsDone DEF Moves

(* A step that needs no more than it had before.                            *)
LEMMA StepMoves ==
    ASSUME CommandsTypeOK, NEW t \in Threads, cmd[t].step # "none", NEW s \in CommandSteps, To(t, s),
           s \notin {"insert row", "store", "insert category", "count", "set limit", "warn",
                     "save menu", "put menu", "delete start"},
           s \in {"erase", "query"} \/ Past(cmd[t]),
           cmd[t].from = "dashboard" => s \in TimerSteps
    PROVE  Moves(t)
  <1> QED BY Stepped DEF Moves, Sensible, Past

(* The handler of a command that is not the timer's is done.                *)
LEMMA HandlerMoves ==
    ASSUME CommandsTypeOK, NEW t \in Threads, Past(cmd[t]), cmd[t].from # "dashboard", HandlerDone(t)
    PROVE  Moves(t)
  <1>0. cmd[t].step # "none"
    BY DEF Past
  <1>1. cmd[t] \in Handled
    BY <1>0 DEF CommandsTypeOK, Idle
  <1>2. cmd[t].from = "user" \/ cmd[t].from = "menu"
    BY <1>1 DEF Handled
  <1>3. Done(t) \/ To(t, "delete menu")
    BY <1>2 DEF HandlerDone
  <1>4. "delete menu" \in CommandSteps
    BY DEF CommandSteps
  <1> QED BY <1>0, <1>3, <1>4, DoneMoves, StepMoves

(* A command that begins.                                                   *)
LEMMA BeginMoves ==
    ASSUME CommandsTypeOK, NEW t \in Threads, NEW k \in Handled, Sensible(k), k.step = "settings",
           Begin(t, k)
    PROVE  Moves(t)
  <1>1. cmd' = [cmd EXCEPT ![t] = cmd'[t]] /\ cmd'[t] = k
    BY DEF Begin, CommandsTypeOK
  <1>2. Overlaps(t, k.ch)
    BY DEF Begin
  <1> QED BY <1>1, <1>2 DEF Moves, Past

(* Commands of users begin so, and those of the timer.                      *)
LEMMA HandleIsHandled ==
    /\ \A do \in {"any", "disable", "menu", "button", "select", "start"}, c \in Channels,
          u \in Users, from \in {"user", "menu"}, w \in {None} \cup Nat :
           (do = "menu" => w \in Nat) =>
           /\ Handle(do, c, u, from, w) \in Handled /\ Sensible(Handle(do, c, u, from, w))
           /\ Handle(do, c, u, from, w).step = "settings" /\ Handle(do, c, u, from, w).ch = c
    /\ \A S \in SUBSET Starts : S # {} =>
           /\ StartOf(S) \in Handled /\ Sensible(StartOf(S)) /\ StartOf(S).ch = FirstOf(S).ch
           /\ StartOf(S).step = "settings" /\ StartOf(S).with = S /\ StartOf(S).from = "dashboard"
  <1>1. \A S \in SUBSET Starts : S # {} => FirstOf(S).ch \in Channels
    BY FirstIsOne DEF Starts
  <1>2. "settings" \in CommandSteps /\ "settings" \in TimerSteps
    BY DEF CommandSteps, TimerSteps
  <1>3. ASSUME NEW do \in {"any", "disable", "menu", "button", "select", "start"}, NEW c \in Channels,
               NEW u \in Users, NEW from \in {"user", "menu"}, NEW w \in {None} \cup Nat,
               do = "menu" => w \in Nat
        PROVE  /\ Handle(do, c, u, from, w) \in Handled /\ Sensible(Handle(do, c, u, from, w))
               /\ Handle(do, c, u, from, w).step = "settings" /\ Handle(do, c, u, from, w).ch = c
    BY <1>2, <1>3 DEF Handle, Handled, Sensible
  <1>4. ASSUME NEW S \in SUBSET Starts, S # {}
        PROVE  /\ StartOf(S) \in Handled /\ Sensible(StartOf(S)) /\ StartOf(S).ch = FirstOf(S).ch
               /\ StartOf(S).step = "settings" /\ StartOf(S).with = S /\ StartOf(S).from = "dashboard"
    BY <1>1, <1>2, <1>4 DEF StartOf, Handle, Handled, Sensible
  <1> QED BY <1>3, <1>4

(* Every step of a thread moves it as Moves says.                           *)
LEMMA ThreadMoves ==
    ASSUME CommandsTypeOK, NEW t \in Threads, ThreadStep(t)
    PROVE  Moves(t)
  <1>0. /\ cmd[t].step # "none" => cmd[t] \in Handled
        /\ Sensible(cmd[t])
    BY DEF CommandsTypeOK, Idle
  <1>1. CASE HandleInteraction(t) \/ HandleButton(t) \/ HandleSelect(t)
    <2>1. begun + 1 \in Nat
      BY DEF CommandsTypeOK
    <2> PICK c \in Channels, u \in Users :
            \/ \E do \in {"any", "disable"} : Begin(t, Handle(do, c, u, "user", None))
            \/ Begin(t, Handle("menu", c, u, "user", begun + 1))
            \/ Begin(t, Handle("button", c, u, "user", None))
            \/ Begin(t, Handle("select", c, u, "user", None))
      BY <1>1 DEF HandleInteraction, HandleButton, HandleSelect
    <2>2. \E do \in {"any", "disable", "menu", "button", "select"}, w \in {None} \cup Nat :
              (do = "menu" => w \in Nat) /\ Begin(t, Handle(do, c, u, "user", w))
      BY <2>1
    <2> PICK do \in {"any", "disable", "menu", "button", "select"}, w \in {None} \cup Nat :
            (do = "menu" => w \in Nat) /\ Begin(t, Handle(do, c, u, "user", w))
      BY <2>2
    <2>3. /\ Handle(do, c, u, "user", w) \in Handled /\ Sensible(Handle(do, c, u, "user", w))
          /\ Handle(do, c, u, "user", w).step = "settings"
      BY HandleIsHandled
    <2> QED BY <2>3, BeginMoves
  <1>2. CASE CheckForQueuedStarts(t)
    <2>1. start_queue \in SUBSET Starts /\ start_queue # {} /\ Begin(t, StartOf(start_queue))
      BY <1>2 DEF CheckForQueuedStarts, CommandsTypeOK
    <2>2. /\ StartOf(start_queue) \in Handled /\ Sensible(StartOf(start_queue))
          /\ StartOf(start_queue).step = "settings"
      BY <2>1, HandleIsHandled
    <2> QED BY <2>1, <2>2, BeginMoves
  <1>3. CASE GetGuildSettings(t)
    <2> DEFINE s == IF settings_cache = None THEN "query"
                    ELSE IF Expired(settings_cache) THEN "erase" ELSE WithSettings(t)
    <2>1. cmd[t].step = "settings" /\ To(t, s)
      BY <1>3 DEF GetGuildSettings, At
    <2>2. /\ s \in {"query", "erase", "find", "limit"}
          /\ s \in {"find", "limit"} => settings_cache # None /\ s = WithSettings(t)
      BY DEF WithSettings
    <2> HIDE DEF s
    <2>3. s \in CommandSteps
      BY <2>2 DEF CommandSteps
    <2>4. cmd[t].from = "dashboard" => s \in TimerSteps
      BY <1>0, <2>2 DEF Sensible, WithSettings, TimerSteps
    <2> QED BY <2>1, <2>2, <2>3, <2>4, Stepped DEF Moves, Sensible, Past
  <1>4. CASE eraseCache(t)
    <2>1. cmd[t].step = "erase" /\ To(t, "query") /\ "query" \in CommandSteps
      BY <1>4 DEF eraseCache, At, CommandSteps
    <2> QED BY <1>0, <2>1, StepMoves DEF TimerSteps
  <1>5. CASE QuerySettings(t)
    <2> DEFINE s == IF row.exists THEN "store" ELSE "insert row"
    <2>1. cmd[t].step = "query" /\ cmd[t] \in Handled /\ row.value \in Values
      BY <1>0, <1>5 DEF QuerySettings, At, CommandsTypeOK
    <2>2. s \in CommandSteps /\ s \in TimerSteps /\ s \in {"store", "insert row"} /\ (s = "store" => row.exists)
      BY DEF CommandSteps, TimerSteps
    <2>3. cmd' = [cmd EXCEPT ![t].step = s, ![t].settings = row.value]
      BY <1>5 DEF QuerySettings, Reading
    <2> HIDE DEF s
    <2>4. /\ cmd'[t] = [cmd[t] EXCEPT !.step = s, !.settings = row.value]
          /\ cmd' = [cmd EXCEPT ![t] = cmd'[t]]
      BY <2>3 DEF CommandsTypeOK
    <2>5. /\ cmd'[t] \in Handled /\ cmd'[t].step = s /\ cmd'[t].do = cmd[t].do /\ cmd'[t].ch = cmd[t].ch
          /\ cmd'[t].from = cmd[t].from /\ cmd'[t].with = cmd[t].with /\ cmd'[t].user = cmd[t].user
      BY <2>1, <2>2, <2>4 DEF Handled
    <2>6. cmd'[t].settings = row.value
      BY <2>1, <2>4 DEF Handled
    <2> QED BY <1>0, <1>5, <2>1, <2>2, <2>4, <2>5, <2>6 DEF Moves, Sensible, Past
  <1>6. CASE InsertRow(t)
    <2>1. cmd[t].step = "insert row" /\ To(t, "store") /\ "store" \in CommandSteps /\ "store" \in TimerSteps
      BY <1>6 DEF InsertRow, At, CommandSteps, TimerSteps
    <2> QED BY <1>6, <2>1, Stepped DEF Moves, Sensible, Past
  <1>7. CASE StoreSettings(t)
    <2> DEFINE s == WithSettings(t)
    <2>1. cmd[t].step = "store" /\ cmd[t] \in Handled
      BY <1>0, <1>7 DEF StoreSettings, At
    <2>2. s \in CommandSteps /\ s \in {"find", "limit"} /\ (cmd[t].from = "dashboard" => s \in TimerSteps)
      BY <1>0 DEF CommandSteps, TimerSteps, WithSettings, Sensible
    <2>3. cmd' = [cmd EXCEPT ![t].step = s, ![t].settings = None]
      BY <1>7 DEF StoreSettings
    <2> HIDE DEF s
    <2>4. cmd'[t] = [cmd[t] EXCEPT !.step = s, !.settings = None] /\ cmd' = [cmd EXCEPT ![t] = cmd'[t]]
      BY <2>3 DEF CommandsTypeOK
    <2>5. /\ cmd'[t] \in Handled /\ cmd'[t].step = s /\ cmd'[t].do = cmd[t].do /\ cmd'[t].ch = cmd[t].ch
          /\ cmd'[t].from = cmd[t].from /\ cmd'[t].with = cmd[t].with /\ cmd'[t].user = cmd[t].user
      BY <2>1, <2>2, <2>4 DEF Handled
    <2> QED BY <1>0, <2>1, <2>2, <2>4, <2>5 DEF Moves, Sensible, Past
  <1>8. CASE has_limit(t)
    <2> DEFINE s == IF limits[cmd[t].ch] > 0 THEN "limited" ELSE "set limit"
    <2>1. cmd[t].step = "limit" /\ cmd[t] \in Handled /\ To(t, s)
      BY <1>0, <1>8 DEF has_limit, At
    <2>2. s \in CommandSteps /\ s \in TimerSteps /\ s \in {"limited", "set limit"}
      BY DEF CommandSteps, TimerSteps
    <2>3. s = "set limit" => limits[cmd[t].ch] = 0
      <3>1. limits[cmd[t].ch] \in Nat
        BY <2>1 DEF Handled, CommandsTypeOK
      <3> QED BY <3>1
    <2> HIDE DEF s
    <2> QED BY <2>1, <2>2, <2>3, Stepped DEF Moves, Sensible, Past
  <1>9. CASE set_limit(t)
    <2>1. cmd[t].step = "set limit" /\ To(t, "call") /\ "call" \in CommandSteps /\ "call" \in TimerSteps
      BY <1>9 DEF set_limit, At, CommandSteps, TimerSteps
    <2> QED BY <2>1, StepMoves DEF Past
  <1>10. CASE has_rl_warn(t)
    <2>1. cmd[t].step = "limited" /\ cmd[t] \in Handled /\ Past(cmd[t])
      BY <1>0, <1>10 DEF has_rl_warn, At, Past
    <2>2. "call" \in CommandSteps /\ "call" \in TimerSteps /\ "warn" \in CommandSteps
      BY DEF CommandSteps, TimerSteps
    <2>3. CASE cmd[t].from = "dashboard" \/ cmd[t].do = "menu"
      <3>1. To(t, "call")
        BY <1>10, <2>3 DEF has_rl_warn
      <3> QED BY <2>1, <2>2, <3>1, StepMoves
    <2>4. CASE cmd[t].from # "dashboard" /\ cmd[t].do # "menu" /\ last_rl_warning[cmd[t].ch] > 0
      <3>1. HandlerDone(t)
        BY <1>10, <2>4 DEF has_rl_warn
      <3> QED BY <2>1, <2>4, <3>1, HandlerMoves
    <2>5. CASE cmd[t].from # "dashboard" /\ cmd[t].do # "menu" /\ ~ (last_rl_warning[cmd[t].ch] > 0)
      <3>1. To(t, "warn")
        BY <1>10, <2>5 DEF has_rl_warn
      <3>2. last_rl_warning[cmd[t].ch] = 0
        <4>1. last_rl_warning[cmd[t].ch] \in Nat
          BY <2>1 DEF Handled, CommandsTypeOK
        <4> QED BY <2>5, <4>1
      <3> QED BY <2>1, <2>2, <2>5, <3>1, <3>2, Stepped DEF Moves, Sensible, Past
    <2> QED BY <2>3, <2>4, <2>5
  <1>11. CASE set_rl_warn(t)
    <2>1. cmd[t].step = "warn" /\ HandlerDone(t)
      BY <1>11 DEF set_rl_warn, At
    <2>2. Past(cmd[t]) /\ cmd[t].from # "dashboard"
      BY <1>0, <2>1 DEF Past, Sensible, TimerSteps
    <2> QED BY <2>1, <2>2, HandlerMoves
  <1>12. CASE Call(t)
    <2>1. cmd[t].step = "call" /\ cmd[t].do = "any" /\ HandlerDone(t)
      BY <1>12 DEF Call, At
    <2>2. Past(cmd[t]) /\ cmd[t].from # "dashboard"
      BY <1>0, <2>1 DEF Past, Sensible
    <2> QED BY <2>1, <2>2, HandlerMoves
  <1>13. CASE Start(t)
    <2>1. cmd[t].step = "call" /\ HandlerDone(t) /\ Past(cmd[t])
      BY <1>13 DEF Start, At, Past
    <2>2. CASE cmd[t].from = "dashboard"
      <3>1. To(t, "delete start") /\ "delete start" \in CommandSteps /\ "delete start" \in TimerSteps
        BY <2>1, <2>2 DEF HandlerDone, CommandSteps, TimerSteps
      <3> QED BY <1>13, <2>1, <2>2, <3>1, Stepped DEF Moves, Sensible, Past
    <2>3. CASE cmd[t].from # "dashboard"
      BY <2>1, <2>3, HandlerMoves
    <2> QED BY <2>2, <2>3
  <1>14. CASE Disable(t)
    <2>1. cmd[t].step = "call" /\ cmd[t].do = "disable" /\ Past(cmd[t])
      BY <1>14 DEF Disable, At, Past
    <2>2. cmd[t].from # "dashboard"
      BY <1>0, <2>1 DEF Sensible
    <2>3. CASE HandlerDone(t)
      BY <2>1, <2>2, <2>3, HandlerMoves
    <2>4. ASSUME NEW c \in Categories, ToWith(t, "insert category", c) PROVE Moves(t)
      <3>1. "insert category" \in CommandSteps
        BY DEF CommandSteps
      <3>2. /\ cmd' = [cmd EXCEPT ![t] = cmd'[t]] /\ cmd'[t] \in Handled
            /\ cmd'[t].step = "insert category" /\ cmd'[t].do = cmd[t].do /\ cmd'[t].ch = cmd[t].ch
            /\ cmd'[t].from = cmd[t].from /\ cmd'[t].with = c /\ cmd'[t].user = cmd[t].user
        BY <2>1, <2>4, <3>1, SteppedWith, ZenonT(60)
      <3> QED BY <1>0, <2>1, <2>2, <3>2 DEF Moves, Sensible, Past
    <2> QED BY <1>14, <2>3, <2>4 DEF Disable
  <1>15. CASE InsertCategory(t)
    <2>1. cmd[t].step = "insert category" /\ To(t, "count") /\ "count" \in CommandSteps
      BY <1>15 DEF InsertCategory, At, CommandSteps
    <2>2. cmd[t].from # "dashboard" /\ cmd[t].with \in Categories
      BY <1>0, <2>1 DEF Sensible, TimerSteps
    <2> QED BY <1>15, <2>1, <2>2, Stepped DEF Moves, Sensible, Past
  <1>16. CASE CountRemaining(t)
    <2>1. cmd[t].step = "count" /\ HandlerDone(t)
      BY <1>16 DEF CountRemaining, At
    <2>2. Past(cmd[t]) /\ cmd[t].from # "dashboard"
      BY <1>0, <2>1 DEF Past, Sensible, TimerSteps
    <2> QED BY <2>1, <2>2, HandlerMoves
  <1>17. CASE ContextMenu(t) \/ DeleteMenu(t) \/ SaveMenu(t) \/ PutMenu(t)
    BY <1>17, DoneMoves DEF ContextMenu, DeleteMenu, SaveMenu, PutMenu
  <1>18. CASE FindMenu(t)
    <2>1. cmd[t].step = "find" /\ (Done(t) \/ To(t, "copy")) /\ "copy" \in CommandSteps
      BY <1>18 DEF FindMenu, At, CommandSteps
    <2>2. Past(cmd[t]) /\ cmd[t].from # "dashboard"
      BY <1>0, <2>1 DEF Past, Sensible, TimerSteps
    <2> QED BY <2>1, <2>2, DoneMoves, StepMoves
  <1>19. CASE ButtonClick(t) \/ SelectClick(t)
    <2>1. cmd[t].step = "copy" /\ cmd[t] \in Handled
      BY <1>0, <1>19 DEF ButtonClick, SelectClick, At
    <2>2. Past(cmd[t]) /\ cmd[t].from # "dashboard"
      BY <1>0, <2>1 DEF Past, Sensible, TimerSteps
    <2>3. cmd[t].user \in Users /\ cmd[t].ch \in Channels
      BY <1>0, <2>1, <2>2 DEF Sensible, Handled
    <2>4. Found(t) \in Nat
      BY <2>3 DEF Found, CommandsTypeOK
    <2>5. "delete menu" \in CommandSteps /\ "save menu" \in CommandSteps /\ "put menu" \in CommandSteps
      BY DEF CommandSteps
    <2>6. ASSUME NEW s \in {"delete menu", "save menu", "put menu"}, ToWith(t, s, Found(t)) PROVE Moves(t)
      <3>1. s \in CommandSteps
        BY <2>5
      <3>2. /\ cmd' = [cmd EXCEPT ![t] = cmd'[t]] /\ cmd'[t] \in Handled /\ cmd'[t].step = s
            /\ cmd'[t].do = cmd[t].do /\ cmd'[t].ch = cmd[t].ch /\ cmd'[t].from = cmd[t].from
            /\ cmd'[t].with = Found(t) /\ cmd'[t].user = cmd[t].user
        BY <2>1, <2>4, <2>6, <3>1, SteppedWith
      <3> QED BY <1>0, <2>2, <2>4, <3>2 DEF Moves, Sensible, Past
    <2>7. ASSUME cmd' = [cmd EXCEPT ![t] = Handle("start", @.ch, @.user, "menu", Found(t))] PROVE Moves(t)
      <3> DEFINE k == Handle("start", cmd[t].ch, cmd[t].user, "menu", Found(t))
      <3>1. cmd' = [cmd EXCEPT ![t] = cmd'[t]] /\ cmd'[t] = k
        BY <2>7 DEF CommandsTypeOK
      <3>2. k \in Handled /\ Sensible(k) /\ k.step = "settings" /\ k.ch = cmd[t].ch
        BY <2>3, <2>4, HandleIsHandled
      <3> HIDE DEF k
      <3> QED BY <3>1, <3>2 DEF Moves, Past
    <2> QED BY <1>19, <2>6, <2>7 DEF ButtonClick, SelectClick
  <1>20. CASE DeleteStart(t)
    <2>1. cmd[t].step = "delete start" /\ cmd[t] \in Handled /\ cmd[t].from = "dashboard"
      BY <1>0, <1>20 DEF DeleteStart, At, Sensible
    <2> DEFINE rest == cmd[t].with \ {FirstOf(cmd[t].with)}
    <2>2. rest \in SUBSET Starts
      BY <1>0, <2>1 DEF Sensible
    <2>3. CASE rest = {}
      BY <1>20, <2>3, DoneMoves DEF DeleteStart
    <2>4. CASE rest # {}
      <3>1. cmd' = [cmd EXCEPT ![t] = StartOf(rest)] /\ Overlaps(t, FirstOf(rest).ch)
        BY <1>20, <2>4 DEF DeleteStart
      <3>2. /\ StartOf(rest) \in Handled /\ Sensible(StartOf(rest)) /\ StartOf(rest).ch = FirstOf(rest).ch
            /\ StartOf(rest).step = "settings"
        BY <2>2, <2>4, HandleIsHandled
      <3> HIDE DEF rest
      <3>3. cmd' = [cmd EXCEPT ![t] = cmd'[t]] /\ cmd'[t] = StartOf(rest)
        BY <3>1 DEF CommandsTypeOK
      <3> QED BY <3>1, <3>2, <3>3 DEF Moves, Past
    <2> QED BY <2>3, <2>4
  <1> QED
    BY <1>1, <1>2, <1>3, <1>4, <1>5, <1>6, <1>7, <1>8, <1>9, <1>10, <1>11, <1>12, <1>13, <1>14, <1>15,
       <1>16, <1>17, <1>18, <1>19, <1>20
    DEF ThreadStep, LookUp, Limiter

(* Every step of a thread changes variables as Changes says.                *)
LEMMA ThreadChanges ==
    ASSUME CommandsTypeOK, NEW t \in Threads, ThreadStep(t)
    PROVE  Changes(t)
  <1> USE DEF settingVars, limitVars, menuVars, startVars, boundVars, At
  <1>0. begun \in Nat /\ events \in Nat /\ Idle.step = "none"
    BY DEF CommandsTypeOK, Idle
  <1>1. ASSUME NEW k, Begin(t, k) PROVE Changes(t)
    BY <1>0, <1>1 DEF Begin, Overlaps, Changes
  <1>2. CASE HandleInteraction(t) \/ HandleButton(t) \/ HandleSelect(t) \/ CheckForQueuedStarts(t)
    BY <1>1, <1>2 DEF HandleInteraction, HandleButton, HandleSelect, CheckForQueuedStarts
  <1>3. CASE GetGuildSettings(t) \/ QuerySettings(t)
    BY <1>0, <1>3 DEF GetGuildSettings, QuerySettings, OnlyMoves, Frame, Changes
  <1>4. CASE eraseCache(t) \/ StoreSettings(t)
    BY <1>0, <1>4 DEF eraseCache, StoreSettings, OnlyCaches, Frame, Changes
  <1>5. CASE InsertRow(t)
    BY <1>0, <1>5 DEF InsertRow, Frame, Changes
  <1>6. CASE has_limit(t) \/ has_rl_warn(t)
    BY <1>0, <1>6 DEF has_limit, has_rl_warn, OnlyMoves, Frame, Changes
  <1>7. CASE set_limit(t)
    BY <1>0, <1>7 DEF set_limit, OtherThanLimits, Changes
  <1>8. CASE set_rl_warn(t)
    BY <1>0, <1>8 DEF set_rl_warn, OtherThanLimits, Changes
  <1>9. CASE Call(t)
    BY <1>0, <1>9 DEF Call, Frame, Changes
  <1>10. CASE Start(t)
    BY <1>0, <1>10 DEF Start, Changes
  <1>11. CASE Disable(t)
    BY <1>0, <1>11 DEF Disable, Frame, Changes
  <1>12. CASE InsertCategory(t)
    BY <1>0, <1>12 DEF InsertCategory, OtherThanCategories, Changes
  <1>13. CASE CountRemaining(t)
    BY <1>0, <1>13 DEF CountRemaining, OtherThanCategories, Changes
  <1>14. CASE ContextMenu(t) \/ DeleteMenu(t) \/ SaveMenu(t) \/ PutMenu(t)
    BY <1>0, <1>14 DEF ContextMenu, DeleteMenu, SaveMenu, PutMenu, OtherThanMenus, Changes
  <1>15. CASE FindMenu(t) \/ ButtonClick(t) \/ SelectClick(t)
    BY <1>0, <1>15 DEF FindMenu, ButtonClick, SelectClick, OnlyMoves, Frame, Changes
  <1>16. CASE DeleteStart(t)
    BY <1>0, <1>16 DEF DeleteStart, Overlaps, Changes
  <1> QED
    BY <1>2, <1>3, <1>4, <1>5, <1>6, <1>7, <1>8, <1>9, <1>10, <1>11, <1>12, <1>13, <1>14, <1>15, <1>16
    DEF ThreadStep, LookUp, Limiter

(* The other steps: the web site, the guild, the queue and the clock.       *)
OtherStep ==
    \/ \E c \in Channels : WebStart(c)
    \/ \E v \in Values : WebEdit(v)
    \/ \E u \in Users : MinutesPass(u)
    \/ OnGuildDelete \/ BackgroundThread \/ SecondPasses

(* Every step is a thread's or one of these.                                *)
LEMMA EitherStep == Next => (\E t \in Threads : ThreadStep(t)) \/ OtherStep
  <1> QED BY DEF Next, ThreadStep, OtherStep

-----------------------------------------------------------------------------
(* Types *)

(* What may be queued.                                                      *)
LEMMA QueriesQueued ==
    /\ <<CacheUser>> \in Seq(Queries) /\ <<[op |-> "insert row"]>> \in Seq(Queries)
    /\ <<[op |-> "kicked"]>> \in Seq(Queries)
    /\ \A c \in Categories : <<[op |-> "enable", category |-> c]>> \in Seq(Queries)
  <1>1. /\ CacheUser \in Queries /\ [op |-> "insert row"] \in Queries /\ [op |-> "kicked"] \in Queries
        /\ \A c \in Categories : [op |-> "enable", category |-> c] \in Queries
    BY DEF CacheUser, Queries
  <1>2. \A q \in Queries : <<q>> \in Seq(Queries)
    BY OneQuery
  <1> QED BY <1>1, <1>2

(* What a query of each kind holds.                                         *)
LEMMA QueryKinds ==
    \A q \in Queries : /\ q.op = "update row" => q.value \in Values
                       /\ q.op = "enable" => q.category \in Categories
  <1> QED BY DEF Queries

(* A count that goes down or up stays a number.                             *)
LEMMA LessAndMore ==
    \A n \in Nat, most \in Nat : Less(n) \in Nat /\ More(n, most) \in Nat
  <1> QED BY DEF Less, More

(* Every step of a thread keeps the types.                                  *)
LEMMA ThreadTypes ==
    ASSUME CommandsTypeOK, NEW t \in Threads, ThreadStep(t)
    PROVE  CommandsTypeOK'
  <1> USE DEF settingVars, limitVars, menuVars, startVars, boundVars, At
  <1>0. Moves(t) /\ Changes(t)
    BY ThreadMoves, ThreadChanges
  <1>1. cmd' \in [Threads -> {Idle} \cup Handled] /\ \A s \in Threads : Sensible(cmd'[s])
    BY <1>0 DEF Moves, CommandsTypeOK
  <1>2. /\ row' \in [exists : BOOLEAN, value : Values] /\ held' \in [Values -> Nat]
        /\ settings_cache' \in {None} \cup [value : Values, age : Nat]
    <2>1. CASE UNCHANGED settingVars \/ Call(t)
      BY <2>1 DEF CommandsTypeOK, Call
    <2>2. CASE eraseCache(t)
      BY <2>2 DEF CommandsTypeOK, eraseCache, OnlyCaches
    <2>3. CASE StoreSettings(t)
      <3>1. cmd[t].settings \in Values
        BY <2>3 DEF CommandsTypeOK, Sensible, StoreSettings
      <3> QED BY <2>3, <3>1 DEF CommandsTypeOK, StoreSettings, Emplaced, OnlyCaches
    <2> QED BY <1>0, <2>1, <2>2, <2>3 DEF Changes
  <1>3. /\ limits' \in [Channels -> Nat] /\ last_rl_warning' \in [Channels -> Nat]
        /\ spaced' \in [Channels -> [limit : Nat, warning : Nat]]
    <2>1. CASE UNCHANGED limitVars
      BY <2>1 DEF CommandsTypeOK
    <2>2. Period \in Nat
      BY CommandsAssumption DEF CommandsAssumption
    <2>3. CASE set_limit(t)
      BY <2>2, <2>3 DEF CommandsTypeOK, set_limit
    <2>4. CASE set_rl_warn(t)
      BY <2>2, <2>4 DEF CommandsTypeOK, set_rl_warn
    <2> QED BY <1>0, <2>1, <2>3, <2>4 DEF Changes
  <1>4. disabled_categories' \subseteq Categories
    <2>1. CASE UNCHANGED disabled_categories
      BY <2>1 DEF CommandsTypeOK
    <2>2. CASE InsertCategory(t)
      BY <2>2 DEF CommandsTypeOK, InsertCategory, Sensible
    <2> QED BY <1>0, <2>1, <2>2 DEF Changes
  <1>5. start_queue' \subseteq Starts
    BY <1>0 DEF Changes, DeleteStart, CommandsTypeOK
  <1>6. bg' \in Seq(Queries)
    <2>1. ASSUME NEW queries \in Seq(Queries), Queue(queries) PROVE bg' \in Seq(Queries)
      BY <2>1, Added DEF CommandsTypeOK
    <2>2. CASE UNCHANGED bg
      BY <2>2 DEF CommandsTypeOK
    <2>3. CASE InsertRow(t) \/ Queue(<<CacheUser>>)
      BY <2>1, <2>3, QueriesQueued DEF InsertRow
    <2>4. CASE Call(t)
      BY <2>1, <2>4, CommandQueries DEF Call
    <2>5. CASE CountRemaining(t)
      <3>1. cmd[t].with \in Categories
        BY <2>5 DEF CommandsTypeOK, Sensible, CountRemaining
      <3> QED BY <2>1, <2>2, <2>5, <3>1, QueriesQueued DEF CountRemaining
    <2> QED BY <1>0, <2>2, <2>3, <2>4, <2>5 DEF Changes
  <1>7. active_menus' \in [Users -> {None} \cup Nat]
    <2>1. ASSUME NEW u, NEW w \in Nat, active_menus' = Saved(u, w)
          PROVE  active_menus' \in [Users -> {None} \cup Nat]
      BY <2>1 DEF Saved, CommandsTypeOK
    <2>2. CASE ContextMenu(t) \/ SaveMenu(t)
      <3>1. cmd[t].with \in Nat
        BY <2>2 DEF ContextMenu, SaveMenu, CommandsTypeOK, Sensible
      <3> QED BY <2>1, <2>2, <3>1 DEF ContextMenu, SaveMenu
    <2>3. CASE DeleteMenu(t)
      BY <2>3 DEF DeleteMenu, CommandsTypeOK
    <2>4. CASE PutMenu(t)
      <3>1. cmd[t].with \in Nat
        BY <2>4 DEF PutMenu, CommandsTypeOK, Sensible
      <3> QED BY <2>4, <3>1 DEF PutMenu, CommandsTypeOK
    <2>5. UNCHANGED active_menus \/ ContextMenu(t) \/ SaveMenu(t) \/ DeleteMenu(t) \/ PutMenu(t)
      BY DEF ThreadStep, LookUp, Limiter, HandleInteraction, HandleButton, HandleSelect,
         CheckForQueuedStarts, Begin, GetGuildSettings, QuerySettings, eraseCache, StoreSettings, InsertRow,
         has_limit, has_rl_warn, set_limit, set_rl_warn, OtherThanLimits, Call, Start, Disable,
         InsertCategory, CountRemaining, OtherThanCategories, FindMenu, ButtonClick, SelectClick,
         DeleteStart, OnlyMoves, OnlyCaches, Frame
    <2> QED BY <2>2, <2>3, <2>4, <2>5 DEF CommandsTypeOK
  <1> QED BY <1>0, <1>1, <1>2, <1>3, <1>4, <1>5, <1>6, <1>7 DEF CommandsTypeOK, Changes

(* So does every other step.                                                *)
LEMMA OtherTypes ==
    ASSUME CommandsTypeOK, OtherStep
    PROVE  CommandsTypeOK'
  <1> USE DEF settingVars, limitVars, menuVars, startVars, boundVars, CommandsTypeOK
  <1>0. {Period, Expiry} \subseteq Nat /\ Default \in Values
    BY CommandsAssumption DEF CommandsAssumption
  <1>1. ASSUME NEW c \in Channels, WebStart(c) PROVE CommandsTypeOK'
    <2>1. events' \in Nat /\ [id |-> events', ch |-> c] \in Starts
      BY <1>1 DEF WebStart, Event, Starts
    <2> QED BY <1>1, <2>1 DEF WebStart, Event
  <1>2. ASSUME NEW v \in Values, WebEdit(v) PROVE CommandsTypeOK'
    BY <1>2 DEF WebEdit, Event, SetRow
  <1>3. ASSUME NEW u \in Users, MinutesPass(u) PROVE CommandsTypeOK'
    BY <1>3 DEF MinutesPass, OtherThanMenus
  <1>4. CASE OnGuildDelete
    <2>1. bg' \in Seq(Queries)
      BY <1>4, Added, QueriesQueued DEF OnGuildDelete
    <2> QED BY <1>4, <2>1 DEF OnGuildDelete, Event
  <1>5. CASE BackgroundThread
    <2>1. Head(bg) \in Queries /\ bg' \in Seq(Queries)
      BY <1>5, Executed DEF BackgroundThread
    <2>2. row' \in [exists : BOOLEAN, value : Values] /\ held' \in [Values -> Nat]
      <3>1. ASSUME NEW v \in Values, SetRow(v)
            PROVE  row' \in [exists : BOOLEAN, value : Values] /\ held' \in [Values -> Nat]
        BY <3>1 DEF SetRow
      <3>2. SetRow(Default) \/ (Head(bg).op = "update row" /\ SetRow(Head(bg).value)) \/ UNCHANGED <<row, held>>
        BY <1>5 DEF BackgroundThread, Execute
      <3>3. CASE UNCHANGED <<row, held>>
        BY <3>3
      <3> QED BY <1>0, <2>1, <3>1, <3>2, <3>3, QueryKinds
    <2>3. disabled_categories' \subseteq Categories
      BY <1>5 DEF BackgroundThread, Execute
    <2> QED BY <1>5, <2>1, <2>2, <2>3 DEF BackgroundThread
  <1>6. CASE SecondPasses
    <2>1. settings_cache' \in {None} \cup [value : Values, age : Nat]
      <3>1. CASE settings_cache = None
        BY <1>6, <3>1 DEF SecondPasses
      <3>2. CASE settings_cache # None
        <4>1. settings_cache \in [value : Values, age : Nat] /\ Expiry + 1 \in Nat
          BY <1>0, <3>2
        <4>2. More(settings_cache.age, Expiry + 1) \in Nat
          BY <4>1, LessAndMore
        <4>3. settings_cache' = [settings_cache EXCEPT !.age = More(@, Expiry + 1)]
          BY <1>6, <3>2 DEF SecondPasses
        <4> QED BY <4>1, <4>2, <4>3
      <3> QED BY <3>1, <3>2
    <2>2. held' \in [Values -> Nat]
      <3>1. Expiry + 1 \in Nat
        BY <1>0
      <3>2. \A v \in Values : More(held[v], Expiry + 1) \in Nat
        BY <3>1, LessAndMore
      <3> QED BY <1>6, <3>2 DEF SecondPasses
    <2>3. limits' \in [Channels -> Nat] /\ last_rl_warning' \in [Channels -> Nat]
      <3>1. \A c \in Channels : Less(limits[c]) \in Nat /\ Less(last_rl_warning[c]) \in Nat
        BY <1>0, LessAndMore
      <3> QED BY <1>6, <3>1 DEF SecondPasses
    <2>4. spaced' \in [Channels -> [limit : Nat, warning : Nat]]
      <3>1. \A c \in Channels : spaced[c].limit \in Nat /\ spaced[c].warning \in Nat
        OBVIOUS
      <3>2. \A c \in Channels : More(spaced[c].limit, Period) \in Nat /\ More(spaced[c].warning, Period) \in Nat
        BY <1>0, <3>1, LessAndMore
      <3> QED BY <1>6, <3>2 DEF SecondPasses
    <2> QED BY <1>6, <2>1, <2>2, <2>3, <2>4 DEF SecondPasses
  <1> QED BY <1>1, <1>2, <1>3, <1>4, <1>5, <1>6 DEF OtherStep

-----------------------------------------------------------------------------
(* Settings *)

(* What is written to the row is there.                                     *)
LEMMA RowIsSet ==
    ASSUME NEW v, SetRow(v)
    PROVE  row'.exists /\ row'.value = v
  <1>1. row' = [exists |-> TRUE, value |-> v]
    BY DEF SetRow
  <1> QED BY <1>1

(* What the queries make of the row.                                        *)
LEMMA RowExecuted ==
    ASSUME NEW q, Execute(q)
    PROVE  /\ row.exists \/ q.op = "insert row" => row'.exists
           /\ q.op = "update row" /\ row.exists => row'.value = q.value
           /\ \/ row' = row \/ q.op = "insert row"
              \/ q.op = "update row" /\ row.exists
  <1>1. CASE q.op = "insert row" /\ ~ row.exists
    <2>1. SetRow(Default)
      BY <1>1 DEF Execute
    <2> QED BY <1>1, <2>1, RowIsSet
  <1>2. CASE q.op = "update row" /\ row.exists
    <2>1. SetRow(q.value)
      BY <1>2 DEF Execute
    <2> QED BY <1>2, <2>1, RowIsSet
  <1>3. CASE ~ (q.op = "insert row" /\ ~ row.exists) /\ ~ (q.op = "update row" /\ row.exists)
    <2>1. row' = row
      BY <1>3 DEF Execute
    <2> QED BY <1>3, <2>1
  <1> QED BY <1>1, <1>2, <1>3

(* The steps of threads change the row no more than they say.               *)
LEMMA ThreadsKeepRow ==
    ASSUME NEW t \in Threads, Changes(t)
    PROVE  row' = row /\ held' = held
  <1> QED BY DEF Changes, settingVars, eraseCache, StoreSettings, Call, OnlyCaches

(* What is read is fresh, and is fresh in the cache.                        *)
LEMMA FreshStep ==
    ASSUME CommandsTypeOK, CacheIsFresh, Next
    PROVE  CacheIsFresh'
  <1>0. /\ row.value \in Values /\ held \in [Values -> Nat] /\ Expiry \in Nat /\ Default \in Values
        /\ settings_cache # None => settings_cache.value \in Values /\ settings_cache.age \in Nat
        /\ \A s \in Threads : cmd[s].step \in {"insert row", "store"} => cmd[s].settings \in Values
    BY CommandsAssumption DEF CommandsTypeOK, CommandsAssumption, Sensible
  <1>7. Expiry \in Nat /\ Expiry + 1 \in Nat /\ 0 <= Expiry + 1
    BY CommandsAssumption DEF CommandsAssumption
  <1>1. ASSUME NEW t \in Threads, ThreadStep(t) PROVE CacheIsFresh'
    <2>1. Moves(t) /\ Changes(t) /\ row' = row /\ held' = held
      BY <1>1, ThreadMoves, ThreadChanges, ThreadsKeepRow
    <2>2. \A s \in Threads \ {t} : cmd'[s] = cmd[s]
      BY <2>1 DEF Moves, CommandsTypeOK
    <2>3. cmd'[t].step \in {"insert row", "store"} => held[cmd'[t].settings] = 0
      <3>1. CASE QuerySettings(t)
        <4>1. cmd'[t].settings = row.value
          <5>1. cmd[t].step = "query"
            BY <3>1 DEF QuerySettings, At
          <5>2. cmd[t] \in Handled
            BY <5>1 DEF CommandsTypeOK, Idle
          <5>3. \E s : cmd'[t] = [cmd[t] EXCEPT !.step = s, !.settings = row.value]
            BY <3>1 DEF QuerySettings, Reading, CommandsTypeOK
          <5> QED BY <5>2, <5>3 DEF Handled
        <4> QED BY <4>1 DEF CacheIsFresh
      <3>2. CASE InsertRow(t)
        <4>1. cmd[t].step = "insert row" /\ To(t, "store") /\ "store" \in CommandSteps
          BY <3>2 DEF InsertRow, At, CommandSteps
        <4>2. cmd'[t].settings = cmd[t].settings
          BY <4>1, Stepped
        <4> QED BY <4>1, <4>2 DEF CacheIsFresh
      <3> QED BY <2>1, <3>1, <3>2 DEF Moves
    <2>4. settings_cache' # None => /\ held[settings_cache'.value] <= settings_cache'.age
                                    /\ settings_cache'.age <= Expiry + 1
      <3>1. CASE settings_cache' = settings_cache
        BY <3>1 DEF CacheIsFresh
      <3>2. CASE eraseCache(t)
        BY <3>2 DEF eraseCache
      <3>3. CASE StoreSettings(t)
        <4>1. held[cmd[t].settings] = 0 /\ Emplaced(t)
          BY <3>3 DEF StoreSettings, CacheIsFresh, At
        <4>2. CASE settings_cache # None
          BY <4>1, <4>2 DEF Emplaced, CacheIsFresh
        <4>3. CASE settings_cache = None
          <5>1. settings_cache' = [value |-> cmd[t].settings, age |-> 0]
            BY <4>1, <4>3 DEF Emplaced
          <5>2. settings_cache'.value = cmd[t].settings /\ settings_cache'.age = 0
            BY <5>1
          <5> QED BY <1>7, <4>1, <5>2
        <4> QED BY <4>2, <4>3
      <3> QED BY <2>1, <3>1, <3>2, <3>3 DEF Changes, settingVars, Call
    <2> QED BY <2>1, <2>2, <2>3, <2>4 DEF CacheIsFresh
  <1>2. ASSUME NEW v \in Values, SetRow(v), settings_cache' = settings_cache, cmd' = cmd
        PROVE  CacheIsFresh'
    <2>1. row'.value = v /\ held'[v] = 0
      BY <1>0, <1>2 DEF SetRow
    <2>2. \A w \in Values : held'[w] = 0 \/ held'[w] = held[w]
      BY <1>0, <1>2 DEF SetRow
    <2>3. \A s \in Threads : cmd'[s].step \in {"insert row", "store"} => held'[cmd'[s].settings] = 0
      BY <1>0, <1>2, <2>2 DEF CacheIsFresh
    <2>4. settings_cache' # None => /\ held'[settings_cache'.value] <= settings_cache'.age
                                    /\ settings_cache'.age <= Expiry + 1
      <3>1. SUFFICES ASSUME settings_cache # None
                     PROVE  /\ held'[settings_cache.value] <= settings_cache.age
                            /\ settings_cache.age <= Expiry + 1
        BY <1>2
      <3>2. /\ settings_cache.value \in Values /\ settings_cache.age \in Nat
            /\ held[settings_cache.value] <= settings_cache.age /\ settings_cache.age <= Expiry + 1
        BY <1>0, <3>1 DEF CacheIsFresh
      <3>3. held'[settings_cache.value] = 0 \/ held'[settings_cache.value] = held[settings_cache.value]
        BY <2>2, <3>2
      <3> QED BY <3>2, <3>3
    <2> QED BY <2>1, <2>3, <2>4 DEF CacheIsFresh
  <1>3. ASSUME UNCHANGED <<row, held, cmd>>, settings_cache' \in {settings_cache, None}
        PROVE  CacheIsFresh'
    BY <1>3 DEF CacheIsFresh
  <1>4. CASE SecondPasses
    <2>1. /\ held'[row.value] = 0 /\ row' = row /\ cmd' = cmd
          /\ \A v \in Values : held'[v] = 0 \/ held'[v] = More(held[v], Expiry + 1)
      BY <1>0, <1>4 DEF SecondPasses
    <2>2. settings_cache # None =>
              /\ settings_cache'.value = settings_cache.value
              /\ settings_cache'.age = More(settings_cache.age, Expiry + 1)
      <3>1. settings_cache # None => settings_cache' = [settings_cache EXCEPT !.age = More(@, Expiry + 1)]
        BY <1>4 DEF SecondPasses
      <3>2. settings_cache # None => settings_cache \in [value : Values, age : Nat]
        BY DEF CommandsTypeOK
      <3> QED BY <3>1, <3>2
    <2>3. ASSUME NEW m \in Nat, NEW n \in Nat, m <= n, n <= Expiry + 1
          PROVE  /\ More(m, Expiry + 1) <= More(n, Expiry + 1) /\ More(n, Expiry + 1) <= Expiry + 1
                 /\ 0 <= More(n, Expiry + 1)
      <3>1. CASE n = Expiry + 1
        BY <1>7, <2>3, <3>1 DEF More
      <3>2. CASE n # Expiry + 1
        BY <1>7, <2>3, <3>2 DEF More
      <3> QED BY <3>1, <3>2
    <2>4. settings_cache' # None => settings_cache # None
      BY <1>4 DEF SecondPasses
    <2>5. settings_cache' # None => /\ held'[settings_cache'.value] <= settings_cache'.age
                                    /\ settings_cache'.age <= Expiry + 1
      <3>1. SUFFICES ASSUME settings_cache # None
                     PROVE  /\ held'[settings_cache'.value] <= settings_cache'.age
                            /\ settings_cache'.age <= Expiry + 1
        BY <2>4
      <3>2. /\ held[settings_cache.value] <= settings_cache.age /\ settings_cache.age <= Expiry + 1
            /\ held[settings_cache.value] \in Nat /\ settings_cache.age \in Nat
        BY <1>0, <3>1 DEF CacheIsFresh
      <3> QED BY <1>0, <1>7, <2>1, <2>2, <2>3, <3>1, <3>2
    <2>6. \A s \in Threads : cmd'[s].step \notin {"insert row", "store"}
      BY <1>4, <2>1 DEF SecondPasses
    <2> QED BY <2>1, <2>5, <2>6 DEF CacheIsFresh
  <1>5. CASE BackgroundThread
    <2>1. Head(bg) \in Queries
      BY <1>5, Executed DEF BackgroundThread, CommandsTypeOK
    <2>2. /\ settings_cache' = settings_cache /\ cmd' = cmd
          /\ \/ SetRow(Default) \/ (Head(bg).op = "update row" /\ SetRow(Head(bg).value))
             \/ UNCHANGED <<row, held>>
      BY <1>5 DEF BackgroundThread, Execute
    <2> QED BY <1>0, <1>2, <1>3, <2>1, <2>2, QueryKinds
  <1>6. ASSUME OtherStep PROVE CacheIsFresh'
    <2>1. ASSUME NEW v \in Values, WebEdit(v) PROVE CacheIsFresh'
      BY <1>2, <2>1 DEF WebEdit, Event
    <2>2. CASE OnGuildDelete \/ (\E c \in Channels : WebStart(c)) \/ (\E u \in Users : MinutesPass(u))
      BY <1>3, <2>2 DEF OnGuildDelete, WebStart, Event, MinutesPass, OtherThanMenus, settingVars
    <2> QED BY <1>4, <1>5, <1>6, <2>1, <2>2 DEF OtherStep
  <1> QED BY <1>1, <1>6, EitherStep

(* Where the queue only grows, an insert stays queued.                      *)
LEMMA InsuredGrows ==
    ASSUME bg \in Seq(Queries), NEW queries \in Seq(Queries), Queue(queries), row' = row, Insured
    PROVE  Insured'
  <1> QED BY Added DEF Insured, Inserting

(* The row is insured before a thread may use its defaults, and stays so.   *)
LEMMA InsuredStep ==
    ASSUME CommandsTypeOK, RowIsInsured, Next
    PROVE  RowIsInsured' /\ (Insured => Insured')
  <1>1. ASSUME NEW t \in Threads, ThreadStep(t) PROVE RowIsInsured' /\ (Insured => Insured')
    <2>1. Moves(t) /\ Changes(t) /\ row' = row /\ bg \in Seq(Queries)
      BY <1>1, ThreadMoves, ThreadChanges, ThreadsKeepRow DEF CommandsTypeOK
    <2>2. \A s \in Threads \ {t} : cmd'[s] = cmd[s]
      BY <2>1 DEF Moves, CommandsTypeOK
    <2>3. Insured => Insured'
      <3>1. CASE UNCHANGED bg
        BY <2>1, <3>1 DEF Insured, Inserting
      <3>2. ASSUME NEW queries \in Seq(Queries), Queue(queries) PROVE Insured => Insured'
        BY <2>1, <3>2, InsuredGrows
      <3>3. CASE InsertRow(t) \/ Queue(<<CacheUser>>)
        BY <3>2, <3>3, QueriesQueued DEF InsertRow
      <3>4. CASE Call(t)
        BY <3>2, <3>4, CommandQueries DEF Call
      <3>5. CASE CountRemaining(t)
        <4>1. cmd[t].with \in Categories
          BY <3>5 DEF CommandsTypeOK, Sensible, CountRemaining, At
        <4> QED BY <3>1, <3>2, <3>5, <4>1, QueriesQueued DEF CountRemaining
      <3> QED BY <2>1, <3>1, <3>3, <3>4, <3>5 DEF Changes
    <2>4. InsertRow(t) => Insured'
      <3>1. SUFFICES ASSUME InsertRow(t) PROVE Insured'
        OBVIOUS
      <3>2. [op |-> "insert row"] \in Queries /\ [op |-> "insert row"].op = "insert row"
        BY DEF Queries
      <3>3. PICK q : q = <<[op |-> "insert row"]>>
        OBVIOUS
      <3>4. q \in Seq(Queries) /\ 1 \in DOMAIN q /\ q[1].op = "insert row"
        BY <3>2, <3>3, OneQuery
      <3>5. Queue(q)
        BY <3>1, <3>3 DEF InsertRow
      <3>6. Len(bg) + 1 \in DOMAIN bg' /\ bg'[Len(bg) + 1] = q[1]
        BY <2>1, <3>4, <3>5, Added
      <3> QED BY <3>4, <3>6 DEF Insured, Inserting
    <2>5. settings_cache' # None => settings_cache # None \/ Past(cmd[t])
      <3>1. StoreSettings(t) => Past(cmd[t])
        BY DEF StoreSettings, At, Past
      <3> QED BY <2>1, <3>1 DEF Changes, settingVars, eraseCache, Call
    <2>6. Past(cmd'[t]) => Past(cmd[t]) \/ settings_cache # None \/ row.exists \/ InsertRow(t)
      BY <2>1 DEF Moves
    <2> QED BY <1>1, <2>2, <2>3, <2>4, <2>5, <2>6 DEF RowIsInsured, Insured
  <1>2. ASSUME UNCHANGED <<row, bg, cmd>>, settings_cache' # None => settings_cache # None
        PROVE  RowIsInsured' /\ (Insured => Insured')
    BY <1>2 DEF RowIsInsured, Insured, Inserting
  <1>3. ASSUME NEW v \in Values, WebEdit(v) PROVE RowIsInsured' /\ (Insured => Insured')
    <2>1. row'.exists
      BY <1>3 DEF WebEdit, SetRow
    <2> QED BY <2>1 DEF RowIsInsured, Insured
  <1>4. CASE OnGuildDelete
    <2>1. Queue(<<[op |-> "kicked"]>>) /\ UNCHANGED <<row, cmd>> /\ settings_cache' = None
      BY <1>4 DEF OnGuildDelete, Event
    <2>2. Insured => Insured'
      BY <2>1, QueriesQueued, InsuredGrows DEF CommandsTypeOK
    <2> QED BY <2>1, <2>2 DEF RowIsInsured
  <1>5. CASE BackgroundThread
    <2>1. Insured => Insured'
      <3>1. SUFFICES ASSUME Insured, ~ row'.exists PROVE Inserting'
        BY DEF Insured
      <3>2. row' = row /\ Head(bg).op # "insert row" /\ ~ row.exists
        BY <1>5, <3>1, RowExecuted DEF BackgroundThread
      <3>3. PICK i \in DOMAIN bg : bg[i].op = "insert row"
        BY <3>1, <3>2 DEF Insured, Inserting
      <3>4. bg \in Seq(Queries) /\ bg # <<>> /\ bg' = Tail(bg)
        BY <1>5 DEF BackgroundThread, CommandsTypeOK
      <3>5. i # 1
        BY <3>2, <3>3, <3>4, Executed
      <3>6. i - 1 \in DOMAIN bg' /\ bg'[i - 1] = bg[i]
        BY <3>3, <3>4, <3>5, Executed
      <3> QED BY <3>3, <3>6 DEF Inserting
    <2> QED BY <1>5, <2>1 DEF RowIsInsured, BackgroundThread
  <1>6. ASSUME OtherStep PROVE RowIsInsured' /\ (Insured => Insured')
    BY <1>2, <1>3, <1>4, <1>5, <1>6
    DEF OtherStep, WebStart, Event, MinutesPass, OtherThanMenus, settingVars, SecondPasses
  <1> QED BY <1>1, <1>6, EitherStep

(* Queries that are no updates leave the last update where it is.           *)
LEMMA ConfirmedStays ==
    ASSUME bg \in Seq(Queries), ConfirmedIsQueued, UNCHANGED <<row, confirmed>>,
           NEW queries \in Seq(Queries), Queue(queries),
           \A j \in DOMAIN queries : queries[j].op # "update row"
    PROVE  ConfirmedIsQueued'
  <1>1. \A i \in DOMAIN bg' : Updating(i)' => i \in DOMAIN bg /\ Updating(i)
    <2> SUFFICES ASSUME NEW i \in DOMAIN bg', bg'[i].op = "update row"
                 PROVE  i \in DOMAIN bg /\ bg[i].op = "update row"
      BY DEF Updating
    <2>1. CASE i \in DOMAIN bg
      BY <2>1, Added
    <2>2. ASSUME NEW j \in DOMAIN queries, i = Len(bg) + j PROVE FALSE
      <3>1. bg'[i] = queries[j]
        BY <2>2, Added
      <3> QED BY <3>1
    <2> QED BY <2>1, <2>2, Added
  <1>2. \A i \in DOMAIN bg : i \in DOMAIN bg' /\ bg'[i] = bg[i]
    BY Added
  <1> SUFFICES ASSUME confirmed' # None
               PROVE  \/ row'.exists /\ row'.value = confirmed' /\ \A i \in DOMAIN bg' : ~ Updating(i)'
                      \/ \E i \in DOMAIN bg' :
                            /\ LastUpdate(i)' /\ bg'[i].value = confirmed'
                            /\ row'.exists \/ \E j \in DOMAIN bg' : j < i /\ bg'[j].op = "insert row"
    BY DEF ConfirmedIsQueued
  <1>3. CASE row.exists /\ row.value = confirmed /\ \A i \in DOMAIN bg : ~ Updating(i)
    BY <1>1, <1>3
  <1>4. ASSUME NEW i \in DOMAIN bg, LastUpdate(i), bg[i].value = confirmed,
               row.exists \/ \E j \in DOMAIN bg : j < i /\ bg[j].op = "insert row"
        PROVE  /\ i \in DOMAIN bg' /\ LastUpdate(i)' /\ bg'[i].value = confirmed'
               /\ row'.exists \/ \E j \in DOMAIN bg' : j < i /\ bg'[j].op = "insert row"
    <2>1. LastUpdate(i)'
      BY <1>1, <1>2, <1>4 DEF LastUpdate, Updating
    <2> QED BY <1>2, <1>4, <2>1
  <1> QED BY <1>3, <1>4 DEF ConfirmedIsQueued

(* What a moderator is told is set is queued last, behind the row.          *)
LEMMA ConfirmedStep ==
    ASSUME CommandsTypeOK, RowIsInsured, ConfirmedIsQueued, Next
    PROVE  ConfirmedIsQueued'
  <1>0. bg \in Seq(Queries)
    BY DEF CommandsTypeOK
  <1>1. ASSUME UNCHANGED <<row, confirmed, bg>> PROVE ConfirmedIsQueued'
    BY <1>1 DEF ConfirmedIsQueued, LastUpdate, Updating
  <1>2. ASSUME NEW t \in Threads, Call(t) PROVE ConfirmedIsQueued'
    <2>1. PICK queries \in AnyCommand :
            /\ Queue(queries)
            /\ confirmed' = IF ValuesSet(queries) = {} THEN confirmed
                            ELSE CHOOSE v \in ValuesSet(queries) : TRUE
      BY <1>2 DEF Call
    <2>2. row' = row /\ queries \in Seq(Queries)
      BY <1>2, CommandQueries DEF Call
    <2>3. CASE ValuesSet(queries) = {} /\ \A j \in DOMAIN queries : queries[j].op # "update row"
      BY <1>0, <2>1, <2>2, <2>3, ConfirmedStays
    <2>4. ASSUME NEW v \in Values, NEW j \in DOMAIN queries,
                 ValuesSet(queries) = {v}, queries[j] = [op |-> "update row", value |-> v],
                 \A i \in DOMAIN queries : queries[i].op = "update row" => i = j
          PROVE  ConfirmedIsQueued'
      <3>1. confirmed' = v
        BY <2>1, <2>4
      <3> PICK n : n = Len(bg) + j
        OBVIOUS
      <3>2. n \in DOMAIN bg' /\ bg'[n] = [op |-> "update row", value |-> v]
        BY <1>0, <2>1, <2>2, <2>4, Added
      <3>3. \A i \in DOMAIN bg : i \in DOMAIN bg' /\ bg'[i] = bg[i] /\ i < n
        BY <1>0, <2>1, <2>2, Added
      <3>4. \A i \in DOMAIN bg' : Updating(i)' => i \in DOMAIN bg \/ i = n
        <4> TAKE i \in DOMAIN bg'
        <4> HAVE Updating(i)'
        <4>1. CASE i \in DOMAIN bg
          BY <4>1
        <4>2. ASSUME NEW k \in DOMAIN queries, i = Len(bg) + k PROVE i = n
          <5>1. bg'[i] = queries[k]
            BY <1>0, <2>1, <2>2, <4>2, Added
          <5> QED BY <2>4, <4>2, <5>1 DEF Updating
        <4> QED BY <1>0, <2>1, <2>2, <4>1, <4>2, Added
      <3>5. n \in Nat /\ \A i \in DOMAIN bg : i \in Nat
        <4>1. DOMAIN bg = 1..Len(bg) /\ Len(bg) \in Nat /\ DOMAIN queries = 1..Len(queries)
          BY <1>0, <2>2
        <4> QED BY <4>1
      <3>6. LastUpdate(n)' /\ bg'[n].value = confirmed'
        <4>0. /\ [op |-> "update row", value |-> v].op = "update row"
              /\ [op |-> "update row", value |-> v].value = v
          OBVIOUS
        <4>1. bg'[n].op = "update row" /\ bg'[n].value = v
          BY <3>2, <4>0
        <4>2. \A i \in DOMAIN bg' : Updating(i)' => i <= n
          BY <3>3, <3>4, <3>5
        <4> QED BY <3>1, <4>1, <4>2 DEF LastUpdate, Updating
      <3>7. Insured
        <4>1. Past(cmd[t])
          BY <1>2 DEF Call, At, Past
        <4> QED BY <4>1 DEF RowIsInsured
      <3>8. row'.exists \/ \E i \in DOMAIN bg' : i < n /\ bg'[i].op = "insert row"
        BY <2>2, <3>3, <3>7 DEF Insured, Inserting
      <3> QED BY <3>2, <3>6, <3>8 DEF ConfirmedIsQueued
    <2> QED BY <2>3, <2>4, CommandQueries
  <1>3. ASSUME NEW t \in Threads, ThreadStep(t) PROVE ConfirmedIsQueued'
    <2>1. Moves(t) /\ Changes(t) /\ row' = row
      BY <1>3, ThreadMoves, ThreadChanges, ThreadsKeepRow
    <2>2. Call(t) \/ confirmed' = confirmed
      BY <2>1 DEF Changes, settingVars, eraseCache, StoreSettings, OnlyCaches
    <2>3. ASSUME confirmed' = confirmed, NEW q \in Queries, q.op # "update row", Queue(<<q>>)
          PROVE  ConfirmedIsQueued'
      <3>1. <<q>> \in Seq(Queries) /\ \A j \in DOMAIN <<q>> : <<q>>[j].op # "update row"
        BY <2>3, NoUpdate
      <3> QED BY <1>0, <2>1, <2>3, <3>1, ConfirmedStays
    <2>4. /\ CacheUser \in Queries /\ CacheUser.op # "update row"
          /\ [op |-> "insert row"] \in Queries /\ [op |-> "insert row"].op # "update row"
          /\ \A c \in Categories : /\ [op |-> "enable", category |-> c] \in Queries
                                   /\ [op |-> "enable", category |-> c].op # "update row"
      BY DEF CacheUser, Queries
    <2>5. CASE confirmed' = confirmed /\ (InsertRow(t) \/ Queue(<<CacheUser>>))
      BY <2>3, <2>4, <2>5 DEF InsertRow
    <2>6. CASE confirmed' = confirmed /\ CountRemaining(t)
      <3>1. cmd[t].with \in Categories
        BY <2>6 DEF CommandsTypeOK, Sensible, CountRemaining, At
      <3>2. UNCHANGED bg \/ Queue(<<[op |-> "enable", category |-> cmd[t].with]>>)
        BY <2>6 DEF CountRemaining
      <3>3. PICK c \in Categories : c = cmd[t].with
        BY <3>1
      <3> QED BY <1>1, <2>1, <2>3, <2>4, <2>6, <3>2, <3>3
    <2> QED BY <1>1, <1>2, <2>1, <2>2, <2>5, <2>6 DEF Changes
  <1>4. CASE OnGuildDelete
    <2>1. [op |-> "kicked"] \in Queries /\ [op |-> "kicked"].op # "update row"
      BY DEF Queries
    <2>2. <<[op |-> "kicked"]>> \in Seq(Queries)
          /\ \A j \in DOMAIN <<[op |-> "kicked"]>> : <<[op |-> "kicked"]>>[j].op # "update row"
      BY <2>1, NoUpdate
    <2>3. UNCHANGED <<row, confirmed>> /\ Queue(<<[op |-> "kicked"]>>)
      BY <1>4 DEF OnGuildDelete
    <2> QED BY <1>0, <2>2, <2>3, ConfirmedStays

  <1>5. ASSUME NEW v \in Values, WebEdit(v) PROVE ConfirmedIsQueued'
    BY <1>5 DEF WebEdit, ConfirmedIsQueued
  <1>6. CASE BackgroundThread
    <2>1. bg # <<>> /\ bg' = Tail(bg) /\ Execute(Head(bg)) /\ confirmed' = confirmed
      BY <1>6 DEF BackgroundThread
    <2>2. Head(bg) = bg[1] /\ 1 \in DOMAIN bg
      BY <1>0, <2>1, Executed
    <2>3. /\ \A i \in DOMAIN bg' : i + 1 \in DOMAIN bg /\ bg'[i] = bg[i + 1] /\ i \in Nat \ {0}
          /\ \A i \in DOMAIN bg : i # 1 => /\ i - 1 \in DOMAIN bg' /\ bg'[i - 1] = bg[i]
                                           /\ i \in Nat \ {0}
      BY <1>0, <2>1, Executed
    <2>4. row.exists => row'.exists
      BY <2>1, RowExecuted
    <2>5. \A i \in DOMAIN bg' : Updating(i)' => Updating(i + 1)
      BY <2>3 DEF Updating
    <2> SUFFICES ASSUME confirmed # None
                 PROVE  \/ /\ row'.exists /\ row'.value = confirmed
                           /\ \A i \in DOMAIN bg' : ~ Updating(i)'
                        \/ \E i \in DOMAIN bg' :
                              /\ LastUpdate(i)' /\ bg'[i].value = confirmed
                              /\ row'.exists \/ \E j \in DOMAIN bg' : j < i /\ bg'[j].op = "insert row"
      BY <2>1 DEF ConfirmedIsQueued
    <2>6. CASE row.exists /\ row.value = confirmed /\ \A i \in DOMAIN bg : ~ Updating(i)
      <3>1. row' = row
        BY <2>1, <2>2, <2>6 DEF Execute, Updating
      <3>2. \A i \in DOMAIN bg' : ~ Updating(i)'
        BY <2>3, <2>5, <2>6
      <3> QED BY <2>6, <3>1, <3>2
    <2>7. ASSUME NEW i \in DOMAIN bg, LastUpdate(i), bg[i].value = confirmed,
                 row.exists \/ \E j \in DOMAIN bg : j < i /\ bg[j].op = "insert row"
          PROVE  \/ /\ row'.exists /\ row'.value = confirmed
                    /\ \A k \in DOMAIN bg' : ~ Updating(k)'
                 \/ \E k \in DOMAIN bg' :
                       /\ LastUpdate(k)' /\ bg'[k].value = confirmed
                       /\ row'.exists \/ \E j \in DOMAIN bg' : j < k /\ bg'[j].op = "insert row"
      <3>0. \A j \in DOMAIN bg : j \in Nat \ {0}
        BY <2>3
      <3>1. CASE i = 1
        <4>1. bg[1].op = "update row" /\ row.exists
          <5>1. bg[1].op = "update row"
            BY <2>7, <3>1 DEF LastUpdate, Updating
          <5>2. \A j \in DOMAIN bg : ~ (j < i)
            BY <3>0, <3>1
          <5> QED BY <2>7, <5>1, <5>2
        <4>2. row'.exists /\ row'.value = confirmed
          BY <2>1, <2>2, <2>7, <3>1, <4>1, RowExecuted
        <4>3. \A k \in DOMAIN bg' : ~ Updating(k)'
          <5> SUFFICES ASSUME NEW k \in DOMAIN bg', Updating(k)' PROVE FALSE
            OBVIOUS
          <5>1. k + 1 \in DOMAIN bg /\ Updating(k + 1) /\ k \in Nat \ {0}
            BY <2>3, <2>5
          <5>2. k + 1 <= 1
            BY <2>7, <3>1, <5>1 DEF LastUpdate
          <5> QED BY <5>1, <5>2
        <4> QED BY <4>2, <4>3
      <3>2. CASE i # 1
        <4>1. i - 1 \in DOMAIN bg' /\ bg'[i - 1] = bg[i] /\ i \in Nat \ {0}
          BY <2>3, <3>2
        <4>2. PICK k \in DOMAIN bg' : k = i - 1
          BY <4>1
        <4>3. Updating(k)'
          BY <2>7, <4>1, <4>2 DEF LastUpdate, Updating
        <4>4. \A j \in DOMAIN bg' : Updating(j)' => j <= k
          <5> SUFFICES ASSUME NEW j \in DOMAIN bg', Updating(j)' PROVE j <= k
            OBVIOUS
          <5>1. j + 1 \in DOMAIN bg /\ Updating(j + 1) /\ j \in Nat \ {0}
            BY <2>3, <2>5
          <5>2. j + 1 <= i
            BY <2>7, <5>1 DEF LastUpdate
          <5> QED BY <4>1, <4>2, <5>1, <5>2
        <4>5. row'.exists \/ \E j \in DOMAIN bg' : j < k /\ bg'[j].op = "insert row"
          <5>1. CASE row.exists
            BY <2>4, <5>1
          <5>2. ASSUME NEW j \in DOMAIN bg, j < i, bg[j].op = "insert row"
                PROVE  row'.exists \/ \E m \in DOMAIN bg' : m < k /\ bg'[m].op = "insert row"
            <6>1. CASE j = 1
              BY <2>1, <2>2, <2>4, <5>2, <6>1, RowExecuted
            <6>2. CASE j # 1
              <7>1. j - 1 \in DOMAIN bg' /\ bg'[j - 1] = bg[j] /\ j \in Nat \ {0}
                BY <2>3, <6>2
              <7>2. j \in Nat /\ i \in Nat
                BY <4>1, <7>1
              <7>3. j < i
                BY <5>2
              <7>4. j - 1 < i - 1
                BY <7>2, <7>3
              <7> QED BY <4>2, <5>2, <7>1, <7>4
            <6> QED BY <6>1, <6>2
          <5> QED BY <2>7, <5>1, <5>2
        <4> QED BY <2>7, <4>1, <4>2, <4>3, <4>4, <4>5 DEF LastUpdate
      <3> QED BY <3>1, <3>2
    <2> QED BY <2>6, <2>7 DEF ConfirmedIsQueued
  <1>7. ASSUME OtherStep PROVE ConfirmedIsQueued'
    <2>1. CASE (\E c \in Channels : WebStart(c)) \/ (\E u \in Users : MinutesPass(u)) \/ SecondPasses
      BY <1>1, <2>1 DEF WebStart, MinutesPass, OtherThanMenus, settingVars, SecondPasses
    <2> QED BY <1>4, <1>5, <1>6, <1>7, <2>1 DEF OtherStep
  <1> QED BY <1>3, <1>7, EitherStep

-----------------------------------------------------------------------------
(* Categories *)

(* Where no more categories stay disabled than before, enough are left.     *)
LEMMA EnoughRemain ==
    ASSUME EnoughToBeLeft,
           disabled_categories' \ ToEnable' \subseteq disabled_categories \ ToEnable
    PROVE  EnoughToBeLeft'
  <1> DEFINE S == Categories \ (disabled_categories \ ToEnable)
             T == Categories \ (disabled_categories' \ ToEnable')
  <1>1. S \subseteq T /\ T \subseteq Categories
    OBVIOUS
  <1>2. QuestionsOf(S) \in Nat /\ QuestionsOf(S) <= QuestionsOf(T)
    <2> HIDE DEF S, T
    <2>1. \A B \in SUBSET Categories : \A A \in SUBSET B :
              QuestionsOf(A) \in Nat /\ QuestionsOf(A) <= QuestionsOf(B)
      BY MoreQuestions
    <2> QED BY <1>1, <2>1
  <1>3. QuestionsOf(T) \in Nat
    <2> HIDE DEF T
    <2>1. \A A \in SUBSET Categories : QuestionsOf(A) \in Nat
      BY MoreQuestions
    <2> QED BY <1>1, <2>1
  <1>4. MIN_QUESTIONS \in Nat
    BY CommandsAssumption DEF CommandsAssumption
  <1>5. QuestionsOf(S) >= MIN_QUESTIONS
    BY DEF EnoughToBeLeft
  <1>6. (QuestionsOf(T) >= MIN_QUESTIONS) => EnoughToBeLeft'
    BY DEF EnoughToBeLeft
  <1> HIDE DEF S, T
  <1> QED BY <1>2, <1>3, <1>4, <1>5, <1>6

(* Nothing but the background thread takes a query from the queue.          *)
LEMMA StaysQueued ==
    ASSUME bg \in Seq(Queries), UNCHANGED bg \/ \E queries \in Seq(Queries) : Queue(queries)
    PROVE  \A i \in DOMAIN bg : i \in DOMAIN bg' /\ bg'[i] = bg[i]
  <1>1. CASE UNCHANGED bg
    BY <1>1
  <1>2. ASSUME NEW queries \in Seq(Queries), Queue(queries)
        PROVE  \A i \in DOMAIN bg : i \in DOMAIN bg' /\ bg'[i] = bg[i]
    BY <1>2, Added
  <1> QED BY <1>1, <1>2

(* The threads queue queries.                                               *)
LEMMA ThreadQueues ==
    ASSUME CommandsTypeOK, NEW t \in Threads, ThreadStep(t)
    PROVE  UNCHANGED bg \/ \E queries \in Seq(Queries) : Queue(queries)
  <1>1. Changes(t)
    BY ThreadChanges
  <1>2. CASE InsertRow(t) \/ Queue(<<CacheUser>>)
    BY <1>2, QueriesQueued DEF InsertRow
  <1>3. CASE Call(t)
    BY <1>3, CommandQueries DEF Call
  <1>4. CASE CountRemaining(t)
    <2>1. cmd[t].with \in Categories
      BY <1>4 DEF CommandsTypeOK, Sensible, CountRemaining, At
    <2> QED BY <1>4, <2>1, QueriesQueued DEF CountRemaining
  <1> QED BY <1>1, <1>2, <1>3, <1>4 DEF Changes

(* Where enough questions are left as it is, they are if more is enabled.   *)
LEMMA EnoughNow ==
    ASSUME CommandsTypeOK, Remaining >= MIN_QUESTIONS, disabled_categories' = disabled_categories
    PROVE  EnoughToBeLeft'
  <1> DEFINE S == Categories \ disabled_categories
             T == Categories \ (disabled_categories' \ ToEnable')
  <1>1. S \subseteq T /\ T \subseteq Categories
    OBVIOUS
  <1>2. /\ QuestionsOf(S) \in Nat /\ QuestionsOf(S) <= QuestionsOf(T) /\ QuestionsOf(T) \in Nat
    <2> HIDE DEF S, T
    <2>1. \A B \in SUBSET Categories : \A A \in SUBSET B :
              QuestionsOf(A) \in Nat /\ QuestionsOf(A) <= QuestionsOf(B)
      BY MoreQuestions
    <2>2. T \in SUBSET T
      OBVIOUS
    <2> QED BY <1>1, <2>1, <2>2
  <1>3. MIN_QUESTIONS \in Nat
    BY CommandsAssumption DEF CommandsAssumption
  <1>4. QuestionsOf(S) >= MIN_QUESTIONS
    BY DEF Remaining
  <1>5. (QuestionsOf(T) >= MIN_QUESTIONS) => EnoughToBeLeft'
    BY DEF EnoughToBeLeft
  <1> HIDE DEF S, T
  <1> QED BY <1>2, <1>3, <1>4, <1>5

(* A category whose insertion leaves too few questions is enabled again.    *)
LEMMA EnoughStep ==
    ASSUME CommandsTypeOK, EnoughToBeLeft, Next
    PROVE  EnoughToBeLeft'
  <1>0. bg \in Seq(Queries)
    BY DEF CommandsTypeOK
  <1>1. ASSUME NEW t \in Threads, ThreadStep(t) PROVE EnoughToBeLeft'
    <2>1. Moves(t) /\ Changes(t)
      BY <1>1, ThreadMoves, ThreadChanges
    <2>2. \A s \in Threads \ {t} : cmd'[s] = cmd[s]
      BY <2>1 DEF Moves, CommandsTypeOK
    <2>3. \A i \in DOMAIN bg : i \in DOMAIN bg' /\ bg'[i] = bg[i]
      BY <1>0, <1>1, StaysQueued, ThreadQueues
    <2>4. \A c \in ToEnable : c \in ToEnable' \/ (cmd[t].step = "count" /\ cmd[t].with = c)
      <3> SUFFICES ASSUME NEW c \in Categories, c \in ToEnable,
                          ~ (cmd[t].step = "count" /\ cmd[t].with = c)
                   PROVE  c \in ToEnable'
        BY DEF ToEnable
      <3>1. ASSUME NEW i \in DOMAIN bg, bg[i].op = "enable", bg[i].category = c
            PROVE  c \in ToEnable'
        BY <2>3, <3>1 DEF ToEnable
      <3>2. ASSUME NEW s \in Threads, cmd[s].step = "count", cmd[s].with = c
            PROVE  c \in ToEnable'
        <4>1. s # t
          BY <3>2
        <4>2. cmd'[s] = cmd[s]
          BY <2>2, <4>1
        <4> QED BY <3>2, <4>2 DEF ToEnable
      <3> QED BY <3>1, <3>2 DEF ToEnable
    <2>5. CASE InsertCategory(t)
      <3>1. cmd[t].step = "insert category" /\ To(t, "count") /\ "count" \in CommandSteps
        BY <2>5 DEF InsertCategory, At, CommandSteps
      <3>2. cmd[t].with \in Categories
        BY <3>1 DEF CommandsTypeOK, Sensible
      <3>3. cmd'[t].step = "count" /\ cmd'[t].with = cmd[t].with
        BY <3>1, Stepped
      <3>4. cmd[t].with \in ToEnable'
        BY <3>2, <3>3 DEF ToEnable
      <3>5. disabled_categories' = disabled_categories \cup {cmd[t].with}
        BY <2>5 DEF InsertCategory
      <3> QED BY <2>4, <3>1, <3>4, <3>5, EnoughRemain
    <2>6. CASE CountRemaining(t) /\ Remaining >= MIN_QUESTIONS
      BY <2>6, EnoughNow DEF CountRemaining
    <2>7. CASE CountRemaining(t) /\ ~ (Remaining >= MIN_QUESTIONS)
      <3>1. /\ disabled_categories' = disabled_categories /\ cmd[t].step = "count"
            /\ Queue(<<[op |-> "enable", category |-> cmd[t].with]>>)
        BY <2>7 DEF CountRemaining, At
      <3>2. cmd[t].with \in Categories
        BY <3>1 DEF CommandsTypeOK, Sensible
      <3>3. PICK q : q = [op |-> "enable", category |-> cmd[t].with]
        OBVIOUS
      <3>4. q \in Queries /\ q.op = "enable" /\ q.category = cmd[t].with
        BY <3>2, <3>3 DEF Queries
      <3>5. PICK queries : queries = <<q>>
        OBVIOUS
      <3>6. queries \in Seq(Queries) /\ 1 \in DOMAIN queries /\ queries[1] = q
        BY <3>4, <3>5, OneQuery
      <3>7. Queue(queries)
        BY <3>1, <3>3, <3>5
      <3>8. Len(bg) + 1 \in DOMAIN bg' /\ bg'[Len(bg) + 1] = q
        BY <1>0, <3>6, <3>7, Added
      <3>9. cmd[t].with \in ToEnable'
        BY <3>2, <3>4, <3>8 DEF ToEnable
      <3> QED BY <2>4, <3>1, <3>9, EnoughRemain
    <2>8. CASE ~ InsertCategory(t) /\ ~ CountRemaining(t)
      <3>1. disabled_categories' = disabled_categories /\ cmd[t].step # "count"
        BY <2>1, <2>8 DEF Changes
      <3> QED BY <2>4, <3>1, EnoughRemain
    <2> QED BY <2>5, <2>6, <2>7, <2>8
  <1>2. ASSUME UNCHANGED <<disabled_categories, cmd>>,
               UNCHANGED bg \/ \E queries \in Seq(Queries) : Queue(queries)
        PROVE  EnoughToBeLeft'
    <2>1. \A i \in DOMAIN bg : i \in DOMAIN bg' /\ bg'[i] = bg[i]
      BY <1>0, <1>2, StaysQueued
    <2>2. ToEnable \subseteq ToEnable'
      BY <1>2, <2>1 DEF ToEnable
    <2> QED BY <1>2, <2>2, EnoughRemain
  <1>3. CASE BackgroundThread
    <2>1. bg # <<>> /\ bg' = Tail(bg) /\ Execute(Head(bg)) /\ cmd' = cmd
      BY <1>3 DEF BackgroundThread
    <2>2. Head(bg) = bg[1] /\ \A i \in DOMAIN bg : i # 1 => i - 1 \in DOMAIN bg' /\ bg'[i - 1] = bg[i]
      BY <1>0, <2>1, Executed
    <2>3. disabled_categories' = IF bg[1].op = "enable" THEN disabled_categories \ {bg[1].category}
                                 ELSE disabled_categories
      BY <2>1, <2>2 DEF Execute
    <2>4. \A c \in ToEnable : c \in ToEnable' \/ (bg[1].op = "enable" /\ bg[1].category = c)
      <3> SUFFICES ASSUME NEW c \in Categories, c \in ToEnable,
                          ~ (bg[1].op = "enable" /\ bg[1].category = c)
                   PROVE  c \in ToEnable'
        BY DEF ToEnable
      <3>1. ASSUME NEW i \in DOMAIN bg, bg[i].op = "enable", bg[i].category = c
            PROVE  c \in ToEnable'
        <4>1. i - 1 \in DOMAIN bg' /\ bg'[i - 1] = bg[i]
          BY <2>2, <3>1
        <4> QED BY <3>1, <4>1 DEF ToEnable
      <3>2. ASSUME NEW s \in Threads, cmd[s].step = "count", cmd[s].with = c
            PROVE  c \in ToEnable'
        BY <2>1, <3>2 DEF ToEnable
      <3> QED BY <3>1, <3>2 DEF ToEnable
    <2> QED BY <2>3, <2>4, EnoughRemain
  <1>4. ASSUME OtherStep PROVE EnoughToBeLeft'
    <2>1. OnGuildDelete => \E queries \in Seq(Queries) : Queue(queries)
      BY QueriesQueued DEF OnGuildDelete
    <2> QED
      BY <1>2, <1>3, <1>4, <2>1
      DEF OtherStep, WebStart, WebEdit, Event, MinutesPass, OtherThanMenus, OnGuildDelete, SecondPasses
  <1> QED BY <1>1, <1>4, EitherStep

-----------------------------------------------------------------------------
(* The limiter *)

(* A limit runs for the seconds since it was set.                           *)
LEMMA LimitsStep ==
    ASSUME CommandsTypeOK, LimitsRun, Next
    PROVE  LimitsRun'
  <1>0. Period \in Nat
    BY CommandsAssumption DEF CommandsAssumption
  <1>1. /\ limits \in [Channels -> Nat] /\ last_rl_warning \in [Channels -> Nat]
        /\ spaced \in [Channels -> [limit : Nat, warning : Nat]]
    BY DEF CommandsTypeOK
  <1>2. CASE UNCHANGED limitVars
    BY <1>2 DEF limitVars, LimitsRun
  <1>3. ASSUME NEW t \in Threads, set_limit(t) PROVE LimitsRun'
    <2>1. /\ limits' = [limits EXCEPT ![cmd[t].ch] = Period]
          /\ spaced' = [spaced EXCEPT ![cmd[t].ch].limit = 0] /\ last_rl_warning' = last_rl_warning
      BY <1>3 DEF set_limit
    <2>2. \A c \in Channels : /\ spaced'[c].warning = spaced[c].warning
                              /\ c # cmd[t].ch => limits'[c] = limits[c] /\ spaced'[c].limit = spaced[c].limit
                              /\ c = cmd[t].ch => limits'[c] = Period /\ spaced'[c].limit = 0
      BY <1>1, <2>1
    <2> QED BY <1>0, <2>1, <2>2 DEF LimitsRun
  <1>4. ASSUME NEW t \in Threads, set_rl_warn(t) PROVE LimitsRun'
    <2>1. /\ last_rl_warning' = [last_rl_warning EXCEPT ![cmd[t].ch] = Period]
          /\ spaced' = [spaced EXCEPT ![cmd[t].ch].warning = 0] /\ limits' = limits
      BY <1>4 DEF set_rl_warn
    <2>2. \A c \in Channels :
              /\ spaced'[c].limit = spaced[c].limit
              /\ c # cmd[t].ch => /\ last_rl_warning'[c] = last_rl_warning[c]
                                  /\ spaced'[c].warning = spaced[c].warning
              /\ c = cmd[t].ch => last_rl_warning'[c] = Period /\ spaced'[c].warning = 0
      BY <1>1, <2>1
    <2> QED BY <1>0, <2>1, <2>2 DEF LimitsRun
  <1>5. CASE SecondPasses
    <2>1. \A m \in Nat, n \in Nat : m + n = Period => Less(m) + More(n, Period) = Period
      BY <1>0 DEF Less, More
    <2>2. \A c \in Channels : /\ limits'[c] = Less(limits[c])
                              /\ last_rl_warning'[c] = Less(last_rl_warning[c])
                              /\ spaced'[c].limit = More(spaced[c].limit, Period)
                              /\ spaced'[c].warning = More(spaced[c].warning, Period)
      BY <1>5 DEF SecondPasses
    <2>3. \A c \in Channels : /\ limits[c] \in Nat /\ last_rl_warning[c] \in Nat
                              /\ spaced[c].limit \in Nat /\ spaced[c].warning \in Nat
      BY <1>1
    <2> QED BY <2>1, <2>2, <2>3 DEF LimitsRun
  <1>6. ASSUME NEW t \in Threads, ThreadStep(t) PROVE LimitsRun'
    BY <1>2, <1>3, <1>4, <1>6, ThreadChanges DEF Changes
  <1>7. ASSUME OtherStep PROVE LimitsRun'
    BY <1>2, <1>5, <1>7
    DEF OtherStep, WebStart, WebEdit, MinutesPass, OtherThanMenus, OnGuildDelete, BackgroundThread
  <1> QED BY <1>6, <1>7, EitherStep

(* A thread that warns is done with the warning.                            *)
LEMMA Warned ==
    ASSUME CommandsTypeOK, NEW t \in Threads, set_rl_warn(t)
    PROVE  cmd'[t].step # "warn"
  <1>1. cmd[t].step = "warn" /\ HandlerDone(t)
    BY DEF set_rl_warn, At
  <1>2. cmd[t] \in Handled
    BY <1>1 DEF CommandsTypeOK, Idle
  <1>3. cmd[t].from \in {"user", "menu", "dashboard"}
    BY <1>2 DEF Handled
  <1>4. Done(t) \/ To(t, "delete menu") \/ To(t, "delete start")
    BY <1>1, <1>3 DEF HandlerDone
  <1>5. Idle.step = "none" /\ "delete menu" \in CommandSteps /\ "delete start" \in CommandSteps
    BY DEF Idle, CommandSteps
  <1> QED BY <1>1, <1>4, <1>5, IsDone, Stepped

(* Nobody comes between, unless two commands of the channel overlap.        *)
LEMMA TurnStep ==
    ASSUME CommandsTypeOK, InTurn, Next
    PROVE  InTurn'
  <1>0. limits \in [Channels -> Nat] /\ last_rl_warning \in [Channels -> Nat]
    BY DEF CommandsTypeOK
  <1>1. ASSUME NEW t \in Threads, ThreadStep(t) PROVE InTurn'
    <2>1. Moves(t) /\ Changes(t)
      BY <1>1, ThreadMoves, ThreadChanges
    <2>2. \A s \in Threads \ {t} : cmd'[s] = cmd[s]
      BY <2>1 DEF Moves, CommandsTypeOK
    <2>3. overlapped \subseteq overlapped'
      BY <2>1 DEF Changes
    <2>4. \A q \in Threads \ {t} : ~ (cmd[q].ch = cmd'[t].ch /\ cmd'[t].ch \in Channels \ overlapped')
      <3> SUFFICES ASSUME NEW q \in Threads \ {t}, cmd[q].ch = cmd'[t].ch,
                          cmd'[t].ch \in Channels \ overlapped'
                   PROVE  FALSE
        OBVIOUS
      <3>1. cmd'[t] # Idle
        BY CommandsAssumption DEF CommandsAssumption, Idle
      <3>2. CASE cmd'[t].ch = cmd[t].ch
        BY <2>3, <3>2 DEF InTurn
      <3>3. CASE Overlaps(t, cmd'[t].ch)
        <4>1. cmd'[t].ch \in {cmd[s].ch : s \in Threads \ {t}}
          OBVIOUS
        <4> QED BY <3>3, <4>1 DEF Overlaps
      <3> QED BY <2>1, <3>1, <3>2, <3>3 DEF Moves
    <2>5. \A r, s \in Threads : cmd'[r].ch \in Channels \ overlapped' /\ cmd'[s].ch = cmd'[r].ch => s = r
      <3> SUFFICES ASSUME NEW r \in Threads, NEW s \in Threads, s # r,
                          cmd'[r].ch \in Channels \ overlapped', cmd'[s].ch = cmd'[r].ch
                   PROVE  FALSE
        OBVIOUS
      <3>1. CASE r = t \/ s = t
        BY <2>2, <2>4, <3>1
      <3>2. CASE r # t /\ s # t
        BY <2>2, <2>3, <3>2 DEF InTurn
      <3> QED BY <3>1, <3>2
    <2>6. ASSUME NEW r \in Threads, cmd'[r].ch \in Channels \ overlapped', cmd'[r].step = "set limit"
          PROVE  limits'[cmd'[r].ch] = 0
      <3>1. limits' = limits \/ (set_limit(t) /\ limits' = [limits EXCEPT ![cmd[t].ch] = Period])
        BY <2>1 DEF Changes, limitVars, set_limit, set_rl_warn
      <3>2. CASE r = t
        <4>1. ~ set_limit(t)
          <5>1. set_limit(t) => cmd[t].step = "set limit" /\ To(t, "call") /\ "call" \in CommandSteps
            BY DEF set_limit, At, CommandSteps
          <5> QED BY <2>6, <3>2, <5>1, Stepped
        <4> QED BY <2>1, <2>6, <3>1, <3>2, <4>1 DEF Moves
      <3>3. CASE r # t
        <4>1. cmd'[r] = cmd[r] /\ cmd[r].ch # cmd[t].ch /\ limits[cmd[r].ch] = 0
          BY <2>2, <2>3, <2>6, <3>3 DEF InTurn
        <4> QED BY <1>0, <2>6, <3>1, <4>1
      <3> QED BY <3>2, <3>3
    <2>7. ASSUME NEW r \in Threads, cmd'[r].ch \in Channels \ overlapped', cmd'[r].step = "warn"
          PROVE  last_rl_warning'[cmd'[r].ch] = 0
      <3>1. \/ last_rl_warning' = last_rl_warning
            \/ set_rl_warn(t) /\ last_rl_warning' = [last_rl_warning EXCEPT ![cmd[t].ch] = Period]
        BY <2>1 DEF Changes, limitVars, set_limit, set_rl_warn
      <3>2. CASE r = t
        <4>1. ~ set_rl_warn(t)
          BY <2>7, <3>2, Warned
        <4> QED BY <2>1, <2>7, <3>1, <3>2, <4>1 DEF Moves
      <3>3. CASE r # t
        <4>1. cmd'[r] = cmd[r] /\ cmd[r].ch # cmd[t].ch /\ last_rl_warning[cmd[r].ch] = 0
          BY <2>2, <2>3, <2>7, <3>3 DEF InTurn
        <4> QED BY <1>0, <2>7, <3>1, <4>1
      <3> QED BY <3>2, <3>3
    <2> QED BY <2>5, <2>6, <2>7 DEF InTurn
  <1>2. ASSUME OtherStep PROVE InTurn'
    <2>1. UNCHANGED <<cmd, overlapped>>
      BY <1>2 DEF OtherStep, WebStart, WebEdit, Event, MinutesPass, OtherThanMenus, boundVars,
                  OnGuildDelete, BackgroundThread, SecondPasses
    <2>2. \/ UNCHANGED <<limits, last_rl_warning>>
          \/ /\ limits' = [c \in Channels |-> Less(limits[c])]
             /\ last_rl_warning' = [c \in Channels |-> Less(last_rl_warning[c])]
      BY <1>2 DEF OtherStep, WebStart, WebEdit, Event, MinutesPass, OtherThanMenus, limitVars,
                  OnGuildDelete, BackgroundThread, SecondPasses
    <2>3. Less(0) = 0
      BY DEF Less
    <2>4. \A c \in Channels : /\ limits[c] = 0 => limits'[c] = 0
                              /\ last_rl_warning[c] = 0 => last_rl_warning'[c] = 0
      BY <2>2, <2>3
    <2> QED BY <2>1, <2>4 DEF InTurn
  <1> QED BY <1>1, <1>2, EitherStep

-----------------------------------------------------------------------------
(* Starts of the dashboard *)

(* The timer handles a start before it deletes it.                          *)
LEMMA HandledStep ==
    ASSUME CommandsTypeOK, StartIsHandled, Next
    PROVE  StartIsHandled'
  <1>1. ASSUME NEW t \in Threads, ThreadStep(t) PROVE StartIsHandled'
    <2>1. Moves(t) /\ Changes(t)
      BY <1>1, ThreadMoves, ThreadChanges
    <2>2. \A s \in Threads \ {t} : cmd'[s] = cmd[s]
      BY <2>1 DEF Moves, CommandsTypeOK
    <2>3. executed \subseteq executed'
      BY <2>1 DEF Changes, Start
    <2>4. cmd'[t].step = "delete start" => FirstOf(cmd'[t].with) \in executed'
      <3> SUFFICES ASSUME cmd'[t].step = "delete start" PROVE FirstOf(cmd'[t].with) \in executed'
        OBVIOUS
      <3>1. Start(t)
        BY <2>1 DEF Moves
      <3>2. cmd[t].step = "call" /\ HandlerDone(t)
        BY <3>1 DEF Start, At
      <3>3. cmd[t] \in Handled
        <4>1. cmd[t] \in {Idle} \cup Handled /\ Idle.step = "none"
          BY DEF CommandsTypeOK, Idle
        <4> QED BY <3>2, <4>1
      <3>4. cmd[t].from \in {"user", "menu", "dashboard"}
        BY <3>3 DEF Handled
      <3>5. "delete menu" \in CommandSteps /\ "delete start" \in CommandSteps /\ Idle.step = "none"
        BY DEF CommandSteps, Idle
      <3>6. cmd[t].from = "dashboard"
        <4>1. cmd[t].from = "user" => Done(t)
          BY <3>2 DEF HandlerDone
        <4>2. cmd[t].from = "menu" => To(t, "delete menu")
          BY <3>2 DEF HandlerDone
        <4> QED BY <3>2, <3>4, <3>5, <4>1, <4>2, IsDone, Stepped
      <3>7. To(t, "delete start")
        BY <3>2, <3>6 DEF HandlerDone
      <3>8. cmd'[t].with = cmd[t].with
        BY <3>2, <3>5, <3>7, Stepped
      <3> QED BY <3>1, <3>6, <3>8 DEF Start
    <2> QED BY <2>2, <2>3, <2>4 DEF StartIsHandled
  <1>2. ASSUME OtherStep PROVE StartIsHandled'
    <2>1. UNCHANGED <<cmd, executed>>
      BY <1>2 DEF OtherStep, WebStart, WebEdit, Event, MinutesPass, OtherThanMenus, startVars,
                  OnGuildDelete, BackgroundThread, SecondPasses
    <2> QED BY <2>1 DEF StartIsHandled
  <1> QED BY <1>1, <1>2, EitherStep

-----------------------------------------------------------------------------
(* The invariant *)

(* It holds at the start.                                                   *)
LEMMA CommandsInitially == Init => CommandsInv
  <1> SUFFICES ASSUME Init PROVE CommandsInv
    OBVIOUS
  <1> USE DEF Init
  <1>0. /\ None \notin Channels /\ Default \in Values /\ Period \in Nat /\ Expiry \in Nat
        /\ QuestionsOf(Categories) >= MIN_QUESTIONS /\ Expiry + 1 \in Nat
    BY CommandsAssumption DEF CommandsAssumption
  <1>1. /\ Idle.step = "none" /\ Idle.from = "none" /\ Idle.do = "none" /\ Idle.ch = None
        /\ Sensible(Idle) /\ ~ Past(Idle)
    BY DEF Idle, Sensible, Past
  <1>2. \A t \in Threads : cmd[t] = Idle
    OBVIOUS
  <1>3. \A c \in Channels : limits[c] \in {0, Period}
    OBVIOUS
  <1>4. CommandsTypeOK
    <2>1. row \in [exists : BOOLEAN, value : Values]
      BY <1>0
    <2>2. held \in [Values -> Nat]
      BY <1>0
    <2>3. limits \in [Channels -> Nat] /\ last_rl_warning \in [Channels -> Nat]
      BY <1>0 DEF Lapsed
    <2>4. spaced \in [Channels -> [limit : Nat, warning : Nat]]
      <3>1. \A c \in Channels : Period - limits[c] \in Nat
        BY <1>0, <1>3
      <3> QED BY <1>0, <3>1
    <2>5. start_queue \subseteq Starts
      BY DEF Earlier, Starts
    <2>6. bg \in Seq(Queries)
      OBVIOUS
    <2> QED BY <1>1, <1>2, <2>1, <2>2, <2>3, <2>4, <2>5, <2>6 DEF CommandsTypeOK
  <1>5. CacheIsFresh
    <2>1. row.value = Default /\ held[Default] = 0
      BY <1>0
    <2> QED BY <1>1, <1>2, <2>1 DEF CacheIsFresh
  <1>6. RowIsInsured
    BY <1>1, <1>2 DEF RowIsInsured
  <1>7. ConfirmedIsQueued
    BY DEF ConfirmedIsQueued
  <1>8. EnoughToBeLeft
    <2>1. Categories \ (disabled_categories \ ToEnable) = Categories
      OBVIOUS
    <2> QED BY <1>0, <2>1 DEF EnoughToBeLeft
  <1>9. LimitsRun
    <2>1. \A c \in Channels : /\ spaced[c].limit = Period - limits[c] /\ spaced[c].warning = Period
                              /\ last_rl_warning[c] = 0
      BY DEF Lapsed
    <2> QED BY <1>0, <1>3, <2>1 DEF LimitsRun
  <1>10. InTurn
    BY <1>0, <1>1, <1>2 DEF InTurn
  <1>11. StartIsHandled
    BY <1>1, <1>2 DEF StartIsHandled
  <1> QED BY <1>4, <1>5, <1>6, <1>7, <1>8, <1>9, <1>10, <1>11 DEF CommandsInv

(* Every step keeps it.                                                     *)
LEMMA CommandsPreserved == CommandsInv /\ [Next]_vars => CommandsInv'
  <1> SUFFICES ASSUME CommandsInv, [Next]_vars PROVE CommandsInv'
    OBVIOUS
  <1>0. CommandsTypeOK
    BY DEF CommandsInv
  <1>1. CASE Next
    <2>1. CommandsTypeOK'
      BY <1>0, <1>1, ThreadTypes, OtherTypes, EitherStep
    <2> QED
      BY <1>1, <2>1, FreshStep, InsuredStep, ConfirmedStep, EnoughStep, LimitsStep, TurnStep, HandledStep
      DEF CommandsInv
  <1>2. CASE UNCHANGED vars
    <2> USE <1>2 DEF vars, settingVars, limitVars, menuVars, startVars, boundVars
    <2>1. CommandsTypeOK'
      BY <1>0 DEF CommandsTypeOK
    <2>2. CacheIsFresh' /\ RowIsInsured'
      BY DEF CommandsInv, CacheIsFresh, RowIsInsured, Insured, Inserting
    <2>3. ConfirmedIsQueued'
      BY DEF CommandsInv, ConfirmedIsQueued, LastUpdate, Updating
    <2>4. EnoughToBeLeft'
      <3>1. EnoughToBeLeft /\ disabled_categories' = disabled_categories
        BY DEF CommandsInv
      <3>2. ToEnable \subseteq ToEnable'
        BY DEF ToEnable
      <3> QED BY <3>1, <3>2, EnoughRemain
    <2>5. LimitsRun' /\ InTurn' /\ StartIsHandled'
      BY DEF CommandsInv, LimitsRun, InTurn, StartIsHandled
    <2> QED BY <2>1, <2>2, <2>3, <2>4, <2>5 DEF CommandsInv
  <1> QED BY <1>1, <1>2

(* The parts that commands keep together: fresh settings in the cache, a    *)
(* row for those that use its defaults, the setting confirmed last in the   *)
(* row or at the end of the queue, enough questions left or to be left,     *)
(* limits that run, and starts that were handled.                           *)
THEOREM CommandsInvariance == Spec => []CommandsInv
  <1> QED BY CommandsInitially, CommandsPreserved, PTL DEF Spec

-----------------------------------------------------------------------------
(* The properties *)

(* However threads erase, read and store the settings of the guild, what a  *)
(* command takes from the cache was in its row within the last minute       *)
(* (trivia.cpp:364).                                                        *)
THEOREM CommandsSeeRecentSettings == Spec => SettingsAreRecent
  <1>1. CommandsInv /\ [Next]_vars
            => [\A t \in Threads :
                    At(t, "settings") /\ cmd'[t].step \in {"limit", "find"}
                        => held[settings_cache.value] <= Expiry]_vars
    <2> SUFFICES ASSUME CommandsInv, Next, NEW t \in Threads,
                        At(t, "settings"), cmd'[t].step \in {"limit", "find"}
                 PROVE  held[settings_cache.value] <= Expiry
      BY DEF At, vars
    <2>0. CommandsTypeOK /\ CacheIsFresh /\ cmd[t].step = "settings"
      BY DEF CommandsInv, At
    <2>1. PICK u \in Threads : ThreadStep(u)
      <3>1. OtherStep => cmd' = cmd
        BY DEF OtherStep, WebStart, WebEdit, Event, MinutesPass, OtherThanMenus,
               OnGuildDelete, BackgroundThread, SecondPasses
      <3> QED BY <2>0, <3>1, EitherStep
    <2>2. Moves(u)
      BY <2>0, <2>1, ThreadMoves
    <2>3. u = t
      BY <2>0, <2>2 DEF Moves, CommandsTypeOK
    <2>4. GetGuildSettings(t)
      <3>1. ~ (HandleInteraction(t) \/ HandleButton(t) \/ HandleSelect(t) \/ CheckForQueuedStarts(t))
        <4>1. cmd[t] # Idle
          BY <2>0 DEF Idle
        <4> QED BY <4>1 DEF HandleInteraction, HandleButton, HandleSelect, CheckForQueuedStarts, Begin
      <3>2. ~ (eraseCache(t) \/ QuerySettings(t) \/ InsertRow(t) \/ StoreSettings(t) \/ Limiter(t))
        BY <2>0 DEF At, eraseCache, QuerySettings, InsertRow, StoreSettings, Limiter, has_limit,
                    set_limit, has_rl_warn, set_rl_warn
      <3>3. ~ (Call(t) \/ Start(t) \/ Disable(t) \/ InsertCategory(t) \/ CountRemaining(t) \/ DeleteStart(t))
        BY <2>0 DEF At, Call, Start, Disable, InsertCategory, CountRemaining, DeleteStart
      <3>4. ~ (\/ ContextMenu(t) \/ FindMenu(t) \/ ButtonClick(t) \/ SelectClick(t)
               \/ DeleteMenu(t) \/ SaveMenu(t) \/ PutMenu(t))
        BY <2>0 DEF At, ContextMenu, FindMenu, ButtonClick, SelectClick, DeleteMenu, SaveMenu, PutMenu
      <3> QED BY <2>1, <2>3, <3>1, <3>2, <3>3, <3>4 DEF ThreadStep, LookUp
    <2>5. settings_cache # None /\ ~ Expired(settings_cache)
      <3> DEFINE s == IF settings_cache = None THEN "query"
                      ELSE IF Expired(settings_cache) THEN "erase" ELSE WithSettings(t)
      <3>1. To(t, s)
        BY <2>4 DEF GetGuildSettings
      <3>2. s \in CommandSteps /\ (settings_cache = None \/ Expired(settings_cache) => s \in {"query", "erase"})
        BY DEF WithSettings, CommandSteps
      <3> HIDE DEF s
      <3>3. cmd'[t].step = s
        BY <2>0, <3>1, <3>2, Stepped
      <3> QED BY <3>2, <3>3
    <2>6. /\ held[settings_cache.value] \in Nat /\ settings_cache.age \in Nat /\ Expiry \in Nat
          /\ held[settings_cache.value] <= settings_cache.age
      BY <2>0, <2>5, CommandsAssumption DEF CommandsTypeOK, CacheIsFresh, CommandsAssumption
    <2>7. settings_cache.age <= Expiry
      BY <2>5, <2>6 DEF Expired
    <2> QED BY <2>6, <2>7
  <1> QED BY <1>1, CommandsInvariance, PTL DEF Spec, SettingsAreRecent

(* The last setting a moderator was told is set is in the row when the      *)
(* queue was executed, in whatever order threads read the row, queue it to  *)
(* be added, and queue updates (trivia.cpp:391).                            *)
THEOREM ConfirmedSettingsAreKept == Spec => []ConfirmedSettingIsKept
  <1>1. CommandsInv => ConfirmedSettingIsKept
    <2> SUFFICES ASSUME ConfirmedIsQueued, bg = <<>>, confirmed # None
                 PROVE  row.value = confirmed
      BY DEF CommandsInv, ConfirmedSettingIsKept
    <2>1. DOMAIN bg = {}
      OBVIOUS
    <2> QED BY <2>1 DEF ConfirmedIsQueued
  <1> QED BY <1>1, CommandsInvariance, PTL

(* However many commands disable and enable categories at once, enough      *)
(* questions are left when they and the queue are through                   *)
(* (cmd_disable.cpp:62).                                                    *)
THEOREM CategoriesLeaveEnoughQuestions == Spec => []EnoughQuestionsLeft
  <1>1. CommandsInv => EnoughQuestionsLeft
    <2> SUFFICES ASSUME EnoughToBeLeft, bg = <<>>, \A t \in Threads : ~ At(t, "count")
                 PROVE  Remaining >= MIN_QUESTIONS
      BY DEF CommandsInv, EnoughQuestionsLeft
    <2>1. DOMAIN bg = {}
      OBVIOUS
    <2>2. ToEnable = {}
      BY <2>1 DEF ToEnable, At
    <2>3. Categories \ (disabled_categories \ ToEnable) = Categories \ disabled_categories
      BY <2>2
    <2> QED BY <2>3 DEF EnoughToBeLeft, Remaining
  <1> QED BY <1>1, CommandsInvariance, PTL

(* Where the commands of a channel do not overlap, those that are limited   *)
(* are a period apart, and so are the warnings (commands.cpp:569).          *)
THEOREM WarningsAreSpaced == Spec => OneWarningPerPeriod
  <1>0. \A m \in Nat, n \in Nat : 0 + m = n => m = n
    OBVIOUS
  <1>1. CommandsInv /\ [Next]_vars
            => [\A t \in Threads : cmd'[t] # cmd[t] /\ cmd[t].ch \notin overlapped =>
                    /\ At(t, "set limit") => spaced[cmd[t].ch].limit = Period
                    /\ At(t, "warn") => spaced[cmd[t].ch].warning = Period]_vars
    <2> SUFFICES ASSUME CommandsInv, NEW t \in Threads, cmd[t].ch \notin overlapped
                 PROVE  /\ At(t, "set limit") => spaced[cmd[t].ch].limit = Period
                        /\ At(t, "warn") => spaced[cmd[t].ch].warning = Period
      OBVIOUS
    <2>0. CommandsTypeOK /\ LimitsRun /\ InTurn
      BY DEF CommandsInv
    <2> SUFFICES ASSUME cmd[t].step \in {"set limit", "warn"}
                 PROVE  /\ At(t, "set limit") => spaced[cmd[t].ch].limit = Period
                        /\ At(t, "warn") => spaced[cmd[t].ch].warning = Period
      BY DEF At
    <2>1. cmd[t] \in Handled
      <3>1. cmd[t] \in {Idle} \cup Handled /\ Idle.step = "none"
        BY <2>0 DEF CommandsTypeOK, Idle
      <3> QED BY <3>1
    <2>2. cmd[t].ch \in Channels
      BY <2>1 DEF Handled
    <2>3. PICK c \in Channels : c = cmd[t].ch
      BY <2>2
    <2>4. spaced[c].limit \in Nat /\ spaced[c].warning \in Nat /\ Period \in Nat
      BY <2>0, CommandsAssumption DEF CommandsTypeOK, CommandsAssumption
    <2>5. limits[c] + spaced[c].limit = Period /\ last_rl_warning[c] + spaced[c].warning = Period
      BY <2>0 DEF LimitsRun
    <2>6. At(t, "set limit") => limits[c] = 0
      BY <2>0, <2>3 DEF InTurn, At
    <2>7. At(t, "warn") => last_rl_warning[c] = 0
      BY <2>0, <2>3 DEF InTurn, At
    <2>8. limits[c] = 0 => spaced[c].limit = Period
      BY <1>0, <2>4, <2>5
    <2>9. last_rl_warning[c] = 0 => spaced[c].warning = Period
      BY <1>0, <2>4, <2>5
    <2> QED BY <2>3, <2>6, <2>7, <2>8, <2>9
  <1> QED BY <1>1, CommandsInvariance, PTL DEF Spec, OneWarningPerPeriod

(* A start of the dashboard is only deleted when it was handled or the      *)
(* timer is about to, unless it was queued for the channel of the one that  *)
(* was handled after start_queue was read (trivia.cpp:555).                 *)
THEOREM StartsAreHandled == Spec => QueuedStartsAreHandled
  <1>1. CommandsInv /\ [Next]_vars
            => [\A s \in start_queue \ start_queue' :
                    \/ s \in executed
                    \/ \E t \in Threads :
                          /\ cmd[t].from = "dashboard" /\ cmd[t].ch = s.ch
                          /\ s \in cmd[t].with => cmd'[t].from = "dashboard" /\ s \in cmd'[t].with]_vars
    <2> SUFFICES ASSUME CommandsInv, Next, NEW s \in start_queue \ start_queue'
                 PROVE  \/ s \in executed
                        \/ \E t \in Threads :
                              /\ cmd[t].from = "dashboard" /\ cmd[t].ch = s.ch
                              /\ s \in cmd[t].with => /\ cmd'[t].from = "dashboard"
                                                      /\ s \in cmd'[t].with
      BY DEF vars
    <2>0. CommandsTypeOK /\ StartIsHandled
      BY DEF CommandsInv
    <2>1. PICK t \in Threads : DeleteStart(t)
      <3>1. OtherStep => start_queue \subseteq start_queue'
        BY DEF OtherStep, WebStart, WebEdit, Event, MinutesPass, OtherThanMenus, startVars,
               OnGuildDelete, BackgroundThread, SecondPasses
      <3>2. PICK t \in Threads : ThreadStep(t)
        BY <3>1, EitherStep
      <3> QED BY <2>0, <3>2, ThreadChanges DEF Changes
    <2>2. /\ cmd[t].step = "delete start" /\ s.ch = cmd[t].ch
      BY <2>1 DEF DeleteStart, At
    <2>3. /\ cmd[t].from = "dashboard" /\ cmd[t].with \in SUBSET Starts /\ FirstOf(cmd[t].with) \in executed
      BY <2>0, <2>2 DEF CommandsTypeOK, Sensible, StartIsHandled
    <2>4. ASSUME s \in cmd[t].with, s # FirstOf(cmd[t].with)
          PROVE  cmd'[t].from = "dashboard" /\ s \in cmd'[t].with
      <3> DEFINE rest == cmd[t].with \ {FirstOf(cmd[t].with)}
      <3>1. rest \in SUBSET Starts /\ rest # {} /\ s \in rest
        BY <2>3, <2>4
      <3>2. cmd' = [cmd EXCEPT ![t] = StartOf(rest)]
        BY <2>1, <3>1 DEF DeleteStart
      <3> HIDE DEF rest
      <3>3. cmd'[t] = StartOf(rest)
        BY <2>0, <3>2 DEF CommandsTypeOK
      <3>4. StartOf(rest).with = rest /\ StartOf(rest).from = "dashboard"
        BY <3>1, HandleIsHandled
      <3> QED BY <3>1, <3>3, <3>4
    <2> QED BY <2>2, <2>3, <2>4
  <1> QED BY <1>1, CommandsInvariance, PTL DEF Spec, QueuedStartsAreHandled
=============================================================================
