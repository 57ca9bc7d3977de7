------------------------------ MODULE Commands ------------------------------
(***************************************************************************)
(* Commands of one guild: how TriviaModule::handle_command looks up the    *)
(* guild's settings in their cache, limits the commands of a channel and   *)
(* calls the handler; the commands that change settings and categories,    *)
(* those that only show something, the menus that start a game             *)
(* (cmd_context_start.cpp) and the starts the dashboard queues.            *)
(*                                                                         *)
(* Commands are handled by the threads of the shards and by the timer.     *)
(* What the start command does is GameLifecycle's business, the texts that *)
(* are sent are left out, and the guild's settings are one value.          *)
(***************************************************************************)
EXTENDS Integers, Sequences, FiniteSets, FiniteSetsExt

CONSTANTS
    None, Threads, Users, Channels,
    Values, Default,   \* of the guild's settings, and the one of a new row
    Categories,
    QuestionsIn,       \* the number of questions of each category
    MIN_QUESTIONS,
    Period,            \* PER_CHANNEL_RATE_LIMIT
    Expiry,            \* seconds a cached setting is used for
    MaxCommands,       \* bound: commands, clicks and visits of start_queue
    MaxEvents          \* bound: events of the guild and changes by the web site

QuestionsOf(categories) == MapThenSumSet(LAMBDA c : QuestionsIn[c], categories)

(* There are enough questions as long as no category is disabled.           *)
ASSUME CommandsAssumption ==
    /\ None \notin Channels /\ Default \in Values
    /\ IsFiniteSet(Categories) /\ QuestionsIn \in [Categories -> Nat]
    /\ QuestionsOf(Categories) >= MIN_QUESTIONS
    /\ {MIN_QUESTIONS, Period, Expiry, MaxCommands, MaxEvents} \subseteq Nat

VARIABLES
    row,               \* of bot_guild_settings: whether it exists, and its value
    settings_cache,    \* the value and the seconds since it was read, or None
    disabled_categories,
    limits, last_rl_warning, \* of each channel: seconds left
    active_menus,      \* of each user: the number of a menu, or None
    idle,              \* menus created 300 seconds ago
    start_queue,       \* the starts of the dashboard
    bg,                \* queued background queries
    cmd,               \* what each thread is doing
    begun, events,
    confirmed,         \* history: the last setting a moderator was told is set
    held,              \* history, of each value: seconds since the row held it
    spaced,            \* history, of each channel: seconds since set_limit, set_rl_warn
    overlapped,        \* history: channels with two commands at once
    executed           \* history: starts of the dashboard that were handled

settingVars == <<row, settings_cache, confirmed, held>>
limitVars == <<limits, last_rl_warning, spaced>>
menuVars == <<active_menus, idle>>
startVars == <<start_queue, executed>>
boundVars == <<begun, events, overlapped>>
vars == <<settingVars, disabled_categories, limitVars, menuVars, startVars, boundVars, bg, cmd>>

Idle == [do |-> "none", step |-> "none", ch |-> None, user |-> None, from |-> "none",
         with |-> None, settings |-> None]
Lapsed == [c \in Channels |-> 0]
Earlier == {[id |-> 0, ch |-> c] : c \in Channels}

(* Other commands may just have been used, or queued by the dashboard.      *)
Init ==
    /\ row \in [exists : BOOLEAN, value : {Default}]
    /\ settings_cache = None
    /\ disabled_categories = {}
    /\ limits \in [Channels -> {0, Period}] /\ last_rl_warning = Lapsed
    /\ active_menus = [u \in Users |-> None] /\ idle = {}
    /\ start_queue \in SUBSET Earlier /\ executed = {}
    /\ bg = <<>>
    /\ cmd = [t \in Threads |-> Idle]
    /\ begun = 0 /\ events = 0 /\ overlapped = {}
    /\ confirmed = None
    /\ held = [v \in Values |-> IF v = Default THEN 0 ELSE Expiry + 1]
    /\ spaced = [c \in Channels |-> [limit |-> Period - limits[c], warning |-> Period]]

-----------------------------------------------------------------------------
(* Threads *)

Handle(do, c, u, from, with) ==
    [do |-> do, step |-> "settings", ch |-> c, user |-> u, from |-> from, with |-> with,
     settings |-> None]

Overlaps(t, c) ==
    overlapped' = overlapped \cup ({c} \cap {cmd[s].ch : s \in Threads \ {t}})

Begin(t, c) ==
    /\ cmd[t] = Idle /\ begun < MaxCommands
    /\ begun' = begun + 1
    /\ cmd' = [cmd EXCEPT ![t] = c]
    /\ Overlaps(t, c.ch)
    /\ UNCHANGED <<settingVars, disabled_categories, limitVars, menuVars, startVars, events, bg>>

At(t, step) == cmd[t].step = step
To(t, step) == cmd' = [cmd EXCEPT ![t].step = step]
ToWith(t, step, with) == cmd' = [cmd EXCEPT ![t].step = step, ![t].with = with]
Done(t) == cmd' = [cmd EXCEPT ![t] = Idle]

Queue(queries) == bg' = bg \o queries
Frame == UNCHANGED <<disabled_categories, limitVars, menuVars, startVars, boundVars>>
OnlyMoves == Frame /\ UNCHANGED <<settingVars, bg>>
OnlyCaches == Frame /\ UNCHANGED <<row, confirmed, held, bg>>

FirstOf(starts) == CHOOSE s \in starts : \A r \in starts : s.id <= r.id

(* A slash command, or a message that starts with the prefix.               *)
HandleInteraction(t) ==
    \E c \in Channels, u \in Users :
        \/ \E do \in {"any", "disable"} : Begin(t, Handle(do, c, u, "user", None))
        \/ Begin(t, Handle("menu", c, u, "user", begun + 1))

HandleButton(t) ==
    \E c \in Channels, u \in Users : Begin(t, Handle("button", c, u, "user", None))

HandleSelect(t) ==
    \E c \in Channels, u \in Users : Begin(t, Handle("select", c, u, "user", None))

(* A command that was picked from a menu, or read from start_queue, is not  *)
(* all its thread has to do.                                                *)
HandlerDone(t) ==
    CASE cmd[t].from = "user" -> Done(t)
      [] cmd[t].from = "menu" -> To(t, "delete menu")
      [] cmd[t].from = "dashboard" -> To(t, "delete start")

-----------------------------------------------------------------------------
(* GetGuildSettings *)

WithSettings(t) == IF cmd[t].do \in {"button", "select"} THEN "find" ELSE "limit"

ExpiredLater(entry) == entry.age > Expiry + 1                     \* mutant

Expired(entry) == entry.age > Expiry

(* An expired entry is erased, and so is one that another thread has read   *)
(* since.                                                                   *)
GetGuildSettings(t) ==
    /\ At(t, "settings")
    /\ To(t, IF settings_cache = None THEN "query"
             ELSE IF Expired(settings_cache) THEN "erase" ELSE WithSettings(t))
    /\ OnlyMoves

eraseCache(t) ==
    /\ At(t, "erase") /\ To(t, "query")
    /\ settings_cache' = None
    /\ OnlyCaches

Reading(t, step) == cmd' = [cmd EXCEPT ![t].step = step, ![t].settings = row.value]

QuerySettings(t) ==
    /\ At(t, "query")
    /\ Reading(t, IF row.exists THEN "store" ELSE "insert row")
    /\ OnlyMoves

(* emplace leaves an entry that is there.                                   *)
Emplaced(t) ==
    settings_cache' = IF settings_cache # None THEN settings_cache
                      ELSE [value |-> cmd[t].settings, age |-> 0]

InsertRowAfterStoring(t) ==                                       \* mutant
    /\ At(t, "insert row") /\ Emplaced(t) /\ Frame /\ UNCHANGED <<row, confirmed, held>>
    /\ IF settings_cache = None THEN UNCHANGED <<cmd, bg>>
       ELSE To(t, "store") /\ Queue(<<[op |-> "insert row"]>>)

(* The defaults are used for a guild that has no row, and the row is queued *)
(* to be added.                                                             *)
InsertRow(t) ==
    /\ At(t, "insert row") /\ To(t, "store")
    /\ Queue(<<[op |-> "insert row"]>>)
    /\ Frame /\ UNCHANGED settingVars

StoreSettings(t) ==
    /\ At(t, "store") /\ Emplaced(t)
    /\ cmd' = [cmd EXCEPT ![t].step = WithSettings(t), ![t].settings = None]
    /\ OnlyCaches

LookUp(t) ==
    GetGuildSettings(t) \/ eraseCache(t) \/ QuerySettings(t) \/ InsertRow(t) \/ StoreSettings(t)

-----------------------------------------------------------------------------
(* The limiter *)

OtherThanLimits ==
    UNCHANGED <<settingVars, disabled_categories, menuVars, startVars, boundVars, bg>>

has_limit(t) ==
    /\ At(t, "limit")
    /\ To(t, IF limits[cmd[t].ch] > 0 THEN "limited" ELSE "set limit")
    /\ OnlyMoves

set_limit(t) ==
    /\ At(t, "set limit") /\ To(t, "call")
    /\ limits' = [limits EXCEPT ![cmd[t].ch] = Period]
    /\ spaced' = [spaced EXCEPT ![cmd[t].ch].limit = 0]
    /\ UNCHANGED last_rl_warning /\ OtherThanLimits

(* has_rl_warn.  The dashboard's commands and the menus are not limited.    *)
has_rl_warn(t) ==
    /\ At(t, "limited")
    /\ IF cmd[t].from = "dashboard" \/ cmd[t].do = "menu" THEN To(t, "call")
       ELSE IF last_rl_warning[cmd[t].ch] > 0 THEN HandlerDone(t)
       ELSE To(t, "warn")
    /\ OnlyMoves

WarnAlways(t) ==                                                  \* mutant
    /\ At(t, "warn") /\ HandlerDone(t)
    /\ spaced' = [spaced EXCEPT ![cmd[t].ch].warning = 0]
    /\ UNCHANGED <<limits, last_rl_warning>> /\ OtherThanLimits

set_rl_warn(t) ==
    /\ At(t, "warn") /\ HandlerDone(t)
    /\ last_rl_warning' = [last_rl_warning EXCEPT ![cmd[t].ch] = Period]
    /\ spaced' = [spaced EXCEPT ![cmd[t].ch].warning = 0]
    /\ UNCHANGED limits /\ OtherThanLimits

Limiter(t) == has_limit(t) \/ set_limit(t) \/ has_rl_warn(t) \/ set_rl_warn(t)

-----------------------------------------------------------------------------
(* Handlers: the sequences of background queries a command may add *)

CacheUser == [op |-> "cache user"]
Update(v) == [op |-> "update row", value |-> v]
Shown == {<<CacheUser>>}

(* Those that read and answer.                                              *)
Achievements == Shown
Categories_ == Shown
Coins == Shown
Dashboard == Shown
Global == Shown
Info == Shown
Invite == Shown
Nitro == Shown
Ping == Shown
ServerTime == Shown
Shard == Shown
Stats == Shown
TopTeams == Shown
VoteCommand == Shown
Help == Shown

(* Those of a team or a player that may not be found.                       *)
Team == Shown \cup {<<>>}
Profile == Shown \cup {<<>>}

(* Those of the bot's team, who others are told so.                         *)
QueueCommand == Shown
Subscription == Shown
ForceLeave == Shown
ResetPrefix == Shown \cup {<<Update(Default), CacheUser>>}

(* Those that change something of the player, or of the guild if its        *)
(* moderator says so.                                                       *)
Privacy == {<<[op |-> "privacy_mode"], CacheUser>>}
Give == Shown \cup {<<[op |-> "give_coins"], CacheUser>>}
Prefix == Shown \cup {<<>>} \cup {<<Update(v), CacheUser>> : v \in Values}
Language == Shown \cup {<<CacheUser, Update(v)>> : v \in Values}
Enable == Shown \cup {<<CacheUser, [op |-> "enable", category |-> c]>> : c \in Categories}

(* Those the web site's scripts answer.                                     *)
custom_command == Shown

(* The table of commands, but for those that have actions of their own,     *)
(* here or in other modules.                                                *)
DashboardToEnable ==
    UNION {Dashboard, Global, VoteCommand, Invite, Stats, TopTeams, Nitro, QueueCommand, Ping,
           ServerTime, Prefix, Give, ResetPrefix, Subscription, Shard, Categories_, Info,
           Language, Enable}
CoinsToHelp == UNION {Coins, Profile, Achievements, Privacy, Team, ForceLeave, Help}

AnyCommand == DashboardToEnable \cup CoinsToHelp \cup custom_command

ValuesSet(queries) == {queries[i].value : i \in {i \in DOMAIN queries : queries[i].op = "update row"}}

Call(t) ==
    /\ At(t, "call") /\ cmd[t].do = "any" /\ HandlerDone(t)
    /\ \E queries \in AnyCommand :
           /\ Queue(queries)
           /\ confirmed' = IF ValuesSet(queries) = {} THEN confirmed
                            ELSE CHOOSE v \in ValuesSet(queries) : TRUE
    /\ Frame /\ UNCHANGED <<row, settings_cache, held>>

(* The start command itself is GameLifecycle's.                             *)
Start(t) ==
    /\ At(t, "call") /\ cmd[t].do = "start" /\ HandlerDone(t)
    /\ executed' = IF cmd[t].from = "dashboard" THEN executed \cup {FirstOf(cmd[t].with)}
                   ELSE executed
    /\ UNCHANGED <<settingVars, disabled_categories, limitVars, menuVars, start_queue, boundVars, bg>>

-----------------------------------------------------------------------------
(* cmd_disable *)

(* Moderators only, and a category that exists.                             *)
Disable(t) ==
    /\ At(t, "call") /\ cmd[t].do = "disable"
    /\ Queue(<<CacheUser>>)
    /\ HandlerDone(t) \/ \E c \in Categories : ToWith(t, "insert category", c)
    /\ Frame /\ UNCHANGED settingVars

OtherThanCategories ==
    UNCHANGED <<settingVars, limitVars, menuVars, startVars, boundVars>>

InsertCategory(t) ==
    /\ At(t, "insert category") /\ To(t, "count")
    /\ disabled_categories' = disabled_categories \cup {cmd[t].with}
    /\ UNCHANGED bg /\ OtherThanCategories

Remaining == QuestionsOf(Categories \ disabled_categories)

CountUnlessDisabled(t) ==                                         \* mutant
    /\ At(t, "count") /\ HandlerDone(t)
    /\ IF Remaining + QuestionsIn[cmd[t].with] >= MIN_QUESTIONS THEN UNCHANGED bg
       ELSE Queue(<<[op |-> "enable", category |-> cmd[t].with]>>)
    /\ UNCHANGED disabled_categories /\ OtherThanCategories

(* Too few questions left: the category is to be enabled again.             *)
CountRemaining(t) ==
    /\ At(t, "count") /\ HandlerDone(t)
    /\ IF Remaining >= MIN_QUESTIONS THEN UNCHANGED bg
       ELSE Queue(<<[op |-> "enable", category |-> cmd[t].with]>>)
    /\ UNCHANGED disabled_categories /\ OtherThanCategories

-----------------------------------------------------------------------------
(* Menus, of which only the life is modelled, not the choices.  Number 0    *)
(* stands for what is read from a menu that was erased meanwhile.           *)

OtherThanMenus ==
    UNCHANGED <<settingVars, disabled_categories, limitVars, startVars, boundVars>>

(* save_active_menu, which erases those that are 300 seconds old.           *)
Saved(user, menu) ==
    [u \in Users |-> IF u = user THEN menu
                     ELSE IF active_menus[u] \in idle THEN None ELSE active_menus[u]]

ContextMenu(t) ==
    /\ At(t, "call") /\ cmd[t].do = "menu" /\ Done(t)
    /\ Queue(<<CacheUser>>)
    /\ active_menus' = Saved(cmd[t].user, cmd[t].with)
    /\ UNCHANGED idle /\ OtherThanMenus

(* find_active_menu returns a pointer into the map...                       *)
FindMenu(t) ==
    /\ At(t, "find")
    /\ IF active_menus[cmd[t].user] = None THEN Done(t) ELSE To(t, "copy")
    /\ OnlyMoves

Found(t) == IF active_menus[cmd[t].user] = None THEN 0 ELSE active_menus[cmd[t].user]

(* ...that is read after the map's mutex was released.  Start issues the    *)
(* start command before the menu goes; Cancel only deletes it; another page *)
(* is shown, and the menu saved.                                            *)
ButtonClick(t) ==
    /\ At(t, "copy") /\ cmd[t].do = "button"
    /\ \/ cmd' = [cmd EXCEPT ![t] = Handle("start", @.ch, @.user, "menu", Found(t))]
       \/ ToWith(t, "delete menu", Found(t))
       \/ ToWith(t, "save menu", Found(t))
    /\ OnlyMoves

SelectClick(t) ==
    /\ At(t, "copy") /\ cmd[t].do = "select"
    /\ ToWith(t, "put menu", Found(t))
    /\ OnlyMoves

DeleteMenu(t) ==
    /\ At(t, "delete menu") /\ Done(t)
    /\ active_menus' = [active_menus EXCEPT ![cmd[t].user] = None]
    /\ UNCHANGED <<idle, bg>> /\ OtherThanMenus

SaveMenu(t) ==
    /\ At(t, "save menu") /\ Done(t)
    /\ active_menus' = Saved(cmd[t].user, cmd[t].with)
    /\ UNCHANGED <<idle, bg>> /\ OtherThanMenus

PutMenu(t) ==
    /\ At(t, "put menu") /\ Done(t)
    /\ active_menus' = [active_menus EXCEPT ![cmd[t].user] = cmd[t].with]
    /\ UNCHANGED <<idle, bg>> /\ OtherThanMenus

(* A menu stays where it is until another one is saved.                     *)
MinutesPass(u) ==
    /\ active_menus[u] \notin idle \cup {None} /\ idle' = idle \cup {active_menus[u]}
    /\ UNCHANGED <<active_menus, bg, cmd>> /\ OtherThanMenus

-----------------------------------------------------------------------------
(* CheckForQueuedStarts, every 120 seconds *)

StartOf(starts) == Handle("start", FirstOf(starts).ch, None, "dashboard", starts)

(* Only the tick thread reads it.                                           *)
CheckForQueuedStarts(t) ==
    /\ start_queue # {} /\ \A s \in Threads : cmd[s].from # "dashboard"
    /\ Begin(t, StartOf(start_queue))

DeleteAllStarts(t) ==                                             \* mutant
    /\ At(t, "delete start") /\ start_queue' = {}
    /\ Done(t)
    /\ UNCHANGED <<settingVars, disabled_categories, limitVars, menuVars, executed, boundVars, bg>>

(* Every start queued for the channel goes.                                 *)
DeleteStart(t) ==
    /\ At(t, "delete start")
    /\ start_queue' = {s \in start_queue : s.ch # cmd[t].ch}
    /\ LET rest == cmd[t].with \ {FirstOf(cmd[t].with)}
       IN  IF rest = {} THEN Done(t) /\ UNCHANGED overlapped
           ELSE /\ cmd' = [cmd EXCEPT ![t] = StartOf(rest)]
                /\ Overlaps(t, FirstOf(rest).ch)
    /\ UNCHANGED <<settingVars, disabled_categories, limitVars, menuVars, executed, begun, events, bg>>

-----------------------------------------------------------------------------
(* The web site, the guild, the background thread and the clock *)

Event == events < MaxEvents /\ events' = events + 1 /\ UNCHANGED <<begun, overlapped, cmd>>

SetRow(v) ==
    /\ row' = [exists |-> TRUE, value |-> v]
    /\ held' = [held EXCEPT ![v] = 0]

WebStart(c) ==
    /\ Event /\ start_queue' = start_queue \cup {[id |-> events', ch |-> c]}
    /\ UNCHANGED <<settingVars, disabled_categories, limitVars, menuVars, executed, bg>>

WebEdit(v) ==
    /\ Event /\ row.exists /\ SetRow(v) /\ confirmed' = None
    /\ UNCHANGED <<settings_cache, disabled_categories, limitVars, menuVars, startVars, bg>>

(* The bot is removed from the guild.                                       *)
OnGuildDelete ==
    /\ Event /\ settings_cache' = None
    /\ Queue(<<[op |-> "kicked"]>>)
    /\ UNCHANGED <<row, confirmed, held, disabled_categories, limitVars, menuVars, startVars>>

(* Only a row that exists is updated.                                       *)
Execute(q) ==
    /\ IF q.op = "insert row" /\ ~row.exists THEN SetRow(Default)
       ELSE IF q.op = "update row" /\ row.exists THEN SetRow(q.value)
       ELSE UNCHANGED <<row, held>>
    /\ disabled_categories' = IF q.op = "enable" THEN disabled_categories \ {q.category}
                              ELSE disabled_categories

BackgroundThread ==
    /\ bg # <<>> /\ bg' = Tail(bg) /\ Execute(Head(bg))
    /\ UNCHANGED <<settings_cache, confirmed, limitVars, menuVars, startVars, boundVars, cmd>>

Less(n) == IF n = 0 THEN 0 ELSE n - 1
More(n, most) == IF n = most THEN n ELSE n + 1

(* An entry is stored in the second its row was read.                       *)
SecondPasses ==
    /\ \A t \in Threads : cmd[t].step \notin {"insert row", "store"}
    /\ settings_cache' = IF settings_cache = None THEN None
                         ELSE [settings_cache EXCEPT !.age = More(@, Expiry + 1)]
    /\ held' = [v \in Values |-> IF v = row.value THEN 0 ELSE More(held[v], Expiry + 1)]
    /\ limits' = [c \in Channels |-> Less(limits[c])]
    /\ last_rl_warning' = [c \in Channels |-> Less(last_rl_warning[c])]
    /\ spaced' = [c \in Channels |-> [limit |-> More(spaced[c].limit, Period),
                                      warning |-> More(spaced[c].warning, Period)]]
    /\ UNCHANGED <<row, confirmed, disabled_categories, menuVars, startVars, boundVars, bg, cmd>>

Next ==
    \/ \E t \in Threads :
        \/ HandleInteraction(t) \/ HandleButton(t) \/ HandleSelect(t) \/ CheckForQueuedStarts(t)
        \/ LookUp(t) \/ Limiter(t)
        \/ Call(t) \/ Start(t)
        \/ Disable(t) \/ InsertCategory(t) \/ CountRemaining(t)
        \/ ContextMenu(t) \/ FindMenu(t) \/ ButtonClick(t) \/ SelectClick(t)
        \/ DeleteMenu(t) \/ SaveMenu(t) \/ PutMenu(t)
        \/ DeleteStart(t)
    \/ \E c \in Channels : WebStart(c)
    \/ \E v \in Values : WebEdit(v)
    \/ \E u \in Users : MinutesPass(u)
    \/ OnGuildDelete \/ BackgroundThread \/ SecondPasses

Spec == Init /\ [][Next]_vars

-----------------------------------------------------------------------------
(* Properties *)

(* The settings taken from the cache were the guild's within the last       *)
(* minute, whichever threads erased, read and stored them (trivia.cpp:364). *)
SettingsAreRecent ==
    [][\A t \in Threads :
           At(t, "settings") /\ cmd'[t].step \in {"limit", "find"}
               => held[settings_cache.value] <= Expiry]_vars

(* The last setting a moderator was told is set is in the guild's row once  *)
(* the queue is executed: the row an UPDATE needs is queued to be added     *)
(* before any thread can use its defaults (trivia.cpp:391), unless the web  *)
(* site changed the row since.                                              *)
ConfirmedSettingIsKept == bg = <<>> /\ confirmed # None => row.value = confirmed

(* However many commands disable and enable categories at once, enough      *)
(* questions are left when they and the queue are through                   *)
(* (cmd_disable.cpp:62).                                                    *)
EnoughQuestionsLeft ==
    bg = <<>> /\ (\A t \in Threads : ~At(t, "count")) => Remaining >= MIN_QUESTIONS

(* In a channel whose commands do not overlap, those that are limited are   *)
(* PER_CHANNEL_RATE_LIMIT apart, and so are the warnings: "only one per     *)
(* rate limit period" (commands.cpp:569).                                   *)
OneWarningPerPeriod ==
    [][\A t \in Threads : cmd'[t] # cmd[t] /\ cmd[t].ch \notin overlapped =>
           /\ At(t, "set limit") => spaced[cmd[t].ch].limit = Period
           /\ At(t, "warn") => spaced[cmd[t].ch].warning = Period]_vars

(* A start the dashboard queued is only deleted when it was handled or is   *)
(* about to be, unless it was queued after start_queue was read, for a      *)
(* channel whose start was then handled (trivia.cpp:555).                   *)
QueuedStartsAreHandled ==
    [][\A s \in start_queue \ start_queue' :
           \/ s \in executed
           \/ \E t \in Threads : /\ cmd[t].from = "dashboard" /\ cmd[t].ch = s.ch
                                 /\ s \in cmd[t].with => cmd'[t].from = "dashboard" /\ s \in cmd'[t].with]_vars
=============================================================================
