------------------------------ MODULE Accounts ------------------------------
(***************************************************************************)
(* What the database keeps of players and of premium guilds: teams         *)
(* (cmd_create, cmd_join, cmd_leave, join_team), hints for voters          *)
(* (cmd_votehint), the lock that lets a player score on one guild at a     *)
(* time (can_score_on_guild) and premium (entitlement.cpp,                 *)
(* cmd_reassignpremium).  Each command is a sequence of queries, and those *)
(* of other threads come in between; queries in the background are         *)
(* executed later, in order.                                               *)
(*                                                                         *)
(* A thread's command is a record of what it does, the step it is at and   *)
(* its operands.  Answers may come from games of other clusters, which     *)
(* share the database but no mutex.                                        *)
(***************************************************************************)
EXTENDS Integers, Sequences, FiniteSets

CONSTANTS
    Threads, Users, Teams, Guilds,
    Subscriptions,
    GuildOf,        \* the guild of each subscription's entitlement
    MaxHints,       \* dm_hints of a new vote
    LockSeconds,    \* how long a player's lock on a guild lasts
    MaxCommands     \* bound: commands and events ever begun

ASSUME AccountsAssumption ==
    /\ GuildOf \in [Subscriptions -> Guilds]
    /\ {MaxHints, LockSeconds, MaxCommands} \subseteq Nat
    /\ "free" \notin Threads /\ "none" \notin Guilds

VARIABLES
    known,          \* trivia_user_cache, which team_membership refers to
    teams,          \* of each name: whether the team exists, and its owner_id
    team_membership, \* of each user: the team
    dm_hints,       \* of each user
    score_locks,    \* of each user: the guild and the seconds since updated_at
    premium_credits, \* of each subscription: its guild, and whether it is active
    premium,        \* of each guild, in bot_guild_settings
    bg,             \* queued background queries
    states_mutex,   \* the thread that holds it, or "free"
    cmd,            \* the command of each thread
    begun,          \* history: commands begun
    overlapped,     \* history: users with two commands at once
    toppedUp,       \* history: users who voted again
    unsettled,      \* history: guilds a subscription was moved from or to, or whose
                    \* entitlement event was cut short
    scored          \* history, of each user: where they scored last, how long ago

teamVars == <<known, teams, team_membership>>
premiumVars == <<premium_credits, premium, unsettled>>
lockVars == <<score_locks, scored>>
vars == <<teamVars, dm_hints, lockVars, premiumVars, bg, states_mutex, cmd, begun,
          overlapped, toppedUp>>

None == "none"
NoCommand == [do |-> None]
Never == [guild |-> None, age |-> LockSeconds]

Init ==
    /\ known \in SUBSET Users
    /\ teams \in [Teams -> {[exists |-> FALSE, owner |-> None], [exists |-> TRUE, owner |-> None]}]
    /\ team_membership = [u \in Users |-> None]
    /\ dm_hints = [u \in Users |-> MaxHints]
    /\ score_locks = [u \in Users |-> Never] /\ scored = score_locks
    /\ premium_credits = [s \in Subscriptions |-> [guild |-> None, active |-> FALSE]]
    /\ premium = [g \in Guilds |-> FALSE]
    /\ bg = <<>>
    /\ states_mutex = "free"
    /\ cmd = [t \in Threads |-> NoCommand]
    /\ begun = 0 /\ overlapped = {} /\ toppedUp = {} /\ unsettled = {}

-----------------------------------------------------------------------------
(* Commands and their steps *)

Begin(t, c) ==
    /\ cmd[t] = NoCommand /\ begun < MaxCommands
    /\ cmd' = [cmd EXCEPT ![t] = c]
    /\ begun' = begun + 1
    /\ overlapped' = overlapped \cup {u \in Users : \E s \in Threads \ {t} :
           "user" \in DOMAIN c \cap DOMAIN cmd[s] /\ cmd[s].user = u /\ c.user = u}
    /\ UNCHANGED <<teamVars, dm_hints, lockVars, premiumVars, bg, states_mutex, toppedUp>>

At(t, do, step) == cmd[t].do = do /\ cmd[t].step = step
To(t, step) == cmd' = [cmd EXCEPT ![t].step = step]
Done(t) == cmd' = [cmd EXCEPT ![t] = NoCommand]
Queue(q) == bg' = Append(bg, q)
Same == UNCHANGED <<begun, overlapped, toppedUp>>

-----------------------------------------------------------------------------
(* Teams *)

Create(t) == \E u \in Users, n \in Teams :
    Begin(t, [do |-> "create", step |-> "current", user |-> u, team |-> n])
Join(t) == \E u \in Users, n \in Teams :
    Begin(t, [do |-> "join", step |-> "select", user |-> u, team |-> n])
Leave(t) == \E u \in Users :
    Begin(t, [do |-> "leave", step |-> "current", user |-> u])

CacheUser(u) == Queue([do |-> "cache", user |-> u])

(* get_current_team: those in a team create none.  The name may then come   *)
(* back from the filter of bad words changed: to another one of Teams.      *)
CurrentTeam(t) ==
    /\ At(t, "create", "current")
    /\ CacheUser(cmd[t].user)
    /\ IF team_membership[cmd[t].user] # None THEN Done(t)
       ELSE \E n \in Teams : cmd' = [cmd EXCEPT ![t].team = n, ![t].step = "filtered"]
    /\ UNCHANGED <<teamVars, dm_hints, lockVars, premiumVars, states_mutex>> /\ Same

(* The filter's answer.  When it is not understood it is handed on twice,   *)
(* and the second time the team exists.                                     *)
Filtered(t) ==
    /\ At(t, "create", "filtered")
    /\ \/ teams[cmd[t].team].exists /\ Done(t)
       \/ ~teams[cmd[t].team].exists /\ To(t, "insert")
    /\ UNCHANGED <<teamVars, dm_hints, lockVars, premiumVars, bg, states_mutex>> /\ Same

(* An INSERT of a name that exists meanwhile fails, and nobody notices.     *)
InsertTeam(t) ==
    /\ At(t, "create", "insert")
    /\ teams' = [teams EXCEPT ![cmd[t].team].exists = TRUE]
    /\ cmd' = [cmd EXCEPT ![t].do = "join", ![t].step = "select"]
    /\ UNCHANGED <<known, team_membership, dm_hints, lockVars, premiumVars, bg, states_mutex>>
    /\ Same

(* join_team: the team, which may want a score the player does not have...  *)
SelectTeam(t) ==
    /\ At(t, "join", "select")
    /\ \/ teams[cmd[t].team].exists /\ To(t, "member")
       \/ Done(t)
    /\ UNCHANGED <<teamVars, dm_hints, lockVars, premiumVars, bg, states_mutex>> /\ Same

MembershipIgnored(t) ==                                           \* mutant
    /\ At(t, "join", "member") /\ To(t, "delete")
    /\ UNCHANGED <<teamVars, dm_hints, lockVars, premiumVars, bg, states_mutex>> /\ Same

(* ...and the player's membership.  A member of any team stays there, but   *)
(* becomes the owner of the one given if it has none.                       *)
SelectMembership(t) ==
    /\ At(t, "join", "member")
    /\ \/ team_membership[cmd[t].user] = None /\ To(t, "delete") /\ UNCHANGED bg
       \/ /\ team_membership[cmd[t].user] # None /\ Done(t)
          /\ Queue([do |-> "own", user |-> cmd[t].user, team |-> cmd[t].team])
    /\ UNCHANGED <<teamVars, dm_hints, lockVars, premiumVars, states_mutex>> /\ Same

DeleteMembership(t) ==
    /\ At(t, "join", "delete") \/ At(t, "leave", "delete")
    /\ team_membership' = [team_membership EXCEPT ![cmd[t].user] = None]
    /\ IF cmd[t].do = "join" THEN To(t, "insert") ELSE Done(t)
    /\ UNCHANGED <<known, teams, dm_hints, lockVars, premiumVars, bg, states_mutex>> /\ Same

(* Fails for a player who is not in trivia_user_cache, and for one who is   *)
(* in a team.                                                               *)
InsertMembership(t) ==
    /\ At(t, "join", "insert") /\ To(t, "own")
    /\ team_membership' = [team_membership EXCEPT ![cmd[t].user] =
           IF @ = None /\ cmd[t].user \in known THEN cmd[t].team ELSE @]
    /\ UNCHANGED <<known, teams, dm_hints, lockVars, premiumVars, bg, states_mutex>> /\ Same

Owned(table, u, n) ==
    IF table[n].owner = None /\ u \in known THEN [table EXCEPT ![n].owner = u] ELSE table

(* The player is cached when all is done.                                   *)
OwnTeam(t) ==
    /\ At(t, "join", "own") /\ Done(t)
    /\ teams' = Owned(teams, cmd[t].user, cmd[t].team)
    /\ CacheUser(cmd[t].user)
    /\ UNCHANGED <<known, team_membership, dm_hints, lockVars, premiumVars, states_mutex>>
    /\ Same

LeaveCurrent(t) ==
    /\ At(t, "leave", "current")
    /\ IF team_membership[cmd[t].user] = None THEN Done(t) ELSE To(t, "delete")
    /\ UNCHANGED <<teamVars, dm_hints, lockVars, premiumVars, bg, states_mutex>> /\ Same

-----------------------------------------------------------------------------
(* Hints for voters *)

VoteHint(t) == \E u \in Users : Begin(t, [do |-> "hint", step |-> "lock", user |-> u, left |-> 0])

SelectHintsUnlocked(t) ==                                         \* mutant
    /\ At(t, "hint", "lock")
    /\ IF dm_hints[cmd[t].user] < 1 THEN Done(t)
       ELSE cmd' = [cmd EXCEPT ![t].step = "subtract", ![t].left = dm_hints[cmd[t].user] - 1]
    /\ UNCHANGED <<teamVars, dm_hints, lockVars, premiumVars, bg, states_mutex>> /\ Same

(* Under states_mutex, if a question of the channel is open.                *)
SelectHints(t) ==
    /\ At(t, "hint", "lock") /\ states_mutex = "free"
    /\ IF dm_hints[cmd[t].user] < 1
       THEN Done(t) /\ UNCHANGED states_mutex
       ELSE /\ cmd' = [cmd EXCEPT ![t].step = "subtract", ![t].left = dm_hints[cmd[t].user] - 1]
            /\ states_mutex' = t
    /\ UNCHANGED <<teamVars, dm_hints, lockVars, premiumVars, bg>> /\ Same

(* The hint is sent, and the number left is queued to be written.           *)
SubtractHint(t) ==
    /\ At(t, "hint", "subtract") /\ Done(t)
    /\ Queue([do |-> "hints", user |-> cmd[t].user, left |-> cmd[t].left])
    /\ states_mutex' = "free"
    /\ UNCHANGED <<teamVars, dm_hints, lockVars, premiumVars>> /\ Same

(* A vote on one of the sites, which tells the bot's web server.            *)
Vote(u) ==
    /\ u \notin toppedUp /\ toppedUp' = toppedUp \cup {u}
    /\ dm_hints' = [dm_hints EXCEPT ![u] = MaxHints]
    /\ UNCHANGED <<teamVars, lockVars, premiumVars, bg, states_mutex, cmd, begun, overlapped>>

-----------------------------------------------------------------------------
(* can_score_on_guild *)

Answer(t) == \E u \in Users, g \in Guilds :
    Begin(t, [do |-> "answer", step |-> "upsert", user |-> u, guild |-> g])

LockedAlways(lock, g) == [guild |-> g, age |-> 0]                 \* mutant

LockedBy(lock, g) ==
    IF lock.guild = g \/ lock.age >= LockSeconds THEN [guild |-> g, age |-> 0] ELSE lock

UpsertLock(t) ==
    /\ At(t, "answer", "upsert") /\ To(t, "check")
    /\ score_locks' = [score_locks EXCEPT ![cmd[t].user] = LockedBy(@, cmd[t].guild)]
    /\ UNCHANGED <<teamVars, dm_hints, scored, premiumVars, bg, states_mutex>> /\ Same

(* The player scores if the lock is the guild's.                            *)
CheckLock(t) ==
    /\ At(t, "answer", "check") /\ Done(t)
    /\ scored' = IF score_locks[cmd[t].user].guild = cmd[t].guild
                 THEN [scored EXCEPT ![cmd[t].user] = [guild |-> cmd[t].guild, age |-> 0]]
                 ELSE scored
    /\ CacheUser(cmd[t].user)
    /\ UNCHANGED <<teamVars, dm_hints, score_locks, premiumVars, states_mutex>> /\ Same

Older(row) == [row EXCEPT !.age = IF @ < LockSeconds THEN @ + 1 ELSE @]

(* The two queries of a check are close together.                           *)
SecondPasses ==
    /\ \A t \in Threads : cmd[t].do # "answer"
    /\ score_locks' = [u \in Users |-> Older(score_locks[u])]
    /\ scored' = [u \in Users |-> Older(scored[u])]
    /\ UNCHANGED <<teamVars, dm_hints, premiumVars, bg, states_mutex, cmd>> /\ Same

-----------------------------------------------------------------------------
(* Premium *)

OnEntitlement(t) == \E s \in Subscriptions, e \in {"created", "updated", "deleted"} :
    Begin(t, [do |-> "entitlement", event |-> e, step |-> "credit", sub |-> s])

(* An update may say that the entitlement has ended.  A subscription that   *)
(* was not seen being created has no row to update.                         *)
CreditedAs(event, row, guild) ==
    LET credit == [guild |-> IF row.guild = None THEN guild ELSE row.guild, active |-> TRUE]
        ended == [credit EXCEPT !.active = FALSE]
    IN IF event = "created" THEN {credit}
       ELSE IF row.guild = None THEN {row}
       ELSE IF event = "updated" THEN {credit, ended} ELSE {ended}

Credit(t) ==
    /\ At(t, "entitlement", "credit") /\ To(t, "refresh")
    /\ \E row \in CreditedAs(cmd[t].event, premium_credits[cmd[t].sub], GuildOf[cmd[t].sub]) :
           premium_credits' = [premium_credits EXCEPT ![cmd[t].sub] = row]
    /\ UNCHANGED <<teamVars, dm_hints, lockVars, premium, unsettled, bg, states_mutex>> /\ Same

HasActiveCredit(g) ==
    \E s \in Subscriptions : premium_credits[s] = [guild |-> g, active |-> TRUE]

RefreshOfCreated(t) ==                                            \* mutant
    /\ At(t, "entitlement", "refresh") /\ Done(t)
    /\ premium' = [premium EXCEPT ![GuildOf[cmd[t].sub]] = cmd[t].event # "deleted"]
    /\ UNCHANGED <<teamVars, dm_hints, lockVars, premium_credits, unsettled, bg, states_mutex>>
    /\ Same

RefreshGuildPremium(t) ==
    /\ At(t, "entitlement", "refresh") /\ Done(t)
    /\ premium' = [premium EXCEPT ![GuildOf[cmd[t].sub]] = HasActiveCredit(GuildOf[cmd[t].sub])]
    /\ UNCHANGED <<teamVars, dm_hints, lockVars, premium_credits, unsettled, bg, states_mutex>>
    /\ Same

(* The team of the bot moves an active subscription, with a procedure of    *)
(* the database that is not in the repository.                              *)
ReassignPremium(s, g) ==
    /\ premium_credits[s].active /\ g \notin unsettled
    /\ premium_credits' = [premium_credits EXCEPT ![s].guild = g]
    /\ LET ends == {premium_credits[s].guild, g}
       IN /\ unsettled' = unsettled \cup ends
          /\ premium' \in {on \in [Guilds -> BOOLEAN] : \A h \in Guilds \ ends : on[h] = premium[h]}
    /\ UNCHANGED <<teamVars, dm_hints, lockVars, bg, states_mutex, cmd>> /\ Same

-----------------------------------------------------------------------------
(* The background thread executes the oldest query.                         *)
Execute(q) ==
    /\ known' = IF q.do = "cache" THEN known \cup {q.user} ELSE known
    /\ teams' = IF q.do = "own" THEN Owned(teams, q.user, q.team) ELSE teams
    /\ dm_hints' = IF q.do = "hints" THEN [dm_hints EXCEPT ![q.user] = q.left] ELSE dm_hints

BackgroundThread ==
    /\ bg # <<>> /\ bg' = Tail(bg)
    /\ Execute(Head(bg))
    /\ UNCHANGED <<team_membership, lockVars, premiumVars, states_mutex, cmd>> /\ Same

(* The process dies with its commands and its queue.                        *)
Crash ==
    /\ bg' = <<>> /\ states_mutex' = "free"
    /\ cmd' = [t \in Threads |-> NoCommand]
    /\ unsettled' = unsettled \cup
           {GuildOf[cmd[t].sub] : t \in {t \in Threads : At(t, "entitlement", "refresh")}}
    /\ UNCHANGED <<teamVars, dm_hints, lockVars, premium_credits, premium>> /\ Same

TeamStep(t) ==
    \/ CurrentTeam(t) \/ Filtered(t) \/ InsertTeam(t) \/ SelectTeam(t) \/ SelectMembership(t)
    \/ DeleteMembership(t) \/ InsertMembership(t) \/ OwnTeam(t) \/ LeaveCurrent(t)

Next ==
    \/ \E t \in Threads :
        \/ Create(t) \/ Join(t) \/ Leave(t) \/ VoteHint(t) \/ Answer(t) \/ OnEntitlement(t)
        \/ TeamStep(t)
        \/ SelectHints(t) \/ SubtractHint(t)
        \/ UpsertLock(t) \/ CheckLock(t)
        \/ Credit(t) \/ RefreshGuildPremium(t)
    \/ \E u \in Users : Vote(u)
    \/ \E s \in Subscriptions, g \in Guilds : ReassignPremium(s, g)
    \/ SecondPasses \/ BackgroundThread \/ Crash

Spec == Init /\ [][Next]_vars

-----------------------------------------------------------------------------
(* Properties *)

(* A player's team, with the points contributed, is lost only by leaving    *)
(* it: neither joining nor creating another team takes a player away, if    *)
(* the player has one command at a time (webrequest.cpp:722).               *)
TeamKeptUntilLeave ==
    [][\A u \in Users \ overlapped :
           team_membership[u] # None /\ team_membership'[u] # team_membership[u]
               => \E t \in Threads : At(t, "leave", "delete") /\ cmd[t].user = u]_vars

(* The number of hints left never rises without a new vote, although it is  *)
(* read from the database and written back by queries that are executed     *)
(* later: states_mutex and the order of the queue keep the writes in the    *)
(* order of the reads (cmd_votehint.cpp:41, :116).                          *)
HintsNeverRise ==
    [][\A u \in Users : dm_hints'[u] > dm_hints[u] => u \in toppedUp']_vars

(* A player who scores on one guild does not score on another for a minute, *)
(* whichever clusters the games run on (state.cpp:48).                      *)
OneGuildPerMinute ==
    [][\A u \in Users :
           scored'[u].guild # scored[u].guild => scored[u].age >= LockSeconds]_vars

(* A guild is premium exactly while it has an active subscription, once the *)
(* events under way are over, whatever order they come and interleave in    *)
(* (entitlement.cpp:27), unless a subscription was moved from or to it or   *)
(* the process died between the two queries.                                *)
PremiumFollowsCredits ==
    (\A t \in Threads : cmd[t].do # "entitlement")
        => \A g \in Guilds \ unsettled : premium[g] = HasActiveCredit(g)
=============================================================================
