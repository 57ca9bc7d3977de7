---------------------------- MODULE Housekeeping ----------------------------
(***************************************************************************)
(* What the timers of 30 and of 120 seconds keep up to date                *)
(* (modules/presence, and OnPresenceUpdate, UpdatePresenceLine,            *)
(* CheckReconnects and CheckLangReload of modules/trivia): the operator's  *)
(* requests to reconnect shards, the names of the custom commands and the  *)
(* texts of lang.json; and the guilds that are counted, which change on    *)
(* other threads.                                                          *)
(*                                                                         *)
(* The timers run on one thread.  Everything is written by background      *)
(* queries, which are executed in order and lost with the process.  The    *)
(* requests of the operator are written to the database directly.  The     *)
(* totals that are reported and shown are left out.                        *)
(***************************************************************************)
EXTENDS Integers, Sequences, SequencesExt, FiniteSets

CONSTANTS
    Guilds,
    Shards,         \* shards with a row for this cluster
    Gone,           \* those of them that the cluster no longer has
    MaxTime,        \* bound: seconds
    MaxQueue,       \* bound: queries that wait when a timer goes off
    MaxChanges      \* bound: changes from outside

ASSUME HousekeepingAssumption ==
    /\ IsFiniteSet(Guilds)
    /\ Gone \subseteq Shards
    /\ {MaxTime, MaxQueue, MaxChanges} \subseteq Nat

VARIABLES
    member,         \* guilds the bot is in
    outage,         \* guilds that are unavailable
    unheard,        \* guild events sent to the bot and not handled yet
    guild_temp_cache, \* the guilds counted
    kicked,         \* guilds marked in trivia_guild_cache
    infobot_shard_status, \* of each shard: forcereconnect and reconnect_status
    command_files, api_commands, \* whether there is a custom command
    file,           \* lang.json: its version, whether it is whole, its time
    lang, lastlang, \* the version in use, and the time of the one last read
    queue,          \* background queries
    up,
    timer,          \* the step of the thread of the timers
    todo,           \* its local: shards to reconnect
    now, changes,
    known,          \* history: guilds seen to be available by this process
    stale,          \* history: guilds counted at start and not heard of since
    hidden          \* history: lang.json was changed in a second already read

guildVars == <<member, outage, unheard, known, stale>>
cacheVars == <<guild_temp_cache, kicked>>
langVars == <<file, lang, lastlang, hidden>>
commandVars == <<command_files, api_commands>>
timerVars == <<timer, todo>>
housekeepingVars == <<guildVars, cacheVars, infobot_shard_status, commandVars,
          langVars, queue, up, timerVars, now, changes>>

(* The outcomes of a request to reconnect.                                  *)
Outcomes == {"reconnected", "not found", "error"}

CommandNames == command_files

(* Discord's event for a guild, which says whether it is available.         *)
Created(g) == [do |-> IF g \in outage THEN "unavailable" ELSE "create", guild |-> g]

(* The constructor reads the texts and then the timers start; Discord sends *)
(* every guild the bot is in.                                               *)
Start ==
    /\ ~up /\ up' = TRUE
    /\ file.whole
    /\ lang' = file.version /\ lastlang' = now /\ api_commands' = CommandNames
    /\ unheard' = SetToSeq({Created(g) : g \in member})
    /\ known' = {} /\ stale' = guild_temp_cache
    /\ UNCHANGED <<member, outage, cacheVars, infobot_shard_status,
                   command_files, file, hidden, queue, timerVars, now, changes>>

HousekeepingInit ==
    /\ member \in SUBSET Guilds /\ outage = {}
    /\ unheard = <<>> /\ known = {} /\ stale = {}
    /\ guild_temp_cache = {} /\ kicked = {}
    /\ infobot_shard_status = [s \in Shards |-> [forcereconnect |-> FALSE, status |-> "none"]]
    /\ command_files = FALSE /\ api_commands = FALSE
    /\ file = [version |-> 1, whole |-> TRUE, mtime |-> 1]
    /\ lang = 0 /\ lastlang = 0 /\ hidden = FALSE
    /\ queue = <<>> /\ up = FALSE /\ timer = "idle" /\ todo = {}
    /\ now = 1 /\ changes = 0

-----------------------------------------------------------------------------
(* The world *)

Change == changes < MaxChanges /\ changes' = changes + 1
System == UNCHANGED <<cacheVars, api_commands, lang, lastlang,
                      up, timerVars, now, known, stale>>
Send(e) == unheard' = IF up THEN Append(unheard, e) ELSE unheard

JoinGuild(g) ==
    /\ Change /\ g \notin member
    /\ member' = member \cup {g} /\ Send(Created(g))
    /\ System /\ UNCHANGED <<outage, infobot_shard_status, command_files, file, hidden, queue>>

LeaveGuild(g) ==
    /\ Change /\ g \in member \ outage
    /\ member' = member \ {g} /\ Send([do |-> "delete", guild |-> g])
    /\ System /\ UNCHANGED <<outage, infobot_shard_status, command_files, file, hidden, queue>>

(* A guild may be unavailable for a while; the bot is told.                 *)
Outage(g) ==
    /\ Change /\ g \in member
    /\ \/ /\ g \notin outage /\ outage' = outage \cup {g}
          /\ Send([do |-> "unavailable", guild |-> g])
       \/ /\ g \in outage /\ outage' = outage \ {g}
          /\ Send([do |-> "create", guild |-> g])
    /\ System /\ UNCHANGED <<member, infobot_shard_status, command_files, file, hidden, queue>>

RequestReconnect(s) ==
    /\ Change
    /\ infobot_shard_status' = [infobot_shard_status EXCEPT ![s].forcereconnect = TRUE]
    /\ System /\ UNCHANGED <<member, outage, unheard, command_files, file, hidden, queue>>

EditCommands ==
    /\ Change /\ command_files' = ~command_files
    /\ System /\ UNCHANGED <<member, outage, unheard, infobot_shard_status, file, hidden, queue>>

(* A file that is written in several steps, or by hand, is not always whole.*)
EditLang ==
    /\ Change
    /\ \E whole \in BOOLEAN :
           file' = [version |-> file.version + 1, whole |-> whole, mtime |-> now]
    /\ hidden' = (up /\ now <= lastlang)
    /\ System /\ UNCHANGED <<member, outage, unheard, infobot_shard_status, command_files, queue>>

Crash ==
    /\ Change /\ up /\ up' = FALSE
    /\ queue' = <<>> /\ unheard' = <<>> /\ timer' = "idle" /\ todo' = {}
    /\ hidden' = FALSE
    /\ UNCHANGED <<member, outage, known, stale, cacheVars,
                   infobot_shard_status, commandVars, file, lang, lastlang, now>>

SecondPasses ==
    /\ now < MaxTime /\ now' = now + 1
    /\ UNCHANGED <<guildVars, cacheVars, infobot_shard_status, commandVars, langVars,
                   queue, up, timerVars, changes>>

-----------------------------------------------------------------------------
(* Guild events, in the presence and the trivia module *)

Queue(qs) == queue' = queue \o qs

CachedGuild(g) == [do |-> "cache", guild |-> g]
Counted(g) == <<[do |-> "count", guild |-> g], CachedGuild(g)>>
Removed(g) == <<[do |-> "uncount", guild |-> g], [do |-> "kick", guild |-> g]>>

OutageRemoves(e) == IF e.do = "create" THEN Counted(e.guild) ELSE Removed(e.guild)  \* mutant

(* What OnGuildCreate and OnGuildDelete queue: nothing in an outage.        *)
Queries(e) ==
    CASE e.do = "create" -> Counted(e.guild)
      [] e.do = "delete" -> Removed(e.guild)
      [] OTHER -> <<>>

HandleGuildEvent ==
    /\ up /\ unheard # <<>> /\ unheard' = Tail(unheard)
    /\ LET e == Head(unheard) IN
       /\ Queue(Queries(e))
       /\ known' = CASE e.do = "create" -> known \cup {e.guild}
                     [] e.do = "delete" -> known \ {e.guild}
                     [] OTHER -> known
       /\ stale' = IF e.do = "unavailable" THEN stale ELSE stale \ {e.guild}
    /\ UNCHANGED <<member, outage, cacheVars, infobot_shard_status, commandVars,
                   langVars, up, timerVars, now, changes>>

-----------------------------------------------------------------------------
(* The timers *)

TimerAt(from, to) == up /\ timer = from /\ timer' = to
WorldSame == UNCHANGED <<guildVars, cacheVars, infobot_shard_status,
                         command_files, file, hidden, up, now, changes>>

(* Every 30 seconds: the names of the commands, and lang.json.  (The        *)
(* queries that report totals and shards change nothing that is modelled.)  *)
OnPresenceUpdate ==
    /\ TimerAt("idle", "compare")
    /\ api_commands' = CommandNames
    /\ WorldSame /\ UNCHANGED <<lang, lastlang, queue, todo>>

(* CheckLangReload: is the file newer than the one last read...             *)
CompareLang ==
    /\ \/ file.mtime > lastlang /\ TimerAt("compare", "stamp")
       \/ file.mtime <= lastlang /\ TimerAt("compare", "idle")
    /\ WorldSame /\ UNCHANGED <<api_commands, lang, lastlang, queue, todo>>

Parsed == IF file.whole THEN file.version ELSE lang

ReadThenStamp ==                                                  \* mutant
    /\ \/ TimerAt("stamp", "read") /\ lang' = Parsed /\ UNCHANGED lastlang
       \/ TimerAt("read", "idle") /\ lastlang' = file.mtime /\ UNCHANGED lang
    /\ WorldSame /\ UNCHANGED <<api_commands, queue, todo>>

(* ...its time, which is asked for again, and its texts, unless they cannot *)
(* be parsed.                                                               *)
ReloadLang ==
    /\ \/ TimerAt("stamp", "read") /\ lastlang' = file.mtime /\ UNCHANGED lang
       \/ TimerAt("read", "idle") /\ lang' = Parsed /\ UNCHANGED lastlang
    /\ WorldSame /\ UNCHANGED <<api_commands, queue, todo>>

(* Every 120 seconds: the operator's requests (and the games to start, see  *)
(* the module Commands).                                                    *)
UpdatePresenceLine ==
    /\ TimerAt("idle", "reconnect") /\ Len(queue) <= MaxQueue
    /\ todo' = {s \in Shards : infobot_shard_status[s].forcereconnect}
    /\ WorldSame /\ UNCHANGED <<api_commands, lang, lastlang, queue>>

Status(s, text) == [do |-> "status", shard |-> s, text |-> text]
Clear(s) == [do |-> "clear", shard |-> s]

(* What becomes of a shard's row; closing a shard may throw.                *)
Reconnecting(s) ==
    IF s \in Gone THEN {<<Status(s, "not found")>>}
    ELSE {<<Status(s, "Disconnecting"), Status(s, "Connecting"), Status(s, "reconnected")>>,
          <<Status(s, "Disconnecting"), Status(s, "error")>>}

ClearedFirst(s) == {<<Clear(s)>> \o qs : qs \in Reconnecting(s)}  \* mutant

Requested(s) == {qs \o <<Clear(s)>> : qs \in Reconnecting(s)}

CheckReconnects ==
    /\ TimerAt("reconnect", "reconnect")
    /\ \E s \in todo :
           /\ todo' = todo \ {s}
           /\ \E qs \in Requested(s) : Queue(qs)
    /\ WorldSame /\ UNCHANGED <<api_commands, lang, lastlang>>

ReconnectsChecked ==
    /\ todo = {} /\ TimerAt("reconnect", "idle")
    /\ WorldSame /\ UNCHANGED <<api_commands, lang, lastlang, queue, todo>>

-----------------------------------------------------------------------------
(* The background thread executes the oldest query.                         *)
Executed(q) ==
    /\ guild_temp_cache' = CASE q.do = "count" -> guild_temp_cache \cup {q.guild}
                             [] q.do = "uncount" -> guild_temp_cache \ {q.guild}
                             [] OTHER -> guild_temp_cache
    /\ kicked' = CASE q.do = "cache" -> kicked \ {q.guild}
                   [] q.do = "kick" -> kicked \cup {q.guild}
                   [] OTHER -> kicked
    /\ infobot_shard_status' =
           CASE q.do = "status" -> [infobot_shard_status EXCEPT ![q.shard].status = q.text]
             [] q.do = "clear" -> [infobot_shard_status EXCEPT ![q.shard].forcereconnect = FALSE]
             [] OTHER -> infobot_shard_status

BackgroundThread ==
    /\ up /\ queue # <<>> /\ queue' = Tail(queue)
    /\ Executed(Head(queue))
    /\ UNCHANGED <<guildVars, commandVars, langVars, up, timerVars,
                   now, changes>>

-----------------------------------------------------------------------------
HousekeepingNext ==
    \/ Start \/ HandleGuildEvent \/ BackgroundThread
    \/ OnPresenceUpdate \/ CompareLang \/ ReloadLang
    \/ UpdatePresenceLine \/ CheckReconnects \/ ReconnectsChecked
    \/ \E g \in Guilds : JoinGuild(g) \/ LeaveGuild(g) \/ Outage(g)
    \/ \E s \in Shards : RequestReconnect(s)
    \/ EditCommands \/ EditLang \/ Crash \/ SecondPasses

HousekeepingSpec == HousekeepingInit /\ [][HousekeepingNext]_housekeepingVars

-----------------------------------------------------------------------------
(* Properties *)

Settled == up /\ unheard = <<>> /\ queue = <<>>

(* Once its events are handled and its queries executed, the guilds that    *)
(* are counted are those the bot is in, those in an outage included, and    *)
(* none that the bot left before its eyes; the two tables agree             *)
(* (presence.cpp:92, trivia.cpp:283).  What it left while the process was   *)
(* down stays counted.                                                      *)
GuildsAreCounted ==
    Settled => /\ member \ outage \subseteq known
               /\ known \subseteq guild_temp_cache \ kicked
               /\ guild_temp_cache \subseteq member \cup stale

(* A request to reconnect a shard is forgotten only when its outcome is in  *)
(* the row, also when the process dies between the queries                  *)
(* (reconnect.cpp:56).                                                      *)
ForgottenRequestsAreDone ==
    [][\A s \in Shards :
           infobot_shard_status[s].forcereconnect /\ ~infobot_shard_status'[s].forcereconnect
               => infobot_shard_status[s].status \in Outcomes]_housekeepingVars

(* A new lang.json that is whole is in use, or will be read at the next     *)
(* timer, unless it was changed again within the second it was read in:     *)
(* a change between the steps of the reading is not missed (lang.cpp:45).   *)
TextsFollowFile ==
    up /\ timer # "read" /\ file.whole /\ lang # file.version
        => file.mtime > lastlang \/ hidden
=============================================================================
