----------------------------- MODULE WebRequests -----------------------------
(***************************************************************************)
(* Messages sent through the webhooks of channels (embeds.cpp) and the     *)
(* queues of web requests that carry them (webrequest.cpp): the cache of   *)
(* webhooks and its table, the creation of a webhook when a game starts,   *)
(* the round robin over the queues, rate limits, dead webhooks and the     *)
(* statistics.                                                             *)
(*                                                                         *)
(* Time is relative: a limit and a sleep hold the seconds left, which      *)
(* SecondPasses counts down, so no bound on time is needed.                *)
(***************************************************************************)
EXTENDS Integers, Sequences, FiniteSets

CONSTANTS
    Senders,        \* threads that send embeds
    Channels,
    Queues,         \* 1..FIRE_AND_FORGET_QUEUES
    MaxSeconds,     \* bound: the longest rate limit
    MaxHooks,       \* bound: webhooks ever created
    MaxRequests     \* bound: requests ever queued

ASSUME WebAssumption ==
    /\ IsFiniteSet(Queues) /\ Queues = 1..Cardinality(Queues) /\ Queues # {}
    /\ {MaxSeconds, MaxHooks, MaxRequests} \subseteq Nat
    /\ "api" \notin Channels

VARIABLES
    webhooks,       \* the cache, by channel
    channel_webhooks, \* the table, by channel
    alive,          \* webhooks that exist at Discord
    hooks,          \* how many were ever created
    bg,             \* DELETEs queued for the background thread, by channel
    sender,         \* what each sender does: its step, channel, webhook_id
    start,          \* the start of a game checking its channel's webhook
    faf, faf_index, \* the queues and the round robin over them
    worker,         \* the thread of each queue: its step and request
    sleep,          \* of each thread: seconds it still sleeps
    channellock,    \* of each channel: the limit and the seconds it has left
    counts,         \* requests and errors counted, and statdump's report
    queued, done,   \* history: requests queued and requests over
    gone, unanswered, \* history: webhooks that were answered 404, or not at all
    relimited       \* history: queues whose channel was limited after the check

hookVars == <<webhooks, channel_webhooks, alive, hooks, bg>>
queueVars == <<faf, faf_index, queued>>
workVars == <<worker, sleep, channellock, counts, done, gone, unanswered, relimited>>
vars == <<hookVars, sender, start, queueVars, workVars>>

None == 0
Idle == [step |-> "idle"]
Unlimited == [seconds |-> 0, left |-> 0]

(* set_io_context starts a thread for each queue and the one of statdump.   *)
(* Channels may have a webhook from earlier, each its own.                  *)
Init ==
    /\ webhooks = [c \in Channels |-> None]
    /\ hooks \in 0..MaxHooks /\ alive = 1..hooks
    /\ channel_webhooks \in [Channels -> {None} \cup alive]
    /\ \A h \in alive : \E c \in Channels : channel_webhooks[c] = h
    /\ \A c, d \in Channels : channel_webhooks[c] = channel_webhooks[d]
                                  => channel_webhooks[c] = None \/ c = d
    /\ bg = <<>>
    /\ sender = [s \in Senders |-> Idle]
    /\ start = Idle
    /\ faf = [q \in Queues |-> <<>>]
    /\ faf_index = 1
    /\ worker = [q \in Queues |-> Idle]
    /\ sleep = [q \in Queues |-> 0]
    /\ channellock = [c \in Channels |-> Unlimited]
    /\ counts = [requests |-> 0, errors |-> 0, reported |-> 0]
    /\ queued = 0 /\ done = {}
    /\ gone = {} /\ unanswered = {}
    /\ relimited = {}

-----------------------------------------------------------------------------
(* ProcessEmbed *)

SenderAt(s, step) == sender[s].step = step
SenderTo(s, next) == sender' = [sender EXCEPT ![s] = next]

(* Without an interaction to answer, the channel's webhook is used.         *)
LookUpCache(s, c) ==
    /\ SenderAt(s, "idle")
    /\ SenderTo(s, IF webhooks[c] # None
                   THEN [step |-> "post", channel |-> c, hook |-> webhooks[c]]
                   ELSE [step |-> "select", channel |-> c])
    /\ UNCHANGED <<hookVars, start, queueVars, workVars>>

(* Without a row the message is sent directly and that is all.              *)
SelectWebhook(s) ==
    /\ SenderAt(s, "select")
    /\ LET c == sender[s].channel  h == channel_webhooks[c] IN
       SenderTo(s, IF h = None THEN Idle ELSE [step |-> "cache", channel |-> c, hook |-> h])
    /\ UNCHANGED <<hookVars, start, queueVars, workVars>>

CacheWebhook(s) ==
    /\ SenderAt(s, "cache")
    /\ webhooks' = [webhooks EXCEPT ![sender[s].channel] = sender[s].hook]
    /\ SenderTo(s, [sender[s] EXCEPT !.step = "post"])
    /\ UNCHANGED <<channel_webhooks, alive, hooks, bg, start, queueVars, workVars>>

NextQueue == IF faf_index + 1 > Cardinality(Queues) THEN 1 ELSE faf_index + 1

Push(c, h) ==
    /\ queued < MaxRequests /\ queued' = queued + 1
    /\ faf' = [faf EXCEPT ![faf_index] = Append(@, [channel |-> c, hook |-> h, id |-> queued + 1])]
    /\ faf_index' = NextQueue

PostWebhook(s) ==
    /\ SenderAt(s, "post")
    /\ Push(sender[s].channel, sender[s].hook)
    /\ SenderTo(s, Idle)
    /\ UNCHANGED <<hookVars, start, workVars>>

(* Achievements and other calls of the bot's own web API.                   *)
Later ==
    /\ Push("api", None)
    /\ UNCHANGED <<hookVars, sender, start, workVars>>

-----------------------------------------------------------------------------
(* check_create_webhook *)

CheckWebhook(c) ==
    /\ start = Idle
    /\ start' = IF channel_webhooks[c] = None
                THEN [step |-> "create", channel |-> c]
                ELSE [step |-> "get", channel |-> c, hook |-> channel_webhooks[c]]
    /\ UNCHANGED <<hookVars, sender, queueVars, workVars>>

(* Its token is stored again when it exists, which changes nothing here.    *)
GetWebhook ==
    /\ start.step = "get"
    /\ start' = IF start.hook \in alive THEN Idle
                                        ELSE [step |-> "create", channel |-> start.channel]
    /\ UNCHANGED <<hookVars, sender, queueVars, workVars>>

(* The creation may be refused.                                             *)
CreateWebhook ==
    /\ start.step = "create"
    /\ \/ /\ hooks < MaxHooks /\ hooks' = hooks + 1
          /\ alive' = alive \cup {hooks + 1}
          /\ start' = [step |-> "insert", channel |-> start.channel, hook |-> hooks + 1]
       \/ start' = Idle /\ UNCHANGED <<hooks, alive>>
    /\ UNCHANGED <<webhooks, channel_webhooks, bg, sender, queueVars, workVars>>

InsertWebhook ==
    /\ start.step = "insert"
    /\ channel_webhooks' = [channel_webhooks EXCEPT ![start.channel] = start.hook]
    /\ start' = Idle
    /\ UNCHANGED <<webhooks, alive, hooks, bg, sender, queueVars, workVars>>

(* Somebody deletes a webhook in the settings of the channel.               *)
DeleteWebhook(h) ==
    /\ h \in alive /\ alive' = alive \ {h}
    /\ UNCHANGED <<webhooks, channel_webhooks, hooks, bg, sender, start, queueVars, workVars>>

BackgroundThread ==
    /\ bg # <<>>
    /\ channel_webhooks' = [channel_webhooks EXCEPT ![Head(bg)] = None]
    /\ bg' = Tail(bg)
    /\ UNCHANGED <<webhooks, alive, hooks, sender, start, queueVars, workVars>>

-----------------------------------------------------------------------------
(* fireandforget and web_request *)

WorkerAt(q, step) == worker[q].step = step /\ sleep[q] = 0
WorkerTo(q, step, request) == worker' = [worker EXCEPT ![q] = [step |-> step, request |-> request]]
Request(q) == worker[q].request

TakeRequest(q) ==
    /\ WorkerAt(q, "idle") /\ faf[q] # <<>>
    /\ faf' = [faf EXCEPT ![q] = Tail(@)]
    /\ WorkerTo(q, "check", Head(faf[q]))
    /\ UNCHANGED <<hookVars, sender, start, faf_index, queued, sleep, channellock, counts,
                   done, gone, unanswered, relimited>>

WaitForNothing(q) == 0                                            \* mutant

(* A limit another queue has met is waited for, in its full length.         *)
WaitFor(q) ==
    LET c == Request(q).channel IN
    IF c \in Channels /\ channellock[c].left > 0 THEN channellock[c].seconds ELSE 0

CheckLimit(q) ==
    /\ WorkerAt(q, "check")
    /\ sleep' = [sleep EXCEPT ![q] = WaitFor(q)]
    /\ WorkerTo(q, "send", Request(q))
    /\ relimited' = relimited \ {q}
    /\ UNCHANGED <<hookVars, sender, start, queueVars, channellock, counts, done, gone,
                   unanswered>>

Over(q) == /\ worker' = [worker EXCEPT ![q] = Idle]
           /\ done' = done \cup {Request(q)}

Count(what) == counts' = [counts EXCEPT ![what] = @ + 1]

(* Requests without a body go with GET and are not counted or limited.      *)
GetPage(q) ==
    /\ WorkerAt(q, "send") /\ Request(q).channel = "api"
    /\ Over(q)
    /\ UNCHANGED <<hookVars, sender, start, queueVars, sleep, channellock, counts, gone,
                   unanswered, relimited>>

(* The webhook has sent the message, and may have no more requests left for *)
(* now: on the channel, which every queue then waits for, or globally,      *)
(* which only this thread does: http_ratelimit is written and never read.   *)
Limited(q) ==
    LET c == Request(q).channel IN
    \E n \in 0..MaxSeconds, global \in BOOLEAN :
        /\ sleep' = [sleep EXCEPT ![q] = n]
        /\ IF n = 0 \/ global THEN UNCHANGED <<channellock, relimited>>
           ELSE /\ channellock' = [channellock EXCEPT ![c] = [seconds |-> n, left |-> n]]
                /\ relimited' = relimited \cup (Queues \ {q})

Posted(q) ==
    /\ WorkerAt(q, "send")
    /\ Request(q).hook \in alive
    /\ Limited(q) /\ WorkerTo(q, "count", Request(q))
    /\ UNCHANGED <<hookVars, sender, start, queueVars, counts, done, gone, unanswered>>

ForgetRowOnly(c) == /\ bg' = Append(bg, c)                        \* mutant
                    /\ UNCHANGED webhooks

ForgetWebhook(c) == /\ webhooks' = [webhooks EXCEPT ![c] = None]
                    /\ bg' = Append(bg, c)

NotFoundRetried(q) ==                                             \* mutant
    /\ WorkerAt(q, "send")
    /\ Request(q).channel \in Channels /\ Request(q).hook \notin alive
    /\ WorkerTo(q, "check", Request(q))
    /\ UNCHANGED <<hookVars, sender, start, queueVars, sleep, channellock, counts, done,
                   gone, unanswered, relimited>>

(* 404: the webhook was deleted.  The message is lost.                      *)
NotFound(q) ==
    /\ WorkerAt(q, "send")
    /\ Request(q).channel \in Channels /\ Request(q).hook \notin alive
    /\ ForgetWebhook(Request(q).channel)
    /\ gone' = gone \cup {Request(q).hook}
    /\ WorkerTo(q, "count", Request(q))
    /\ UNCHANGED <<channel_webhooks, alive, hooks, sender, start, queueVars, sleep, channellock,
                   counts, done, unanswered, relimited>>

(* The counters, after the thread has waited for the limit it met.          *)
CountRequest(q) ==
    /\ WorkerAt(q, "count")
    /\ Count("requests") /\ Over(q)
    /\ UNCHANGED <<hookVars, sender, start, queueVars, sleep, channellock, gone, unanswered,
                   relimited>>

(* No answer: the message is not tried again.                               *)
Failed(q) ==
    /\ WorkerAt(q, "send") /\ Request(q).channel \in Channels
    /\ Count("errors") /\ Over(q)
    /\ unanswered' = unanswered \cup {Request(q).hook}
    /\ UNCHANGED <<hookVars, sender, start, queueVars, sleep, channellock, gone, relimited>>

StatDump ==
    /\ counts' = [requests |-> 0, errors |-> 0,
                  reported |-> counts.reported + counts.requests + counts.errors]
    /\ UNCHANGED <<hookVars, sender, start, queueVars, worker, sleep, channellock, done,
                   gone, unanswered, relimited>>

Less(n) == IF n = 0 THEN 0 ELSE n - 1

SecondPasses ==
    /\ sleep' = [q \in Queues |-> Less(sleep[q])]
    /\ channellock' = [c \in Channels |-> IF channellock[c].left <= 1 THEN Unlimited
                                          ELSE [channellock[c] EXCEPT !.left = @ - 1]]
    /\ UNCHANGED <<hookVars, sender, start, queueVars, worker, counts, done, gone,
                   unanswered, relimited>>

-----------------------------------------------------------------------------
ProcessEmbed(s) ==
    \/ \E c \in Channels : LookUpCache(s, c)
    \/ SelectWebhook(s) \/ CacheWebhook(s) \/ PostWebhook(s)

CheckCreateWebhook == (\E c \in Channels : CheckWebhook(c)) \/ GetWebhook
                          \/ CreateWebhook \/ InsertWebhook

FireAndForget(q) ==
    \/ TakeRequest(q) \/ CheckLimit(q) \/ GetPage(q)
    \/ Posted(q) \/ NotFound(q) \/ Failed(q) \/ CountRequest(q)

Next ==
    \/ \E s \in Senders : ProcessEmbed(s)
    \/ Later
    \/ CheckCreateWebhook
    \/ \E h \in 1..MaxHooks : DeleteWebhook(h)
    \/ BackgroundThread
    \/ \E q \in Queues : FireAndForget(q)
    \/ StatDump
    \/ SecondPasses

(* The queues' threads run for ever, every request ends (the client gives   *)
(* up in the end), and time passes.                                         *)
Fairness == WF_vars(SecondPasses) /\ \A q \in Queues : WF_vars(FireAndForget(q))

Spec == Init /\ [][Next]_vars /\ Fairness

-----------------------------------------------------------------------------
(* Properties *)

AtRest == /\ bg = <<>> /\ start = Idle
          /\ \A s \in Senders : sender[s] = Idle
          /\ \A q \in Queues : faf[q] = <<>> /\ worker[q] = Idle

(* A webhook that was answered with 404 is forgotten once the requests and  *)
(* queries under way are over (webrequest.cpp:272): it is neither cached    *)
(* nor in the table, although a sender may cache it again from a row that   *)
(* is about to be deleted, because that sender's own message is answered    *)
(* with 404 as well.  Unless that message is never answered.                *)
DeadWebhooksForgotten ==
    AtRest => \A c \in Channels :
                  webhooks[c] \notin gone \ unanswered /\ channel_webhooks[c] \notin gone

(* "Other threads are told to wait by the values stored to channellock"     *)
(* (webrequest.cpp:318): a request is sent to a channel whose limit is in   *)
(* force only if the limit was met after the request looked for one.        *)
LimitsHoldBack ==
    \A q \in Queues :
        worker[q].step = "send" /\ sleep[q] = 0 /\ Request(q).channel \in Channels
            => channellock[Request(q).channel].left = 0 \/ q \in relimited

(* Every queued request is carried out, or given up, in the end: no rate    *)
(* limit and no failure stops a queue.                                      *)
RequestsEnd == \A id \in 1..MaxRequests : queued >= id ~> \E r \in done : r.id = id
=============================================================================
