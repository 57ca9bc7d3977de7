------------------------- MODULE WebRequestsProofs -------------------------
(***************************************************************************)
(* What is proved of webhooks and the queues of requests, for every number *)
(* of senders, channels and queues. A webhook that was answered with 404   *)
(* may be cached again by a sender that read its row before: the           *)
(* inductive invariant says that its row is about to be deleted, and that  *)
(* a message is on its way to it as long as it is cached, whose own answer *)
(* of 404 will take it out. For that a webhook must belong to one channel  *)
(* wherever it is kept: in the cache, in the table, with a sender, in a    *)
(* queue or with the queue's thread. The lemmas on the steps of senders    *)
(* and threads say what each does to those places.                         *)
(***************************************************************************)
EXTENDS WebRequests, FiniteSetTheorems, SequenceTheorems, TLAPS

-----------------------------------------------------------------------------
(* What the variables hold *)

Hooks == Nat \ {0}
Requests ==
    {r \in [channel : Channels \cup {"api"}, hook : Nat, id : Nat] : r.channel # "api" => r.hook \in Hooks}
SenderStates ==
    {Idle} \cup [step : {"select"}, channel : Channels]
    \cup [step : {"cache", "post"}, channel : Channels, hook : Hooks]
StartStates ==
    {Idle} \cup [step : {"create"}, channel : Channels]
    \cup [step : {"get", "insert"}, channel : Channels, hook : Hooks]
WorkerStates == {Idle} \cup [step : {"check", "send", "count"}, request : Requests]

HooksTypeOK ==
    /\ webhooks \in [Channels -> Nat] /\ channel_webhooks \in [Channels -> Nat]
    /\ alive \subseteq Nat /\ hooks \in Nat
    /\ bg \in Seq(Channels)
    /\ sender \in [Senders -> SenderStates] /\ start \in StartStates
    /\ gone \subseteq Nat

QueuesTypeOK ==
    /\ faf \in [Queues -> Seq(Requests)] /\ faf_index \in Queues /\ queued \in Nat
    /\ worker \in [Queues -> WorkerStates] /\ sleep \in [Queues -> Nat]
    /\ channellock \in [Channels -> [seconds : Nat, left : Nat]]

WebTypeOK == HooksTypeOK /\ QueuesTypeOK

(* A channel's webhook, wherever it is kept.                                *)
Carries(r, c, h) == r.channel = c /\ r.hook = h
Sends(s, c, h) == sender[s].step \in {"cache", "post"} /\ Carries(sender[s], c, h)
Posts(s, c, h) == sender[s].step = "post" /\ Carries(sender[s], c, h)
Waits(q, c, h) == \E i \in DOMAIN faf[q] : Carries(faf[q][i], c, h)
Handles(q, c, h) == worker[q].step \in {"check", "send"} /\ Carries(worker[q].request, c, h)

Holds(c, h) ==
    \/ webhooks[c] = h \/ channel_webhooks[c] = h
    \/ \E s \in Senders : Sends(s, c, h)
    \/ \E q \in Queues : Waits(q, c, h) \/ Handles(q, c, h)

(* A message on its way to the webhook.                                     *)
Pending(c, h) ==
    \/ \E s \in Senders : Posts(s, c, h)
    \/ \E q \in Queues : Waits(q, c, h) \/ Handles(q, c, h)

(* A webhook that was answered with 404 does not exist, and none that may   *)
(* be created yet was.                                                      *)
HooksKnown == alive \subseteq 1..hooks /\ gone \subseteq 1..hooks /\ alive \cap gone = {}

OneChannel ==
    \A c, d \in Channels, h \in Hooks : Holds(c, h) => h <= hooks /\ (Holds(d, h) => c = d)

(* A webhook just created is nowhere yet.                                   *)
Fresh ==
    start.step = "insert" =>
        start.hook \in 1..hooks /\ start.hook \notin gone /\ \A c \in Channels : ~ Holds(c, start.hook)

(* The row of a dead webhook is about to be deleted, and a message will be  *)
(* answered with 404, or not at all, as long as the cache has it.           *)
RowsGo == \A c \in Channels : channel_webhooks[c] \in gone => \E i \in DOMAIN bg : bg[i] = c
CacheGoes == \A c \in Channels : webhooks[c] \in gone \ unanswered => Pending(c, webhooks[c])

(* A thread sleeps as long as the limit that it looked for.                 *)
LimitsHold ==
    /\ \A c \in Channels : channellock[c].left <= channellock[c].seconds
    /\ \A q \in Queues : worker[q].step = "send" /\ Request(q).channel \in Channels
           => channellock[Request(q).channel].left <= sleep[q] \/ q \in relimited

WebInv == WebTypeOK /\ HooksKnown /\ OneChannel /\ Fresh /\ RowsGo /\ CacheGoes /\ LimitsHold

-----------------------------------------------------------------------------
(* States and queues *)

(* What a sender, the start of a game and a thread hold at each step.       *)
LEMMA Kinds ==
    /\ \A x \in SenderStates : x.step = "select" => x.channel \in Channels
    /\ \A x \in SenderStates : x.step \in {"cache", "post"} =>
           /\ x.channel \in Channels /\ x.hook \in Hooks
           /\ x \in [step : {"cache", "post"}, channel : Channels, hook : Hooks]
    /\ \A x \in StartStates : /\ x.step \in {"create", "get", "insert"} => x.channel \in Channels
                              /\ x.step \in {"get", "insert"} => x.hook \in Hooks
    /\ \A x \in WorkerStates : x.step \in {"check", "send", "count"} => x.request \in Requests
    /\ \A x \in SenderStates : x.step \in {"idle", "select", "cache", "post"}
    /\ Idle.step = "idle"
  <1>1. Idle.step = "idle"
    BY DEF Idle
  <1> HIDE DEF Idle
  <1> QED BY <1>1 DEF SenderStates, StartStates, WorkerStates, Idle

(* What is in a sequence after something was added at its end.              *)
LEMMA Appended ==
    ASSUME NEW T, NEW s \in Seq(T), NEW x \in T
    PROVE  /\ Append(s, x) \in Seq(T)
           /\ \A i \in DOMAIN Append(s, x) : (i \in DOMAIN s /\ Append(s, x)[i] = s[i]) \/ Append(s, x)[i] = x
           /\ \A i \in DOMAIN s : i \in DOMAIN Append(s, x) /\ Append(s, x)[i] = s[i]
           /\ \E i \in DOMAIN Append(s, x) : Append(s, x)[i] = x
  <1>1. /\ Len(s) \in Nat /\ DOMAIN s = 1..Len(s) /\ DOMAIN Append(s, x) = 1..(Len(s) + 1)
        /\ Append(s, x)[Len(s) + 1] = x /\ \A i \in 1..Len(s) : Append(s, x)[i] = s[i]
        /\ Append(s, x) \in Seq(T)
    OBVIOUS
  <1> QED BY <1>1

(* What is in a sequence after its head was taken.                          *)
LEMMA Taken ==
    ASSUME NEW T, NEW s \in Seq(T), s # <<>>
    PROVE  /\ Tail(s) \in Seq(T) /\ Head(s) \in T
           /\ \E i \in DOMAIN s : s[i] = Head(s)
           /\ \A i \in DOMAIN Tail(s) : \E j \in DOMAIN s : Tail(s)[i] = s[j]
           /\ \A i \in DOMAIN s : s[i] = Head(s) \/ \E j \in DOMAIN Tail(s) : Tail(s)[j] = s[i]
  <1>1. /\ Len(s) \in Nat \ {0} /\ DOMAIN s = 1..Len(s) /\ DOMAIN Tail(s) = 1..(Len(s) - 1)
        /\ Head(s) = s[1] /\ s[1] \in T /\ Tail(s) \in Seq(T)
        /\ \A i \in 1..(Len(s) - 1) : Tail(s)[i] = s[i + 1]
    OBVIOUS
  <1>2. \A i \in DOMAIN s : i = 1 \/ (i - 1 \in DOMAIN Tail(s) /\ Tail(s)[i - 1] = s[i])
    BY <1>1
  <1>3. \A i \in DOMAIN Tail(s) : i + 1 \in DOMAIN s /\ Tail(s)[i] = s[i + 1]
    BY <1>1
  <1>4. \A i \in DOMAIN Tail(s) : \E j \in DOMAIN s : Tail(s)[i] = s[j]
    BY <1>3
  <1>5. \A i \in DOMAIN s : s[i] = Head(s) \/ \E j \in DOMAIN Tail(s) : Tail(s)[j] = s[i]
    <2> TAKE i \in DOMAIN s
    <2>1. CASE i = 1
      BY <1>1, <2>1
    <2>2. CASE i - 1 \in DOMAIN Tail(s) /\ Tail(s)[i - 1] = s[i]
      BY <2>2
    <2> QED BY <1>2, <2>1, <2>2
  <1>6. 1 \in DOMAIN s
    BY <1>1
  <1> QED BY <1>1, <1>4, <1>5, <1>6

(* The round robin stays within the queues.                                 *)
LEMMA NextQueueIs == faf_index \in Queues => NextQueue \in Queues
  <1>1. Cardinality(Queues) \in Nat /\ Queues = 1..Cardinality(Queues)
    BY WebAssumption, FS_CardinalityType DEF WebAssumption
  <1> DEFINE n == Cardinality(Queues)
  <1> HIDE DEF n
  <1>2. n \in Nat /\ Queues = 1..n
    BY <1>1 DEF n
  <1>3. NextQueue = IF faf_index + 1 > n THEN 1 ELSE faf_index + 1
    BY DEF NextQueue, n
  <1> QED BY <1>2, <1>3

(* A request that is pushed waits in a queue, and nothing else changes.     *)
LEMMA Pushes ==
    ASSUME WebTypeOK, NEW c0 \in Channels \cup {"api"}, NEW h0 \in Nat,
           c0 # "api" => h0 \in Hooks, Push(c0, h0)
    PROVE  /\ faf' \in [Queues -> Seq(Requests)] /\ faf_index' \in Queues /\ queued' \in Nat
           /\ \A q \in Queues : \A c, h : /\ Waits(q, c, h) => Waits(q, c, h)'
                                          /\ Waits(q, c, h)' => Waits(q, c, h) \/ (c = c0 /\ h = h0)
           /\ \E q \in Queues : Waits(q, c0, h0)'
  <1> DEFINE r == [channel |-> c0, hook |-> h0, id |-> queued + 1]
  <1>1. r \in Requests /\ r.channel = c0 /\ r.hook = h0
    <2>1. r \in [channel : Channels \cup {"api"}, hook : Nat, id : Nat]
      BY DEF WebTypeOK, QueuesTypeOK
    <2>2. r.channel = c0 /\ r.hook = h0
      OBVIOUS
    <2> HIDE DEF r
    <2> QED BY <2>1, <2>2 DEF Requests
  <1>2. /\ faf_index \in Queues /\ faf_index' \in Queues /\ queued' \in Nat
        /\ faf' = [faf EXCEPT ![faf_index] = Append(faf[faf_index], r)]
    BY NextQueueIs DEF Push, WebTypeOK, QueuesTypeOK
  <1> HIDE DEF r
  <1>3. /\ faf'[faf_index] = Append(faf[faf_index], r) /\ faf[faf_index] \in Seq(Requests)
        /\ \A q \in Queues \ {faf_index} : faf'[q] = faf[q]
    BY <1>2 DEF WebTypeOK, QueuesTypeOK
  <1>4. /\ Append(faf[faf_index], r) \in Seq(Requests)
        /\ \A i \in DOMAIN faf'[faf_index] :
               (i \in DOMAIN faf[faf_index] /\ faf'[faf_index][i] = faf[faf_index][i]) \/ faf'[faf_index][i] = r
        /\ \A i \in DOMAIN faf[faf_index] :
               i \in DOMAIN faf'[faf_index] /\ faf'[faf_index][i] = faf[faf_index][i]
        /\ \E i \in DOMAIN faf'[faf_index] : faf'[faf_index][i] = r
    BY <1>1, <1>3, Appended
  <1>5. faf' \in [Queues -> Seq(Requests)]
    BY <1>2, <1>4 DEF WebTypeOK, QueuesTypeOK
  <1>6. ASSUME NEW q \in Queues, NEW c, NEW h
        PROVE  /\ Waits(q, c, h) => Waits(q, c, h)'
               /\ Waits(q, c, h)' => Waits(q, c, h) \/ (c = c0 /\ h = h0)
    <2>1. CASE q # faf_index
      BY <1>3, <2>1 DEF Waits, Carries
    <2>2. CASE q = faf_index
      BY <1>1, <1>4, <2>2 DEF Waits, Carries
    <2> QED BY <2>1, <2>2
  <1>7. \E q \in Queues : Waits(q, c0, h0)'
    <2>1. PICK i \in DOMAIN faf'[faf_index] : faf'[faf_index][i] = r
      BY <1>4
    <2> QED BY <1>1, <1>2, <2>1 DEF Waits, Carries
  <1> QED BY <1>2, <1>5, <1>6, <1>7

-----------------------------------------------------------------------------
(* Steps *)

(* What a step of a sender does: the webhook it comes to hold is one its    *)
(* channel has, and one it is rid of waits in a queue.                      *)
SenderMoved ==
    /\ HooksTypeOK' /\ QueuesTypeOK'
    /\ \A c \in Channels, h \in Hooks : /\ Holds(c, h)' => Holds(c, h)
                                        /\ Pending(c, h) => Pending(c, h)'
                                        /\ webhooks'[c] = h => webhooks[c] = h \/ Pending(c, h)'
    /\ UNCHANGED <<channel_webhooks, alive, hooks, bg, start, workVars>>

(* Every step of ProcessEmbed, and every other request, moves so.           *)
LEMMA SenderSteps ==
    ASSUME WebTypeOK, (\E s \in Senders : ProcessEmbed(s)) \/ Later
    PROVE  SenderMoved
  <1> USE DEF hookVars, queueVars, workVars
  <1>0. ASSUME faf' = faf, worker' = worker
        PROVE  \A q \in Queues : \A c, h : /\ Waits(q, c, h)' <=> Waits(q, c, h)
                                           /\ Handles(q, c, h)' <=> Handles(q, c, h)
    BY <1>0 DEF Waits, Handles
  <1>1. ASSUME NEW s \in Senders, NEW c0 \in Channels, LookUpCache(s, c0) PROVE SenderMoved
    <2> DEFINE new == IF webhooks[c0] # None
                      THEN [step |-> "post", channel |-> c0, hook |-> webhooks[c0]]
                      ELSE [step |-> "select", channel |-> c0]
    <2>1. /\ sender[s].step = "idle" /\ sender' = [sender EXCEPT ![s] = new]
          /\ UNCHANGED <<hookVars, start, queueVars, workVars>>
      BY <1>1 DEF LookUpCache, SenderAt, SenderTo
    <2>2. /\ new \in SenderStates
          /\ \/ new.step = "select"
             \/ new.step = "post" /\ new.channel = c0 /\ new.hook = webhooks[c0]
      <3>1. CASE webhooks[c0] # None
        <4>1. webhooks[c0] \in Hooks
          BY <3>1 DEF WebTypeOK, HooksTypeOK, Hooks, None
        <4>2. new = [step |-> "post", channel |-> c0, hook |-> webhooks[c0]]
          BY <3>1
        <4> HIDE DEF new
        <4> QED BY <4>1, <4>2 DEF SenderStates
      <3>2. CASE webhooks[c0] = None
        <4>1. new = [step |-> "select", channel |-> c0]
          BY <3>2
        <4> HIDE DEF new
        <4> QED BY <4>1 DEF SenderStates
      <3> QED BY <3>1, <3>2
    <2> HIDE DEF new
    <2>3. sender'[s] = new /\ \A r \in Senders \ {s} : sender'[r] = sender[r]
      BY <2>1 DEF WebTypeOK, HooksTypeOK
    <2>4. HooksTypeOK' /\ QueuesTypeOK'
      BY <2>1, <2>2 DEF WebTypeOK, HooksTypeOK, QueuesTypeOK
    <2>5. \A c, h : \A r \in Senders : /\ Sends(r, c, h)' => Sends(r, c, h) \/ (c = c0 /\ webhooks[c] = h)
                                       /\ Posts(r, c, h) => Posts(r, c, h)'
      BY <2>1, <2>2, <2>3 DEF Sends, Posts, Carries
    <2> QED BY <1>0, <2>1, <2>4, <2>5 DEF SenderMoved, Holds, Pending
  <1>2. ASSUME NEW s \in Senders, SelectWebhook(s) PROVE SenderMoved
    <2> DEFINE c0 == sender[s].channel
               h0 == channel_webhooks[c0]
               new == IF h0 = None THEN Idle ELSE [step |-> "cache", channel |-> c0, hook |-> h0]
    <2>1. /\ sender[s].step = "select" /\ sender' = [sender EXCEPT ![s] = new]
          /\ UNCHANGED <<hookVars, start, queueVars, workVars>>
      BY <1>2 DEF SelectWebhook, SenderAt, SenderTo
    <2>2. c0 \in Channels /\ h0 \in Nat
      BY <2>1, Kinds DEF WebTypeOK, HooksTypeOK
    <2>3. /\ new \in SenderStates
          /\ \/ new.step = "idle"
             \/ new.step = "cache" /\ new.channel = c0 /\ new.hook = h0
      <3> HIDE DEF c0, h0
      <3>1. CASE h0 # None
        <4>1. new = [step |-> "cache", channel |-> c0, hook |-> h0] /\ h0 \in Hooks
          BY <2>2, <3>1 DEF Hooks, None
        <4> HIDE DEF new
        <4> QED BY <2>2, <4>1 DEF SenderStates
      <3>2. CASE h0 = None
        <4>1. new = Idle
          BY <3>2
        <4> HIDE DEF new
        <4> QED BY <4>1, Kinds DEF SenderStates
      <3> QED BY <3>1, <3>2
    <2> HIDE DEF new
    <2>4. sender'[s] = new /\ \A r \in Senders \ {s} : sender'[r] = sender[r]
      BY <2>1 DEF WebTypeOK, HooksTypeOK
    <2>5. HooksTypeOK' /\ QueuesTypeOK'
      BY <2>1, <2>3 DEF WebTypeOK, HooksTypeOK, QueuesTypeOK
    <2>6. \A c, h : \A r \in Senders :
              /\ Sends(r, c, h)' => Sends(r, c, h) \/ (c = c0 /\ channel_webhooks[c] = h)
              /\ Posts(r, c, h) => Posts(r, c, h)'
      BY <2>1, <2>3, <2>4 DEF Sends, Posts, Carries
    <2> QED BY <1>0, <2>1, <2>5, <2>6 DEF SenderMoved, Holds, Pending
  <1>3. ASSUME NEW s \in Senders, CacheWebhook(s) PROVE SenderMoved
    <2> DEFINE new == [sender[s] EXCEPT !.step = "post"]
    <2>0. sender[s].step = "cache"
      BY <1>3 DEF CacheWebhook, SenderAt
    <2>2. sender[s] \in [step : {"cache", "post"}, channel : Channels, hook : Hooks]
      BY <2>0, Kinds DEF WebTypeOK, HooksTypeOK
    <2>9. PICK c0 \in Channels, h0 \in Hooks : c0 = sender[s].channel /\ h0 = sender[s].hook
      BY <2>2
    <2>1. /\ sender[s].step = "cache" /\ sender' = [sender EXCEPT ![s] = new]
          /\ webhooks' = [webhooks EXCEPT ![c0] = h0]
          /\ UNCHANGED <<channel_webhooks, alive, hooks, bg, start, queueVars, workVars>>
      BY <1>3, <2>9 DEF CacheWebhook, SenderAt, SenderTo
    <2>3. new \in SenderStates /\ new.step = "post" /\ new.channel = c0 /\ new.hook = h0
      BY <2>2, <2>9 DEF SenderStates
    <2> HIDE DEF new
    <2>4. sender'[s] = new /\ \A r \in Senders \ {s} : sender'[r] = sender[r]
      BY <2>1 DEF WebTypeOK, HooksTypeOK
    <2>5. webhooks' \in [Channels -> Nat] /\ webhooks'[c0] = h0
          /\ \A c \in Channels \ {c0} : webhooks'[c] = webhooks[c]
      BY <2>1 DEF WebTypeOK, HooksTypeOK, Hooks
    <2>6. HooksTypeOK' /\ QueuesTypeOK'
      BY <2>1, <2>3, <2>5 DEF WebTypeOK, HooksTypeOK, QueuesTypeOK
    <2>7. Sends(s, c0, h0) /\ Posts(s, c0, h0)'
      BY <2>1, <2>3, <2>4, <2>9 DEF Sends, Posts, Carries
    <2>8. \A c, h : \A r \in Senders : /\ Sends(r, c, h)' => Sends(r, c, h)
                                       /\ Posts(r, c, h) => Posts(r, c, h)'
      BY <2>1, <2>3, <2>4, <2>9 DEF Sends, Posts, Carries
    <2>10. ASSUME NEW c \in Channels, NEW h \in Hooks, Holds(c, h)' PROVE Holds(c, h)
      <3>1. CASE webhooks'[c] = h
        BY <2>5, <2>7, <3>1 DEF Holds
      <3>2. CASE webhooks'[c] # h
        BY <1>0, <2>1, <2>8, <2>10, <3>2 DEF Holds
      <3> QED BY <3>1, <3>2
    <2>11. \A c \in Channels, h \in Hooks : Pending(c, h) => Pending(c, h)'
      BY <1>0, <2>1, <2>8 DEF Pending
    <2>12. \A c \in Channels, h \in Hooks : webhooks'[c] = h => webhooks[c] = h \/ Pending(c, h)'
      BY <2>5, <2>7 DEF Pending
    <2> QED BY <2>1, <2>6, <2>10, <2>11, <2>12 DEF SenderMoved
  <1>4. ASSUME NEW s \in Senders, PostWebhook(s) PROVE SenderMoved
    <2>0. sender[s].step = "post"
      BY <1>4 DEF PostWebhook, SenderAt
    <2>12. PICK c0 \in Channels, h0 \in Hooks : c0 = sender[s].channel /\ h0 = sender[s].hook
      BY <2>0, Kinds DEF WebTypeOK, HooksTypeOK
    <2>1. /\ Push(c0, h0) /\ sender' = [sender EXCEPT ![s] = Idle]
          /\ UNCHANGED <<hookVars, start, workVars>>
      BY <1>4, <2>12 DEF PostWebhook, SenderTo
    <2>2. h0 \in Nat /\ c0 \in Channels \cup {"api"}
      BY DEF Hooks
    <2>3. Sends(s, c0, h0)
      BY <2>0, <2>12 DEF Sends, Carries
    <2>4. \A c, h : Posts(s, c, h) => c = c0 /\ h = h0
      BY <2>12 DEF Posts, Carries
    <2>5. /\ faf' \in [Queues -> Seq(Requests)] /\ faf_index' \in Queues /\ queued' \in Nat
          /\ \A q \in Queues : \A c, h : /\ Waits(q, c, h) => Waits(q, c, h)'
                                         /\ Waits(q, c, h)' => Waits(q, c, h) \/ (c = c0 /\ h = h0)
          /\ \E q \in Queues : Waits(q, c0, h0)'
      BY <2>1, <2>2, Pushes
    <2>6. /\ sender'[s] = Idle /\ \A r \in Senders \ {s} : sender'[r] = sender[r]
          /\ sender' \in [Senders -> SenderStates]
      BY <2>1 DEF WebTypeOK, HooksTypeOK, SenderStates
    <2>7. \A c, h : /\ \A r \in Senders : Sends(r, c, h)' => Sends(r, c, h)
                    /\ \A r \in Senders \ {s} : Posts(r, c, h) => Posts(r, c, h)'
      BY <2>6, Kinds DEF Sends, Posts
    <2>8. \A q \in Queues : \A c, h : Handles(q, c, h)' <=> Handles(q, c, h)
      BY <2>1 DEF Handles
    <2>9. HooksTypeOK' /\ QueuesTypeOK'
      BY <2>1, <2>5, <2>6 DEF WebTypeOK, HooksTypeOK, QueuesTypeOK
    <2>10. \A c \in Channels, h \in Hooks : Holds(c, h)' => Holds(c, h)
      BY <2>1, <2>3, <2>5, <2>7, <2>8 DEF Holds
    <2>11. ASSUME NEW c \in Channels, NEW h \in Hooks, Pending(c, h) PROVE Pending(c, h)'
      <3>1. CASE \E r \in Senders : Posts(r, c, h)
        <4>1. CASE Posts(s, c, h)
          BY <2>4, <2>5, <4>1 DEF Pending
        <4>2. CASE ~ Posts(s, c, h)
          BY <2>7, <3>1, <4>2 DEF Pending
        <4> QED BY <4>1, <4>2
      <3>2. CASE \E q \in Queues : Waits(q, c, h) \/ Handles(q, c, h)
        BY <2>5, <2>8, <3>2 DEF Pending
      <3> QED BY <2>11, <3>1, <3>2 DEF Pending
    <2>13. \A c \in Channels, h \in Hooks : webhooks'[c] = h => webhooks[c] = h
      BY <2>1
    <2> QED BY <2>1, <2>9, <2>10, <2>11, <2>13 DEF SenderMoved
  <1>5. ASSUME Later PROVE SenderMoved
    <2>1. Push("api", 0) /\ UNCHANGED <<hookVars, sender, start, workVars>>
      BY <1>5 DEF Later, None
    <2>2. /\ faf' \in [Queues -> Seq(Requests)] /\ faf_index' \in Queues /\ queued' \in Nat
          /\ \A q \in Queues : \A c, h : /\ Waits(q, c, h) => Waits(q, c, h)'
                                         /\ Waits(q, c, h)' => Waits(q, c, h) \/ (c = "api" /\ h = 0)
      BY <2>1, Pushes
    <2>3. \A q \in Queues : \A c, h : Handles(q, c, h)' <=> Handles(q, c, h)
      BY <2>1 DEF Handles
    <2>4. \A r \in Senders : \A c, h : /\ Sends(r, c, h)' <=> Sends(r, c, h)
                                       /\ Posts(r, c, h)' <=> Posts(r, c, h)
      BY <2>1 DEF Sends, Posts
    <2>5. HooksTypeOK' /\ QueuesTypeOK'
      BY <2>1, <2>2 DEF WebTypeOK, HooksTypeOK, QueuesTypeOK
    <2>6. \A c \in Channels : c # "api"
      BY WebAssumption DEF WebAssumption
    <2> QED BY <2>1, <2>2, <2>3, <2>4, <2>5, <2>6 DEF SenderMoved, Holds, Pending
  <1> QED BY <1>1, <1>2, <1>3, <1>4, <1>5 DEF ProcessEmbed

Queued(c, h) == \E q \in Queues : Waits(q, c, h) \/ Handles(q, c, h)

(* What answers a request, or gives it up.                                  *)
Answers(q) == Posted(q) \/ NotFound(q) \/ Failed(q)

(* What a step of the thread of a queue does to the requests.               *)
WorkerMoved(q) ==
    /\ QueuesTypeOK'
    /\ \A c, h : Queued(c, h)' => Queued(c, h)
    /\ \A c \in Channels : \A h : Queued(c, h) =>
           Queued(c, h)' \/ (Answers(q) /\ Carries(Request(q), c, h))
    /\ UNCHANGED <<channel_webhooks, alive, hooks, sender, start>>

(* Only an answer takes away a request to a webhook.                        *)
LEMMA WorkerSteps ==
    ASSUME WebTypeOK, NEW q \in Queues, FireAndForget(q)
    PROVE  WorkerMoved(q)
  <1> USE DEF hookVars, queueVars, workVars
  <1>0. /\ worker[q] \in WorkerStates /\ faf[q] \in Seq(Requests) /\ sleep[q] \in Nat
        /\ worker[q].step \in {"check", "send", "count"} => Request(q) \in Requests
    BY Kinds DEF WebTypeOK, QueuesTypeOK, Request
  <1>1. ASSUME TakeRequest(q) PROVE WorkerMoved(q)
    <2> DEFINE r == Head(faf[q])
               new == [step |-> "check", request |-> r]
    <2>1. /\ worker[q].step = "idle" /\ faf[q] # <<>>
          /\ faf' = [faf EXCEPT ![q] = Tail(faf[q])] /\ worker' = [worker EXCEPT ![q] = new]
          /\ UNCHANGED <<hookVars, sender, start, faf_index, queued, sleep, channellock>>
      BY <1>1 DEF TakeRequest, WorkerAt, WorkerTo
    <2>2. /\ Tail(faf[q]) \in Seq(Requests) /\ r \in Requests
          /\ \E i \in DOMAIN faf[q] : faf[q][i] = r
          /\ \A i \in DOMAIN Tail(faf[q]) : \E j \in DOMAIN faf[q] : Tail(faf[q])[i] = faf[q][j]
          /\ \A i \in DOMAIN faf[q] : faf[q][i] = r \/ \E j \in DOMAIN Tail(faf[q]) : Tail(faf[q])[j] = faf[q][i]
      BY <1>0, <2>1, Taken
    <2> HIDE DEF r
    <2>3. new \in WorkerStates /\ new.step = "check" /\ new.request = r
      BY <2>2 DEF WorkerStates
    <2> HIDE DEF new
    <2>4. /\ worker'[q] = new /\ faf'[q] = Tail(faf[q])
          /\ \A p \in Queues \ {q} : worker'[p] = worker[p] /\ faf'[p] = faf[p]
      BY <2>1 DEF WebTypeOK, QueuesTypeOK
    <2>5. QueuesTypeOK'
      BY <2>1, <2>2, <2>3 DEF WebTypeOK, QueuesTypeOK
    <2>6. \A p \in Queues \ {q} : \A c, h : /\ Waits(p, c, h)' <=> Waits(p, c, h)
                                            /\ Handles(p, c, h)' <=> Handles(p, c, h)
      BY <2>4 DEF Waits, Handles
    <2>7. \A c, h : ~ Handles(q, c, h) /\ (Handles(q, c, h)' <=> Carries(r, c, h))
      BY <2>1, <2>3, <2>4 DEF Handles
    <2>8. \A c, h : Waits(q, c, h)' => Waits(q, c, h)
      BY <2>2, <2>4 DEF Waits
    <2>9. \A c, h : Carries(r, c, h) => Waits(q, c, h)
      BY <2>2 DEF Waits
    <2>10. \A c, h : Waits(q, c, h) => Waits(q, c, h)' \/ Carries(r, c, h)
      <3> SUFFICES ASSUME NEW c, NEW h, NEW i \in DOMAIN faf[q], Carries(faf[q][i], c, h)
                   PROVE  Carries(r, c, h) \/ \E j \in DOMAIN faf'[q] : Carries(faf'[q][j], c, h)
        BY DEF Waits, Carries
      <3>1. CASE faf[q][i] = r
        BY <3>1
      <3>2. ASSUME NEW j \in DOMAIN Tail(faf[q]), Tail(faf[q])[j] = faf[q][i]
            PROVE  \E k \in DOMAIN faf'[q] : Carries(faf'[q][k], c, h)
        BY <2>4, <3>2
      <3> QED BY <2>2, <3>1, <3>2
    <2>11. \A c, h : Queued(c, h)' => Queued(c, h)
      BY <2>6, <2>7, <2>8, <2>9 DEF Queued
    <2>12. \A c, h : Queued(c, h) => Queued(c, h)'
      BY <2>6, <2>7, <2>10 DEF Queued
    <2> QED BY <2>1, <2>5, <2>11, <2>12 DEF WorkerMoved
  <1>2. ASSUME NEW new \in WorkerStates, worker' = [worker EXCEPT ![q] = new],
               new = Idle \/ (new.step \in {"send", "count"} /\ new.request = Request(q)),
               faf' = faf
        PROVE  /\ worker' \in [Queues -> WorkerStates]
               /\ \A c, h : Queued(c, h)' => Queued(c, h) \/ worker[q].step = "count" \/ worker[q].step = "idle"
               /\ new.step = "send" => \A c, h : Queued(c, h) => Queued(c, h)'
               /\ \A c, h : Queued(c, h) => Queued(c, h)' \/ Carries(Request(q), c, h)
    <2>1. /\ worker' \in [Queues -> WorkerStates] /\ worker'[q] = new
          /\ \A p \in Queues \ {q} : worker'[p] = worker[p]
      BY <1>2 DEF WebTypeOK, QueuesTypeOK
    <2>2. \A p \in Queues : \A c, h : Waits(p, c, h)' <=> Waits(p, c, h)
      BY <1>2 DEF Waits
    <2>3. \A p \in Queues \ {q} : \A c, h : Handles(p, c, h)' <=> Handles(p, c, h)
      BY <2>1 DEF Handles
    <2>4. worker[q].step \in {"idle", "check", "send", "count"}
      BY <1>0 DEF WorkerStates, Idle
    <2>5. \A c, h : Handles(q, c, h)' => Carries(Request(q), c, h)
      BY <1>2, <2>1, Kinds DEF Handles
    <2>6. \A c, h : worker[q].step \in {"check", "send"} /\ Carries(Request(q), c, h) => Handles(q, c, h)
      BY DEF Handles, Request
    <2>7. \A c, h : Handles(q, c, h) => Carries(Request(q), c, h)
      BY DEF Handles, Request
    <2>8. new.step = "send" => \A c, h : Carries(Request(q), c, h) => Handles(q, c, h)'
      BY <1>2, <2>1, Kinds DEF Handles
    <2>9. \A c, h : Queued(c, h)' => Queued(c, h) \/ worker[q].step = "count" \/ worker[q].step = "idle"
      BY <2>2, <2>3, <2>4, <2>5, <2>6 DEF Queued
    <2>10. \A c, h : Queued(c, h) => Queued(c, h)' \/ Carries(Request(q), c, h)
      BY <2>2, <2>3, <2>7 DEF Queued
    <2>11. new.step = "send" => \A c, h : Queued(c, h) => Queued(c, h)'
      BY <2>2, <2>3, <2>7, <2>8 DEF Queued
    <2> QED BY <2>1, <2>9, <2>10, <2>11
  <1>3. ASSUME Request(q) \in Requests
        PROVE  \A step \in {"send", "count"} :
                   LET new == [step |-> step, request |-> Request(q)]
                   IN  new \in WorkerStates /\ new.step = step /\ new.request = Request(q)
    BY <1>3 DEF WorkerStates
  <1>4. ASSUME CheckLimit(q) PROVE WorkerMoved(q)
    <2> DEFINE new == [step |-> "send", request |-> Request(q)]
    <2>1. /\ worker[q].step = "check" /\ sleep' = [sleep EXCEPT ![q] = WaitFor(q)]
          /\ worker' = [worker EXCEPT ![q] = new] /\ faf' = faf
          /\ UNCHANGED <<hookVars, sender, start, queueVars, channellock>>
      BY <1>4 DEF CheckLimit, WorkerAt, WorkerTo
    <2>2. new \in WorkerStates /\ new.step = "send" /\ new.request = Request(q)
      BY <1>0, <1>3, <2>1
    <2>3. WaitFor(q) \in Nat
      <3>1. \A c \in Channels : channellock[c].seconds \in Nat
        BY DEF WebTypeOK, QueuesTypeOK
      <3> QED BY <3>1 DEF WaitFor
    <2> HIDE DEF new
    <2>4. worker' \in [Queues -> WorkerStates]
      BY <1>2, <2>1, <2>2
    <2>5. QueuesTypeOK'
      BY <2>1, <2>3, <2>4 DEF WebTypeOK, QueuesTypeOK
    <2>6. UNCHANGED <<channel_webhooks, alive, hooks, sender, start>>
      BY <2>1
    <2>7. \A c, h : Queued(c, h)' => Queued(c, h)
      BY <1>2, <2>1, <2>2
    <2>8. \A c \in Channels : \A h : Queued(c, h) => Queued(c, h)' \/ (Answers(q) /\ Carries(Request(q), c, h))
      BY <1>2, <2>1, <2>2
    <2> HIDE DEF Queued
    <2> QED BY <2>5, <2>6, <2>7, <2>8 DEF WorkerMoved
  <1>5. ASSUME Over(q), worker[q].step = "send", faf' = faf
        PROVE  /\ worker' \in [Queues -> WorkerStates]
               /\ \A c, h : /\ Queued(c, h)' => Queued(c, h)
                            /\ Queued(c, h) => Queued(c, h)' \/ Carries(Request(q), c, h)
    BY <1>2, <1>5, Kinds DEF Over, WorkerStates
  <1>6. ASSUME GetPage(q) PROVE WorkerMoved(q)
    <2>1. /\ Over(q) /\ worker[q].step = "send" /\ Request(q).channel = "api"
          /\ UNCHANGED <<hookVars, sender, start, queueVars, sleep, channellock>>
      BY <1>6 DEF GetPage, WorkerAt
    <2>2. \A c \in Channels : \A h : ~ Carries(Request(q), c, h)
      BY <2>1, WebAssumption DEF Carries, WebAssumption
    <2> QED BY <1>5, <2>1, <2>2 DEF WorkerMoved, WebTypeOK, QueuesTypeOK
  <1>7. ASSUME Failed(q) PROVE WorkerMoved(q)
    <2>1. /\ Over(q) /\ worker[q].step = "send"
          /\ UNCHANGED <<hookVars, sender, start, queueVars, sleep, channellock>>
      BY <1>7 DEF Failed, WorkerAt
    <2> QED BY <1>5, <1>7, <2>1 DEF WorkerMoved, WebTypeOK, QueuesTypeOK, Answers
  <1>8. ASSUME CountRequest(q) PROVE WorkerMoved(q)
    <2>1. /\ worker[q].step = "count" /\ worker' = [worker EXCEPT ![q] = Idle]
          /\ UNCHANGED <<hookVars, sender, start, queueVars, sleep, channellock>>
      BY <1>8 DEF CountRequest, WorkerAt, Over
    <2>2. /\ worker' \in [Queues -> WorkerStates] /\ worker'[q] = Idle
          /\ \A p \in Queues \ {q} : worker'[p] = worker[p]
      BY <2>1 DEF WebTypeOK, QueuesTypeOK, WorkerStates
    <2>3. \A p \in Queues : \A c, h : (Waits(p, c, h)' <=> Waits(p, c, h)) /\ (Handles(p, c, h)' <=> Handles(p, c, h))
      BY <2>1, <2>2, Kinds DEF Waits, Handles
    <2> QED BY <2>1, <2>2, <2>3 DEF WorkerMoved, WebTypeOK, QueuesTypeOK, Queued
  <1>9. ASSUME WorkerTo(q, "count", Request(q)), worker[q].step = "send", faf' = faf
        PROVE  /\ worker' \in [Queues -> WorkerStates]
               /\ \A c, h : /\ Queued(c, h)' => Queued(c, h)
                            /\ Queued(c, h) => Queued(c, h)' \/ Carries(Request(q), c, h)
    <2> DEFINE new == [step |-> "count", request |-> Request(q)]
    <2>1. worker' = [worker EXCEPT ![q] = new]
      BY <1>9 DEF WorkerTo
    <2>2. new \in WorkerStates /\ new.step = "count" /\ new.request = Request(q)
      BY <1>0, <1>3, <1>9
    <2> HIDE DEF new
    <2> QED BY <1>2, <1>9, <2>1, <2>2
  <1>10. ASSUME NotFound(q) PROVE WorkerMoved(q)
    <2>1. /\ WorkerTo(q, "count", Request(q)) /\ worker[q].step = "send"
          /\ UNCHANGED <<channel_webhooks, alive, hooks, sender, start, queueVars, sleep, channellock>>
      BY <1>10 DEF NotFound, WorkerAt
    <2> QED BY <1>9, <1>10, <2>1 DEF WorkerMoved, WebTypeOK, QueuesTypeOK, Answers
  <1>11. ASSUME Posted(q) PROVE WorkerMoved(q)
    <2>1. /\ WorkerTo(q, "count", Request(q)) /\ worker[q].step = "send" /\ Limited(q)
          /\ UNCHANGED <<hookVars, sender, start, queueVars>>
      BY <1>11 DEF Posted, WorkerAt
    <2>2. PICK n \in 0..MaxSeconds :
              /\ sleep' = [sleep EXCEPT ![q] = n]
              /\ \/ channellock' = channellock
                 \/ channellock' = [channellock EXCEPT ![Request(q).channel] = [seconds |-> n, left |-> n]]
      BY <2>1 DEF Limited
    <2>3. n \in Nat /\ [seconds |-> n, left |-> n] \in [seconds : Nat, left : Nat]
      BY WebAssumption DEF WebAssumption
    <2>4. sleep' \in [Queues -> Nat] /\ channellock' \in [Channels -> [seconds : Nat, left : Nat]]
      BY <2>2, <2>3 DEF WebTypeOK, QueuesTypeOK
    <2> QED BY <1>9, <1>11, <2>1, <2>4 DEF WorkerMoved, WebTypeOK, QueuesTypeOK, Answers
  <1> QED BY <1>1, <1>4, <1>6, <1>7, <1>8, <1>10, <1>11 DEF FireAndForget

(* Every step keeps the types.                                              *)
LEMMA WebTypeStep == WebTypeOK /\ [Next]_vars => WebTypeOK'
  <1> SUFFICES ASSUME WebTypeOK, [Next]_vars PROVE WebTypeOK'
    OBVIOUS
  <1> USE DEF hookVars, queueVars, workVars
  <1>1. CASE (\E s \in Senders : ProcessEmbed(s)) \/ Later
    BY <1>1, SenderSteps DEF SenderMoved, WebTypeOK
  <1>2. ASSUME NEW c \in Channels, CheckWebhook(c) PROVE WebTypeOK'
    <2>1. start' \in StartStates
      <3>1. CASE channel_webhooks[c] = None
        BY <1>2, <3>1 DEF CheckWebhook, StartStates
      <3>2. CASE channel_webhooks[c] # None
        <4>1. channel_webhooks[c] \in Hooks
          BY <3>2 DEF WebTypeOK, HooksTypeOK, Hooks, None
        <4>2. start' = [step |-> "get", channel |-> c, hook |-> channel_webhooks[c]]
          BY <1>2, <3>2 DEF CheckWebhook
        <4> QED BY <4>1, <4>2 DEF StartStates
      <3> QED BY <3>1, <3>2
    <2> QED BY <1>2, <2>1 DEF CheckWebhook, WebTypeOK, HooksTypeOK, QueuesTypeOK
  <1>3. ASSUME GetWebhook PROVE WebTypeOK'
    <2>1. start.channel \in Channels
      BY <1>3, Kinds DEF GetWebhook, WebTypeOK, HooksTypeOK
    <2>2. [step |-> "create", channel |-> start.channel] \in StartStates /\ Idle \in StartStates
      BY <2>1 DEF StartStates
    <2>3. start' \in StartStates
      BY <1>3, <2>2 DEF GetWebhook
    <2> QED BY <1>3, <2>3 DEF GetWebhook, WebTypeOK, HooksTypeOK, QueuesTypeOK
  <1>4. ASSUME CreateWebhook PROVE WebTypeOK'
    <2>1. start.channel \in Channels /\ hooks \in Nat
      BY <1>4, Kinds DEF CreateWebhook, WebTypeOK, HooksTypeOK
    <2>2. hooks + 1 \in Hooks
      BY <2>1 DEF Hooks
    <2>3. /\ [step |-> "insert", channel |-> start.channel, hook |-> hooks + 1] \in StartStates
          /\ Idle \in StartStates
      BY <2>1, <2>2 DEF StartStates
    <2>4. start' \in StartStates /\ hooks' \in Nat /\ alive' \subseteq Nat
      BY <1>4, <2>1, <2>3 DEF CreateWebhook, WebTypeOK, HooksTypeOK
    <2> QED BY <1>4, <2>4 DEF CreateWebhook, WebTypeOK, HooksTypeOK, QueuesTypeOK
  <1>5. ASSUME InsertWebhook PROVE WebTypeOK'
    <2>1. start.channel \in Channels /\ start.hook \in Nat
      BY <1>5, Kinds DEF InsertWebhook, WebTypeOK, HooksTypeOK, Hooks
    <2>2. start' \in StartStates /\ channel_webhooks' \in [Channels -> Nat]
      BY <1>5, <2>1 DEF InsertWebhook, WebTypeOK, HooksTypeOK, StartStates
    <2> QED BY <1>5, <2>2 DEF InsertWebhook, WebTypeOK, HooksTypeOK, QueuesTypeOK
  <1>6. ASSUME NEW h, DeleteWebhook(h) PROVE WebTypeOK'
    BY <1>6 DEF DeleteWebhook, WebTypeOK, HooksTypeOK, QueuesTypeOK
  <1>7. ASSUME BackgroundThread PROVE WebTypeOK'
    <2>1. bg' \in Seq(Channels) /\ channel_webhooks' \in [Channels -> Nat]
      BY <1>7 DEF BackgroundThread, WebTypeOK, HooksTypeOK, None
    <2> QED BY <1>7, <2>1 DEF BackgroundThread, WebTypeOK, HooksTypeOK, QueuesTypeOK
  <1>8. ASSUME NEW q \in Queues, FireAndForget(q) PROVE WebTypeOK'
    <2>1. QueuesTypeOK' /\ UNCHANGED <<channel_webhooks, alive, hooks, sender, start>>
      BY <1>8, WorkerSteps DEF WorkerMoved
    <2>2. webhooks' \in [Channels -> Nat] /\ bg' \in Seq(Channels) /\ gone' \subseteq Nat
      <3>1. CASE NotFound(q)
        <4>1. Request(q).channel \in Channels /\ Request(q) \in Requests
          BY <3>1, Kinds DEF NotFound, WorkerAt, WebTypeOK, QueuesTypeOK, Request
        <4>2. Request(q).hook \in Nat
          BY <4>1 DEF Requests
        <4>3. PICK c \in Channels, h \in Nat : c = Request(q).channel /\ h = Request(q).hook
          BY <4>1, <4>2
        <4>4. /\ webhooks' = [webhooks EXCEPT ![c] = 0] /\ bg' = Append(bg, c) /\ gone' = gone \cup {h}
          BY <3>1, <4>3 DEF NotFound, ForgetWebhook, None
        <4>5. webhooks' \in [Channels -> Nat] /\ gone' \subseteq Nat
          BY <4>4 DEF WebTypeOK, HooksTypeOK
        <4>6. bg \in Seq(Channels)
          BY DEF WebTypeOK, HooksTypeOK
        <4>7. bg' \in Seq(Channels)
          BY <4>4, <4>6, Appended
        <4> QED BY <4>5, <4>7
      <3>2. CASE ~ NotFound(q)
        BY <1>8, <3>2 DEF FireAndForget, TakeRequest, CheckLimit, GetPage, Posted, Failed, CountRequest,
           WebTypeOK, HooksTypeOK
      <3> QED BY <3>1, <3>2
    <2> QED BY <2>1, <2>2 DEF WebTypeOK, HooksTypeOK
  <1>9. ASSUME StatDump PROVE WebTypeOK'
    BY <1>9 DEF StatDump, WebTypeOK, HooksTypeOK, QueuesTypeOK
  <1>10. ASSUME SecondPasses PROVE WebTypeOK'
    <2>1. \A n \in Nat : Less(n) \in Nat
      BY DEF Less
    <2>2. sleep' \in [Queues -> Nat]
      BY <1>10, <2>1 DEF SecondPasses, WebTypeOK, QueuesTypeOK
    <2>3. channellock' \in [Channels -> [seconds : Nat, left : Nat]]
      <3> SUFFICES ASSUME NEW c \in Channels
                   PROVE  (IF channellock[c].left <= 1 THEN Unlimited ELSE [channellock[c] EXCEPT !.left = @ - 1])
                              \in [seconds : Nat, left : Nat]
        BY <1>10 DEF SecondPasses
      <3>1. channellock[c] \in [seconds : Nat, left : Nat]
        BY DEF WebTypeOK, QueuesTypeOK
      <3> QED BY <3>1 DEF Unlimited
    <2> QED BY <1>10, <2>2, <2>3 DEF SecondPasses, WebTypeOK, HooksTypeOK, QueuesTypeOK
  <1>11. CASE UNCHANGED vars
    BY <1>11 DEF vars, WebTypeOK, HooksTypeOK, QueuesTypeOK
  <1> QED BY <1>1, <1>2, <1>3, <1>4, <1>5, <1>6, <1>7, <1>8, <1>9, <1>10, <1>11 DEF Next, CheckCreateWebhook

(* What changes no place where webhooks are kept.                           *)
LEMMA PlacesSame ==
    ASSUME UNCHANGED <<webhooks, channel_webhooks, sender, faf, worker>>
    PROVE  \A c, h : (Holds(c, h)' <=> Holds(c, h)) /\ (Pending(c, h)' <=> Pending(c, h))
  <1>1. \A s \in Senders : \A c, h : (Sends(s, c, h)' <=> Sends(s, c, h)) /\ (Posts(s, c, h)' <=> Posts(s, c, h))
    BY DEF Sends, Posts
  <1>2. \A q \in Queues : \A c, h : (Waits(q, c, h)' <=> Waits(q, c, h)) /\ (Handles(q, c, h)' <=> Handles(q, c, h))
    BY DEF Waits, Handles
  <1> QED BY <1>1, <1>2 DEF Holds, Pending

(* No step but the INSERT of the row of a webhook just created puts one     *)
(* where its channel had it nowhere.                                        *)
LEMMA HoldsStep ==
    ASSUME WebTypeOK, [Next]_vars, NEW c \in Channels, NEW h \in Hooks, Holds(c, h)'
    PROVE  Holds(c, h) \/ (start.step = "insert" /\ Carries(start, c, h) /\ start' = Idle)
  <1> USE DEF hookVars, queueVars, workVars
  <1>1. CASE (\E s \in Senders : ProcessEmbed(s)) \/ Later
    BY <1>1, SenderSteps DEF SenderMoved
  <1>2. ASSUME UNCHANGED <<webhooks, channel_webhooks, sender, faf, worker>> PROVE Holds(c, h)
    BY <1>2, PlacesSame
  <1>3. ASSUME NEW d \in Channels, NEW k \in Nat, channel_webhooks' = [channel_webhooks EXCEPT ![d] = k],
               UNCHANGED <<webhooks, sender, faf, worker>>
        PROVE  Holds(c, h) \/ (c = d /\ h = k)
    <2>1. \A s \in Senders : Sends(s, c, h)' <=> Sends(s, c, h)
      BY <1>3 DEF Sends
    <2>2. \A q \in Queues : (Waits(q, c, h)' <=> Waits(q, c, h)) /\ (Handles(q, c, h)' <=> Handles(q, c, h))
      BY <1>3 DEF Waits, Handles
    <2>3. channel_webhooks'[c] = h => channel_webhooks[c] = h \/ (c = d /\ h = k)
      BY <1>3 DEF WebTypeOK, HooksTypeOK
    <2> QED BY <1>3, <2>1, <2>2, <2>3 DEF Holds
  <1>4. CASE InsertWebhook
    <2>1. start.step = "insert" /\ start' = Idle /\ start.channel \in Channels /\ start.hook \in Nat
      BY <1>4, Kinds DEF InsertWebhook, WebTypeOK, HooksTypeOK, Hooks
    <2>2. Holds(c, h) \/ (c = start.channel /\ h = start.hook)
      <3>1. PICK d \in Channels, k \in Nat : d = start.channel /\ k = start.hook
        BY <2>1
      <3>2. channel_webhooks' = [channel_webhooks EXCEPT ![d] = k] /\ UNCHANGED <<webhooks, sender, faf, worker>>
        BY <1>4, <3>1 DEF InsertWebhook
      <3> QED BY <1>3, <3>1, <3>2
    <2> QED BY <2>1, <2>2 DEF Carries
  <1>5. CASE BackgroundThread
    <2>1. PICK d \in Channels : d = Head(bg)
      BY <1>5 DEF BackgroundThread, WebTypeOK, HooksTypeOK
    <2>2. channel_webhooks' = [channel_webhooks EXCEPT ![d] = 0] /\ UNCHANGED <<webhooks, sender, faf, worker>>
      BY <1>5, <2>1 DEF BackgroundThread, None
    <2> QED BY <1>3, <2>2 DEF Hooks
  <1>6. ASSUME NEW q \in Queues, FireAndForget(q) PROVE Holds(c, h)
    <2>1. /\ \A d, k : Queued(d, k)' => Queued(d, k)
          /\ UNCHANGED <<channel_webhooks, sender>>
      BY <1>6, WorkerSteps DEF WorkerMoved
    <2>2. webhooks'[c] = h => webhooks[c] = h
      BY <1>6 DEF FireAndForget, TakeRequest, CheckLimit, GetPage, Posted, Failed, CountRequest, NotFound,
         ForgetWebhook, WebTypeOK, HooksTypeOK, Hooks, None
    <2>3. \A s \in Senders : Sends(s, c, h)' <=> Sends(s, c, h)
      BY <2>1 DEF Sends
    <2> QED BY <2>1, <2>2, <2>3 DEF Holds, Queued
  <1>7. CASE StatDump \/ SecondPasses \/ (\E k \in 1..MaxHooks : DeleteWebhook(k)) \/ UNCHANGED vars
    BY <1>2, <1>7 DEF StatDump, SecondPasses, DeleteWebhook, vars
  <1>8. CASE (\E d \in Channels : CheckWebhook(d)) \/ GetWebhook \/ CreateWebhook
    BY <1>2, <1>8 DEF CheckWebhook, GetWebhook, CreateWebhook
  <1> QED BY <1>1, <1>4, <1>5, <1>6, <1>7, <1>8 DEF Next, CheckCreateWebhook

-----------------------------------------------------------------------------
(* The invariant, part by part *)

(* An answer of 404 is to a message that a channel's webhook is held for.   *)
LEMMA NotFoundIs ==
    ASSUME WebTypeOK, OneChannel, NEW q \in Queues, NotFound(q)
    PROVE  \E c \in Channels, h \in Hooks :
               /\ Carries(Request(q), c, h) /\ Handles(q, c, h) /\ Holds(c, h)
               /\ h \in 1..hooks /\ h \notin alive
               /\ webhooks' = [webhooks EXCEPT ![c] = None]
               /\ bg' = Append(bg, c) /\ gone' = gone \cup {h}
               /\ UNCHANGED <<channel_webhooks, alive, hooks, sender, start, unanswered>>
  <1>1. worker[q].step = "send" /\ Request(q) \in Requests /\ Request(q).channel \in Channels
    BY Kinds DEF NotFound, WorkerAt, WebTypeOK, QueuesTypeOK, Request
  <1>2. PICK c \in Channels, h \in Hooks : c = Request(q).channel /\ h = Request(q).hook
    BY <1>1, WebAssumption DEF Requests, WebAssumption
  <1>3. Carries(Request(q), c, h) /\ Handles(q, c, h)
    BY <1>1, <1>2 DEF Carries, Handles, Request
  <1>4. Holds(c, h)
    BY <1>3 DEF Holds
  <1>5. h <= hooks /\ hooks \in Nat /\ h \in Nat \ {0}
    BY <1>4 DEF OneChannel, WebTypeOK, HooksTypeOK, Hooks
  <1>6. h \in 1..hooks
    BY <1>5
  <1>7. /\ webhooks' = [webhooks EXCEPT ![c] = None]
        /\ bg' = Append(bg, c) /\ gone' = gone \cup {h} /\ h \notin alive
        /\ UNCHANGED <<channel_webhooks, alive, hooks, sender, start, unanswered>>
    BY <1>2 DEF NotFound, ForgetWebhook, queueVars
  <1> QED BY <1>3, <1>4, <1>6, <1>7

(* Every other step leaves the dead webhooks as they are, and the queries   *)
(* about them but for the background thread.                                *)
LEMMA GoneSame ==
    ASSUME WebTypeOK, [Next]_vars, \A q \in Queues : ~ NotFound(q)
    PROVE  /\ gone' = gone /\ unanswered \subseteq unanswered'
           /\ bg' = bg \/ BackgroundThread
           /\ \A c \in Channels : webhooks'[c] = webhooks[c] \/ \E s \in Senders : ProcessEmbed(s)
  <1> USE DEF hookVars, queueVars, workVars
  <1>1. CASE (\E s \in Senders : ProcessEmbed(s)) \/ Later
    <2>1. UNCHANGED <<bg, gone, unanswered>>
      BY <1>1, SenderSteps DEF SenderMoved
    <2>2. Later => UNCHANGED webhooks
      BY DEF Later
    <2> QED BY <1>1, <2>1, <2>2
  <1>2. CASE CheckCreateWebhook
    BY <1>2 DEF CheckCreateWebhook, CheckWebhook, GetWebhook, CreateWebhook, InsertWebhook
  <1>3. CASE StatDump \/ SecondPasses \/ (\E k \in 1..MaxHooks : DeleteWebhook(k)) \/ UNCHANGED vars
    BY <1>3 DEF StatDump, SecondPasses, DeleteWebhook, vars
  <1>4. CASE BackgroundThread
    BY <1>4 DEF BackgroundThread
  <1>5. ASSUME NEW q \in Queues, FireAndForget(q) PROVE UNCHANGED <<gone, bg, webhooks>> /\ unanswered \subseteq unanswered'
    BY <1>5 DEF FireAndForget, TakeRequest, CheckLimit, GetPage, Posted, Failed, CountRequest
  <1> QED BY <1>1, <1>2, <1>3, <1>4, <1>5 DEF Next

(* The webhooks that exist and those that are created.                      *)
LEMMA AliveStep ==
    ASSUME WebTypeOK, [Next]_vars
    PROVE  \/ alive' \subseteq alive /\ hooks' = hooks
           \/ alive' = alive \cup {hooks + 1} /\ hooks' = hooks + 1 /\ CreateWebhook
  <1> USE DEF hookVars, queueVars, workVars
  <1>1. CASE (\E s \in Senders : ProcessEmbed(s)) \/ Later
    BY <1>1, SenderSteps DEF SenderMoved
  <1>2. CASE (\E c \in Channels : CheckWebhook(c)) \/ GetWebhook \/ InsertWebhook
    BY <1>2 DEF CheckWebhook, GetWebhook, InsertWebhook
  <1>3. CASE CreateWebhook
    BY <1>3 DEF CreateWebhook
  <1>4. CASE StatDump \/ SecondPasses \/ BackgroundThread \/ (\E k \in 1..MaxHooks : DeleteWebhook(k)) \/ UNCHANGED vars
    BY <1>4 DEF StatDump, SecondPasses, BackgroundThread, DeleteWebhook, vars
  <1>5. ASSUME NEW q \in Queues, FireAndForget(q) PROVE UNCHANGED <<alive, hooks>>
    BY <1>5, WorkerSteps DEF WorkerMoved
  <1> QED BY <1>1, <1>2, <1>3, <1>4, <1>5 DEF Next, CheckCreateWebhook

(* A webhook answered with 404 never exists again.                          *)
LEMMA HooksKnownStep ==
    ASSUME WebTypeOK, HooksKnown, OneChannel, [Next]_vars PROVE HooksKnown'
  <1>1. hooks \in Nat
    BY DEF WebTypeOK, HooksTypeOK
  <1>2. CASE \E q \in Queues : NotFound(q)
    <2>1. PICK h \in 1..hooks : h \notin alive /\ gone' = gone \cup {h} /\ alive' = alive /\ hooks' = hooks
      BY <1>2, NotFoundIs
    <2> QED BY <2>1 DEF HooksKnown
  <1>3. CASE \A q \in Queues : ~ NotFound(q)
    <2>1. gone' = gone
      BY <1>3, GoneSame
    <2>2. CASE alive' \subseteq alive /\ hooks' = hooks
      BY <2>1, <2>2 DEF HooksKnown
    <2>3. CASE alive' = alive \cup {hooks + 1} /\ hooks' = hooks + 1
      <3>1. hooks + 1 \notin gone /\ 1..hooks \subseteq 1..hooks' /\ hooks + 1 \in 1..hooks'
        BY <1>1, <2>3 DEF HooksKnown
      <3> QED BY <2>1, <2>3, <3>1 DEF HooksKnown
    <2> QED BY <2>2, <2>3, AliveStep
  <1> QED BY <1>2, <1>3

(* No webhook comes to belong to two channels.                              *)
LEMMA OneChannelStep ==
    ASSUME WebTypeOK, OneChannel, Fresh, [Next]_vars PROVE OneChannel'
  <1>1. hooks \in Nat /\ hooks' \in Nat /\ hooks <= hooks'
    <2>1. hooks \in Nat
      BY DEF WebTypeOK, HooksTypeOK
    <2> QED BY <2>1, AliveStep
  <1>2. ASSUME NEW c \in Channels, NEW h \in Hooks, Holds(c, h)'
        PROVE  h <= hooks /\ (Holds(c, h) \/ (start.step = "insert" /\ Carries(start, c, h)))
    <2>1. CASE Holds(c, h)
      BY <2>1 DEF OneChannel
    <2>2. CASE start.step = "insert" /\ Carries(start, c, h)
      <3>1. start.hook = h
        BY <2>2 DEF Carries
      <3> QED BY <1>1, <2>2, <3>1 DEF Fresh, Hooks
    <2> QED BY <1>2, <2>1, <2>2, HoldsStep
  <1>3. ASSUME NEW c \in Channels, NEW d \in Channels, NEW h \in Hooks, Holds(c, h)', Holds(d, h)'
        PROVE  c = d
    <2>1. start.step = "insert" /\ start.hook = h => ~ Holds(c, h) /\ ~ Holds(d, h)
      BY DEF Fresh
    <2>2. CASE Holds(c, h) /\ Holds(d, h)
      BY <2>2 DEF OneChannel
    <2>3. CASE ~ (Holds(c, h) /\ Holds(d, h))
      BY <1>2, <1>3, <2>1, <2>3 DEF Carries
    <2> QED BY <2>2, <2>3
  <1>4. \A h \in Hooks : h <= hooks => h <= hooks'
    BY <1>1 DEF Hooks
  <1> HIDE DEF Holds
  <1> QED BY <1>2, <1>3, <1>4 DEF OneChannel

(* The webhook just created stays nowhere until its row is inserted.        *)
LEMMA FreshStep ==
    ASSUME WebTypeOK, HooksKnown, OneChannel, Fresh, [Next]_vars PROVE Fresh'
  <1> USE DEF hookVars, queueVars, workVars
  <1>1. hooks \in Nat /\ hooks' \in Nat /\ 1..hooks \subseteq 1..hooks'
    <2>1. hooks \in Nat
      BY DEF WebTypeOK, HooksTypeOK
    <2> QED BY <2>1, AliveStep
  <1>2. SUFFICES ASSUME start'.step = "insert"
                 PROVE  start'.hook \in 1..hooks' /\ start'.hook \notin gone'
                            /\ \A c \in Channels : ~ Holds(c, start.hook)'
    BY DEF Fresh
  <1>3. start' # Idle
    BY <1>2, Kinds
  <1>4. CASE start' = start
    <2>1. /\ start.step = "insert" /\ start.hook \in 1..hooks /\ start.hook \notin gone
          /\ \A c \in Channels : ~ Holds(c, start.hook)
      BY <1>2, <1>4 DEF Fresh
    <2>2. PICK k \in Hooks : k = start.hook
      BY <1>1, <2>1 DEF Hooks
    <2>3. k \notin gone'
      <3>1. CASE \E q \in Queues : NotFound(q)
        <4>1. PICK c \in Channels, h \in Hooks : Holds(c, h) /\ gone' = gone \cup {h}
          BY <3>1, NotFoundIs
        <4> QED BY <2>1, <2>2, <4>1
      <3>2. CASE \A q \in Queues : ~ NotFound(q)
        BY <2>1, <2>2, <3>2, GoneSame
      <3> QED BY <3>1, <3>2
    <2>4. \A c \in Channels : ~ Holds(c, k)'
      BY <1>3, <1>4, <2>1, <2>2, HoldsStep
    <2>5. \A c \in Channels : Holds(c, start.hook)' <=> Holds(c, k)'
      BY <1>4, <2>2 DEF Holds, Sends, Waits, Handles, Carries
    <2> QED BY <1>1, <1>4, <2>1, <2>2, <2>3, <2>4, <2>5
  <1>5. CASE start' # start
    <2>1. CreateWebhook
      <3>1. \/ (\E c \in Channels : CheckWebhook(c)) \/ GetWebhook \/ CreateWebhook \/ InsertWebhook
        <4>1. ~ ((\E s \in Senders : ProcessEmbed(s)) \/ Later)
          BY <1>5, SenderSteps DEF SenderMoved
        <4>2. \A q \in Queues : ~ FireAndForget(q)
          BY <1>5, WorkerSteps DEF WorkerMoved
        <4>3. ~ (StatDump \/ SecondPasses \/ BackgroundThread
                     \/ (\E k \in 1..MaxHooks : DeleteWebhook(k)) \/ UNCHANGED vars)
          BY <1>5 DEF StatDump, SecondPasses, BackgroundThread, DeleteWebhook, vars
        <4> QED BY <4>1, <4>2, <4>3 DEF Next, CheckCreateWebhook
      <3>2. \A c \in Channels : ~ CheckWebhook(c)
        BY <1>2 DEF CheckWebhook
      <3>3. ~ GetWebhook /\ ~ InsertWebhook
        BY <1>2, <1>3 DEF GetWebhook, InsertWebhook
      <3> QED BY <3>1, <3>2, <3>3
    <2>2. /\ start'.hook = hooks + 1 /\ hooks' = hooks + 1
          /\ UNCHANGED <<webhooks, channel_webhooks, sender, faf, worker, gone>>
      BY <1>3, <2>1 DEF CreateWebhook
    <2>3. hooks + 1 \in Hooks /\ hooks + 1 \notin gone
      BY <1>1 DEF Hooks, HooksKnown
    <2>4. \A c \in Channels : ~ Holds(c, hooks + 1)
      BY <1>1, <2>3 DEF OneChannel
    <2>5. PICK k \in Hooks : k = hooks + 1
      BY <2>3
    <2>6. \A c \in Channels : ~ Holds(c, k)'
      BY <2>2, <2>4, <2>5, PlacesSame
    <2>7. \A c \in Channels : Holds(c, start.hook)' <=> Holds(c, k)'
      BY <2>2, <2>5 DEF Holds, Sends, Waits, Handles, Carries
    <2> QED BY <1>1, <2>2, <2>3, <2>6, <2>7
  <1> QED BY <1>4, <1>5

(* The row of a webhook answered with 404 always has its DELETE queued.     *)
LEMMA RowsGoStep ==
    ASSUME WebTypeOK, HooksKnown, OneChannel, Fresh, RowsGo, [Next]_vars PROVE RowsGo'
  <1> USE DEF hookVars, queueVars, workVars
  <1>0. bg \in Seq(Channels) /\ 0 \notin gone /\ \A c \in Channels : channel_webhooks[c] \in Nat
    BY DEF WebTypeOK, HooksTypeOK, HooksKnown
  <1>1. CASE \E q \in Queues : NotFound(q)
    <2>1. PICK c \in Channels, h \in Hooks :
              Holds(c, h) /\ bg' = Append(bg, c) /\ gone' = gone \cup {h} /\ channel_webhooks' = channel_webhooks
      BY <1>1, NotFoundIs
    <2>2. /\ \A i \in DOMAIN bg : i \in DOMAIN bg' /\ bg'[i] = bg[i]
          /\ \E i \in DOMAIN bg' : bg'[i] = c
      BY <1>0, <2>1, Appended
    <2>3. \A d \in Channels : channel_webhooks[d] = h => Holds(d, h)
      BY DEF Holds
    <2>4. \A d \in Channels : channel_webhooks[d] = h => d = c
      BY <2>1, <2>3 DEF OneChannel
    <2>5. \A d \in Channels : channel_webhooks[d] \in gone => \E i \in DOMAIN bg : bg[i] = d
      BY DEF RowsGo
    <2>6. ASSUME NEW d \in Channels, channel_webhooks'[d] \in gone' PROVE \E i \in DOMAIN bg' : bg'[i] = d
      <3>1. CASE channel_webhooks[d] = h
        BY <2>2, <2>4, <3>1
      <3>2. CASE channel_webhooks[d] # h
        BY <2>1, <2>2, <2>5, <2>6, <3>2
      <3> QED BY <3>1, <3>2
    <2> QED BY <2>6 DEF RowsGo
  <1>2. CASE BackgroundThread
    <2>1. /\ bg # <<>> /\ bg' = Tail(bg) /\ channel_webhooks' = [channel_webhooks EXCEPT ![Head(bg)] = 0]
          /\ gone' = gone
      BY <1>2 DEF BackgroundThread, None
    <2>2. /\ Head(bg) \in Channels
          /\ \A i \in DOMAIN bg : bg[i] = Head(bg) \/ \E j \in DOMAIN Tail(bg) : Tail(bg)[j] = bg[i]
      BY <1>0, <2>1, Taken
    <2>3. /\ channel_webhooks'[Head(bg)] = 0
          /\ \A d \in Channels : d # Head(bg) => channel_webhooks'[d] = channel_webhooks[d]
      BY <2>1, <2>2 DEF WebTypeOK, HooksTypeOK
    <2>4. ASSUME NEW d \in Channels, channel_webhooks'[d] \in gone' PROVE \E i \in DOMAIN bg' : bg'[i] = d
      <3>1. d # Head(bg) /\ channel_webhooks[d] \in gone
        BY <1>0, <2>1, <2>3, <2>4
      <3>2. PICK i \in DOMAIN bg : bg[i] = d
        BY <3>1 DEF RowsGo
      <3> QED BY <2>1, <2>2, <3>1, <3>2
    <2> QED BY <2>4 DEF RowsGo
  <1>3. CASE (\A q \in Queues : ~ NotFound(q)) /\ ~ BackgroundThread
    <2>1. gone' = gone /\ bg' = bg
      BY <1>3, GoneSame
    <2>2. ASSUME NEW d \in Channels
          PROVE  channel_webhooks'[d] = channel_webhooks[d] \/ channel_webhooks'[d] \notin gone
      <3>1. CASE InsertWebhook
        BY <3>1 DEF InsertWebhook, Fresh, WebTypeOK, HooksTypeOK
      <3>2. CASE ~ InsertWebhook
        <4>1. CASE (\E s \in Senders : ProcessEmbed(s)) \/ Later
          BY <4>1, SenderSteps DEF SenderMoved
        <4>2. ASSUME NEW q \in Queues, FireAndForget(q) PROVE UNCHANGED channel_webhooks
          BY <4>2, WorkerSteps DEF WorkerMoved
        <4>3. CASE (\E c \in Channels : CheckWebhook(c)) \/ GetWebhook \/ CreateWebhook
          BY <4>3 DEF CheckWebhook, GetWebhook, CreateWebhook
        <4>4. CASE StatDump \/ SecondPasses \/ (\E k \in 1..MaxHooks : DeleteWebhook(k)) \/ UNCHANGED vars
          BY <4>4 DEF StatDump, SecondPasses, DeleteWebhook, vars
        <4> QED BY <1>3, <3>2, <4>1, <4>2, <4>3, <4>4 DEF Next, CheckCreateWebhook
      <3> QED BY <3>1, <3>2
    <2> QED BY <2>1, <2>2 DEF RowsGo
  <1> QED BY <1>1, <1>2, <1>3

(* A cached dead webhook always has a message on its way to it.             *)
LEMMA CacheGoesStep ==
    ASSUME WebTypeOK, HooksKnown, OneChannel, CacheGoes, [Next]_vars PROVE CacheGoes'
  <1> USE DEF hookVars, queueVars, workVars
  <1> SUFFICES ASSUME NEW c \in Channels, webhooks'[c] \in gone' \ unanswered'
               PROVE  Pending(c, webhooks[c])'
    BY DEF CacheGoes
  <1>1. PICK k \in Hooks : k = webhooks'[c]
    <2>1. webhooks'[c] \in 1..hooks' /\ hooks' \in Nat
      BY HooksKnownStep, WebTypeStep DEF HooksKnown, WebTypeOK, HooksTypeOK
    <2> QED BY <2>1 DEF Hooks
  <1>2. Pending(c, k)' => Pending(c, webhooks[c])'
    BY <1>1 DEF Pending, Posts, Waits, Handles, Carries
  <1> SUFFICES Pending(c, k)'
    BY <1>2
  <1>3. webhooks[c] = k /\ k \in gone \ unanswered => Pending(c, k)
    BY DEF CacheGoes
  <1>4. ASSUME UNCHANGED sender PROVE \A s \in Senders : Posts(s, c, k)' <=> Posts(s, c, k)
    BY <1>4 DEF Posts
  <1>5. ASSUME NEW q \in Queues, NotFound(q) PROVE Pending(c, k)'
    <2>1. PICK d \in Channels, h \in Hooks :
              /\ Carries(Request(q), d, h) /\ Holds(d, h)
              /\ webhooks' = [webhooks EXCEPT ![d] = None] /\ gone' = gone \cup {h}
              /\ UNCHANGED <<sender, unanswered>>
      BY <1>5, NotFoundIs
    <2>2. c # d /\ webhooks[c] = k
      BY <1>1, <2>1 DEF Hooks, None, WebTypeOK, HooksTypeOK
    <2>3. k # h
      <3>1. Holds(c, k)
        BY <2>2 DEF Holds
      <3> QED BY <2>1, <2>2, <3>1 DEF OneChannel
    <2>4. Pending(c, k)
      <3>1. k \in gone' /\ k \notin unanswered'
        BY <1>1
      <3>2. gone' = gone \cup {h} /\ unanswered' = unanswered
        BY <2>1
      <3>3. k \in gone \ unanswered
        BY <2>3, <3>1, <3>2
      <3> QED BY <1>3, <2>2, <3>3
    <2>5. Queued(c, k) => Queued(c, k)'
      BY <1>5, <2>1, <2>2, WorkerSteps DEF FireAndForget, WorkerMoved, Carries
    <2> QED BY <1>4, <2>1, <2>4, <2>5 DEF Pending, Queued
  <1>6. CASE \A q \in Queues : ~ NotFound(q)
    <2>1. /\ k \in gone \ unanswered
          /\ webhooks[c] = k \/ \E s \in Senders : ProcessEmbed(s)
      BY <1>1, <1>6, GoneSame
    <2>2. CASE (\E s \in Senders : ProcessEmbed(s)) \/ Later
      <3>1. webhooks[c] = k \/ Pending(c, k)'
        BY <1>1, <2>2, SenderSteps DEF SenderMoved
      <3>2. Pending(c, k) => Pending(c, k)'
        BY <2>2, SenderSteps DEF SenderMoved
      <3> QED BY <1>3, <2>1, <3>1, <3>2
    <2>3. ASSUME webhooks[c] = k, UNCHANGED <<sender, faf, worker>> PROVE Pending(c, k)'
      <3>1. Pending(c, k)
        BY <1>3, <2>1, <2>3
      <3> QED BY <1>4, <2>3, <3>1 DEF Pending, Waits, Handles
    <2>4. CASE CheckCreateWebhook \/ BackgroundThread
      <3>1. UNCHANGED <<webhooks, sender, faf, worker>>
        BY <2>4 DEF CheckCreateWebhook, CheckWebhook, GetWebhook, CreateWebhook, InsertWebhook, BackgroundThread
      <3> QED BY <1>1, <2>3, <3>1
    <2>5. CASE StatDump \/ SecondPasses \/ (\E h \in 1..MaxHooks : DeleteWebhook(h)) \/ UNCHANGED vars
      <3>1. UNCHANGED <<webhooks, sender, faf, worker>>
        BY <2>5 DEF StatDump, SecondPasses, DeleteWebhook, vars
      <3> QED BY <1>1, <2>3, <3>1
    <2>6. ASSUME NEW q \in Queues, FireAndForget(q) PROVE Pending(c, k)'
      <3>1. UNCHANGED <<webhooks, sender>>
        <4>1. ~ NotFound(q)
          BY <1>6
        <4> QED BY <2>6, <4>1 DEF FireAndForget, TakeRequest, CheckLimit, GetPage, Posted, Failed, CountRequest
      <3>2. Pending(c, k)
        BY <1>1, <1>3, <2>1, <3>1
      <3>3. ~ (Answers(q) /\ Carries(Request(q), c, k))
        <4>1. k \notin alive
          BY <2>1 DEF HooksKnown
        <4>2. Failed(q) /\ Request(q).hook = k => k \in unanswered'
          BY DEF Failed
        <4> QED BY <1>1, <1>6, <4>1, <4>2 DEF Answers, Posted, Carries
      <3>4. Queued(c, k) => Queued(c, k)'
        BY <2>6, <3>3, WorkerSteps DEF WorkerMoved
      <3> QED BY <1>4, <3>1, <3>2, <3>4 DEF Pending, Queued
    <2> QED BY <2>2, <2>4, <2>5, <2>6 DEF Next
  <1> QED BY <1>5, <1>6

(* A thread keeps sleeping at least as long as the limit is in force that   *)
(* it looked for.                                                           *)
LEMMA LimitsHoldStep ==
    ASSUME WebTypeOK, LimitsHold, [Next]_vars PROVE LimitsHold'
  <1> USE DEF hookVars, queueVars, workVars
  <1>1. ASSUME UNCHANGED <<worker, sleep, channellock, relimited>> PROVE LimitsHold'
    BY <1>1 DEF LimitsHold, Request
  <1>2. CASE (\E s \in Senders : ProcessEmbed(s)) \/ Later
    BY <1>1, <1>2, SenderSteps DEF SenderMoved
  <1>3. CASE CheckCreateWebhook \/ BackgroundThread
    BY <1>1, <1>3 DEF CheckCreateWebhook, CheckWebhook, GetWebhook, CreateWebhook, InsertWebhook, BackgroundThread
  <1>4. CASE StatDump \/ (\E h \in 1..MaxHooks : DeleteWebhook(h)) \/ UNCHANGED vars
    BY <1>1, <1>4 DEF StatDump, DeleteWebhook, vars
  <1>5. CASE SecondPasses
    <2>1. \A q \in Queues : sleep[q] \in Nat /\ sleep'[q] = Less(sleep[q])
      BY <1>5 DEF SecondPasses, WebTypeOK, QueuesTypeOK
    <2>2. \A c \in Channels : channellock'[c] = IF channellock[c].left <= 1 THEN Unlimited
                                                ELSE [channellock[c] EXCEPT !.left = @ - 1]
      BY <1>5 DEF SecondPasses
    <2>3. \A c \in Channels : channellock[c] \in [seconds : Nat, left : Nat]
      BY DEF WebTypeOK, QueuesTypeOK
    <2>4. ASSUME NEW c \in Channels
          PROVE  /\ channellock'[c].left = Less(channellock[c].left)
                 /\ channellock'[c].left = 0 \/ channellock'[c].seconds = channellock[c].seconds
                 /\ channellock'[c].seconds \in Nat
      <3> DEFINE x == channellock[c]
      <3>1. x \in [seconds : Nat, left : Nat] /\ x.left \in Nat /\ x.seconds \in Nat
        BY <2>3
      <3>2. CASE x.left <= 1
        <4>1. channellock'[c] = Unlimited
          BY <2>2, <3>2
        <4> QED BY <3>1, <3>2, <4>1 DEF Unlimited, Less
      <3>3. CASE ~ x.left <= 1
        <4>1. channellock'[c] = [x EXCEPT !.left = x.left - 1]
          BY <2>2, <3>3
        <4>2. channellock'[c].left = x.left - 1 /\ channellock'[c].seconds = x.seconds
          BY <3>1, <4>1
        <4> QED BY <3>1, <3>3, <4>2 DEF Less
      <3> QED BY <3>2, <3>3
    <2>5. \A m, n \in Nat : m <= n => Less(m) <= n /\ Less(m) <= Less(n) /\ 0 <= n
      BY DEF Less
    <2>6. \A c \in Channels : channellock'[c].left <= channellock'[c].seconds
      BY <2>3, <2>4, <2>5 DEF LimitsHold
    <2>7. worker' = worker /\ relimited' = relimited
      BY <1>5 DEF SecondPasses
    <2>8. \A q \in Queues : worker[q].step = "send" /\ Request(q).channel \in Channels
              => channellock'[Request(q).channel].left <= sleep'[q] \/ q \in relimited
      BY <2>1, <2>3, <2>4, <2>5 DEF LimitsHold
    <2> QED BY <2>6, <2>7, <2>8 DEF LimitsHold, Request
  <1>6. ASSUME NEW q \in Queues, FireAndForget(q) PROVE LimitsHold'
    <2>1. /\ \A p \in Queues \ {q} : worker'[p] = worker[p]
          /\ worker'[q].step = "send" => CheckLimit(q)
      <3>1. \A step, r : [step |-> step, request |-> r].step = step
        OBVIOUS
      <3> QED BY <1>6, <3>1, Kinds DEF FireAndForget, TakeRequest, CheckLimit, GetPage, Posted, NotFound,
              Failed, CountRequest, WorkerTo, Over, WebTypeOK, QueuesTypeOK
    <2>2. \A p \in Queues \ {q} : sleep'[p] = sleep[p]
      BY <1>6 DEF FireAndForget, TakeRequest, CheckLimit, GetPage, Posted, Limited, NotFound, Failed, CountRequest,
         WebTypeOK, QueuesTypeOK
    <2>3. CASE CheckLimit(q)
      <3>1. /\ sleep'[q] = WaitFor(q) /\ worker'[q].request = Request(q)
            /\ channellock' = channellock /\ relimited' = relimited \ {q}
        BY <2>3 DEF CheckLimit, WorkerTo, WebTypeOK, QueuesTypeOK
      <3>2. Request(q).channel \in Channels => channellock[Request(q).channel].left <= WaitFor(q)
        BY DEF WaitFor, LimitsHold, WebTypeOK, QueuesTypeOK
      <3> QED BY <2>1, <2>2, <3>1, <3>2 DEF LimitsHold, Request
    <2>4. CASE Posted(q)
      <3>1. PICK n \in 0..MaxSeconds :
                \/ UNCHANGED <<channellock, relimited>>
                \/ /\ channellock' = [channellock EXCEPT ![Request(q).channel] = [seconds |-> n, left |-> n]]
                   /\ relimited' = relimited \cup (Queues \ {q})
        BY <2>4 DEF Posted, Limited
      <3>2. worker'[q].step # "send"
        BY <2>1, <2>4 DEF Posted, CheckLimit, WorkerAt
      <3>3. CASE UNCHANGED <<channellock, relimited>>
        BY <2>1, <2>2, <3>2, <3>3 DEF LimitsHold, Request
      <3>4. CASE /\ channellock' = [channellock EXCEPT ![Request(q).channel] = [seconds |-> n, left |-> n]]
                 /\ relimited' = relimited \cup (Queues \ {q})
        <4>1. n \in Nat /\ [seconds |-> n, left |-> n].left <= [seconds |-> n, left |-> n].seconds
          BY WebAssumption DEF WebAssumption
        <4>2. \A c \in Channels : channellock'[c].left <= channellock'[c].seconds
          BY <3>4, <4>1 DEF LimitsHold, WebTypeOK, QueuesTypeOK
        <4> QED BY <3>2, <3>4, <4>2 DEF LimitsHold, Request
      <3> QED BY <3>1, <3>3, <3>4
    <2>5. CASE ~ CheckLimit(q) /\ ~ Posted(q)
      <3>1. channellock' = channellock /\ relimited' = relimited
        BY <1>6, <2>5 DEF FireAndForget, TakeRequest, GetPage, NotFound, Failed, CountRequest
      <3> QED BY <2>1, <2>2, <2>5, <3>1 DEF LimitsHold, Request
    <2> QED BY <2>3, <2>4, <2>5
  <1> QED BY <1>2, <1>3, <1>4, <1>5, <1>6 DEF Next

(* The bot starts in the invariant.                                         *)
LEMMA InitWeb == Init => WebInv
  <1> SUFFICES ASSUME Init PROVE WebInv
    OBVIOUS
  <1>1. /\ webhooks = [c \in Channels |-> 0] /\ hooks \in 0..MaxHooks /\ alive = 1..hooks
        /\ channel_webhooks \in [Channels -> {0} \cup alive]
        /\ \A c, d \in Channels : channel_webhooks[c] = channel_webhooks[d] => channel_webhooks[c] = 0 \/ c = d
        /\ bg = <<>> /\ gone = {} /\ unanswered = {} /\ relimited = {} /\ queued = 0 /\ faf_index = 1
    BY DEF Init, None
  <1>2. /\ sender = [s \in Senders |-> Idle] /\ start = Idle
        /\ faf = [q \in Queues |-> <<>>] /\ worker = [q \in Queues |-> Idle]
        /\ sleep = [q \in Queues |-> 0] /\ channellock = [c \in Channels |-> Unlimited]
    BY DEF Init
  <1>3. HooksTypeOK
    <2>1. alive \subseteq Nat /\ hooks \in Nat
      BY <1>1, WebAssumption DEF WebAssumption
    <2>2. webhooks \in [Channels -> Nat] /\ channel_webhooks \in [Channels -> Nat]
      BY <1>1
    <2>3. sender \in [Senders -> SenderStates] /\ start \in StartStates
      BY <1>2 DEF SenderStates, StartStates
    <2> QED BY <1>1, <2>1, <2>2, <2>3 DEF HooksTypeOK
  <1>4. QueuesTypeOK
    <2>1. 1 \in Queues
      <3>1. Queues = 1..Cardinality(Queues) /\ Cardinality(Queues) \in Nat /\ Queues # {}
        BY WebAssumption, FS_CardinalityType DEF WebAssumption
      <3> QED BY <3>1
    <2>2. worker \in [Queues -> WorkerStates]
      BY <1>2 DEF WorkerStates
    <2>3. channellock \in [Channels -> [seconds : Nat, left : Nat]]
      BY <1>2 DEF Unlimited
    <2> QED BY <1>1, <1>2, <2>1, <2>2, <2>3 DEF QueuesTypeOK
  <1>5. ASSUME NEW c \in Channels, NEW h \in Hooks, Holds(c, h)
        PROVE  h <= hooks /\ h # 0 /\ channel_webhooks[c] = h
    <2>1. \A s \in Senders : ~ Sends(s, c, h)
      BY <1>2, Kinds DEF Sends
    <2>2. \A q \in Queues : ~ Waits(q, c, h) /\ ~ Handles(q, c, h)
      BY <1>2, Kinds DEF Waits, Handles
    <2>3. webhooks[c] = 0 /\ h # 0
      BY <1>1 DEF Hooks
    <2>4. channel_webhooks[c] = h
      BY <1>5, <2>1, <2>2, <2>3 DEF Holds
    <2>5. channel_webhooks[c] # 0 => channel_webhooks[c] <= hooks
      BY <1>1
    <2> QED BY <2>3, <2>4, <2>5
  <1>6. OneChannel
    <2>1. \A c, d \in Channels : channel_webhooks[c] = channel_webhooks[d] => channel_webhooks[c] = 0 \/ c = d
      BY <1>1
    <2> QED BY <1>5, <2>1 DEF OneChannel
  <1>7. HooksKnown /\ RowsGo /\ CacheGoes
    BY <1>1 DEF HooksKnown, RowsGo, CacheGoes
  <1>8. Fresh
    BY <1>2, Kinds DEF Fresh
  <1>9. LimitsHold
    BY <1>2, Kinds DEF LimitsHold, Unlimited
  <1> QED BY <1>3, <1>4, <1>6, <1>7, <1>8, <1>9 DEF WebInv, WebTypeOK

-----------------------------------------------------------------------------
(* Webhooks and queues, for any number of senders, channels and queues: the *)
(* types, a webhook belongs to one channel wherever it is kept, the row of  *)
(* a dead one is about to be deleted and a cached dead one has a message on *)
(* its way, and a thread sleeps as long as the limit that it looked for     *)
(* (embeds.cpp:66, state.cpp:40, webrequest.cpp:176).                       *)
THEOREM WebInvariance == Spec => []WebInv
  <1>1. WebInv /\ [Next]_vars => WebInv'
    <2> SUFFICES ASSUME WebInv, [Next]_vars PROVE WebInv'
      OBVIOUS
    <2>1. WebTypeOK /\ HooksKnown /\ OneChannel /\ Fresh /\ RowsGo /\ CacheGoes /\ LimitsHold
      BY DEF WebInv
    <2>2. WebTypeOK'
      BY <2>1, WebTypeStep
    <2>3. HooksKnown' /\ OneChannel' /\ Fresh'
      BY <2>1, HooksKnownStep, OneChannelStep, FreshStep
    <2>4. RowsGo' /\ CacheGoes' /\ LimitsHold'
      BY <2>1, RowsGoStep, CacheGoesStep, LimitsHoldStep
    <2> QED BY <2>2, <2>3, <2>4 DEF WebInv
  <1> QED BY <1>1, InitWeb, PTL DEF Spec

(* A webhook that was answered with 404 is neither cached nor in the table  *)
(* once the messages and queries under way are over, unless a message to it *)
(* was never answered (webrequest.cpp:272).                                 *)
THEOREM DeadOnesForgotten == Spec => []DeadWebhooksForgotten
  <1>1. WebInv => DeadWebhooksForgotten
    <2> SUFFICES ASSUME WebInv, AtRest, NEW c \in Channels
                 PROVE  webhooks[c] \notin gone \ unanswered /\ channel_webhooks[c] \notin gone
      BY DEF DeadWebhooksForgotten
    <2>1. RowsGo /\ CacheGoes
      BY DEF WebInv
    <2>2. channel_webhooks[c] \notin gone
      BY <2>1 DEF RowsGo, AtRest
    <2>3. \A h : ~ Pending(c, h)
      <3>1. /\ \A s \in Senders : sender[s] = Idle
            /\ \A q \in Queues : faf[q] = <<>> /\ worker[q] = Idle
        BY DEF AtRest
      <3>2. Idle.step = "idle" /\ ~ \E i : i \in DOMAIN <<>>
        BY Kinds
      <3> QED BY <3>1, <3>2 DEF Pending, Posts, Waits, Handles
    <2> QED BY <2>1, <2>2, <2>3 DEF CacheGoes
  <1> QED BY <1>1, WebInvariance, PTL

(* A request goes out to a channel whose limit is in force only if the      *)
(* limit was met after the request looked for one (webrequest.cpp:318).     *)
THEOREM LimitsAreWaitedFor == Spec => []LimitsHoldBack
  <1>1. WebInv => LimitsHoldBack
    <2> SUFFICES ASSUME WebInv, NEW q \in Queues, worker[q].step = "send", sleep[q] = 0,
                        Request(q).channel \in Channels
                 PROVE  channellock[Request(q).channel].left = 0 \/ q \in relimited
      BY DEF LimitsHoldBack
    <2>1. LimitsHold /\ channellock[Request(q).channel].left \in Nat
      BY DEF WebInv, WebTypeOK, QueuesTypeOK
    <2> QED BY <2>1 DEF LimitsHold
  <1> QED BY <1>1, WebInvariance, PTL
=============================================================================
