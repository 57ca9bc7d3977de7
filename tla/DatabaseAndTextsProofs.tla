----------------------- MODULE DatabaseAndTextsProofs -----------------------
(* What the database layer (src/database.cpp) keeps: its pool of connections, *)
(* for any number of threads and any size of the pool, and its queue of       *)
(* background queries, for any number of callers and of queries.  And what    *)
(* the functions on texts (numerics.cpp, numstrs.cpp, stringops.cpp) compute, *)
(* for every number and every text.                                           *)
EXTENDS DbPool, BackgroundQueue, TextFunctions, SumTheorems, SequenceTheorems, TLAPS

-----------------------------------------------------------------------------
(* The pool of connections *)

(* Whoever queries a connection holds its mutex.                            *)
HoldsMutex ==
    \A t \in Threads : pc[t] \in {"run", "unlock"} => mutex[conn[t]] = t

(* The inductive invariant.                                                 *)
IInv == TypeOK /\ IndexInPool /\ HoldsMutex /\ BusyIsTransient

(* The pool starts with every connection free.                              *)
LEMMA InitIInv == Init => IInv
  BY PoolAssumption
  DEF Init, IInv, TypeOK, IndexInPool, HoldsMutex, BusyIsTransient, Conns, PCs

(* curr_index stays at most one past the end, and every thread on a         *)
(* connection of the pool.                                                  *)
LEMMA NextTypes ==
    ASSUME TypeOK, IndexInPool, NEW t \in Threads, Query(t)
    PROVE  TypeOK' /\ IndexInPool'
<1> USE PoolAssumption DEF TypeOK, IndexInPool, Conns, PCs, At, Use
<1>1. CASE Start(t)
  <2>1. PICK to \in {"advance", "store"}, i \in Conns :
            pc' = [pc EXCEPT ![t] = to] /\ conn' = [conn EXCEPT ![t] = i]
    <3>1. CASE At(t, "idle", "advance") /\ curr_index < PoolSize /\ Use(t, curr_index)
      <4>1. curr_index \in Conns
        BY <3>1
      <4> QED
        BY <3>1, <4>1
    <3>2. CASE At(t, "idle", "store") /\ Use(t, 0)
      <4>1. 0 \in Conns
        OBVIOUS
      <4> QED
        BY <3>2, <4>1
    <3> QED
      BY <1>1, <3>1, <3>2 DEF Start
  <2>2. /\ tries' = [tries EXCEPT ![t] = 0] /\ saw' = [saw EXCEPT ![t] = {}]
        /\ disturbed' = disturbed \ {t}
        /\ UNCHANGED <<curr_index, busy, mutex>>
    BY <1>1 DEF Start
  <2> QED
    BY <2>1, <2>2
<1>2. CASE Advance(t)
  BY <1>2 DEF Advance, SetIndex
<1>3. CASE Store(t)
  BY <1>3 DEF Store, SetIndex
<1>4. CASE Look(t)
  <2>1. conn[t] \in Conns
    OBVIOUS
  <2>2. CASE At(t, "look", "skip") /\ saw' = [saw EXCEPT ![t] = @ \cup {conn[t]}]
    BY <1>4, <2>1, <2>2 DEF Look
  <2>3. CASE At(t, "look", "escape") /\ UNCHANGED saw
    BY <1>4, <2>3 DEF Look
  <2> QED
    BY <1>4, <2>2, <2>3 DEF Look
<1>5. CASE Skip(t)
  BY <1>5 DEF Skip, NextIndex
<1>6. CASE Escape(t)
  BY <1>6 DEF Escape, search
<1>7. CASE Claim(t)
  BY <1>7 DEF Claim, search
<1>8. CASE Lock(t)
  BY <1>8 DEF Lock, search
<1>9. CASE Finish(t)
  BY <1>9 DEF Finish, search
<1>10. CASE Unlock(t)
  BY <1>10 DEF Unlock, search
<1> QED
  BY <1>1, <1>2, <1>3, <1>4, <1>5, <1>6, <1>7, <1>8, <1>9, <1>10 DEF Query

(* Only Lock and Unlock move a mutex, and Lock takes a free one.            *)
LEMMA NextHoldsMutex ==
    ASSUME TypeOK, IndexInPool, HoldsMutex, NEW t \in Threads, Query(t)
    PROVE  HoldsMutex'
<1> USE PoolAssumption DEF TypeOK, IndexInPool, HoldsMutex, Conns, PCs, At, Use
<1>1. CASE Start(t)
  BY <1>1 DEF Start
<1>2. CASE Advance(t)
  BY <1>2 DEF Advance, SetIndex
<1>3. CASE Store(t)
  BY <1>3 DEF Store, SetIndex
<1>4. CASE Look(t)
  BY <1>4 DEF Look
<1>5. CASE Skip(t)
  BY <1>5 DEF Skip
<1>6. CASE Escape(t)
  BY <1>6 DEF Escape, search
<1>7. CASE Claim(t)
  BY <1>7 DEF Claim, search
<1>8. CASE Lock(t)
  BY <1>8 DEF Lock, search
<1>9. CASE Finish(t)
  BY <1>9 DEF Finish, search
<1>10. CASE Unlock(t)
  BY <1>10 DEF Unlock, search
<1> QED
  BY <1>1, <1>2, <1>3, <1>4, <1>5, <1>6, <1>7, <1>8, <1>9, <1>10 DEF Query

(* A flag is set by a thread that goes on to wait for the mutex, and that   *)
(* thread clears it before it leaves the connection.                        *)
LEMMA NextBusy ==
    ASSUME TypeOK, IndexInPool, BusyIsTransient, NEW t \in Threads, Query(t)
    PROVE  BusyIsTransient'
<1> USE PoolAssumption
    DEF TypeOK, IndexInPool, BusyIsTransient, OnConnection, Conns, PCs, At, Use
<1>1. CASE Start(t)
  <2>1. /\ pc[t] = "idle" /\ pc'[t] \notin {"lock", "run"}
        /\ \A u \in Threads \ {t} : pc'[u] = pc[u] /\ conn'[u] = conn[u]
        /\ busy' = busy
    BY <1>1 DEF Start
  <2>2. ASSUME NEW c \in Conns, busy'[c]
        PROVE  \E u \in Threads : OnConnection(u, c, {"lock", "run"})'
    <3>1. PICK u \in Threads : conn[u] = c /\ pc[u] \in {"lock", "run"}
      BY <2>1, <2>2
    <3>2. u # t
      BY <2>1, <3>1
    <3> QED
      BY <2>1, <3>1, <3>2
  <2> QED
    BY <2>2
<1>2. CASE Advance(t)
  BY <1>2 DEF Advance, SetIndex
<1>3. CASE Store(t)
  BY <1>3 DEF Store, SetIndex
<1>4. CASE Look(t)
  <2>1. /\ pc[t] = "look"
        /\ \A u \in Threads \ {t} : pc'[u] = pc[u]
        /\ busy' = busy /\ conn' = conn
    BY <1>4 DEF Look
  <2>2. ASSUME NEW c \in Conns, busy'[c]
        PROVE  \E u \in Threads : OnConnection(u, c, {"lock", "run"})'
    <3>1. PICK u \in Threads : conn[u] = c /\ pc[u] \in {"lock", "run"}
      BY <2>1, <2>2
    <3> QED
      BY <2>1, <3>1
  <2> QED
    BY <2>2
<1>5. CASE Skip(t)
  BY <1>5 DEF Skip
<1>6. CASE Escape(t)
  BY <1>6 DEF Escape, search
<1>7. CASE Claim(t)
  BY <1>7 DEF Claim, search
<1>8. CASE Lock(t)
  BY <1>8 DEF Lock, search
<1>9. CASE Finish(t)
  BY <1>9 DEF Finish, search
<1>10. CASE Unlock(t)
  BY <1>10 DEF Unlock, search
<1> QED
  BY <1>1, <1>2, <1>3, <1>4, <1>5, <1>6, <1>7, <1>8, <1>9, <1>10 DEF Query

(* Every step of every thread keeps IInv.                                   *)
LEMMA NextIInv == IInv /\ [Next]_vars => IInv'
<1> SUFFICES ASSUME IInv, [Next]_vars PROVE IInv'
  OBVIOUS
<1>1. CASE Next
  BY <1>1, NextTypes, NextHoldsMutex, NextBusy DEF Next, IInv
<1>2. CASE UNCHANGED vars
  BY <1>2
  DEF vars, IInv, TypeOK, IndexInPool, HoldsMutex, BusyIsTransient, OnConnection
<1> QED
  BY <1>1, <1>2

(* IInv is an invariant of the pool.                                        *)
THEOREM Invariance == Spec => []IInv
  BY InitIInv, NextIInv, PTL DEF Spec

(* The races on curr_index never take a thread past the last connection     *)
(* (database.cpp:213-222), as long as each place that advances it reads it  *)
(* once.                                                                    *)
THEOREM IndexSafe == Spec => []IndexInPool
<1>1. IInv => IndexInPool
  BY DEF IInv
<1> QED
  BY <1>1, Invariance, PTL

(* No two threads query the same connection at once (database.cpp:285).     *)
THEOREM QueriesExclude == Spec => []OneQueryPerConnection
<1>1. IInv => OneQueryPerConnection
  BY DEF IInv, HoldsMutex, OneQueryPerConnection, OnConnection
<1> QED
  BY <1>1, Invariance, PTL

(* No connection is lost to the pool by a busy flag nobody clears.          *)
THEOREM BusyClears == Spec => []BusyIsTransient
<1>1. IInv => BusyIsTransient
  BY DEF IInv
<1> QED
  BY <1>1, Invariance, PTL

-----------------------------------------------------------------------------
(* The search *)

(* How far behind a connection another one is, going round the pool.        *)
Behind(c, x) == IF x < c THEN c - x ELSE c + PoolSize - x

(* What a thread has found busy so far, if nobody else moves curr_index:    *)
(* from the first skip on, the connections of its last tries are those just *)
(* behind the one it looks at.                                              *)
Searched(t) ==
    /\ pc[t] = "advance" => tries[t] = 0
    /\ pc[t] \in {"store", "look", "skip"} =>
           \A x \in Conns : Behind(conn[t], x) < tries[t] => x \in saw[t]
    /\ pc[t] = "skip" => conn[t] \in saw[t]
    /\ pc[t] \in {"look", "skip"} /\ tries[t] > 0 => curr_index = conn[t]
    /\ pc[t] = "escape" /\ tries[t] >= MaxTries => saw[t] = Conns

SearchInv == \A t \in Threads \ disturbed : Searched(t)

(* A connection is at least one and at most PoolSize behind another, and    *)
(* one more behind the next.                                                *)
LEMMA BehindNext ==
    ASSUME NEW c \in Conns, NEW x \in Conns
    PROVE  /\ Behind(c, x) \in 1..PoolSize
           /\ LET d == IF c + 1 >= PoolSize THEN 0 ELSE c + 1
              IN  d \in Conns /\ (x # c => Behind(d, x) = Behind(c, x) + 1)
  BY PoolAssumption DEF Behind, Conns

(* What a step of another thread leaves of a thread's search.               *)
LEMMA OthersSearch ==
    ASSUME TypeOK, SearchInv, NEW t \in Threads, Query(t), NEW u \in Threads \ disturbed', u # t
    PROVE  Searched(u)'
<1>1. /\ pc'[u] = pc[u] /\ conn'[u] = conn[u] /\ tries'[u] = tries[u] /\ saw'[u] = saw[u]
      /\ curr_index' = curr_index /\ u \notin disturbed
  <2> USE DEF TypeOK, At, Use
  <2>1. CASE Start(t)
    BY <2>1 DEF Start
  <2>2. CASE Advance(t) \/ Store(t)
    BY <2>2 DEF Advance, Store, SetIndex
  <2>3. CASE Look(t) \/ Skip(t)
    BY <2>3 DEF Look, Skip
  <2>4. CASE Escape(t) \/ Claim(t) \/ Lock(t) \/ Finish(t) \/ Unlock(t)
    BY <2>4 DEF Escape, Claim, Lock, Finish, Unlock, search
  <2> QED
    BY <2>1, <2>2, <2>3, <2>4 DEF Query
<1>2. Searched(u)
  BY <1>1 DEF SearchInv
<1> QED
  BY <1>1, <1>2 DEF Searched

(* What a step of its own makes of a thread's search.                       *)
LEMMA OwnSearch ==
    ASSUME TypeOK, IndexInPool, SearchInv, NEW t \in Threads, Query(t), t \notin disturbed'
    PROVE  Searched(t)'
<1> USE PoolAssumption DEF TypeOK, PCs, At, Use
<1>0. conn[t] \in Conns /\ tries[t] \in Nat
  BY DEF IndexInPool, Conns
<1>1. CASE Start(t)
  <2>1. /\ pc'[t] \in {"advance", "store"} /\ tries'[t] = 0
        /\ pc'[t] = "store" => conn'[t] = 0
    BY <1>1 DEF Start
  <2>2. \A x \in Conns : ~ Behind(0, x) < 0
    BY DEF Behind, Conns
  <2>3. pc'[t] = "store" => \A x \in Conns : ~ Behind(conn'[t], x) < tries'[t]
    BY <2>1, <2>2
  <2> QED
    BY <2>1, <2>3 DEF Searched
<1>2. CASE ~ Start(t)
  <2>0. t \notin disturbed /\ Searched(t)
    <3>1. t \notin disturbed
      BY <1>2 DEF Query, Advance, Store, Look, Skip, Escape, Claim, Lock, Finish, Unlock, SetIndex, search
    <3> QED
      BY <3>1 DEF SearchInv
  <2>1. CASE Advance(t)
    <3>1. /\ pc[t] = "advance" /\ pc'[t] = "look" /\ UNCHANGED <<conn, tries, saw>>
      BY <2>1 DEF Advance, SetIndex
    <3>2. tries'[t] = 0
      BY <2>0, <3>1 DEF Searched
    <3>3. \A x \in Conns : ~ Behind(conn[t], x) < 0
      BY <1>0, BehindNext
    <3>4. \A x \in Conns : ~ Behind(conn'[t], x) < tries'[t]
      BY <3>1, <3>2, <3>3
    <3> QED
      BY <3>1, <3>2, <3>4 DEF Searched
  <2>2. CASE Store(t)
    <3>1. /\ pc[t] = "store" /\ pc'[t] = "look" /\ curr_index' = conn[t] /\ UNCHANGED <<conn, tries, saw>>
      BY <2>2 DEF Store, SetIndex
    <3> QED
      BY <2>0, <3>1 DEF Searched
  <2>3. CASE Look(t)
    <3>1. CASE /\ tries[t] < MaxTries /\ busy[conn[t]] /\ At(t, "look", "skip")
               /\ saw' = [saw EXCEPT ![t] = @ \cup {conn[t]}]
      <4>1. /\ pc[t] = "look" /\ pc'[t] = "skip" /\ saw'[t] = saw[t] \cup {conn[t]}
            /\ UNCHANGED <<conn, tries, curr_index>>
        BY <2>3, <3>1 DEF Look
      <4> QED
        BY <2>0, <4>1 DEF Searched
    <3>2. CASE At(t, "look", "escape") /\ UNCHANGED saw
      <4>1. /\ pc[t] = "look" /\ pc'[t] = "escape" /\ UNCHANGED <<conn, tries, saw>>
        BY <2>3, <3>2 DEF Look
      <4>2. ASSUME tries[t] >= MaxTries PROVE saw[t] = Conns
        <5>1. \A x \in Conns : Behind(conn[t], x) < tries[t]
          BY <1>0, <4>2, BehindNext, SMTT(30) DEF MaxTries
        <5>2. Conns \subseteq saw[t]
          BY <2>0, <4>1, <5>1 DEF Searched
        <5> QED
          BY <5>2
      <4> QED
        BY <4>1, <4>2 DEF Searched
    <3> QED
      BY <2>3, <3>1, <3>2 DEF Look
  <2>4. CASE Skip(t)
    <3>1. /\ pc[t] = "skip" /\ pc'[t] = "store" /\ tries'[t] = tries[t] + 1 /\ conn'[t] = NextIndex
          /\ UNCHANGED <<curr_index, saw>>
      BY <2>4 DEF Skip
    <3>2. ASSUME NEW x \in Conns, Behind(conn'[t], x) < tries'[t] PROVE x \in saw'[t]
      <4>1. CASE tries[t] = 0
        <5>0. conn'[t] \in Conns
          BY <3>1 DEF NextIndex, IndexInPool, Conns
        <5>1. PICK d \in Conns : conn'[t] = d
          BY <5>0
        <5>2. ~ Behind(d, x) < 1
          <6>1. Behind(d, x) \in 1..PoolSize
            BY BehindNext
          <6> QED
            BY <6>1
        <5> QED
          BY <3>1, <3>2, <4>1, <5>1, <5>2
      <4>2. CASE tries[t] > 0
        <5>1. curr_index = conn[t] /\ conn[t] \in saw[t]
          BY <2>0, <3>1, <4>2 DEF Searched
        <5>2. CASE x = conn[t]
          BY <3>1, <5>1, <5>2
        <5>3. CASE x # conn[t]
          <6>1. Behind(conn'[t], x) = Behind(conn[t], x) + 1 /\ Behind(conn[t], x) \in 1..PoolSize
            BY <1>0, <3>1, <5>1, <5>3, BehindNext DEF NextIndex
          <6>2. Behind(conn[t], x) < tries[t]
            BY <1>0, <3>1, <3>2, <6>1
          <6> QED
            BY <2>0, <3>1, <6>2 DEF Searched
        <5> QED
          BY <5>2, <5>3
      <4> QED
        BY <1>0, <4>1, <4>2
    <3> QED
      BY <3>1, <3>2 DEF Searched
  <2>5. CASE Escape(t) \/ Claim(t) \/ Lock(t) \/ Finish(t) \/ Unlock(t)
    <3>1. pc'[t] \in {"claim", "idle", "lock", "run", "unlock"}
      BY <2>5 DEF Escape, Claim, Lock, Finish, Unlock
    <3> QED
      BY <3>1 DEF Searched
  <2> QED
    BY <1>2, <2>1, <2>2, <2>3, <2>4, <2>5 DEF Query
<1> QED
  BY <1>1, <1>2

(* A search that gives up has found every connection busy, if nobody else   *)
(* moved curr_index meanwhile: POOL_SIZE + 1 tries go all the way round the *)
(* pool from the first skip on (database.cpp:213).                          *)
THEOREM SearchesAll == Spec => []SearchIsThorough
<1>1. Init => SearchInv
  BY DEF Init, SearchInv, Searched
<1>2. IInv /\ SearchInv /\ [Next]_vars => SearchInv'
  <2> SUFFICES ASSUME IInv, SearchInv, [Next]_vars, NEW u \in Threads \ disturbed'
               PROVE  Searched(u)'
    BY DEF SearchInv
  <2>1. TypeOK /\ IndexInPool
    BY DEF IInv
  <2>2. ASSUME NEW t \in Threads, Query(t) PROVE Searched(u)'
    BY <2>1, <2>2, OthersSearch, OwnSearch
  <2>3. CASE UNCHANGED vars
    BY <2>3 DEF vars, SearchInv, Searched
  <2> QED
    BY <2>2, <2>3 DEF Next
<1>3. SearchInv => SearchIsThorough
  BY DEF SearchInv, Searched, SearchIsThorough
<1> QED
  BY <1>1, <1>2, <1>3, Invariance, PTL DEF Spec

-----------------------------------------------------------------------------
(* The background queries *)

(* A new batch is made when the last one is used up, so nothing is dropped  *)
(* with it.                                                                 *)
BatchUsedUp == bgpc \in {"lock", "sleep"} => bg_copy = <<>>

QueueIInv == QueueTypeOK /\ BatchUsedUp /\ ExecutedInOrder

(* What the queue's sequences do: moving the head of one to the end of      *)
(* another keeps their concatenation.                                       *)
LEMMA MoveHead ==
    ASSUME NEW s \in Seq(Queries), NEW t \in Seq(Queries), t # <<>>
    PROVE  /\ Head(t) \in Queries /\ Tail(t) \in Seq(Queries)
           /\ s \o t = Append(s, Head(t)) \o Tail(t)
  BY SMT

(* Appending to the second of two concatenated sequences.                   *)
LEMMA AppendLast ==
    ASSUME NEW s \in Seq(Queries), NEW t \in Seq(Queries), NEW e \in Queries
    PROVE  Append(s \o t, e) = s \o Append(t, e)
  BY SMT

(* Concatenation is associative.                                            *)
LEMMA ConcatQueries ==
    ASSUME NEW s \in Seq(Queries), NEW t \in Seq(Queries), NEW u \in Seq(Queries)
    PROVE  /\ (s \o t) \o u = s \o (t \o u)
           /\ s \o t \in Seq(Queries)
  BY SMT

(* The queue starts with nothing issued, batched or executed.               *)
LEMMA QueueInitIInv == QueueInit => QueueIInv
  BY QueueAssumption, SMT DEF QueueInit, QueueIInv, QueueTypeOK, BatchUsedUp, ExecutedInOrder

(* Every step keeps the queues typed and what was issued in three pieces:   *)
(* executed, in the batch, and waiting.                                     *)
LEMMA QueueNextIInv == QueueIInv /\ [QueueNext]_queueVars => QueueIInv'
<1> SUFFICES ASSUME QueueIInv, [QueueNext]_queueVars PROVE QueueIInv'
  OBVIOUS
<1> USE DEF QueueIInv, QueueTypeOK, BatchUsedUp, ExecutedInOrder
<1>1. ASSUME NEW p \in Callers, LockQueue(p) PROVE QueueIInv'
  BY <1>1 DEF LockQueue
<1>2. ASSUME NEW p \in Callers, NEW q \in Queries, BackgroundQuery(p, q)
      PROVE  QueueIInv'
  <2>1. QueueTypeOK' /\ BatchUsedUp'
    BY <1>2 DEF BackgroundQuery
  <2>2. executed \o bg_copy \in Seq(Queries)
    BY ConcatQueries
  <2>3. Append(executed \o bg_copy \o background_queries, q)
          = executed \o bg_copy \o Append(background_queries, q)
    <3> DEFINE s == executed \o bg_copy
    <3>1. s \in Seq(Queries) /\ background_queries \in Seq(Queries)
      BY <2>2
    <3> SUFFICES Append(s \o background_queries, q) = s \o Append(background_queries, q)
      OBVIOUS
    <3> HIDE DEF s
    <3> QED
      BY <3>1, AppendLast
  <2>4. ExecutedInOrder'
    BY <1>2, <2>2, <2>3 DEF BackgroundQuery
  <2> QED
    BY <2>1, <2>4
<1>3. ASSUME BgLock PROVE QueueIInv'
  BY <1>3 DEF BgLock
<1>4. ASSUME BgCopy PROVE QueueIInv'
  <2>1. /\ Head(background_queries) \in Queries
        /\ Tail(background_queries) \in Seq(Queries)
        /\ bg_copy \o background_queries
             = Append(bg_copy, Head(background_queries)) \o Tail(background_queries)
    BY <1>4, MoveHead DEF BgCopy
  <2>2. QueueTypeOK' /\ BatchUsedUp'
    BY <1>4, <2>1 DEF BgCopy
  <2>3. executed \o bg_copy \o background_queries
          = executed \o (bg_copy \o background_queries)
    BY ConcatQueries
  <2>4. executed \o bg_copy' \o background_queries'
          = executed \o (bg_copy' \o background_queries')
    <3>1. /\ executed \in Seq(Queries)
          /\ bg_copy' \in Seq(Queries)
          /\ background_queries' \in Seq(Queries)
      BY <2>2
    <3> HIDE DEF QueueIInv
    <3> QED
      BY <3>1, ConcatQueries, SMTT(30)
  <2>5. executed' = executed /\ issued' = issued
    BY <1>4 DEF BgCopy
  <2>6. bg_copy' \o background_queries' = bg_copy \o background_queries
    BY <1>4, <2>1 DEF BgCopy
  <2>7. ExecutedInOrder'
    BY <2>3, <2>4, <2>5, <2>6
  <2> QED
    BY <2>2, <2>7
<1>5. ASSUME BgUnlock PROVE QueueIInv'
  BY <1>5 DEF BgUnlock
<1>6. ASSUME BgSleep PROVE QueueIInv'
  BY <1>6 DEF BgSleep
<1>7. ASSUME BgRun PROVE QueueIInv'
  <2>1. /\ Head(bg_copy) \in Queries /\ Tail(bg_copy) \in Seq(Queries)
        /\ executed \o bg_copy = Append(executed, Head(bg_copy)) \o Tail(bg_copy)
    BY <1>7, MoveHead DEF BgRun
  <2>2. QueueTypeOK' /\ BatchUsedUp'
    BY <1>7, <2>1 DEF BgRun
  <2>3. ExecutedInOrder'
    BY <1>7, <2>1 DEF BgRun
  <2> QED
    BY <2>2, <2>3
<1>8. ASSUME BgBatchDone PROVE QueueIInv'
  BY <1>8 DEF BgBatchDone
<1>9. ASSUME UNCHANGED queueVars PROVE QueueIInv'
  BY <1>9 DEF queueVars
<1> QED
  BY <1>1, <1>2, <1>3, <1>4, <1>5, <1>6, <1>7, <1>8, <1>9 DEF QueueNext, bgthread

(* QueueIInv is an invariant of the queue.                                       *)
THEOREM QueueInvariance == QueueSpec => []QueueIInv
  BY QueueInitIInv, QueueNextIInv, PTL DEF QueueSpec

(* Every query that was issued has been executed, is in the batch of the    *)
(* background thread or waits, in the order of the calls (database.h:132),  *)
(* whatever the callers and however many there are.                         *)
THEOREM Ordered == QueueSpec => []ExecutedInOrder
<1>1. QueueIInv => ExecutedInOrder
  BY DEF QueueIInv
<1> QED
  BY <1>1, QueueInvariance, PTL

-----------------------------------------------------------------------------
(* Numbers in other systems *)

(* What a division leaves.                                                  *)
LEMMA Division ==
    ASSUME NEW n \in Nat, NEW b \in Nat, b > 1
    PROVE  /\ n \div b \in Nat /\ n % b \in 0..(b - 1) /\ n = (n \div b) * b + (n % b)
           /\ n >= b => n \div b < n
  OBVIOUS

(* The sequence of one.                                                     *)
LEMMA OneOfSeq ==
    ASSUME NEW S, NEW x \in S
    PROVE  <<x>> \in Seq(S)
  OBVIOUS

(* The digits of a number are those of its quotient and the remainder.      *)
LEMMA InBaseDef ==
    ASSUME NEW b \in Nat, b > 1
    PROVE  \A n \in Nat : /\ InBase(n, b) \in Seq(0..(b - 1))
                          /\ InBase(n, b) = IF n < b THEN <<n>> ELSE InBase(n \div b, b) \o <<n % b>>
  <1> DEFINE D == Nat
             V == Seq(0..(b - 1))
             B == {n \in D : n < b}
             p == [n \in D |-> n \div b]
             m == [n \in D |-> n]
             start == [n \in D |-> IF n < b THEN <<n>> ELSE <<>>]
             G == [n \in D |-> [x \in V |-> x \o <<n % b>>]]
             Is(f) == f = [n \in Nat |-> IF n < b THEN <<n>> ELSE f[n \div b] \o <<n % b>>]
  <1>1. \A n \in Nat : /\ n \div b \in Nat /\ n % b \in 0..(b - 1)
                       /\ n >= b => n \div b < n
    BY Division
  <1>2. p \in [D -> D] /\ m \in [D -> Nat]
    BY <1>1
  <1>3. start \in [D -> V]
    <2>1. \A n \in Nat : n < b => n \in 0..(b - 1)
      OBVIOUS
    <2>2. \A n \in Nat : n < b => <<n>> \in V
      BY <2>1, OneOfSeq
    <2>3. <<>> \in V
      OBVIOUS
    <2> HIDE DEF V
    <2> QED BY <2>2, <2>3
  <1>4. G \in [D -> [V -> V]]
    <2>1. \A n \in Nat, x \in V : x \o <<n % b>> \in V
      <3> TAKE n \in Nat, x \in V
      <3>1. <<n % b>> \in V
        BY <1>1, OneOfSeq
      <3> QED BY <3>1, ConcatProperties
    <2> HIDE DEF V
    <2> QED BY <2>1
  <1>5. \A n \in D : n \notin B => m[p[n]] < m[n]
    BY <1>1
  <1>6. PICK f \in [D -> V] : \A n \in D : f[n] = IF n \in B THEN start[n] ELSE G[n][f[p[n]]]
    <2> HIDE DEF D, V, B, p, m, start, G, Is
    <2>1. Descends(D, V, B, p, m, start, G)
      BY <1>2, <1>3, <1>4, <1>5 DEF Descends
    <2> QED BY <2>1, Recursion
  <1>7. \A n \in Nat : f[n] = IF n < b THEN <<n>> ELSE f[n \div b] \o <<n % b>>
    <2> TAKE n \in Nat
    <2>1. f[n] = IF n \in B THEN start[n] ELSE G[n][f[p[n]]]
      BY <1>6
    <2>2. n \in B <=> n < b
      OBVIOUS
    <2>3. n < b => start[n] = <<n>>
      OBVIOUS
    <2>4. p[n] = n \div b /\ f[p[n]] \in V
      BY <1>1
    <2>5. G[n][f[p[n]]] = f[p[n]] \o <<n % b>>
      <3> HIDE DEF p, V
      <3> QED BY <2>4
    <2> HIDE DEF B, start, G, p
    <2> QED BY <2>1, <2>2, <2>3, <2>4, <2>5
  <1>8. Is(f)
    <2>1. f = [n \in Nat |-> f[n]]
      <3> HIDE DEF V
      <3> QED OBVIOUS
    <2> QED BY <1>7, <2>1
  <1> DEFINE g == CHOOSE f_1 : Is(f_1)
  <1>9. Is(g)
    <2> HIDE DEF Is
    <2> QED BY <1>8
  <1>10. \A n \in Nat : InBase(n, b) = g[n]
    BY Zenon DEF InBase
  <1>11. \A n \in Nat : g[n] = f[n]
    <2> SUFFICES ASSUME {n \in Nat : g[n] # f[n]} # {} PROVE FALSE
      OBVIOUS
    <2> DEFINE T == {n \in Nat : g[n] # f[n]}
    <2>1. T \subseteq Nat /\ T # {}
      OBVIOUS
    <2>2. PICK n \in T : \A k \in T : n <= k
      <3> HIDE DEF T
      <3> QED BY <2>1, LeastNumber
    <2>3. n \in Nat /\ g[n] # f[n]
      OBVIOUS
    <2>4. g[n] = IF n < b THEN <<n>> ELSE g[n \div b] \o <<n % b>>
      <3> HIDE DEF g
      <3> QED BY <1>9, <2>3
    <2> HIDE DEF g
    <2>5. ~ (n < b) => g[n \div b] = f[n \div b]
      <3> DEFINE q == n \div b
      <3>1. ~ (n < b) => q \in Nat /\ ~ (n <= q)
        <4>1. q \in Nat /\ (n >= b => q < n)
          BY <1>1, <2>3
        <4> HIDE DEF q
        <4> QED BY <2>3, <4>1
      <3>2. q \in Nat /\ q \notin T => g[q] = f[q]
        OBVIOUS
      <3> HIDE DEF q, T
      <3>3. ~ (n < b) => g[q] = f[q]
        BY <2>2, <3>1, <3>2
      <3> QED BY <3>3 DEF q
    <2> QED BY <1>7, <2>3, <2>4, <2>5
  <1>12. \A n \in Nat : f[n] \in V
    OBVIOUS
  <1> HIDE DEF g, V
  <1>13. \A n \in Nat : InBase(n, b) = f[n] /\ f[n] \in V
    BY <1>10, <1>11, <1>12
  <1> QED BY <1>1, <1>7, <1>13 DEF V

(* The value of digits is that of all but the last, times the base, and the *)
(* last.                                                                    *)
LEMMA ValueOfDef ==
    ASSUME NEW b \in Nat, NEW s \in Seq(Nat)
    PROVE  \E v \in [0..Len(s) -> Nat] :
              /\ \A k \in 0..Len(s) : v[k] = IF k = 0 THEN 0 ELSE v[k - 1] * b + s[k]
              /\ ValueOf(s, b) = v[Len(s)]
  <1> DEFINE D == 0..Len(s)
             B == {0}
             p == [k \in D |-> IF k = 0 THEN 0 ELSE k - 1]
             m == [k \in D |-> k]
             start == [k \in D |-> 0]
             G == [k \in D |-> [x \in Nat |-> IF k = 0 THEN 0 ELSE x * b + s[k]]]
             Is(f) == f = [k \in 0..Len(s) |-> IF k = 0 THEN 0 ELSE f[k - 1] * b + s[k]]
  <1>1. Len(s) \in Nat /\ \A k \in D : k # 0 => k - 1 \in D /\ k \in 1..Len(s) /\ s[k] \in Nat
    OBVIOUS
  <1>2. p \in [D -> D] /\ m \in [D -> Nat] /\ start \in [D -> Nat]
    BY <1>1
  <1>3. \A x \in Nat : x * b \in Nat
    OBVIOUS
  <1>4. G \in [D -> [Nat -> Nat]]
    <2>1. \A k \in D, x \in Nat : k # 0 => x * b + s[k] \in Nat
      BY <1>1, <1>3
    <2> HIDE DEF D
    <2> QED BY <2>1
  <1>5. \A k \in D : k \notin B => m[p[k]] < m[k]
    BY <1>1
  <1>6. PICK f \in [D -> Nat] : \A k \in D : f[k] = IF k \in B THEN start[k] ELSE G[k][f[p[k]]]
    <2> HIDE DEF D, B, p, m, start, G, Is
    <2>1. Descends(D, Nat, B, p, m, start, G)
      BY <1>2, <1>4, <1>5 DEF Descends
    <2> QED BY <2>1, Recursion
  <1>7. \A k \in D : f[k] = IF k = 0 THEN 0 ELSE f[k - 1] * b + s[k]
    <2> TAKE k \in D
    <2>1. f[k] = IF k \in B THEN start[k] ELSE G[k][f[p[k]]]
      BY <1>6
    <2>2. k # 0 => p[k] = k - 1 /\ f[p[k]] \in Nat
      BY <1>1
    <2>3. k # 0 => G[k][f[p[k]]] = f[p[k]] * b + s[k]
      <3> HIDE DEF p, D
      <3> QED BY <2>2
    <2> HIDE DEF G, p
    <2> QED BY <2>1, <2>2, <2>3
  <1>8. Is(f)
    <2>1. f = [k \in D |-> f[k]]
      OBVIOUS
    <2> QED BY <1>7, <2>1
  <1> DEFINE g == CHOOSE f_1 : Is(f_1)
  <1>9. Is(g)
    <2> HIDE DEF Is
    <2> QED BY <1>8
  <1>10. ValueOf(s, b) = g[Len(s)]
    BY Zenon DEF ValueOf
  <1>11. \A k \in D : g[k] = f[k]
    <2> DEFINE T == {k \in D : g[k] # f[k]}
    <2>0. ASSUME T # {} PROVE FALSE
      <3>1. T \subseteq Nat
        BY <1>1
      <3>2. PICK k \in T : \A j \in T : k <= j
        <4> HIDE DEF T
        <4> QED BY <2>0, <3>1, LeastNumber
      <3>3. k \in D /\ k \in Nat /\ g[k] # f[k]
        BY <1>1
      <3>4. g[k] = IF k = 0 THEN 0 ELSE g[k - 1] * b + s[k]
        <4> HIDE DEF g
        <4> QED BY <1>9, <3>3
      <3> HIDE DEF g
      <3>5. k # 0 => g[k - 1] = f[k - 1]
        <4>1. k # 0 => k - 1 \in D /\ ~ (k <= k - 1)
          BY <1>1, <3>3
        <4> QED BY <3>2, <4>1
      <3> QED BY <1>7, <3>3, <3>4, <3>5
    <2> HIDE DEF g, D
    <2> QED BY <2>0
  <1> HIDE DEF g
  <1>12. ValueOf(s, b) = f[Len(s)]
    BY <1>1, <1>10, <1>11
  <1> QED BY <1>7, <1>12

(* One more digit.                                                          *)
LEMMA ValueOfAppend ==
    ASSUME NEW b \in Nat, NEW s \in Seq(Nat), NEW d \in Nat
    PROVE  /\ ValueOf(s, b) \in Nat
           /\ ValueOf(s \o <<d>>, b) = ValueOf(s, b) * b + d
  <1> DEFINE t == s \o <<d>>
  <1>1. /\ t \in Seq(Nat) /\ Len(t) = Len(s) + 1 /\ t[Len(s) + 1] = d /\ Len(s) \in Nat
        /\ \A k \in 1..Len(s) : t[k] = s[k]
    OBVIOUS
  <1> HIDE DEF t
  <1>2. PICK v \in [0..Len(s) -> Nat] :
              /\ \A k \in 0..Len(s) : v[k] = IF k = 0 THEN 0 ELSE v[k - 1] * b + s[k]
              /\ ValueOf(s, b) = v[Len(s)]
    BY ValueOfDef
  <1>3. PICK w \in [0..Len(t) -> Nat] :
              /\ \A k \in 0..Len(t) : w[k] = IF k = 0 THEN 0 ELSE w[k - 1] * b + t[k]
              /\ ValueOf(t, b) = w[Len(t)]
    BY <1>1, ValueOfDef
  <1>4. \A k \in 0..Len(s) : v[k] = w[k]
    <2> DEFINE T == {k \in 0..Len(s) : v[k] # w[k]}
    <2>0. ASSUME T # {} PROVE FALSE
      <3>1. T \subseteq Nat
        BY <1>1
      <3>2. PICK k \in T : \A j \in T : k <= j
        <4> HIDE DEF T
        <4> QED BY <2>0, <3>1, LeastNumber
      <3>3. k \in 0..Len(s) /\ k \in 0..Len(t) /\ k \in Nat /\ v[k] # w[k]
        BY <1>1
      <3>4. v[k] = IF k = 0 THEN 0 ELSE v[k - 1] * b + s[k]
        BY <1>2, <3>3
      <3>5. w[k] = IF k = 0 THEN 0 ELSE w[k - 1] * b + t[k]
        BY <1>3, <3>3
      <3>6. k # 0 => v[k - 1] = w[k - 1] /\ t[k] = s[k]
        <4>1. k # 0 => k - 1 \in 0..Len(s) /\ ~ (k <= k - 1) /\ k \in 1..Len(s)
          BY <1>1, <3>3
        <4> QED BY <1>1, <3>2, <4>1
      <3> QED BY <3>3, <3>4, <3>5, <3>6
    <2> QED BY <2>0
  <1>5. /\ Len(t) \in 0..Len(t) /\ Len(t) # 0 /\ Len(t) - 1 = Len(s) /\ Len(s) \in 0..Len(s)
    BY <1>1
  <1>6. w[Len(t)] = w[Len(s)] * b + d
    BY <1>1, <1>3, <1>5
  <1>7. v[Len(s)] \in Nat /\ v[Len(s)] = w[Len(s)]
    BY <1>4, <1>5
  <1> QED BY <1>2, <1>3, <1>6, <1>7 DEF t

(* No digit, and one.                                                       *)
LEMMA ValueOfDigit ==
    ASSUME NEW b \in Nat, NEW d \in Nat
    PROVE  ValueOf(<<d>>, b) = d
  <1>1. <<>> \in Seq(Nat) /\ Len(<<>>) = 0 /\ <<>> \o <<d>> = <<d>>
    OBVIOUS
  <1>2. ValueOf(<<>>, b) = 0
    <2> DEFINE s == <<>>
    <2>1. s \in Seq(Nat) /\ Len(s) = 0
      BY <1>1
    <2> HIDE DEF s
    <2>2. PICK v \in [0..Len(s) -> Nat] :
              /\ \A k \in 0..Len(s) : v[k] = IF k = 0 THEN 0 ELSE v[k - 1] * b + s[k]
              /\ ValueOf(s, b) = v[Len(s)]
      BY <2>1, ValueOfDef
    <2>3. ValueOf(s, b) = 0
      BY <2>1, <2>2
    <2> QED BY <2>3 DEF s
  <1>3. ValueOf(<<d>>, b) = ValueOf(<<>>, b) * b + d
    BY <1>1, ValueOfAppend
  <1>4. 0 * b + d = d
    OBVIOUS
  <1> QED BY <1>2, <1>3, <1>4

(* The digits of a number are worth the number, in every system.            *)
LEMMA ValueOfInBase ==
    ASSUME NEW b \in Nat, b > 1
    PROVE  \A n \in Nat : ValueOf(InBase(n, b), b) = n
  <1> DEFINE T == {n \in Nat : ValueOf(InBase(n, b), b) # n}
  <1>1. ASSUME T # {} PROVE FALSE
    <2>1. T \subseteq Nat
      OBVIOUS
    <2>2. PICK n \in T : \A k \in T : n <= k
      <3> HIDE DEF T
      <3> QED BY <1>1, <2>1, LeastNumber
    <2>3. n \in Nat /\ ValueOf(InBase(n, b), b) # n
      OBVIOUS
    <2>4. InBase(n, b) = IF n < b THEN <<n>> ELSE InBase(n \div b, b) \o <<n % b>>
      BY <2>3, InBaseDef
    <2>5. CASE n < b
      BY <2>3, <2>4, <2>5, ValueOfDigit
    <2>6. CASE ~ (n < b)
      <3> DEFINE q == n \div b
                 r == n % b
      <3>1. q \in Nat /\ r \in Nat /\ n = q * b + r /\ q < n
        BY <2>3, <2>6, Division
      <3>2. InBase(n, b) = InBase(q, b) \o <<r>>
        BY <2>4, <2>6
      <3> HIDE DEF q, r
      <3>3. ValueOf(InBase(q, b), b) = q
        <4>1. ~ (n <= q)
          BY <2>3, <3>1
        <4> QED BY <2>2, <3>1, <4>1
      <3>4. InBase(q, b) \in Seq(Nat)
        <4> DEFINE S == 0..(b - 1)
        <4>1. InBase(q, b) \in Seq(S)
          BY <3>1, InBaseDef
        <4>2. S \subseteq Nat
          OBVIOUS
        <4> HIDE DEF S
        <4> QED BY <4>1, <4>2, SeqMonotonic
      <3>5. ValueOf(InBase(n, b), b) = q * b + r
        <4> DEFINE s == InBase(q, b)
        <4>1. s \in Seq(Nat) /\ InBase(n, b) = s \o <<r>> /\ ValueOf(s, b) = q
          BY <3>2, <3>3, <3>4
        <4> HIDE DEF s
        <4>2. ValueOf(s \o <<r>>, b) = ValueOf(s, b) * b + r
          BY <3>1, <4>1, ValueOfAppend
        <4> QED BY <4>1, <4>2
      <3> QED BY <2>3, <3>1, <3>5
    <2> QED BY <2>5, <2>6
  <1> QED BY <1>1

-----------------------------------------------------------------------------
(* Sums of sequences *)

(* A sum grows by what is put in front.                                     *)
LEMMA TotalOfCons ==
    ASSUME NEW x \in Nat, NEW s \in Seq(Nat)
    PROVE  /\ Total(s) \in Nat
           /\ Total(<<x>> \o s) = x + Total(s)
  <1> DEFINE t == <<x>> \o s
             n == Len(s)
  <1>1. /\ t \in Seq(Nat) /\ Len(t) = n + 1 /\ n \in Nat /\ t[1] = x
        /\ \A k \in 1..n : t[k + 1] = s[k]
    OBVIOUS
  <1> HIDE DEF t, n
  <1>2. DOMAIN s = 1..n /\ DOMAIN t = 1..(n + 1)
    BY <1>1 DEF n
  <1>3. \A k \in 1..n : s[k] \in Nat
    BY DEF n
  <1>4. \A k \in 1..(n + 1) : t[k] \in Nat
    BY <1>1, <1>2
  <1>5. \A k \in 0..n : /\ SumOf(s, 1..k) \in Nat
                        /\ k # 0 => SumOf(s, 1..k) = s[k] + SumOf(s, 1..(k - 1))
    <2> TAKE k \in 0..n
    <2>0. k \in Int /\ 1 \in Int /\ \A i \in 1..k : i \in 1..n
      BY <1>1
    <2>1. IsFiniteSet(1..k) /\ \A i \in 1..k : s[i] \in Nat
      BY <1>3, <2>0, FS_Interval
    <2>2. SumOf(s, 1..k) \in Nat /\ \A i \in 1..k : SumOf(s, 1..k) = s[i] + SumOf(s, (1..k) \ {i})
      BY <2>1, SumApart, ZenonT(60)
    <2>3. k # 0 => k \in 1..k /\ (1..k) \ {k} = 1..(k - 1)
      BY <2>0
    <2> QED BY <2>2, <2>3
  <1>6. \A k \in 0..n : SumOf(t, 1..(k + 1)) = t[k + 1] + SumOf(t, 1..k)
    <2> TAKE k \in 0..n
    <2>0. k + 1 \in Int /\ 1 \in Int /\ \A i \in 1..(k + 1) : i \in 1..(n + 1)
      BY <1>1
    <2>1. IsFiniteSet(1..(k + 1)) /\ \A i \in 1..(k + 1) : t[i] \in Nat
      BY <1>4, <2>0, FS_Interval
    <2>2. \A i \in 1..(k + 1) : SumOf(t, 1..(k + 1)) = t[i] + SumOf(t, (1..(k + 1)) \ {i})
      BY <2>1, SumApart, ZenonT(60)
    <2>3. k + 1 \in 1..(k + 1) /\ (1..(k + 1)) \ {k + 1} = 1..k
      BY <1>1
    <2> QED BY <2>2, <2>3
  <1>7. \A k \in 0..n : SumOf(t, 1..(k + 1)) = x + SumOf(s, 1..k)
    <2> DEFINE T == {k \in 0..n : SumOf(t, 1..(k + 1)) # x + SumOf(s, 1..k)}
    <2>1. ASSUME T # {} PROVE FALSE
      <3>1. T \subseteq Nat
        BY <1>1
      <3>2. PICK k \in T : \A j \in T : k <= j
        <4> HIDE DEF T
        <4> QED BY <2>1, <3>1, LeastNumber
      <3>3. k \in 0..n /\ k \in Nat /\ SumOf(t, 1..(k + 1)) # x + SumOf(s, 1..k)
        BY <1>1
      <3>4. CASE k = 0
        <4>1. 1..0 = {} /\ 0 + 1 = 1
          OBVIOUS
        <4>2. SumOf(t, {}) = 0 /\ SumOf(s, {}) = 0
          BY SumOfNone
        <4>3. SumOf(t, 1..(k + 1)) = t[k + 1] + SumOf(t, 1..k)
          BY <1>6, <3>3
        <4> QED BY <1>1, <3>3, <3>4, <4>1, <4>2, <4>3
      <3>5. CASE k # 0
        <4> DEFINE j == k - 1
        <4>1. j \in 0..n /\ j \in Nat /\ ~ (k <= j) /\ k = j + 1 /\ k \in 1..n
          BY <1>1, <3>3, <3>5
        <4> HIDE DEF j
        <4>2. SumOf(t, 1..(j + 1)) = x + SumOf(s, 1..j)
          BY <3>2, <4>1
        <4>3. SumOf(t, 1..(k + 1)) = t[k + 1] + SumOf(t, 1..k) /\ t[k + 1] = s[k] /\ s[k] \in Nat
          BY <1>1, <1>3, <1>6, <3>3, <4>1
        <4>4. SumOf(s, 1..k) = s[k] + SumOf(s, 1..j) /\ SumOf(s, 1..j) \in Nat
          BY <1>5, <3>3, <3>5, <4>1 DEF j
        <4> QED BY <3>3, <4>1, <4>2, <4>3, <4>4
      <3> QED BY <3>4, <3>5
    <2> QED BY <2>1
  <1>8. Total(s) = SumOf(s, 1..n) /\ Total(t) = SumOf(t, 1..(n + 1))
    BY <1>2 DEF Total, SumOf
  <1>9. n \in 0..n
    BY <1>1
  <1> QED BY <1>5, <1>7, <1>8, <1>9 DEF t

(* It loses what is taken off the end.                                      *)
LEMMA TotalOfFront ==
    ASSUME NEW s \in Seq(Nat), s # <<>>
    PROVE  Total(s) = s[Len(s)] + Total(SubSeq(s, 1, Len(s) - 1))
  <1> DEFINE n == Len(s)
             t == SubSeq(s, 1, n - 1)
  <1>1. n \in Nat \ {0} /\ DOMAIN s = 1..n /\ \A k \in 1..n : s[k] \in Nat
    OBVIOUS
  <1>2. DOMAIN t = 1..(n - 1) /\ \A k \in 1..(n - 1) : t[k] = s[k]
    OBVIOUS
  <1> HIDE DEF n, t
  <1>3. SumOf(s, 1..n) = s[n] + SumOf(s, (1..n) \ {n})
    <2>1. IsFiniteSet(1..n) /\ n \in 1..n
      BY <1>1, FS_Interval
    <2> QED BY <1>1, <2>1, SumApart, SMTT(30)
  <1>4. (1..n) \ {n} = 1..(n - 1)
    BY <1>1
  <1>5. SumOf(s, 1..(n - 1)) = SumOf(t, 1..(n - 1))
    <2> DEFINE I == 1..(n - 1)
    <2>1. IsFiniteSet(I)
      BY <1>1, FS_Interval
    <2>2. \A i \in I : s[i] = t[i]
      BY <1>2
    <2> HIDE DEF I
    <2>3. SumOf(s, I) = SumOf(t, I)
      BY <2>1, <2>2, SumAlike
    <2> QED BY <2>3 DEF I
  <1>6. Total(s) = SumOf(s, 1..n) /\ Total(t) = SumOf(t, 1..(n - 1))
    BY <1>1, <1>2 DEF Total, SumOf
  <1> QED BY <1>3, <1>4, <1>5, <1>6 DEF n, t

(* The sum of nothing.                                                      *)
LEMMA TotalOfNone == Total(<<>>) = 0
  <1> DEFINE s == <<>>
  <1>1. DOMAIN s = {}
    OBVIOUS
  <1> HIDE DEF s
  <1>2. Total(s) = SumOf(s, DOMAIN s)
    BY DEF Total, SumOf
  <1>3. Total(s) = 0
    BY <1>1, <1>2, SumOfNone
  <1> QED BY <1>3 DEF s

-----------------------------------------------------------------------------
(* Numbers as texts *)

(* The text of a number starts with that number, and consists of it.        *)
LEMMA NumbersReadBack ==
    ASSUME NEW n \in Nat
    PROVE  from_string(to_string(n)) = n
  <1> DEFINE d == InBase(n, 10)
             s == to_string(n)
             l == Len(d)
  <1>1. d \in Seq(0..9)
    <2>1. 10 \in Nat /\ 10 > 1 /\ 10 - 1 = 9
      OBVIOUS
    <2> QED BY <2>1, InBaseDef
  <1>2. l \in Nat /\ DOMAIN d = 1..l /\ \A i \in 1..l : d[i] \in 0..9
    BY <1>1
  <1>3. s = [i \in 1..l |-> Decimals[d[i] + 1]]
    BY <1>2 DEF to_string
  <1> HIDE DEF d, s, l
  <1>4. \A c \in 0..9 : DigitOf(Decimals[c + 1]) = c /\ IsDigit(Decimals[c + 1])
    BY DEF DigitOf, Decimals, IsDigit
  <1>5. \A i \in 1..l : DigitOf(s[i]) = d[i] /\ IsDigit(s[i])
    BY <1>2, <1>3, <1>4
  <1>6. s \in Seq({Decimals[c + 1] : c \in 0..9}) /\ Len(s) = l /\ DOMAIN s = 1..l
    BY <1>2, <1>3
  <1>7. Leading(s, IsDigit) = l
    <2> DEFINE S == {k \in 0..Len(s) : \A i \in 1..k : IsDigit(s[i])}
    <2>1. S = 0..l
      BY <1>2, <1>5, <1>6
    <2>2. Leading(s, IsDigit) = Max(S)
      BY DEF Leading
    <2> HIDE DEF S
    <2>0. S \subseteq 0..l /\ S # {}
      <3>1. 0 \in 0..l
        BY <1>2
      <3> QED BY <2>1, <3>1
    <2>3. Max(S) \in S /\ \A x \in S : x <= Max(S)
      BY <1>2, <2>0, LargestNumber
    <2> QED BY <1>2, <2>1, <2>2, <2>3
  <1>8. SubSeq(s, 1, l) = s
    BY <1>6
  <1>9. [i \in DOMAIN s |-> DigitOf(s[i])] = d
    <2>1. d = [i \in 1..l |-> d[i]]
      BY <1>1, <1>2
    <2> QED BY <1>5, <1>6, <2>1
  <1>10. from_string(s) = ValueOf(d, 10)
    BY <1>7, <1>8, <1>9 DEF from_string, NumberOf
  <1>11. ValueOf(d, 10) = n
    <2>1. 10 \in Nat /\ 10 > 1
      OBVIOUS
    <2> QED BY <2>1, ValueOfInBase DEF d
  <1> QED BY <1>10, <1>11 DEF s

-----------------------------------------------------------------------------
(* Roman numbers *)

Letters == {Romans[i][2] : i \in 1..13}

(* The thirteen Roman numbers, each with letters of its own.                *)
LEMMA RomansApart ==
    /\ DOMAIN Romans = 1..13
    /\ \A i \in 1..13 : /\ Romans[i][1] \in Nat \ {0} /\ Romans[i][2] \in Letters
                        /\ RomanWorth(Romans[i][2]) = Romans[i][1]
    /\ Romans[13][1] = 1
  <1>1. DOMAIN Romans = 1..13 /\ Romans[13][1] = 1
    BY DEF Romans
  <1>2. \A i \in 1..13 : Romans[i][1] \in Nat \ {0}
    BY DEF Romans
  <1>3. \A i, j \in 1..13 : Romans[i][2] = Romans[j][2] => i = j
    BY DEF Romans
  <1>4. \A i \in 1..13 : RomanWorth(Romans[i][2]) = Romans[i][1]
    <2> TAKE i \in 1..13
    <2> DEFINE j == CHOOSE j \in 1..13 : Romans[j][2] = Romans[i][2]
    <2>1. j \in 1..13 /\ Romans[j][2] = Romans[i][2]
      OBVIOUS
    <2>2. RomanWorth(Romans[i][2]) = Romans[j][1]
      BY <1>1 DEF RomanWorth
    <2> HIDE DEF j
    <2>3. j = i
      BY <1>3, <2>1
    <2> QED BY <2>2, <2>3
  <1> QED BY <1>1, <1>2, <1>4 DEF Letters

(* The one that a number starts with is not above it.                       *)
LEMMA LargestRomanFits ==
    ASSUME NEW n \in Nat \ {0}
    PROVE  LargestRoman(n) \in 1..13 /\ Romans[LargestRoman(n)][1] <= n
  <1> DEFINE T == {i \in 1..13 : n >= Romans[i][1]}
  <1>1. T \subseteq Nat /\ T # {}
    <2>1. 13 \in T
      BY RomansApart
    <2> QED BY <2>1
  <1>2. PICK i \in T : \A j \in T : i <= j
    <2> HIDE DEF T
    <2> QED BY <1>1, LeastNumber
  <1>3. i \in 1..13 /\ n >= Romans[i][1]
    OBVIOUS
  <1>4. \A j \in 1..(i - 1) : n < Romans[j][1]
    <2> TAKE j \in 1..(i - 1)
    <2>1. j \in 1..13 /\ ~ (i <= j)
      BY <1>3
    <2>2. ~ (n >= Romans[j][1]) /\ Romans[j][1] \in Nat
      BY <1>2, <2>1, RomansApart
    <2> QED BY <2>2
  <1>5. \E k \in 1..13 : n >= Romans[k][1] /\ \A j \in 1..(k - 1) : n < Romans[j][1]
    BY <1>3, <1>4
  <1>6. LargestRoman(n) \in 1..13 /\ n >= Romans[LargestRoman(n)][1]
    BY <1>5, RomansApart DEF LargestRoman
  <1>7. Romans[LargestRoman(n)][1] \in Nat
    BY <1>6, RomansApart
  <1> QED BY <1>6, <1>7

(* A Roman number is its largest letters and what is left.                  *)
LEMMA RomanDef ==
    \A n \in Nat :
        /\ dec_to_roman(n) \in Seq(Letters)
        /\ dec_to_roman(n) = IF n = 0 THEN <<>>
                             ELSE <<Romans[LargestRoman(n)][2]>> \o dec_to_roman(n - Romans[LargestRoman(n)][1])
  <1> DEFINE D == Nat
             V == Seq(Letters)
             B == {0}
             Letter(n) == Romans[LargestRoman(n)][2]
             Left(n) == n - Romans[LargestRoman(n)][1]
             p == [n \in D |-> IF n = 0 THEN 0 ELSE Left(n)]
             m == [n \in D |-> n]
             start == [n \in D |-> <<>>]
             G == [n \in D |-> [x \in V |-> IF n = 0 THEN x ELSE <<Letter(n)>> \o x]]
             Is(f) == f = [n \in Nat |-> IF n = 0 THEN <<>>
                                         ELSE <<Romans[LargestRoman(n)][2]>> \o f[n - Romans[LargestRoman(n)][1]]]
  <1>1. \A n \in Nat : n # 0 => Left(n) \in Nat /\ Left(n) < n /\ Letter(n) \in Letters
    <2> TAKE n \in Nat
    <2> SUFFICES ASSUME n # 0 PROVE Left(n) \in Nat /\ Left(n) < n /\ Letter(n) \in Letters
      OBVIOUS
    <2> DEFINE l == LargestRoman(n)
    <2>1. l \in 1..13 /\ Romans[l][1] <= n
      BY LargestRomanFits
    <2> HIDE DEF l
    <2>2. Romans[l][1] \in Nat \ {0} /\ Romans[l][2] \in Letters
      BY <2>1, RomansApart
    <2>3. n - Romans[l][1] \in Nat /\ n - Romans[l][1] < n
      BY <2>1, <2>2
    <2> QED BY <2>2, <2>3 DEF l
  <1> HIDE DEF Letter, Left
  <1>2. p \in [D -> D] /\ m \in [D -> Nat]
    BY <1>1
  <1>3. start \in [D -> V]
    OBVIOUS
  <1>4. G \in [D -> [V -> V]]
    <2>1. \A n \in Nat, x \in V : n # 0 => <<Letter(n)>> \o x \in V
      <3> SUFFICES ASSUME NEW n \in Nat, NEW x \in V, n # 0 PROVE <<Letter(n)>> \o x \in V
        OBVIOUS
      <3>1. <<Letter(n)>> \in V
        BY <1>1, OneOfSeq
      <3> QED BY <3>1, ConcatProperties
    <2> HIDE DEF V
    <2> QED BY <2>1
  <1>5. \A n \in D : n \notin B => m[p[n]] < m[n]
    BY <1>1
  <1>6. PICK f \in [D -> V] : \A n \in D : f[n] = IF n \in B THEN start[n] ELSE G[n][f[p[n]]]
    <2> HIDE DEF D, V, B, p, m, start, G, Is
    <2>1. Descends(D, V, B, p, m, start, G)
      BY <1>2, <1>3, <1>4, <1>5 DEF Descends
    <2> QED BY <2>1, Recursion
  <1>7. \A n \in Nat : f[n] = IF n = 0 THEN <<>> ELSE <<Letter(n)>> \o f[Left(n)]
    <2> TAKE n \in Nat
    <2>1. f[n] = IF n \in B THEN start[n] ELSE G[n][f[p[n]]]
      BY <1>6
    <2>2. n = 0 => start[n] = <<>>
      OBVIOUS
    <2>3. n # 0 => p[n] = Left(n) /\ f[p[n]] \in V
      BY <1>1
    <2>4. n # 0 => G[n][f[p[n]]] = <<Letter(n)>> \o f[p[n]]
      <3> HIDE DEF p, V
      <3> QED BY <2>3
    <2> HIDE DEF start, G, p
    <2> QED BY <2>1, <2>2, <2>3, <2>4
  <1>8. Is(f)
    <2>1. f = [n \in Nat |-> f[n]]
      <3> HIDE DEF V
      <3> QED OBVIOUS
    <2> QED BY <1>7, <2>1, Zenon DEF Letter, Left
  <1> DEFINE g == CHOOSE f_1 : Is(f_1)
  <1>9. Is(g)
    <2> HIDE DEF Is
    <2> QED BY <1>8
  <1>10. \A n \in Nat : dec_to_roman(n) = g[n]
    BY Zenon DEF dec_to_roman
  <1>11. \A n \in Nat : g[n] = f[n]
    <2> DEFINE T == {n \in Nat : g[n] # f[n]}
    <2>1. ASSUME T # {} PROVE FALSE
      <3>1. T \subseteq Nat
        OBVIOUS
      <3>2. PICK n \in T : \A k \in T : n <= k
        <4> HIDE DEF T
        <4> QED BY <2>1, <3>1, LeastNumber
      <3>3. n \in Nat /\ g[n] # f[n]
        OBVIOUS
      <3>4. g[n] = IF n = 0 THEN <<>> ELSE <<Letter(n)>> \o g[Left(n)]
        <4> HIDE DEF g
        <4> QED BY <1>9, <3>3 DEF Letter, Left
      <3> HIDE DEF g
      <3>5. n # 0 => g[Left(n)] = f[Left(n)]
        <4> DEFINE q == Left(n)
        <4>1. n # 0 => q \in Nat /\ ~ (n <= q)
          BY <1>1, <3>3, SMTT(30)
        <4>2. q \in Nat /\ q \notin T => g[q] = f[q]
          OBVIOUS
        <4> HIDE DEF q, T
        <4>3. n # 0 => g[q] = f[q]
          BY <3>2, <4>1, <4>2
        <4> QED BY <4>3 DEF q
      <3> QED BY <1>7, <3>3, <3>4, <3>5
    <2> HIDE DEF g
    <2> QED BY <2>1
  <1>12. \A n \in Nat : f[n] \in V
    OBVIOUS
  <1> HIDE DEF g, V
  <1>13. \A n \in Nat : dec_to_roman(n) = f[n] /\ f[n] \in V
    BY <1>10, <1>11, <1>12
  <1> QED BY <1>1, <1>7, <1>13 DEF V, Letter, Left

(* What a Roman number is worth.                                            *)
LEMMA RomansReadBack == \A n \in Nat : Worth(dec_to_roman(n)) = n
  <1> DEFINE T == {n \in Nat : Worth(dec_to_roman(n)) # n}
  <1>1. ASSUME T # {} PROVE FALSE
    <2>1. T \subseteq Nat
      OBVIOUS
    <2>2. PICK n \in T : \A k \in T : n <= k
      <3> HIDE DEF T
      <3> QED BY <1>1, <2>1, LeastNumber
    <2>3. n \in Nat /\ Worth(dec_to_roman(n)) # n
      OBVIOUS
    <2> HIDE DEF T
    <2>4. CASE n = 0
      <3> DEFINE e == <<>>
      <3>1. dec_to_roman(n) = e
        BY <2>4, RomanDef
      <3>2. [i \in DOMAIN e |-> RomanWorth(e[i])] = <<>>
        OBVIOUS
      <3> HIDE DEF e
      <3>3. Worth(e) = 0
        BY <3>2, TotalOfNone DEF Worth
      <3> QED BY <2>3, <2>4, <3>1, <3>3
    <2>5. CASE n # 0
      <3> DEFINE l == LargestRoman(n)
                 v == Romans[l][1]
                 r == dec_to_roman(n - v)
                 a == Romans[l][2]
                 s == <<a>> \o r
                 w == [i \in DOMAIN r |-> RomanWorth(r[i])]
                 u == [i \in DOMAIN s |-> RomanWorth(s[i])]
      <3>1. l \in 1..13 /\ v <= n
        BY <2>3, <2>5, LargestRomanFits
      <3>2. v \in Nat \ {0} /\ RomanWorth(a) = v /\ a \in Letters
        BY <3>1, RomansApart
      <3> HIDE DEF l, v, a
      <3>3. n - v \in Nat /\ ~ (n <= n - v) /\ v + (n - v) = n
        BY <2>3, <3>1, <3>2
      <3>4. dec_to_roman(n) = s
        BY <2>3, <2>5, RomanDef DEF l, v, a
      <3>5. r \in Seq(Letters)
        BY <3>3, RomanDef
      <3>6. Worth(r) = n - v
        BY <2>2, <3>3 DEF T
      <3> HIDE DEF r
      <3>7. \A c \in Letters : RomanWorth(c) \in Nat
        <4> TAKE c \in Letters
        <4>1. PICK i \in 1..13 : c = Romans[i][2]
          BY DEF Letters
        <4> QED BY <4>1, RomansApart
      <3>8. w \in Seq(Nat)
        BY <3>5, <3>7
      <3>9. u = <<v>> \o w
        <4>1. /\ s \in Seq(Letters) /\ Len(s) = Len(r) + 1 /\ s[1] = a /\ Len(r) \in Nat
              /\ \A i \in 1..Len(r) : s[i + 1] = r[i]
          BY <3>2, <3>5
        <4>2. /\ Len(w) = Len(r) /\ \A i \in 1..Len(r) : w[i] = RomanWorth(r[i])
          BY <3>5
        <4> DEFINE t == <<v>> \o w
        <4>3. /\ t \in Seq(Nat) /\ Len(t) = Len(r) + 1 /\ t[1] = v
              /\ \A i \in 1..Len(r) : t[i + 1] = w[i]
          BY <3>2, <3>8, <4>2
        <4> HIDE DEF s, w, t
        <4>4. \A i \in 1..(Len(r) + 1) : RomanWorth(s[i]) = t[i]
          <5> TAKE i \in 1..(Len(r) + 1)
          <5>1. CASE i = 1
            BY <3>2, <4>1, <4>3, <5>1
          <5>2. CASE i # 1
            <6> DEFINE j == i - 1
            <6>1. j \in 1..Len(r) /\ i = j + 1
              BY <4>1, <5>2
            <6> HIDE DEF j
            <6>2. s[i] = r[j] /\ t[i] = w[j] /\ w[j] = RomanWorth(r[j])
              BY <4>1, <4>2, <4>3, <6>1
            <6> QED BY <6>2
          <5> QED BY <5>1, <5>2
        <4>5. u = t
          <5>1. DOMAIN s = 1..(Len(r) + 1) /\ DOMAIN t = 1..(Len(r) + 1)
            BY <4>1, <4>3
          <5>2. t = [i \in 1..(Len(r) + 1) |-> t[i]]
            BY <4>3, <5>1
          <5> QED BY <4>4, <5>1, <5>2
        <4> QED BY <4>5 DEF t
      <3>10. Worth(s) = Total(u) /\ Worth(r) = Total(w)
        BY DEF Worth
      <3> HIDE DEF u, w, s
      <3>11. Total(u) = v + Total(w)
        BY <3>2, <3>8, <3>9, TotalOfCons
      <3>12. Worth(dec_to_roman(n)) = v + (n - v)
        BY <3>4, <3>6, <3>10, <3>11
      <3> QED BY <2>3, <3>3, <3>12
    <2> QED BY <2>4, <2>5
  <1> QED BY <1>1

-----------------------------------------------------------------------------
(* Sums of named numbers *)

Named == [value : Nat, inWords : {TRUE}]
Values(parts) == [i \in DOMAIN parts |-> parts[i].value]

(* The values of parts are numbers; what is put in front of the parts is in *)
(* front of the values, and what is cut off the parts is cut off them.      *)
LEMMA ValuesOfParts ==
    ASSUME NEW r \in Seq(Named)
    PROVE  /\ Values(r) \in Seq(Nat) /\ Len(Values(r)) = Len(r)
           /\ \A i \in 1..Len(r) : Values(r)[i] = r[i].value
           /\ \A a \in Named : Values(<<a>> \o r) = <<a.value>> \o Values(r)
           /\ \A k \in 0..Len(r) : Values(SubSeq(r, 1, k)) = SubSeq(Values(r), 1, k)
  <1> DEFINE v == Values(r)
  <1>1. \A a \in Named : a.value \in Nat
    BY DEF Named
  <1>2. DOMAIN r = 1..Len(r) /\ Len(r) \in Nat /\ \A i \in 1..Len(r) : r[i] \in Named
    OBVIOUS
  <1>3. v \in Seq(Nat) /\ Len(v) = Len(r) /\ \A i \in 1..Len(r) : v[i] = r[i].value
    BY <1>1, <1>2 DEF Values
  <1> HIDE DEF v
  <1>4. ASSUME NEW a \in Named PROVE Values(<<a>> \o r) = <<a.value>> \o v
    <2> DEFINE s == <<a>> \o r
               t == <<a.value>> \o v
    <2>1. /\ s \in Seq(Named) /\ Len(s) = Len(r) + 1 /\ s[1] = a
          /\ \A i \in 1..Len(r) : s[i + 1] = r[i]
      OBVIOUS
    <2>2. /\ t \in Seq(Nat) /\ Len(t) = Len(r) + 1 /\ t[1] = a.value
          /\ \A i \in 1..Len(r) : t[i + 1] = v[i]
      BY <1>1, <1>3
    <2> HIDE DEF s, t
    <2>3. \A i \in 1..(Len(r) + 1) : s[i].value = t[i]
      <3> TAKE i \in 1..(Len(r) + 1)
      <3>1. CASE i = 1
        BY <2>1, <2>2, <3>1
      <3>2. CASE i # 1
        <4> DEFINE j == i - 1
        <4>1. j \in 1..Len(r) /\ i = j + 1
          BY <1>2, <3>2
        <4> HIDE DEF j
        <4>2. s[i] = r[j] /\ t[i] = v[j] /\ v[j] = r[j].value
          BY <1>3, <2>1, <2>2, <4>1
        <4> QED BY <4>2
      <3> QED BY <3>1, <3>2
    <2>4. Values(s) = t
      <3>1. DOMAIN s = 1..(Len(r) + 1) /\ DOMAIN t = 1..(Len(r) + 1)
        BY <2>1, <2>2
      <3>2. t = [i \in 1..(Len(r) + 1) |-> t[i]]
        BY <2>2, <3>1
      <3> QED BY <2>3, <3>1, <3>2 DEF Values
    <2> QED BY <2>4 DEF s, t
  <1>5. ASSUME NEW k \in 0..Len(r) PROVE Values(SubSeq(r, 1, k)) = SubSeq(v, 1, k)
    <2> DEFINE s == SubSeq(r, 1, k)
               t == SubSeq(v, 1, k)
    <2>1. DOMAIN s = 1..k /\ \A i \in 1..k : s[i] = r[i]
      BY <1>2
    <2>2. t \in Seq(Nat) /\ DOMAIN t = 1..k /\ \A i \in 1..k : t[i] = v[i]
      BY <1>2, <1>3
    <2> HIDE DEF s, t
    <2>3. t = [i \in 1..k |-> t[i]]
      BY <2>2
    <2>4. \A i \in 1..k : i \in 1..Len(r)
      BY <1>2
    <2>5. \A i \in 1..k : s[i].value = t[i]
      BY <1>3, <2>1, <2>2, <2>4
    <2>6. Values(s) = t
      BY <2>1, <2>3, <2>5 DEF Values
    <2> QED BY <2>6 DEF s, t
  <1> QED BY <1>3, <1>4, <1>5 DEF v

(* When one has a name, every number but zero has a named one at most its   *)
(* size.                                                                    *)
LEMMA NearestIsNamed ==
    ASSUME NEW names \in SUBSET Nat, 1 \in names, NEW n \in Nat
    PROVE  IF n = 0 THEN GetNearestNumberVal(n, names) = 0
           ELSE /\ GetNearestNumberVal(n, names) \in names /\ GetNearestNumberVal(n, names) \in 1..n
                /\ GetNearestNumber(n, names) = [value |-> GetNearestNumberVal(n, names), inWords |-> TRUE]
  <1> DEFINE S == {v \in names : v <= n}
             v == GetNearestNumberVal(n, names)
  <1>1. S \subseteq 0..n
    <2>1. \A x \in names : x \in Nat
      OBVIOUS
    <2>2. \A x \in S : x \in names /\ x <= n
      OBVIOUS
    <2> HIDE DEF S
    <2>3. \A x \in S : x \in 0..n
      <3> TAKE x \in S
      <3>1. x \in Nat /\ x <= n
        BY <2>1, <2>2
      <3> QED BY <3>1
    <2> QED BY <2>3
  <1>2. v = IF S = {} THEN 0 ELSE Max(S)
    BY DEF GetNearestNumberVal
  <1>3. S # {} => Max(S) \in S /\ \A x \in S : x <= Max(S)
    <2> HIDE DEF S
    <2> QED BY <1>1, LargestNumber
  <1>4. n # 0 => 1 \in S
    OBVIOUS
  <1>5. CASE n = 0
    <2>1. S # {} => Max(S) = 0
      <3>1. S # {} => Max(S) \in 0..0
        BY <1>1, <1>3, <1>5
      <3> HIDE DEF S
      <3> QED BY <3>1
    <2> HIDE DEF S, v
    <2>2. v = 0
      BY <1>2, <2>1
    <2> QED BY <1>5, <2>2 DEF v
  <1>6. CASE n # 0
    <2>1. v = Max(S) /\ v \in S /\ 1 <= v
      <3> HIDE DEF S, v
      <3> QED BY <1>2, <1>3, <1>4, <1>6
    <2>2. v \in names /\ v \in 1..n
      <3>1. v \in names /\ v <= n
        BY <2>1
      <3> HIDE DEF v
      <3>2. v \in Nat
        BY <3>1
      <3> QED BY <2>1, <3>1, <3>2
    <2>3. GetNearestNumber(n, names) = IF v = 0 THEN [value |-> 0, inWords |-> FALSE]
                                       ELSE [value |-> v, inWords |-> v \in names]
      BY DEF GetNearestNumber, numbertoname
    <2> HIDE DEF v
    <2>4. GetNearestNumber(n, names) = [value |-> v, inWords |-> TRUE]
      <3>1. v # 0 /\ (v \in names) = TRUE
        BY <2>2
      <3> QED BY <2>3, <3>1
    <2> QED BY <1>6, <2>2, <2>4 DEF v
  <1> QED BY <1>5, <1>6

(* A number is the nearest named one and what is left.                      *)
LEMMA NamedNumbersDef ==
    ASSUME NEW names \in SUBSET Nat, 1 \in names
    PROVE  \A n \in Nat :
              /\ NamedNumbers(n, names) \in Seq(Named)
              /\ NamedNumbers(n, names) =
                    IF n = 0 THEN <<>>
                    ELSE <<GetNearestNumber(n, names), Plus>>
                             \o NamedNumbers(n - GetNearestNumberVal(n, names), names)
  <1> DEFINE D == Nat
             V == Seq(Named)
             B == {0}
             First(n) == <<GetNearestNumber(n, names), Plus>>
             Left(n) == n - GetNearestNumberVal(n, names)
             p == [n \in D |-> IF n = 0 THEN 0 ELSE Left(n)]
             m == [n \in D |-> n]
             start == [n \in D |-> <<>>]
             G == [n \in D |-> [x \in V |-> IF n = 0 THEN x ELSE First(n) \o x]]
             Is(f) == f = [n \in Nat |->
                LET v == GetNearestNumberVal(n, names)
                IN  IF v = 0 THEN IF n > 0 THEN <<numbertoname(n, names)>> ELSE <<>>
                    ELSE <<GetNearestNumber(n, names), Plus>> \o f[n - v]]
  <1>1. \A n \in Nat : n # 0 => Left(n) \in Nat /\ Left(n) < n /\ First(n) \in V
    <2> TAKE n \in Nat
    <2> SUFFICES ASSUME n # 0 PROVE Left(n) \in Nat /\ Left(n) < n /\ First(n) \in V
      OBVIOUS
    <2> DEFINE v == GetNearestNumberVal(n, names)
               a == GetNearestNumber(n, names)
    <2>1. v \in 1..n /\ a = [value |-> v, inWords |-> TRUE]
      BY NearestIsNamed
    <2> HIDE DEF v, a
    <2>2. n - v \in Nat /\ n - v < n
      BY <2>1
    <2>3. a \in Named /\ Plus \in Named
      BY <2>1 DEF Named, Plus
    <2>4. <<a, Plus>> \in V
      BY <2>3
    <2> QED BY <2>2, <2>4 DEF v, a
  <1>2. \A n \in Nat : GetNearestNumberVal(n, names) = 0 <=> n = 0
    <2> TAKE n \in Nat
    <2> DEFINE v == GetNearestNumberVal(n, names)
    <2>1. IF n = 0 THEN v = 0 ELSE v \in 1..n
      BY NearestIsNamed
    <2> HIDE DEF v
    <2>2. v = 0 <=> n = 0
      BY <2>1
    <2> QED BY <2>2 DEF v
  <1> HIDE DEF First, Left
  <1>3. p \in [D -> D] /\ m \in [D -> Nat]
    BY <1>1
  <1>4. start \in [D -> V]
    OBVIOUS
  <1>5. G \in [D -> [V -> V]]
    <2>1. \A n \in Nat, x \in V : n # 0 => First(n) \o x \in V
      <3> SUFFICES ASSUME NEW n \in Nat, NEW x \in V, n # 0 PROVE First(n) \o x \in V
        OBVIOUS
      <3>1. First(n) \in V
        BY <1>1
      <3> QED BY <3>1, ConcatProperties
    <2> HIDE DEF V
    <2> QED BY <2>1
  <1>6. \A n \in D : n \notin B => m[p[n]] < m[n]
    BY <1>1
  <1>7. PICK f \in [D -> V] : \A n \in D : f[n] = IF n \in B THEN start[n] ELSE G[n][f[p[n]]]
    <2> HIDE DEF D, V, B, p, m, start, G, Is
    <2>1. Descends(D, V, B, p, m, start, G)
      BY <1>3, <1>4, <1>5, <1>6 DEF Descends
    <2> QED BY <2>1, Recursion
  <1>8. \A n \in Nat : f[n] = IF n = 0 THEN <<>> ELSE First(n) \o f[Left(n)]
    <2> TAKE n \in Nat
    <2>1. f[n] = IF n \in B THEN start[n] ELSE G[n][f[p[n]]]
      BY <1>7
    <2>2. n = 0 => start[n] = <<>>
      OBVIOUS
    <2>3. n # 0 => p[n] = Left(n) /\ f[p[n]] \in V
      BY <1>1
    <2>4. n # 0 => G[n][f[p[n]]] = First(n) \o f[p[n]]
      <3> HIDE DEF p, V
      <3> QED BY <2>3
    <2> HIDE DEF start, G, p
    <2> QED BY <2>1, <2>2, <2>3, <2>4
  <1> DEFINE Body(f_1, n) ==
                LET v == GetNearestNumberVal(n, names)
                IN  IF v = 0 THEN IF n > 0 THEN <<numbertoname(n, names)>> ELSE <<>>
                    ELSE <<GetNearestNumber(n, names), Plus>> \o f_1[n - v]
  <1>9. \A n \in Nat : \A h : Body(h, n) = IF n = 0 THEN <<>> ELSE First(n) \o h[Left(n)]
    <2> TAKE n \in Nat
    <2> TAKE h
    <2>1. CASE n = 0
      BY <1>2, <2>1
    <2>2. CASE n # 0
      BY <1>2, <2>2, Zenon DEF First, Left
    <2> QED BY <2>1, <2>2
  <1> HIDE DEF Body
  <1>10. \A h : Is(h) <=> h = [n \in Nat |-> Body(h, n)]
    BY Zenon DEF Body
  <1> HIDE DEF Is
  <1>11. Is(f)
    <2>1. f = [n \in Nat |-> f[n]]
      <3> HIDE DEF V
      <3> QED OBVIOUS
    <2>2. \A n \in Nat : f[n] = Body(f, n)
      BY <1>8, <1>9
    <2>3. f = [n \in Nat |-> Body(f, n)]
      <3> HIDE DEF V
      <3> QED BY <2>1, <2>2
    <2> QED BY <1>10, <2>3
  <1> DEFINE g == CHOOSE f_1 : Is(f_1)
  <1>12. Is(g)
    BY <1>11
  <1>13. \A n \in Nat : NamedNumbers(n, names) = g[n]
    BY Zenon DEF NamedNumbers, Is
  <1> HIDE DEF g
  <1>14. \A n \in Nat : g[n] = f[n]
    <2> DEFINE T == {n \in Nat : g[n] # f[n]}
    <2>1. ASSUME T # {} PROVE FALSE
      <3>1. T \subseteq Nat
        OBVIOUS
      <3>2. PICK n \in T : \A k \in T : n <= k
        <4> HIDE DEF T
        <4> QED BY <2>1, <3>1, LeastNumber
      <3>3. n \in Nat /\ g[n] # f[n]
        OBVIOUS
      <3>4. g[n] = IF n = 0 THEN <<>> ELSE First(n) \o g[Left(n)]
        <4>1. g = [k \in Nat |-> Body(g, k)]
          BY <1>10, <1>12
        <4>2. g[n] = Body(g, n)
          BY <3>3, <4>1
        <4> QED BY <1>9, <3>3, <4>2
      <3>5. n # 0 => g[Left(n)] = f[Left(n)]
        <4> DEFINE q == Left(n)
        <4>1. n # 0 => q \in Nat /\ ~ (n <= q)
          BY <1>1, <3>3, SMTT(30)
        <4>2. q \in Nat /\ q \notin T => g[q] = f[q]
          OBVIOUS
        <4> HIDE DEF q, T
        <4>3. n # 0 => g[q] = f[q]
          BY <3>2, <4>1, <4>2
        <4> QED BY <4>3 DEF q
      <3> QED BY <1>8, <3>3, <3>4, <3>5
    <2> QED BY <2>1
  <1>15. \A n \in Nat : f[n] \in V
    OBVIOUS
  <1> HIDE DEF V
  <1>16. \A n \in Nat : NamedNumbers(n, names) = f[n] /\ f[n] \in V
    BY <1>13, <1>14, <1>15
  <1> QED BY <1>1, <1>8, <1>16 DEF V, First, Left

(* The named numbers add up, and end with a plus.                           *)
LEMMA NamedNumbersAddUp ==
    ASSUME NEW names \in SUBSET Nat, 1 \in names
    PROVE  \A n \in Nat : LET Q == NamedNumbers(n, names)
                          IN  /\ Total(Values(Q)) = n
                              /\ n # 0 => Q # <<>> /\ Q[Len(Q)] = Plus
  <1> DEFINE Q(n) == NamedNumbers(n, names)
             Good(n) == /\ Total(Values(Q(n))) = n
                        /\ n # 0 => Q(n) # <<>> /\ Q(n)[Len(Q(n))] = Plus
             T == {n \in Nat : ~ Good(n)}
  <1>1. ASSUME T # {} PROVE FALSE
    <2>1. T \subseteq Nat
      OBVIOUS
    <2>2. PICK n \in T : \A k \in T : n <= k
      <3> HIDE DEF T
      <3> QED BY <1>1, <2>1, LeastNumber
    <2>3. n \in Nat /\ ~ Good(n)
      OBVIOUS
    <2>4. CASE n = 0
      <3> DEFINE e == <<>>
      <3>1. Q(n) = e
        BY <2>4, NamedNumbersDef
      <3>2. Values(e) = <<>>
        BY DEF Values
      <3> HIDE DEF e
      <3>3. Total(Values(e)) = 0
        BY <3>2, TotalOfNone
      <3> QED BY <2>3, <2>4, <3>1, <3>3
    <2>5. CASE n # 0
      <3> DEFINE v == GetNearestNumberVal(n, names)
                 a == GetNearestNumber(n, names)
                 r == Q(n - v)
                 s == <<Plus>> \o r
                 t == <<a>> \o s
      <3>1. v \in 1..n /\ a = [value |-> v, inWords |-> TRUE]
        BY <2>3, <2>5, NearestIsNamed
      <3>2. Q(n) = <<a, Plus>> \o r
        BY <2>3, <2>5, NamedNumbersDef
      <3> HIDE DEF v, a
      <3>3. n - v \in Nat /\ ~ (n <= n - v) /\ v + (n - v) = n /\ v \in Nat
        BY <2>3, <3>1
      <3>4. a \in Named /\ Plus \in Named /\ a.value = v /\ Plus.value = 0
        BY <3>1, <3>3 DEF Named, Plus
      <3>5. r \in Seq(Named)
        BY <3>3, NamedNumbersDef
      <3>6. Good(n - v)
        BY <2>2, <3>3
      <3> DEFINE k == n - v
      <3>7. Total(Values(r)) = k /\ (k # 0 => r # <<>> /\ r[Len(r)] = Plus)
        BY <3>6
      <3>8. k = 0 => r = <<>>
        BY <3>3, NamedNumbersDef
      <3>9. k \in Nat /\ v + k = n
        BY <3>3
      <3> HIDE DEF r, k
      <3>10. Q(n) = t
        BY <3>2, <3>4, <3>5
      <3>11. s \in Seq(Named) /\ t \in Seq(Named)
        BY <3>4, <3>5
      <3>12. Total(Values(s)) = k
        <4>1. Values(s) = <<0>> \o Values(r) /\ Values(r) \in Seq(Nat)
          BY <3>4, <3>5, ValuesOfParts
        <4>2. Total(<<0>> \o Values(r)) = 0 + Total(Values(r))
          BY <4>1, TotalOfCons
        <4>3. Total(<<0>> \o Values(r)) = 0 + k
          BY <3>7, <4>2
        <4>4. 0 + k = k
          BY <3>9
        <4> QED BY <4>1, <4>3, <4>4
      <3>13. Total(Values(t)) = v + k
        <4> HIDE DEF s
        <4>1. Values(t) = <<v>> \o Values(s) /\ Values(s) \in Seq(Nat)
          BY <3>4, <3>11, ValuesOfParts
        <4>2. Total(<<v>> \o Values(s)) = v + Total(Values(s))
          BY <3>3, <4>1, TotalOfCons
        <4> QED BY <3>12, <4>1, <4>2
      <3>14. t # <<>> /\ t[Len(t)] = Plus
        <4>1. Len(t) = Len(r) + 2 /\ Len(r) \in Nat /\ t[2] = Plus /\ \A i \in 1..Len(r) : t[i + 2] = r[i]
          BY <3>4, <3>5
        <4> HIDE DEF t
        <4>2. t # <<>>
          BY <4>1
        <4>3. CASE r = <<>>
          <5>1. Len(r) = 0
            BY <4>3
          <5> QED BY <4>1, <4>2, <5>1
        <4>4. CASE r # <<>>
          <5>1. Len(r) \in 1..Len(r)
            BY <3>5, <4>4
          <5>2. t[Len(r) + 2] = r[Len(r)]
            BY <4>1, <5>1
          <5> QED BY <3>7, <3>8, <4>1, <4>2, <4>4, <5>2
        <4> QED BY <4>3, <4>4
      <3> QED BY <2>3, <3>9, <3>10, <3>13, <3>14
    <2> QED BY <2>4, <2>5
  <1> QED BY <1>1

-----------------------------------------------------------------------------
(* Numbers as hints *)

(* The parts of a first hint are in words and add up.                       *)
LEMMA FirstHintAddsUp ==
    ASSUME NEW names \in SUBSET Nat, 1 \in names, NEW n \in Nat, n # 0
    PROVE  LET hint == MakeFirstHint(to_string(n), names)
           IN  /\ Total([i \in DOMAIN hint |-> hint[i].value]) = n
               /\ \A i \in DOMAIN hint : hint[i].inWords
  <1> DEFINE Q == NamedNumbers(n, names)
             hint == SubSeq(Q, 1, Len(Q) - 1)
  <1>3. Q \in Seq(Named)
    BY NamedNumbersDef
  <1>4. Total(Values(Q)) = n /\ Q # <<>> /\ Q[Len(Q)] = Plus
    BY NamedNumbersAddUp
  <1>5. MakeFirstHint(to_string(n), names) = hint
    BY NumbersReadBack DEF MakeFirstHint
  <1> HIDE DEF Q
  <1>6. Len(Q) \in Nat \ {0} /\ Len(Q) - 1 \in 0..Len(Q) /\ Len(Q) \in 1..Len(Q)
    <2> DEFINE l == Len(Q)
    <2>1. l \in Nat /\ l # 0
      BY <1>3, <1>4
    <2> HIDE DEF l
    <2>2. l - 1 \in 0..l /\ l \in 1..l
      BY <2>1
    <2> QED BY <2>1, <2>2 DEF l
  <1>7. /\ Values(Q) \in Seq(Nat) /\ Len(Values(Q)) = Len(Q) /\ Values(Q)[Len(Q)] = 0
        /\ Values(hint) = SubSeq(Values(Q), 1, Len(Q) - 1)
    <2>1. Plus.value = 0
      BY DEF Plus
    <2> HIDE DEF hint
    <2>2. Values(Q) \in Seq(Nat) /\ Len(Values(Q)) = Len(Q) /\ Values(Q)[Len(Q)] = 0
      BY <1>3, <1>4, <1>6, <2>1, ValuesOfParts
    <2>3. Values(SubSeq(Q, 1, Len(Q) - 1)) = SubSeq(Values(Q), 1, Len(Q) - 1)
      BY <1>3, <1>6, ValuesOfParts
    <2> QED BY <2>2, <2>3 DEF hint
  <1>8. Total(Values(hint)) = n
    <2> DEFINE w == Values(Q)
    <2>1. w \in Seq(Nat) /\ Len(w) = Len(Q) /\ w[Len(Q)] = 0 /\ Total(w) = n /\ w # <<>>
      BY <1>4, <1>6, <1>7
    <2>2. Values(hint) = SubSeq(w, 1, Len(w) - 1)
      BY <1>7, <2>1
    <2> HIDE DEF w, hint
    <2>3. Total(w) = w[Len(w)] + Total(SubSeq(w, 1, Len(w) - 1))
      BY <2>1, TotalOfFront
    <2> DEFINE u == SubSeq(w, 1, Len(w) - 1)
    <2>4. u \in Seq(Nat)
      <3>1. \A i \in 1..(Len(w) - 1) : w[i] \in Nat
        BY <2>1
      <3> QED BY <1>6, <2>1, <3>1, SubSeqProperties
    <2>5. Total(u) \in Nat
      <3> HIDE DEF u
      <3> QED BY <2>4, TotalOfCons
    <2>6. n = 0 + Total(u) /\ Values(hint) = u
      BY <2>1, <2>2, <2>3
    <2> HIDE DEF u
    <2>7. 0 + Total(u) = Total(u)
      BY <2>5
    <2> QED BY <2>6, <2>7
  <1>9. \A i \in DOMAIN hint : hint[i].inWords
    <2>1. DOMAIN hint = 1..(Len(Q) - 1) /\ \A i \in 1..(Len(Q) - 1) : hint[i] = Q[i] /\ Q[i] \in Named
      <3> DEFINE l == Len(Q) - 1
      <3>1. l \in 0..Len(Q) /\ \A i \in 1..l : i \in 1..Len(Q)
        BY <1>6
      <3>2. \A i \in 1..Len(Q) : Q[i] \in Named
        BY <1>3
      <3> HIDE DEF l
      <3>3. DOMAIN SubSeq(Q, 1, l) = 1..l /\ \A i \in 1..l : SubSeq(Q, 1, l)[i] = Q[i]
        BY <1>3, <3>1
      <3> QED BY <3>1, <3>2, <3>3 DEF l
    <2>2. \A a \in Named : a.inWords
      BY DEF Named
    <2> HIDE DEF hint
    <2> QED BY <2>1, <2>2
  <1>10. Total([i \in DOMAIN hint |-> hint[i].value]) = n
    BY <1>8 DEF Values
  <1> HIDE DEF hint
  <1> QED BY <1>5, <1>9, <1>10

(* A second hint is the number.                                             *)
LEMMA SecondHintReadsBack ==
    ASSUME NEW n \in Nat, NEW r \in 1..13
    PROVE  ReadHint(SecondHint(to_string(n), r)) = n
  <1> DEFINE b == IF r \in 3..5 \/ n > 10000 THEN 16 ELSE IF r \in 6..10 THEN 8 ELSE 2
  <1>3. SecondHint(to_string(n), r) =
            IF r < 3 /\ n <= 10000 THEN [base |-> 0, digits |-> dec_to_roman(n)]
            ELSE [base |-> b, digits |-> InBase(n, b)]
    <2>1. from_string(to_string(n)) = n
      BY NumbersReadBack
    <2> HIDE DEF b
    <2>2. SecondHint(to_string(n), r) =
              LET k == from_string(to_string(n))
              IN  IF r < 3 /\ k <= 10000 THEN [base |-> 0, digits |-> dec_to_roman(k)]
                  ELSE LET c == IF r \in 3..5 \/ k > 10000 THEN 16 ELSE IF r \in 6..10 THEN 8 ELSE 2
                       IN  [base |-> c, digits |-> InBase(k, c)]
      BY DEF SecondHint
    <2> QED BY <2>1, <2>2 DEF b
  <1>4. b \in Nat /\ b > 1 /\ b # 0
    <2>1. b = 16 \/ b = 8 \/ b = 2
      <3>1. CASE r \in 3..5 \/ n > 10000
        BY <3>1
      <3>2. CASE ~ (r \in 3..5 \/ n > 10000) /\ r \in 6..10
        BY <3>2
      <3>3. CASE ~ (r \in 3..5 \/ n > 10000) /\ ~ (r \in 6..10)
        BY <3>3
      <3> QED BY <3>1, <3>2, <3>3
    <2> HIDE DEF b
    <2> QED BY <2>1
  <1> HIDE DEF b
  <1>5. ValueOf(InBase(n, b), b) = n
    BY <1>4, ValueOfInBase
  <1>6. Worth(dec_to_roman(n)) = n
    BY RomansReadBack
  <1>7. ReadHint(SecondHint(to_string(n), r)) = n
    <2>1. CASE r < 3 /\ n <= 10000
      <3>1. SecondHint(to_string(n), r) = [base |-> 0, digits |-> dec_to_roman(n)]
        BY <1>3, <2>1
      <3> QED BY <1>6, <3>1 DEF ReadHint
    <2>2. CASE ~ (r < 3 /\ n <= 10000)
      <3>1. SecondHint(to_string(n), r) = [base |-> b, digits |-> InBase(n, b)]
        BY <1>3, <2>2
      <3> QED BY <1>4, <1>5, <3>1 DEF ReadHint
    <2> QED BY <2>1, <2>2
  <1> QED BY <1>7

(* Whatever number is the answer of a question, and whatever numbers the    *)
(* table of names has besides one: the first hint names numbers that add up *)
(* to it, and the second one is the number in the system it is written in.  *)
THEOREM HintsTellNumbers ==
    ASSUME \/ /\ judged.of = "first hint"
              /\ judged.n \in Nat \ {0} /\ judged.names \in SUBSET Nat /\ 1 \in judged.names
           \/ judged.of = "second hint" /\ judged.n \in Nat /\ judged.r \in 1..13
    PROVE  HintsTellTheAnswer
  <1>1. CASE /\ judged.of = "first hint"
             /\ judged.n \in Nat \ {0} /\ judged.names \in SUBSET Nat /\ 1 \in judged.names
    <2>1. /\ judged.of # "number" /\ judged.of # "second hint"
          /\ judged.of # "letters" /\ judged.of # "question"
      BY <1>1
    <2>2. LET hint == MakeFirstHint(to_string(judged.n), judged.names)
          IN  /\ Total([i \in DOMAIN hint |-> hint[i].value]) = judged.n
              /\ \A i \in DOMAIN hint : hint[i].inWords
      BY <1>1, FirstHintAddsUp
    <2> QED BY <2>1, <2>2, Zenon DEF HintsTellTheAnswer
  <1>2. CASE judged.of = "second hint" /\ judged.n \in Nat /\ judged.r \in 1..13
    <2>1. /\ judged.of # "number" /\ judged.of # "first hint"
          /\ judged.of # "letters" /\ judged.of # "question"
      BY <1>2
    <2>2. ReadHint(SecondHint(to_string(judged.n), judged.r)) = judged.n
      BY <1>2, SecondHintReadsBack
    <2> QED BY <2>1, <2>2, Zenon DEF HintsTellTheAnswer
  <1> QED BY <1>1, <1>2

-----------------------------------------------------------------------------
(* Texts in JSON *)

Escaped(c) == IF c \in DOMAIN EscapeCode THEN <<Backslash, EscapeCode[c]>> ELSE <<c>>

(* An escaped character is told apart from the quote that ends a text, and  *)
(* from every other one.                                                    *)
LEMMA Escapes ==
    /\ DOMAIN EscapeCode = {Quote, Backslash, Newline}
    /\ \A c \in DOMAIN EscapeCode : /\ EscapeCode[c] \in {Quote, Backslash, "n"}
                                    /\ {e \in DOMAIN EscapeCode : EscapeCode[e] = EscapeCode[c]} = {c}
    /\ Quote # Backslash /\ Backslash # Newline /\ Quote # Newline
  <1>1. Quote # Backslash /\ Backslash # Newline /\ Quote # Newline
    BY DEF Quote, Backslash, Newline
  <1>2. Quote # "n" /\ Backslash # "n" /\ Newline # "n"
    BY DEF Quote, Backslash, Newline
  <1>4. /\ DOMAIN EscapeCode = {Quote, Backslash, Newline}
        /\ EscapeCode[Newline] = "n" /\ EscapeCode[Quote] = Quote /\ EscapeCode[Backslash] = Backslash
    BY <1>1 DEF EscapeCode
  <1>5. \A c, e \in DOMAIN EscapeCode : EscapeCode[c] = EscapeCode[e] => c = e
    BY <1>1, <1>2, <1>4
  <1>6. \A c \in DOMAIN EscapeCode : EscapeCode[c] \in {Quote, Backslash, "n"}
    BY <1>4
  <1>7. \A c \in DOMAIN EscapeCode : {e \in DOMAIN EscapeCode : EscapeCode[e] = EscapeCode[c]} = {c}
    BY <1>5
  <1> QED BY <1>1, <1>4, <1>6, <1>7

(* What is written of a character is one character or two.                  *)
LEMMA EscapedTexts ==
    ASSUME NEW C, {Quote, Backslash, "n"} \subseteq C, NEW c \in C
    PROVE  /\ Escaped(c) \in Seq(C)
           /\ c \in DOMAIN EscapeCode => /\ Len(Escaped(c)) = 2
                                         /\ Escaped(c)[1] = Backslash /\ Escaped(c)[2] = EscapeCode[c]
           /\ c \notin DOMAIN EscapeCode => Len(Escaped(c)) = 1 /\ Escaped(c)[1] = c
  <1>1. CASE c \in DOMAIN EscapeCode
    <2> DEFINE e == EscapeCode[c]
    <2>1. Escaped(c) = <<Backslash, e>>
      BY <1>1 DEF Escaped
    <2>2. Backslash \in C /\ e \in C
      BY <1>1, Escapes
    <2> HIDE DEF e
    <2>3. <<Backslash, e>> \in Seq(C)
      BY <2>2
    <2> QED BY <1>1, <2>1, <2>3 DEF e
  <1>2. CASE c \notin DOMAIN EscapeCode
    <2>1. Escaped(c) = <<c>>
      BY <1>2 DEF Escaped
    <2>2. <<c>> \in Seq(C)
      BY OneOfSeq
    <2> QED BY <1>2, <2>1, <2>2
  <1> QED BY <1>1, <1>2

(* What is written of a text is that of the characters before the last, and *)
(* of the last.                                                             *)
LEMMA EscapedUpTo ==
    ASSUME NEW C, {Quote, Backslash, "n"} \subseteq C, NEW s \in Seq(C)
    PROVE  \E P \in [0..Len(s) -> Seq(C)] :
              /\ P[0] = <<>>
              /\ \A k \in 1..Len(s) : P[k] = P[k - 1] \o Escaped(s[k])
              /\ escape_json(s) = P[Len(s)]
  <1> DEFINE n == Len(s)
             D == 0..n
             V == Seq(C)
             B == {0}
             p == [k \in D |-> IF k = 0 THEN 0 ELSE k - 1]
             m == [k \in D |-> k]
             start == [k \in D |-> <<>>]
             G == [k \in D |-> [x \in V |-> IF k = 0 THEN x ELSE x \o Escaped(s[k])]]
  <1>1. n \in Nat /\ \A k \in D : k # 0 => k - 1 \in D /\ k \in 1..n /\ s[k] \in C
    OBVIOUS
  <1>2. p \in [D -> D] /\ m \in [D -> Nat]
    BY <1>1
  <1>3. start \in [D -> V]
    OBVIOUS
  <1>4. G \in [D -> [V -> V]]
    <2>1. \A k \in D, x \in V : k # 0 => x \o Escaped(s[k]) \in V
      <3> SUFFICES ASSUME NEW k \in D, NEW x \in V, k # 0 PROVE x \o Escaped(s[k]) \in V
        OBVIOUS
      <3>1. Escaped(s[k]) \in V
        BY <1>1, EscapedTexts
      <3> QED BY <3>1, ConcatProperties
    <2> HIDE DEF V, D
    <2> QED BY <2>1
  <1>5. \A k \in D : k \notin B => m[p[k]] < m[k]
    BY <1>1
  <1>6. PICK P \in [D -> V] : \A k \in D : P[k] = IF k \in B THEN start[k] ELSE G[k][P[p[k]]]
    <2> HIDE DEF D, V, B, p, m, start, G
    <2>1. Descends(D, V, B, p, m, start, G)
      BY <1>2, <1>3, <1>4, <1>5 DEF Descends
    <2> QED BY <2>1, Recursion
  <1>7. 0 \in D /\ P[0] = <<>>
    <2>1. 0 \in D /\ 0 \in B
      BY <1>1
    <2>2. P[0] = start[0] /\ start[0] = <<>>
      BY <1>6, <2>1
    <2> QED BY <2>1, <2>2
  <1>8. \A k \in 1..n : P[k] = P[k - 1] \o Escaped(s[k])
    <2> TAKE k \in 1..n
    <2>1. k \in D /\ k # 0 /\ k - 1 \in D
      BY <1>1
    <2>2. P[k] = G[k][P[p[k]]] /\ p[k] = k - 1 /\ P[k - 1] \in V
      BY <1>6, <2>1
    <2> HIDE DEF V, D, p
    <2>3. P[k] = G[k][P[k - 1]]
      BY <2>2
    <2> QED BY <2>1, <2>2, <2>3
  <1> DEFINE seqs == [i \in DOMAIN s |-> Escaped(s[i])]
  <1>9. DOMAIN seqs = 1..n /\ Len(seqs) = n /\ \A i \in 1..n : seqs[i] = Escaped(s[i])
    OBVIOUS
  <1>10. escape_json(s) = FlattenSeq(seqs)
    BY Zenon DEF escape_json, Escaped
  <1> HIDE DEF seqs
  <1>11. FlattenSeq(seqs) = P[n]
    <2>1. CASE n = 0
      <3>1. FlattenSeq(seqs) = seqs
        BY <1>9, <2>1 DEF FlattenSeq
      <3>2. seqs = <<>>
        BY <2>1 DEF seqs
      <3> QED BY <1>7, <2>1, <3>1, <3>2
    <2>2. CASE n # 0
      <3> DEFINE Is(f) == f = [i \in 1..Len(seqs) |-> IF i = 1 THEN seqs[i] ELSE f[i - 1] \o seqs[i]]
                 f == [i \in 1..n |-> P[i]]
      <3>1. Is(f)
        <4>1. \A i \in 1..n : P[i] = IF i = 1 THEN seqs[i] ELSE f[i - 1] \o seqs[i]
          <5> TAKE i \in 1..n
          <5>0. i \in D /\ i # 0
            BY <1>1
          <5>1. P[i] = P[i - 1] \o seqs[i] /\ seqs[i] = Escaped(s[i]) /\ s[i] \in C
            <6>1. P[i] = P[i - 1] \o Escaped(s[i])
              BY <1>8
            <6>2. seqs[i] = Escaped(s[i])
              BY <1>9
            <6> QED BY <1>1, <5>0, <6>1, <6>2
          <5>2. CASE i = 1
            <6>1. P[i - 1] = <<>>
              BY <1>7, <5>2
            <6>2. seqs[i] \in Seq(C)
              BY <5>1, EscapedTexts
            <6>3. <<>> \o seqs[i] = seqs[i]
              BY <6>2
            <6> QED BY <5>1, <5>2, <6>1, <6>3
          <5>3. CASE i # 1
            <6>1. i - 1 \in 1..n
              BY <1>1, <5>3
            <6>2. f[i - 1] = P[i - 1]
              BY <6>1
            <6> QED BY <5>1, <5>3, <6>2
          <5> QED BY <5>2, <5>3
        <4> HIDE DEF n
        <4> QED BY <1>9, <4>1
      <3> DEFINE g == CHOOSE f_1 : Is(f_1)
      <3>2. Is(g)
        <4> HIDE DEF Is
        <4> QED BY <3>1
      <3>3. FlattenSeq(seqs) = g[Len(seqs)]
        <4>1. Len(seqs) # 0
          BY <1>9, <2>2
        <4> QED BY <4>1, Zenon DEF FlattenSeq
      <3>4. \A i \in 1..n : g[i] = f[i]
        <4> DEFINE T == {i \in 1..n : g[i] # f[i]}
        <4>1. ASSUME T # {} PROVE FALSE
          <5>1. T \subseteq Nat
            <6>1. T \subseteq 1..n
              OBVIOUS
            <6>2. 1..n \subseteq Nat
              BY <1>1
            <6> HIDE DEF T
            <6> QED BY <6>1, <6>2
          <5>2. PICK i \in T : \A j \in T : i <= j
            <6> HIDE DEF T
            <6> QED BY <4>1, <5>1, LeastNumber
          <5>3. i \in 1..n /\ i \in Nat /\ g[i] # f[i] /\ i \in 1..Len(seqs)
            BY <1>1, <1>9
          <5>4. g[i] = IF i = 1 THEN seqs[i] ELSE g[i - 1] \o seqs[i]
            <6> HIDE DEF g
            <6> QED BY <3>2, <5>3
          <5>5. f[i] = IF i = 1 THEN seqs[i] ELSE f[i - 1] \o seqs[i]
            <6> HIDE DEF f
            <6> QED BY <3>1, <5>3
          <5> HIDE DEF g, f
          <5>6. i # 1 => g[i - 1] = f[i - 1]
            <6>1. i # 1 => i - 1 \in 1..n /\ ~ (i <= i - 1)
              BY <1>1, <5>3
            <6> QED BY <5>2, <6>1
          <5> QED BY <5>3, <5>4, <5>5, <5>6
        <4> HIDE DEF g, f
        <4> QED BY <4>1
      <3>5. n \in 1..n /\ f[n] = P[n]
        BY <1>1, <2>2
      <3> HIDE DEF g, f
      <3> QED BY <1>9, <3>3, <3>4, <3>5
    <2> QED BY <2>1, <2>2
  <1> QED BY <1>7, <1>8, <1>10, <1>11

(* The end of a text.                                                       *)
LEMMA EndOfText ==
    ASSUME NEW C, NEW s \in Seq(C), NEW a \in 1..(Len(s) + 1)
    PROVE  /\ SubSeq(s, a, Len(s)) \in Seq(C)
           /\ Len(SubSeq(s, a, Len(s))) = Len(s) - a + 1
           /\ \A i \in 1..(Len(s) - a + 1) : SubSeq(s, a, Len(s))[i] = s[a + i - 1]
  <1> DEFINE l == Len(s)
  <1>1. l \in Nat /\ l \in Int /\ a \in Int /\ a <= l + 1 /\ \A i \in a..l : s[i] \in C
    OBVIOUS
  <1> HIDE DEF l
  <1>2. /\ SubSeq(s, a, l) \in Seq(C)
        /\ Len(SubSeq(s, a, l)) = IF a <= l THEN l - a + 1 ELSE 0
        /\ \A i \in 1..(l - a + 1) : SubSeq(s, a, l)[i] = s[a + i - 1]
    BY <1>1, SubSeqProperties
  <1>3. Len(SubSeq(s, a, l)) = l - a + 1
    BY <1>1, <1>2
  <1> QED BY <1>2, <1>3 DEF l

(* What is written of a text grows with the text.                           *)
Grows(C, n, P, e) ==
    /\ n \in Nat /\ P \in [0..n -> Seq(C)] /\ e \in [1..n -> Seq(C)]
    /\ \A k \in 1..n : P[k] = P[k - 1] \o e[k]
StartsAlike(n, P) ==
    \A j \in 0..n : \A k \in 0..j : /\ Len(P[k]) <= Len(P[j])
                                   /\ \A i \in 1..Len(P[k]) : P[j][i] = P[k][i]

(* It starts with what is written of the start of the text.                 *)
LEMMA EscapedStarts ==
    ASSUME NEW C, NEW n, NEW P, NEW e, Grows(C, n, P, e)
    PROVE  StartsAlike(n, P)
  <1> USE DEF StartsAlike
  <1> /\ n \in Nat /\ P \in [0..n -> Seq(C)] /\ e \in [1..n -> Seq(C)]
      /\ \A k \in 1..n : P[k] = P[k - 1] \o e[k]
    BY DEF Grows
  <1> DEFINE Good(k, j) == Len(P[k]) <= Len(P[j]) /\ \A i \in 1..Len(P[k]) : P[j][i] = P[k][i]
             T == {j \in 0..n : \E k \in 0..j : ~ Good(k, j)}
  <1>1. ASSUME T # {} PROVE FALSE
    <2>1. T \subseteq Nat
      <3>1. T \subseteq 0..n
        OBVIOUS
      <3>2. 0..n \subseteq Nat
        OBVIOUS
      <3> HIDE DEF T
      <3> QED BY <3>1, <3>2
    <2>2. PICK j \in T : \A l \in T : j <= l
      <3> HIDE DEF T
      <3> QED BY <1>1, <2>1, LeastNumber
    <2>3. j \in 0..n /\ j \in Nat
      OBVIOUS
    <2>4. PICK k \in 0..j : ~ Good(k, j)
      OBVIOUS
    <2>5. \A l \in 0..n : Len(P[l]) \in Nat /\ P[l] \in Seq(C)
      OBVIOUS
    <2>6. CASE k = j
      BY <2>3, <2>4, <2>5, <2>6
    <2>7. CASE k # j
      <3> DEFINE h == j - 1
      <3>1. h \in 0..n /\ k \in 0..h /\ j \in 1..n /\ ~ (j <= h) /\ k \in 0..n
        BY <2>3, <2>7
      <3>2. h \notin T
        <4> HIDE DEF T, h
        <4> QED BY <2>2, <3>1
      <3>3. Good(k, h)
        BY <3>1, <3>2
      <3>4. P[j] = P[h] \o e[j] /\ e[j] \in Seq(C)
        BY <3>1
      <3> HIDE DEF h
      <3>5. P[h] \in Seq(C) /\ Len(P[h]) \in Nat /\ Len(P[k]) \in Nat
        BY <2>5, <3>1
      <3>6. Len(P[h]) <= Len(P[j]) /\ Len(P[j]) \in Nat /\ \A i \in 1..Len(P[h]) : P[j][i] = P[h][i]
        <4> DEFINE x == P[h]
                   y == e[j]
        <4>1. x \in Seq(C) /\ y \in Seq(C) /\ P[j] = x \o y
          BY <3>4, <3>5
        <4> HIDE DEF x, y
        <4>2. /\ Len(x \o y) = Len(x) + Len(y) /\ Len(x) \in Nat /\ Len(y) \in Nat
              /\ \A i \in 1..Len(x) : (x \o y)[i] = x[i]
          BY <4>1
        <4>3. Len(x) <= Len(x \o y) /\ Len(x \o y) \in Nat
          BY <4>2
        <4> QED BY <4>1, <4>2, <4>3 DEF x
      <3>7. Len(P[k]) <= Len(P[j])
        BY <3>3, <3>5, <3>6
      <3>8. \A i \in 1..Len(P[k]) : i \in 1..Len(P[h])
        BY <3>3, <3>5
      <3>9. \A i \in 1..Len(P[k]) : P[j][i] = P[k][i]
        BY <3>3, <3>6, <3>8
      <3> QED BY <2>4, <3>7, <3>9
    <2> QED BY <2>6, <2>7
  <1> QED BY <1>1

(* What ReadText makes of a text from some character on.                    *)
Codes(s, i) == IF s[i] = Backslash /\ i < Len(s)
                 THEN {c \in DOMAIN EscapeCode : EscapeCode[c] = s[i + 1]} ELSE {}
ReadOne(s, i) == IF s[i] = Backslash THEN CHOOSE c \in Codes(s, i) : TRUE ELSE s[i]
After(s, i) == i + IF s[i] = Backslash THEN 2 ELSE 1
Stops(s, i) == \/ i > Len(s) \/ s[i] = Newline \/ s[i] = Quote
               \/ s[i] = Backslash /\ Codes(s, i) = {}
StopsWith(s, i) == IF i > Len(s) \/ s[i] = Newline THEN Unreadable
                   ELSE IF s[i] = Quote THEN [value |-> <<>>, rest |-> SubSeq(s, i + 1, Len(s))]
                   ELSE Unreadable
Reads(from, s) ==
    \A i \in 1..(Len(s) + 2) :
        from[i] = IF Stops(s, i) THEN StopsWith(s, i)
                  ELSE [from[After(s, i)] EXCEPT !.value = <<ReadOne(s, i)>> \o @]

(* The recursion of ReadText has a solution, the first value of which it    *)
(* returns.                                                                 *)
LEMMA ReadTextDef ==
    ASSUME NEW C, NEW s \in Seq(C)
    PROVE  \E from : Reads(from, s) /\ ReadText(s) = from[1]
  <1> DEFINE l == Len(s) + 2
             D == 1..l
             A == C \cup DOMAIN EscapeCode
             V == [value : Seq(A), rest : Seq(C)]
             B == {i \in D : Stops(s, i)}
             p == [i \in D |-> IF i \in B THEN i ELSE After(s, i)]
             m == [i \in D |-> l - i]
             start == [i \in D |-> StopsWith(s, i)]
             G == [i \in D |-> [x \in V |-> IF i \in B THEN x ELSE [x EXCEPT !.value = <<ReadOne(s, i)>> \o @]]]
             Body(f, i) ==
                IF i > Len(s) \/ s[i] = Newline THEN Unreadable
                ELSE IF s[i] = Quote THEN [value |-> <<>>, rest |-> SubSeq(s, i + 1, Len(s))]
                ELSE LET escaped == s[i] = Backslash
                         codes == IF escaped /\ i < Len(s)
                                    THEN {c \in DOMAIN EscapeCode : EscapeCode[c] = s[i + 1]} ELSE {}
                         next == f[i + IF escaped THEN 2 ELSE 1]
                     IN  IF escaped /\ codes = {} THEN Unreadable
                         ELSE [next EXCEPT !.value =
                                 <<IF escaped THEN CHOOSE c \in codes : TRUE ELSE s[i]>> \o @]
             Is(f) == f = [i \in 1..(Len(s) + 2) |-> Body(f, i)]
  <1>1. Len(s) \in Nat /\ l \in Nat /\ l > 1 /\ \A i \in 1..Len(s) : s[i] \in C
    OBVIOUS
  <1>2. ASSUME NEW i \in D, i \notin B
        PROVE  /\ i \in 1..Len(s) /\ After(s, i) \in D /\ i < After(s, i) /\ ReadOne(s, i) \in A
    <2>1. i \in 1..Len(s)
      <3>1. ~ (i > Len(s))
        BY <1>2 DEF Stops
      <3> QED BY <1>1, <3>1
    <2>2. After(s, i) \in D /\ i < After(s, i)
      <3>1. After(s, i) = i + 2 \/ After(s, i) = i + 1
        BY DEF After
      <3> QED BY <1>1, <2>1, <3>1
    <2>3. ReadOne(s, i) \in A
      <3>1. CASE s[i] = Backslash
        <4>1. Codes(s, i) # {} /\ Codes(s, i) \subseteq DOMAIN EscapeCode
          BY <1>2, <3>1 DEF Stops, Codes
        <4>2. ReadOne(s, i) \in Codes(s, i)
          BY <3>1, <4>1 DEF ReadOne
        <4> QED BY <4>1, <4>2
      <3>2. CASE s[i] # Backslash
        BY <1>1, <2>1, <3>2 DEF ReadOne
      <3> QED BY <3>1, <3>2
    <2> QED BY <2>1, <2>2, <2>3
  <1>3. Unreadable \in V
    BY DEF Unreadable
  <1>4. \A i \in D : StopsWith(s, i) \in V
    <2> TAKE i \in D
    <2>1. CASE i > Len(s) \/ s[i] = Newline
      BY <1>3, <2>1 DEF StopsWith
    <2>2. CASE ~ (i > Len(s) \/ s[i] = Newline) /\ s[i] = Quote
      <3> DEFINE r == SubSeq(s, i + 1, Len(s))
      <3>1. r \in Seq(C)
        <4>1. \A k \in (i + 1)..Len(s) : s[k] \in C
          BY <1>1
        <4>2. i + 1 \in Int /\ Len(s) \in Int
          BY <1>1
        <4> QED BY <4>1, <4>2, SubSeqProperties
      <3>2. StopsWith(s, i) = [value |-> <<>>, rest |-> r]
        BY <2>2 DEF StopsWith
      <3> HIDE DEF r
      <3>3. <<>> \in Seq(A)
        OBVIOUS
      <3> QED BY <3>1, <3>2, <3>3
    <2>3. CASE ~ (i > Len(s) \/ s[i] = Newline) /\ s[i] # Quote
      BY <1>3, <2>3 DEF StopsWith
    <2> QED BY <2>1, <2>2, <2>3
  <1>5. p \in [D -> D]
    <2> HIDE DEF D, B
    <2> QED BY <1>2
  <1>6. m \in [D -> Nat]
    BY <1>1
  <1>7. start \in [D -> V]
    <2> HIDE DEF D, V
    <2> QED BY <1>4
  <1>8. G \in [D -> [V -> V]]
    <2>1. ASSUME NEW i \in D, i \notin B, NEW x \in V
          PROVE  [x EXCEPT !.value = <<ReadOne(s, i)>> \o @] \in V
      <3> DEFINE a == ReadOne(s, i)
      <3>1. a \in A
        BY <1>2, <2>1
      <3> HIDE DEF a, A
      <3>2. <<a>> \in Seq(A) /\ x.value \in Seq(A) /\ x.rest \in Seq(C)
        BY <3>1, OneOfSeq
      <3>3. <<a>> \o x.value \in Seq(A)
        BY <3>2, ConcatProperties
      <3> DEFINE SA == Seq(A)
                 SC == Seq(C)
                 w == <<a>> \o x.value
      <3>4. x \in [value : SA, rest : SC] /\ w \in SA
        BY <3>3
      <3> HIDE DEF SA, SC, w
      <3>5. [x EXCEPT !.value = w] \in [value : SA, rest : SC]
        BY <3>4
      <3>6. [x EXCEPT !.value = <<a>> \o @] \in V
        BY <3>5 DEF SA, SC, w
      <3> QED BY <3>6 DEF a
    <2> HIDE DEF D, V, B
    <2> QED BY <2>1
  <1>9. \A i \in D : i \notin B => m[p[i]] < m[i]
    <2> TAKE i \in D
    <2> SUFFICES ASSUME i \notin B PROVE m[p[i]] < m[i]
      OBVIOUS
    <2> DEFINE j == After(s, i)
    <2>1. p[i] = j /\ j \in D /\ i < j
      <3> HIDE DEF D, B
      <3> QED BY <1>2
    <2>2. m[j] = l - j /\ m[i] = l - i
      BY <2>1
    <2> HIDE DEF j
    <2>3. l - j < l - i
      BY <1>1, <2>1
    <2> QED BY <2>1, <2>2, <2>3
  <1>10. PICK f \in [D -> V] : \A i \in D : f[i] = IF i \in B THEN start[i] ELSE G[i][f[p[i]]]
    <2> HIDE DEF D, V, B, p, m, start, G, Is, Body
    <2>1. Descends(D, V, B, p, m, start, G)
      BY <1>5, <1>6, <1>7, <1>8, <1>9 DEF Descends
    <2> QED BY <2>1, Recursion
  <1> DEFINE Step(h, i) == IF Stops(s, i) THEN StopsWith(s, i)
                           ELSE [h[After(s, i)] EXCEPT !.value = <<ReadOne(s, i)>> \o @]
  <1>11. \A i \in D : f[i] = Step(f, i)
    <2> TAKE i \in D
    <2>1. f[i] = IF i \in B THEN start[i] ELSE G[i][f[p[i]]]
      BY <1>10
    <2>2. i \in B <=> Stops(s, i)
      OBVIOUS
    <2>3. start[i] = StopsWith(s, i)
      OBVIOUS
    <2>4. i \notin B => p[i] = After(s, i) /\ f[p[i]] \in V
      <3> HIDE DEF D, B, V
      <3> QED BY <1>2
    <2>5. i \notin B => G[i][f[p[i]]] = [f[p[i]] EXCEPT !.value = <<ReadOne(s, i)>> \o @]
      <3> HIDE DEF p, V, B, D
      <3> QED BY <2>4
    <2> HIDE DEF G, p, B, start
    <2>6. CASE Stops(s, i)
      BY <2>1, <2>2, <2>3, <2>6
    <2>7. CASE ~ Stops(s, i)
      BY <2>1, <2>2, <2>4, <2>5, <2>7
    <2> QED BY <2>6, <2>7
  <1>12. \A h : \A i \in D : Body(h, i) = Step(h, i)
    <2> TAKE h
    <2> TAKE i \in D
    <2>1. CASE i > Len(s) \/ s[i] = Newline
      <3>1. Stops(s, i) /\ StopsWith(s, i) = Unreadable
        BY <2>1 DEF Stops, StopsWith
      <3> QED BY <2>1, <3>1
    <2>2. CASE ~ (i > Len(s) \/ s[i] = Newline) /\ s[i] = Quote
      <3>1. Stops(s, i) /\ StopsWith(s, i) = [value |-> <<>>, rest |-> SubSeq(s, i + 1, Len(s))]
        BY <2>2 DEF Stops, StopsWith
      <3> QED BY <2>2, <3>1
    <2>3. CASE ~ (i > Len(s) \/ s[i] = Newline) /\ s[i] # Quote
      <3>1. Body(h, i) = IF s[i] = Backslash /\ Codes(s, i) = {} THEN Unreadable
                         ELSE [h[After(s, i)] EXCEPT !.value = <<ReadOne(s, i)>> \o @]
        BY <2>3, Zenon DEF Codes, After, ReadOne
      <3>2. Stops(s, i) <=> s[i] = Backslash /\ Codes(s, i) = {}
        BY <2>3 DEF Stops
      <3>3. StopsWith(s, i) = Unreadable
        BY <2>3 DEF StopsWith
      <3> HIDE DEF Body
      <3>4. CASE Stops(s, i)
        BY <3>1, <3>2, <3>3, <3>4
      <3>5. CASE ~ Stops(s, i)
        BY <3>1, <3>2, <3>5
      <3> QED BY <3>4, <3>5
    <2> QED BY <2>1, <2>2, <2>3
  <1> HIDE DEF Body, Step
  <1>13. Is(f)
    <2>1. f = [i \in D |-> f[i]]
      <3> HIDE DEF D, V
      <3> QED OBVIOUS
    <2>2. \A i \in D : f[i] = Body(f, i)
      BY <1>11, <1>12
    <2>3. f = [i \in D |-> Body(f, i)]
      <3> HIDE DEF D, V
      <3> QED BY <2>1, <2>2
    <2> QED BY <2>3
  <1> DEFINE g == CHOOSE f_1 : Is(f_1)
  <1>14. Is(g)
    <2> HIDE DEF Is
    <2> QED BY <1>13
  <1>15. ReadText(s) = g[1]
    BY Zenon DEF ReadText, Body
  <1> HIDE DEF g
  <1>16. \A i \in D : g[i] = Body(g, i)
    BY <1>14
  <1>17. \A i \in D : g[i] = Step(g, i)
    BY <1>12, <1>16
  <1>18. Reads(g, s)
    BY <1>17, Zenon DEF Reads, Step
  <1> QED BY <1>15, <1>18

(* A text reads back as it was, and the reader stops at its end.            *)
THEOREM EscapedTextsReadBack ==
    ASSUME NEW S, NEW text \in Seq(S), NEW more \in Seq(S)
    PROVE  ReadText(escape_json(text) \o <<Quote>> \o more) = [value |-> text, rest |-> more]
  <1> DEFINE C == S \cup {Quote, Backslash, "n"}
             n == Len(text)
             e == [k \in 1..n |-> Escaped(text[k])]
             escaped == escape_json(text)
             s == escaped \o <<Quote>> \o more
  <1>1. {Quote, Backslash, "n"} \subseteq C /\ S \subseteq C
    OBVIOUS
  <1> HIDE DEF C
  <1>2. text \in Seq(C) /\ more \in Seq(C)
    BY <1>1, SeqMonotonic
  <1>3. n \in Nat /\ \A k \in 1..n : text[k] \in C
    BY <1>2
  <1>4. PICK P \in [0..n -> Seq(C)] :
              /\ P[0] = <<>>
              /\ \A k \in 1..n : P[k] = P[k - 1] \o Escaped(text[k])
              /\ escaped = P[n]
    BY <1>1, <1>2, EscapedUpTo
  <1>5. e \in [1..n -> Seq(C)] /\ \A k \in 1..n : P[k] = P[k - 1] \o e[k]
    <2>1. \A k \in 1..n : Escaped(text[k]) \in Seq(C)
      BY <1>1, <1>3, EscapedTexts
    <2> HIDE DEF n
    <2> QED BY <1>4, <2>1
  <1>6. \A k \in 0..n : /\ Len(P[k]) <= Len(P[n])
                        /\ \A i \in 1..Len(P[k]) : P[n][i] = P[k][i]
    <2> HIDE DEF n, e
    <2>1. n \in 0..n
      BY <1>3
    <2>2. Grows(C, n, P, e)
      BY <1>3, <1>5 DEF Grows
    <2>3. StartsAlike(n, P)
      BY <2>2, EscapedStarts
    <2> QED BY <2>1, <2>3 DEF StartsAlike
  <1>7. \A k \in 0..n : P[k] \in Seq(C) /\ Len(P[k]) \in Nat
    OBVIOUS
  <1>8. escaped \in Seq(C) /\ n \in 0..n
    BY <1>3, <1>4
  <1>9. Quote \in C
    BY <1>1
  <1> HIDE DEF escaped, n, e
  <1>10. /\ s \in Seq(C) /\ Len(s) = Len(escaped) + 1 + Len(more)
         /\ \A i \in 1..Len(escaped) : s[i] = escaped[i]
         /\ s[Len(escaped) + 1] = Quote
         /\ \A i \in 1..Len(more) : s[Len(escaped) + 1 + i] = more[i]
         /\ Len(escaped) \in Nat /\ Len(more) \in Nat
    BY <1>2, <1>8, <1>9
  <1> HIDE DEF s
  <1>11. SubSeq(s, Len(escaped) + 2, Len(s)) = more
    <2> DEFINE l == Len(escaped)
    <2>1. /\ l \in Nat /\ Len(s) = l + 1 + Len(more) /\ Len(more) \in Nat
          /\ \A i \in 1..Len(more) : s[l + 1 + i] = more[i]
      BY <1>10
    <2> HIDE DEF l
    <2> DEFINE a == l + 2
    <2>2. a \in 1..(Len(s) + 1) /\ Len(s) - a + 1 = Len(more) /\ \A i \in 1..Len(more) : a + i - 1 = l + 1 + i
      BY <2>1
    <2> HIDE DEF a
    <2>3. /\ SubSeq(s, a, Len(s)) \in Seq(C) /\ Len(SubSeq(s, a, Len(s))) = Len(more)
          /\ \A i \in 1..Len(more) : SubSeq(s, a, Len(s))[i] = s[a + i - 1]
      BY <1>10, <2>2, EndOfText
    <2>4. \A i \in 1..Len(more) : SubSeq(s, a, Len(s))[i] = more[i]
      BY <2>1, <2>2, <2>3
    <2>5. SubSeq(s, a, Len(s)) = more
      BY <1>2, <2>3, <2>4, SeqEqual
    <2> QED BY <2>5 DEF a, l
  <1>12. PICK from : Reads(from, s) /\ ReadText(s) = from[1]
    BY <1>10, ReadTextDef
  <1> DEFINE Good(k) == from[Len(P[k]) + 1] = [value |-> SubSeq(text, k + 1, n), rest |-> more]
  <1>13. Good(n)
    <2> DEFINE l == Len(escaped) + 1
    <2>1. l \in 1..(Len(s) + 2) /\ ~ (l > Len(s)) /\ s[l] = Quote
      BY <1>10
    <2>2. SubSeq(s, l + 1, Len(s)) = more
      <3>1. l + 1 = Len(escaped) + 2
        BY <1>10
      <3> QED BY <1>11, <3>1
    <2> HIDE DEF l
    <2>3. Stops(s, l) /\ StopsWith(s, l) = [value |-> <<>>, rest |-> more]
      BY <2>1, <2>2, Escapes DEF Stops, StopsWith
    <2>4. from[l] = [value |-> <<>>, rest |-> more]
      BY <1>12, <2>1, <2>3 DEF Reads
    <2>5. SubSeq(text, n + 1, n) = <<>>
      BY <1>3, SubSeqEmpty
    <2> QED BY <1>4, <2>4, <2>5 DEF l
  <1>14. ASSUME NEW k \in 0..n, k # n, Good(k + 1)
         PROVE  Good(k)
    <2> DEFINE l == Len(P[k])
               c == text[k + 1]
               m == SubSeq(text, k + 2, n)
    <2>1. k + 1 \in 1..n /\ k + 1 \in 0..n /\ k + 1 - 1 = k /\ c \in C /\ k + 1 + 1 = k + 2
      BY <1>3, <1>14
    <2>2. P[k + 1] = P[k] \o e[k + 1] /\ P[k] \in Seq(C) /\ e[k + 1] \in Seq(C) /\ e[k + 1] = Escaped(c)
      <3>1. P[k + 1] = P[(k + 1) - 1] \o e[k + 1]
        BY <1>5, <2>1
      <3>2. e[k + 1] = Escaped(c)
        BY <2>1 DEF e
      <3>3. P[k] \in Seq(C) /\ e[k + 1] \in Seq(C)
        BY <1>5, <1>7, <2>1
      <3> QED BY <2>1, <3>1, <3>2, <3>3
    <2>3. SubSeq(text, k + 1, n) = <<c>> \o m
      <3>0. Len(text) = n /\ k + 1 \in 1..(n + 1) /\ k + 2 \in 1..(n + 1)
        BY <1>3, <2>1 DEF n
      <3>1. /\ SubSeq(text, k + 1, n) \in Seq(C) /\ Len(SubSeq(text, k + 1, n)) = n - (k + 1) + 1
            /\ \A i \in 1..(n - (k + 1) + 1) : SubSeq(text, k + 1, n)[i] = text[(k + 1) + i - 1]
        BY <1>2, <3>0, EndOfText
      <3>2. /\ m \in Seq(C) /\ Len(m) = n - (k + 2) + 1
            /\ \A i \in 1..(n - (k + 2) + 1) : m[i] = text[(k + 2) + i - 1]
        BY <1>2, <3>0, EndOfText
      <3>3. <<c>> \in Seq(C)
        BY <2>1, OneOfSeq
      <3>4. /\ n - (k + 1) + 1 = n - k /\ n - (k + 2) + 1 = n - k - 1
            /\ \A i \in Int : (k + 1) + i - 1 = k + i /\ (k + 2) + i - 1 = k + 1 + i
        BY <1>3, <2>1
      <3>10. \A i \in 1..(n - k) : SubSeq(text, k + 1, n)[i] = text[k + i]
        BY <3>1, <3>4
      <3>5. \A i \in 1..(n - k - 1) : m[i] = text[k + 1 + i]
        BY <3>2, <3>4
      <3> DEFINE u == <<c>> \o m
      <3>6. u \in Seq(C) /\ Len(u) = 1 + Len(m) /\ u[1] = c /\ \A i \in 1..Len(m) : u[i + 1] = m[i]
        <4> HIDE DEF m, c
        <4> QED BY <2>1, <3>2
      <3> HIDE DEF u, m
      <3>7. \A i \in 1..(n - k) : u[i] = text[k + i]
        <4> TAKE i \in 1..(n - k)
        <4>1. CASE i = 1
          BY <3>6, <4>1
        <4>2. CASE i # 1
          <5> DEFINE j == i - 1
          <5>1. j \in 1..(n - k - 1) /\ i = j + 1 /\ k + 1 + j = k + i
            BY <1>3, <2>1, <4>2
          <5> HIDE DEF j
          <5>2. u[i] = m[j] /\ m[j] = text[k + 1 + j]
            <6>1. j \in 1..Len(m)
              BY <3>2, <3>4, <5>1
            <6> QED BY <3>5, <3>6, <5>1, <6>1
          <5> QED BY <5>1, <5>2
        <4> QED BY <4>1, <4>2
      <3>8. Len(u) = n - k
        BY <1>3, <2>1, <3>2, <3>4, <3>6
      <3>9. SubSeq(text, k + 1, n) = u
        <4> DEFINE v == SubSeq(text, k + 1, n)
        <4>1. v \in Seq(C) /\ Len(v) = Len(u) /\ \A i \in 1..Len(v) : v[i] = u[i]
          BY <3>1, <3>4, <3>7, <3>8, <3>10
        <4> HIDE DEF v
        <4>2. v = u
          BY <3>6, <4>1, SeqEqual
        <4> QED BY <4>2 DEF v
      <3> QED BY <3>9 DEF u
    <2>4. from[Len(P[k + 1]) + 1] = [value |-> m, rest |-> more]
      BY <1>14, <2>1
    <2> DEFINE x == Escaped(c)
    <2>5. /\ x \in Seq(C)
          /\ c \in DOMAIN EscapeCode => Len(x) = 2 /\ x[1] = Backslash /\ x[2] = EscapeCode[c]
          /\ c \notin DOMAIN EscapeCode => Len(x) = 1 /\ x[1] = c
      BY <1>1, <2>1, EscapedTexts
    <2> HIDE DEF c, x, m
    <2>6. /\ Len(P[k + 1]) = l + Len(x) /\ l \in Nat /\ Len(x) \in Nat
          /\ \A i \in 1..Len(x) : P[k + 1][l + i] = x[i]
      <3> DEFINE y == P[k]
      <3>1. y \in Seq(C) /\ P[k + 1] = y \o x
        BY <2>2 DEF x
      <3> HIDE DEF y
      <3>2. /\ Len(y \o x) = Len(y) + Len(x) /\ Len(y) \in Nat /\ Len(x) \in Nat
            /\ \A i \in 1..Len(x) : (y \o x)[Len(y) + i] = x[i]
        BY <2>5, <3>1
      <3> QED BY <3>1, <3>2 DEF y
    <2> HIDE DEF l
    <2>7. l + Len(x) <= Len(escaped)
      BY <1>4, <1>6, <2>1, <2>6
    <2>8. \A i \in 1..Len(x) : s[l + i] = x[i]
      <3> TAKE i \in 1..Len(x)
      <3>1. l + i \in 1..Len(P[k + 1]) /\ l + i \in 1..Len(escaped)
        BY <1>10, <2>6, <2>7, SMTT(30)
      <3>2. P[n][l + i] = P[k + 1][l + i]
        BY <1>6, <2>1, <3>1
      <3>3. s[l + i] = escaped[l + i]
        BY <1>10, <3>1
      <3> QED BY <1>4, <2>6, <3>2, <3>3
    <2> DEFINE i == l + 1
    <2>9. i \in 1..(Len(s) + 2) /\ ~ (i > Len(s)) /\ i + 1 = l + 2 /\ i + 2 = l + 2 + 1
      <3>1. Len(x) \in {1, 2}
        BY <2>5
      <3> QED BY <1>10, <2>6, <2>7, <3>1
    <2>10. ~ Stops(s, i) /\ ReadOne(s, i) = c /\ After(s, i) = l + Len(x) + 1
      <3>1. CASE c \in DOMAIN EscapeCode
        <4>1. s[i] = Backslash /\ s[i + 1] = EscapeCode[c] /\ Len(x) = 2
          <5>1. Len(x) = 2 /\ x[1] = Backslash /\ x[2] = EscapeCode[c] /\ 1 \in 1..2 /\ 2 \in 1..2
            BY <2>5, <3>1
          <5> QED BY <2>8, <2>9, <5>1
        <4>2. i < Len(s)
          BY <1>10, <2>6, <2>7, <4>1
        <4> HIDE DEF i
        <4>3. Codes(s, i) = {c}
          BY <3>1, <4>1, <4>2, Escapes DEF Codes
        <4>4. ~ Stops(s, i)
          BY <2>9, <4>1, <4>3, Escapes DEF Stops
        <4>5. ReadOne(s, i) = c
          BY <4>1, <4>3 DEF ReadOne
        <4>6. After(s, i) = i + 2
          BY <4>1 DEF After
        <4> QED BY <2>6, <2>9, <4>1, <4>4, <4>5, <4>6
      <3>2. CASE c \notin DOMAIN EscapeCode
        <4>1. s[i] = c /\ Len(x) = 1
          <5>1. Len(x) = 1 /\ x[1] = c /\ 1 \in 1..1
            BY <2>5, <3>2
          <5> QED BY <2>8, <5>1
        <4>2. c # Newline /\ c # Quote /\ c # Backslash
          BY <3>2, Escapes
        <4>3. i + 1 = l + Len(x) + 1
          BY <2>6, <4>1
        <4> HIDE DEF i
        <4>4. ~ Stops(s, i)
          BY <2>9, <4>1, <4>2 DEF Stops
        <4>5. ReadOne(s, i) = c
          BY <4>1, <4>2 DEF ReadOne
        <4>6. After(s, i) = i + 1
          BY <4>1, <4>2 DEF After
        <4> QED BY <4>3, <4>4, <4>5, <4>6
      <3> QED BY <3>1, <3>2
    <2>11. from[i] = [[value |-> m, rest |-> more] EXCEPT !.value = <<c>> \o @]
      <3>1. from[l + Len(x) + 1] = [value |-> m, rest |-> more]
        BY <2>4, <2>6
      <3>2. from[i] = [from[After(s, i)] EXCEPT !.value = <<ReadOne(s, i)>> \o @]
        <4> HIDE DEF i
        <4> QED BY <1>12, <2>9, <2>10 DEF Reads
      <3> HIDE DEF i
      <3> QED BY <2>10, <3>1, <3>2
    <2>12. from[i] = [value |-> <<c>> \o m, rest |-> more]
      <3> HIDE DEF i
      <3> QED BY <2>11
    <2> QED BY <2>3, <2>12 DEF l, c, m
  <1>15. Good(0)
    <2> DEFINE T == {j \in 0..n : Good(n - j)}
               U == {j \in Nat : j <= n /\ ~ Good(n - j)}
    <2>1. ASSUME U # {} PROVE FALSE
      <3>1. U \subseteq Nat
        OBVIOUS
      <3>2. PICK j \in U : \A l \in U : j <= l
        <4> HIDE DEF U
        <4> QED BY <2>1, <3>1, LeastNumber
      <3>3. j \in Nat /\ j <= n /\ ~ Good(n - j)
        OBVIOUS
      <3>4. j # 0
        <4>1. n - 0 = n
          BY <1>3
        <4> HIDE DEF Good
        <4> QED BY <1>13, <3>3, <4>1
      <3> DEFINE h == j - 1
      <3>5. h \in Nat /\ h <= n /\ ~ (j <= h) /\ n - j \in 0..n /\ n - j # n /\ (n - j) + 1 = n - h
        BY <1>3, <3>3, <3>4
      <3> HIDE DEF h, Good
      <3>6. Good(n - h)
        BY <3>2, <3>5
      <3>7. Good((n - j) + 1)
        BY <3>5, <3>6
      <3> QED BY <1>14, <3>3, <3>5, <3>7
    <2>3. n \in Nat /\ n <= n /\ n - n = 0
      BY <1>3
    <2> HIDE DEF Good
    <2>4. n \notin U => Good(n - n)
      BY <2>3
    <2> HIDE DEF U
    <2> QED BY <2>1, <2>3, <2>4
  <1>16. from[1] = [value |-> text, rest |-> more]
    <2>1. Len(P[0]) = 0 /\ 0 + 1 = 1
      BY <1>4
    <2>2. SubSeq(text, 1, n) = text
      BY <1>2 DEF n
    <2> QED BY <1>15, <2>1, <2>2
  <1> QED BY <1>12, <1>16 DEF s, escaped

-----------------------------------------------------------------------------
(* Distances, and what a player may mistype *)

(* What holds of 0, and of each number up to n if of the one before it,     *)
(* holds of all of them.                                                    *)
LEMMA OneByOne ==
    ASSUME NEW n \in Nat, NEW T, 0 \in T, \A k \in 1..n : k - 1 \in T => k \in T
    PROVE  \A k \in 0..n : k \in T
  <1> DEFINE F == {k \in 0..n : k \notin T}
  <1> SUFFICES ASSUME F # {} PROVE FALSE
    OBVIOUS
  <1>1. F \subseteq Nat
    OBVIOUS
  <1>2. PICK k \in F : \A j \in F : k <= j
    <2> HIDE DEF F
    <2> QED BY <1>1, LeastNumber
  <1>3. k \in 1..n
    OBVIOUS
  <1>4. k - 1 \in 0..n /\ ~ (k <= k - 1)
    BY <1>3
  <1>5. k - 1 \in T
    BY <1>2, <1>4
  <1> QED BY <1>3, <1>5

(* A recursion from each number up to n to the one before it.               *)
CountsDown(n, V, first, G) == n \in Nat /\ first \in V /\ G \in [1..n -> [V -> V]]
CountedBy(f, n, V, first, G) == f \in [0..n -> V] /\ f[0] = first /\ \A k \in 1..n : f[k] = G[k][f[k - 1]]

(* It defines a function.                                                   *)
LEMMA Chain ==
    ASSUME NEW n, NEW V, NEW first, NEW G, CountsDown(n, V, first, G)
    PROVE  \E f : CountedBy(f, n, V, first, G)
  <1> n \in Nat /\ first \in V /\ G \in [1..n -> [V -> V]]
    BY DEF CountsDown
  <1> DEFINE D == 0..n
             B == {0}
             p == [k \in D |-> IF k = 0 THEN 0 ELSE k - 1]
             m == [k \in D |-> k]
             start == [k \in D |-> first]
             H == [k \in D |-> IF k = 0 THEN [v \in V |-> v] ELSE G[k]]
  <1>1. \A k \in D : k # 0 => k - 1 \in D /\ k \in 1..n /\ k \in Nat
    OBVIOUS
  <1>2. p \in [D -> D] /\ m \in [D -> Nat] /\ start \in [D -> V]
    BY <1>1
  <1>3. H \in [D -> [V -> V]]
    BY <1>1
  <1>4. \A k \in D : k \notin B => m[p[k]] < m[k]
    BY <1>1
  <1>5. PICK f \in [D -> V] : \A k \in D : f[k] = IF k \in B THEN start[k] ELSE H[k][f[p[k]]]
    <2> HIDE DEF D, B, p, m, start, H
    <2>1. Descends(D, V, B, p, m, start, H)
      BY <1>2, <1>3, <1>4 DEF Descends
    <2> QED BY <2>1, Recursion
  <1>6. \A k \in D : f[k] = IF k = 0 THEN first ELSE G[k][f[k - 1]]
    <2> TAKE k \in D
    <2>1. f[k] = IF k \in B THEN start[k] ELSE H[k][f[p[k]]]
      BY <1>5
    <2>2. k # 0 => p[k] = k - 1 /\ H[k] = G[k]
      OBVIOUS
    <2>3. start[k] = first
      OBVIOUS
    <2> HIDE DEF H, p, start
    <2> QED BY <2>1, <2>2, <2>3
  <1>7. f[0] = first /\ \A k \in 1..n : k \in D /\ f[k] = G[k][f[k - 1]]
    BY <1>6
  <1> QED BY <1>5, <1>7 DEF CountedBy

-----------------------------------------------------------------------------

(* The smallest of three distances.                                         *)
LEMMA LeastOfThree ==
    ASSUME NEW x \in Nat, NEW y \in Nat, NEW z \in Nat
    PROVE  /\ min3(x, y, z) \in {x, y, z} /\ min3(x, y, z) \in Nat
           /\ min3(x, y, z) <= x /\ min3(x, y, z) <= y /\ min3(x, y, z) <= z
  <1> DEFINE S == {x, y, z}
  <1>1. S \subseteq Nat /\ S # {}
    OBVIOUS
  <1>2. \E v \in S : \A w \in S : v <= w
    <2> HIDE DEF S
    <2> QED BY <1>1, LeastNumber
  <1>3. Min(S) \in S /\ \A w \in S : Min(S) <= w
    <2> HIDE DEF S
    <2> QED BY <1>2, Zenon DEF Min
  <1>4. min3(x, y, z) = Min(S)
    BY DEF min3
  <1> QED BY <1>3, <1>4

(* How a row of the table follows from the one before it.                   *)
Follows(next, row, c, str2, n) ==
    /\ next[0] = row[0] + 1
    /\ \A j \in 1..n : next[j] = IF c = str2[j] THEN row[j - 1]
                                 ELSE 1 + min3(next[j - 1], row[j], row[j - 1])

(* The same, with places counted from zero.                                 *)
FromZero(row, n) == [j \in 0..n |-> row[j + 1]]

(* A row of the table.                                                      *)
LEMMA NextRowDef ==
    ASSUME NEW n \in Nat, NEW row \in [1..(n + 1) -> Nat], NEW c,
           NEW C, NEW str2 \in Seq(C), Len(str2) = n
    PROVE  /\ NextRow(row, c, str2) \in [1..(n + 1) -> Nat]
           /\ Follows(FromZero(NextRow(row, c, str2), n), FromZero(row, n), c, str2, n)
  <1> DEFINE Cell(j, v) == IF c = str2[j] THEN row[j] ELSE 1 + min3(v, row[j + 1], row[j])
             G == [j \in 1..n |-> [v \in Nat |-> Cell(j, v)]]
             Is(f) == f = [j \in 0..Len(str2) |-> IF j = 0 THEN row[1] + 1 ELSE Cell(j, f[j - 1])]
  <1>1. \A j \in 1..n : row[j] \in Nat /\ row[j + 1] \in Nat /\ j \in 0..n /\ j - 1 \in 0..n
    OBVIOUS
  <1>2. \A j \in 1..n, v \in Nat : Cell(j, v) \in Nat
    <2> TAKE j \in 1..n, v \in Nat
    <2>1. min3(v, row[j + 1], row[j]) \in Nat
      BY <1>1, LeastOfThree
    <2> QED BY <1>1, <2>1
  <1>3. G \in [1..n -> [Nat -> Nat]]
    <2> HIDE DEF Cell
    <2> QED BY <1>2
  <1>4. row[1] + 1 \in Nat
    OBVIOUS
  <1>5. PICK f : CountedBy(f, n, Nat, row[1] + 1, G)
    <2>1. CountsDown(n, Nat, row[1] + 1, G)
      BY <1>3, <1>4 DEF CountsDown
    <2> HIDE DEF G
    <2> QED BY <2>1, Chain
  <1>6. \A j \in 1..n : f[j] = Cell(j, f[j - 1])
    <2> TAKE j \in 1..n
    <2>1. f[j] = G[j][f[j - 1]] /\ f[j - 1] \in Nat
      BY <1>1, <1>5 DEF CountedBy
    <2> HIDE DEF Cell
    <2> QED BY <2>1
  <1>7. f[0] = row[1] + 1 /\ f \in [0..n -> Nat]
    BY <1>5 DEF CountedBy
  <1>8. Is(f)
    <2>1. f = [j \in 0..n |-> f[j]] /\ 0..Len(str2) = 0..n
      BY <1>7
    <2>2. \A j \in 0..n : f[j] = IF j = 0 THEN row[1] + 1 ELSE Cell(j, f[j - 1])
      <3> HIDE DEF Cell
      <3> QED BY <1>6, <1>7
    <2> HIDE DEF Cell
    <2> QED BY <2>1, <2>2
  <1> DEFINE g == CHOOSE f_1 : Is(f_1)
  <1>9. Is(g)
    <2> HIDE DEF Is
    <2> QED BY <1>8
  <1>10. NextRow(row, c, str2) = <<row[1] + 1>> \o [j \in DOMAIN str2 |-> g[j]]
    BY Zenon DEF NextRow
  <1>11. \A j \in 0..n : g[j] = IF j = 0 THEN row[1] + 1 ELSE Cell(j, g[j - 1])
    <2> HIDE DEF Cell, g
    <2> QED BY <1>9
  <1>12. \A j \in 0..n : g[j] = f[j]
    <2> DEFINE T == {j \in 0..n : g[j] = f[j]}
    <2>1. 0 \in T
      <3> HIDE DEF g
      <3> QED BY <1>7, <1>11
    <2>2. \A j \in 1..n : j - 1 \in T => j \in T
      <3> HIDE DEF g, Cell
      <3> QED BY <1>1, <1>6, <1>11
    <2>3. \A j \in 0..n : j \in T
      <3> HIDE DEF T
      <3> QED BY <2>1, <2>2, OneByOne
    <2> QED BY <2>3
  <1> HIDE DEF g
  <1>13. PICK first : first = <<row[1] + 1>>
    OBVIOUS
  <1>14. PICK rest : rest = [j \in 1..n |-> g[j]]
    OBVIOUS
  <1>15. PICK whole : whole = first \o rest
    OBVIOUS
  <1>16. NextRow(row, c, str2) = whole
    <2>1. DOMAIN str2 = 1..n
      OBVIOUS
    <2> QED BY <1>10, <1>13, <1>14, <1>15, <2>1
  <1>17. first \in Seq(Nat) /\ Len(first) = 1 /\ first[1] = f[0]
    BY <1>4, <1>7, <1>13
  <1>18. rest \in Seq(Nat) /\ Len(rest) = n /\ \A j \in 1..n : rest[j] = f[j]
    <2>1. \A j \in 1..n : g[j] = f[j] /\ f[j] \in Nat
      BY <1>1, <1>7, <1>12
    <2> QED BY <1>14, <2>1
  <1>19. /\ whole \in Seq(Nat) /\ Len(whole) = n + 1
         /\ \A k \in 1..(n + 1) : whole[k] = IF k <= 1 THEN first[k] ELSE rest[k - 1]
    <2>1. /\ whole \in Seq(Nat) /\ Len(whole) = Len(first) + Len(rest)
          /\ \A k \in 1..(Len(first) + Len(rest)) :
                whole[k] = IF k <= Len(first) THEN first[k] ELSE rest[k - Len(first)]
      BY <1>15, <1>17, <1>18, ConcatProperties
    <2>2. Len(first) + Len(rest) = n + 1
      BY <1>17, <1>18
    <2> QED BY <1>17, <2>1, <2>2
  <1>20. whole \in [1..(n + 1) -> Nat]
    <2>1. whole = [k \in 1..Len(whole) |-> whole[k]] /\ \A k \in 1..Len(whole) : whole[k] \in Nat
      BY <1>19
    <2> QED BY <1>19, <2>1
  <1>21. \A j \in 0..n : FromZero(whole, n)[j] = f[j]
    <2> TAKE j \in 0..n
    <2>1. FromZero(whole, n)[j] = whole[j + 1] /\ j + 1 \in 1..(n + 1)
      BY DEF FromZero
    <2>2. CASE j = 0
      BY <1>17, <1>19, <2>1, <2>2
    <2>3. CASE j # 0
      <3>1. j \in 1..n /\ ~ (j + 1 <= 1) /\ (j + 1) - 1 = j
        BY <2>3
      <3> QED BY <1>18, <1>19, <2>1, <3>1
    <2> QED BY <2>2, <2>3
  <1>22. /\ FromZero(row, n)[0] = row[1]
         /\ \A j \in 1..n : FromZero(row, n)[j - 1] = row[j] /\ FromZero(row, n)[j] = row[j + 1]
    BY DEF FromZero
  <1>23. Follows(FromZero(whole, n), FromZero(row, n), c, str2, n)
    <2> PICK w : w = FromZero(whole, n)
      OBVIOUS
    <2> PICK r : r = FromZero(row, n)
      OBVIOUS
    <2>1. \A j \in 0..n : w[j] = f[j]
      BY <1>21
    <2>2. r[0] = row[1] /\ \A j \in 1..n : r[j - 1] = row[j] /\ r[j] = row[j + 1]
      BY <1>22
    <2>3. w[0] = r[0] + 1
      BY <1>7, <2>1, <2>2
    <2>4. \A j \in 1..n : w[j] = IF c = str2[j] THEN r[j - 1] ELSE 1 + min3(w[j - 1], r[j], r[j - 1])
      BY <1>1, <1>6, <2>1, <2>2
    <2> QED BY <2>3, <2>4 DEF Follows
  <1> QED BY <1>16, <1>20, <1>23

(* The table of the distances of the starts of two texts.                   *)
Table(d, s, t, m, n) ==
    /\ d \in [0..m -> [0..n -> Nat]]
    /\ \A j \in 0..n : d[0][j] = j
    /\ \A i \in 1..m : Follows(d[i], d[i - 1], s[i], t, n)

(* The rows that levenstein makes of two texts in lower case.               *)
AreRows(f, s, t, m, n) ==
    f = [i \in 0..m |-> IF i = 0 THEN [j \in 1..(n + 1) |-> j - 1] ELSE NextRow(f[i - 1], s[i], t)]
Rows(s, t, m, n) == CHOOSE f_1 : AreRows(f_1, s, t, m, n)
Made(s, t, m, n) == [i \in 0..m |-> FromZero(Rows(s, t, m, n)[i], n)]

(* They are that table.                                                     *)
LEMMA MadeTable ==
    ASSUME NEW m \in Nat, NEW n \in Nat, NEW s, NEW C, NEW t \in Seq(C), Len(t) = n
    PROVE  Table(Made(s, t, m, n), s, t, m, n)
  <1> DEFINE V == [1..(n + 1) -> Nat]
             none == [j \in 1..(n + 1) |-> j - 1]
             G == [i \in 1..m |-> [row \in V |-> NextRow(row, s[i], t)]]
             g == Rows(s, t, m, n)
  <1>1. none \in V
    OBVIOUS
  <1>2. \A row \in V, i \in 1..m :
            /\ NextRow(row, s[i], t) \in V
            /\ Follows(FromZero(NextRow(row, s[i], t), n), FromZero(row, n), s[i], t, n)
    BY NextRowDef
  <1>3. G \in [1..m -> [V -> V]]
    <2> HIDE DEF V
    <2> QED BY <1>2
  <1>4. PICK f : CountedBy(f, m, V, none, G)
    <2> HIDE DEF G, V, none
    <2>1. CountsDown(m, V, none, G)
      BY <1>1, <1>3 DEF CountsDown
    <2> QED BY <2>1, Chain
  <1>5. f \in [0..m -> V] /\ f[0] = none
    <2> HIDE DEF G, V, none
    <2> QED BY <1>4 DEF CountedBy
  <1>6. \A i \in 1..m : f[i] = NextRow(f[i - 1], s[i], t) /\ f[i - 1] \in V
    <2> HIDE DEF V, none
    <2> TAKE i \in 1..m
    <2>1. f[i] = G[i][f[i - 1]]
      <3> HIDE DEF G
      <3> QED BY <1>4 DEF CountedBy
    <2>2. f[i - 1] \in V
      <3>1. i - 1 \in 0..m
        OBVIOUS
      <3> QED BY <1>5, <3>1
    <2> QED BY <2>1, <2>2
  <1>7. AreRows(f, s, t, m, n)
    <2>1. f = [i \in 0..m |-> f[i]]
      <3> HIDE DEF V
      <3> QED BY <1>5
    <2>2. \A i \in 0..m : i # 0 => i \in 1..m
      OBVIOUS
    <2>3. \A i \in 0..m : f[i] = IF i = 0 THEN none ELSE NextRow(f[i - 1], s[i], t)
      <3> HIDE DEF V, none
      <3> QED BY <1>5, <1>6, <2>2
    <2> QED BY <2>1, <2>3 DEF AreRows
  <1>8. AreRows(g, s, t, m, n)
    BY <1>7 DEF Rows
  <1>9. \A i \in 0..m : g[i] = IF i = 0 THEN none ELSE NextRow(g[i - 1], s[i], t)
    <2> HIDE DEF g
    <2> QED BY <1>8 DEF AreRows
  <1>10. \A i \in 0..m : g[i] = f[i]
    <2> DEFINE T == {i \in 0..m : g[i] = f[i]}
    <2> HIDE DEF g, none
    <2>1. 0 \in T
      BY <1>5, <1>9
    <2>2. \A i \in 1..m : i - 1 \in T => i \in T
      <3>1. \A i \in 1..m : i \in 0..m /\ i # 0
        OBVIOUS
      <3> QED BY <1>6, <1>9, <3>1
    <2>3. \A i \in 0..m : i \in T
      <3> HIDE DEF T
      <3> QED BY <2>1, <2>2, OneByOne
    <2> QED BY <2>3
  <1>11. PICK d : d = Made(s, t, m, n)
    OBVIOUS
  <1>12. d = [i \in 0..m |-> FromZero(f[i], n)]
    <2> HIDE DEF g
    <2>1. \A i \in 0..m : Rows(s, t, m, n)[i] = f[i]
      BY <1>10 DEF g
    <2> QED BY <1>11, <2>1 DEF Made
  <1>13. d \in [0..m -> [0..n -> Nat]]
    <2>1. \A i \in 0..m : FromZero(f[i], n) \in [0..n -> Nat]
      BY <1>5 DEF FromZero
    <2> QED BY <1>12, <2>1
  <1>14. \A j \in 0..n : d[0][j] = j
    <2>1. d[0] = FromZero(none, n)
      <3> HIDE DEF none
      <3> QED BY <1>5, <1>12
    <2>2. \A j \in 0..n : FromZero(none, n)[j] = j
      BY DEF FromZero
    <2> QED BY <2>1, <2>2
  <1>15. \A i \in 1..m : Follows(d[i], d[i - 1], s[i], t, n)
    <2> HIDE DEF V
    <2> TAKE i \in 1..m
    <2>1. d[i] = FromZero(f[i], n) /\ d[i - 1] = FromZero(f[i - 1], n)
      BY <1>12
    <2>2. Follows(FromZero(f[i], n), FromZero(f[i - 1], n), s[i], t, n)
      BY <1>2, <1>6
    <2> QED BY <2>1, <2>2
  <1>16. Table(d, s, t, m, n)
    BY <1>13, <1>14, <1>15 DEF Table
  <1> QED BY <1>11, <1>16

(* The distance is in its last place.                                       *)
LEMMA LevensteinDef ==
    ASSUME NEW s1, NEW s2, NEW m \in Nat, NEW n \in Nat,
           m = Len(utf8lower(s1, FALSE)), n = Len(utf8lower(s2, FALSE))
    PROVE  levenstein(s1, s2) = Made(utf8lower(s1, FALSE), utf8lower(s2, FALSE), m, n)[m][n]
  <1>1. levenstein(s1, s2) = Rows(utf8lower(s1, FALSE), utf8lower(s2, FALSE), m, n)[m][n + 1]
    BY Zenon DEF levenstein, Rows, AreRows
  <1> QED BY <1>1 DEF Made, FromZero

(* What holds along two edges of a table, and in each other place if in the *)
(* three before it, holds in every place.                                   *)
LEMMA PlaceByPlace ==
    ASSUME NEW m \in Nat, NEW n \in Nat, NEW T,
           \A j \in 0..n : j \in T[0],
           \A i \in 0..m : 0 \in T[i],
           \A i \in 1..m, j \in 1..n : j - 1 \in T[i - 1] /\ j - 1 \in T[i] /\ j \in T[i - 1] => j \in T[i]
    PROVE  \A i \in 0..m, j \in 0..n : j \in T[i]
  <1> DEFINE R == {i \in 0..m : \A j \in 0..n : j \in T[i]}
  <1>1. 0 \in R
    OBVIOUS
  <1>2. ASSUME NEW i \in 1..m, i - 1 \in R PROVE i \in R
    <2>1. \A j \in 0..n : j \in T[i - 1]
      BY <1>2
    <2>2. 0 \in T[i] /\ i \in 0..m
      OBVIOUS
    <2>3. \A j \in 1..n : j - 1 \in T[i] => j \in T[i]
      <3>1. \A j \in 1..n : j - 1 \in 0..n /\ j \in 0..n
        OBVIOUS
      <3> HIDE DEF R
      <3> QED BY <2>1, <3>1
    <2>4. \A j \in 0..n : j \in T[i]
      <3> HIDE DEF R
      <3> DEFINE U == T[i]
      <3>1. 0 \in U /\ \A j \in 1..n : j - 1 \in U => j \in U
        BY <2>2, <2>3
      <3> HIDE DEF U
      <3>2. \A j \in 0..n : j \in U
        BY <3>1, OneByOne
      <3> QED BY <3>2 DEF U
    <2> QED BY <2>2, <2>4
  <1>3. \A i \in 0..m : i \in R
    <2> HIDE DEF R
    <2> QED BY <1>1, <1>2, OneByOne
  <1> QED BY <1>3

(* A place of the table, and the three before it.                           *)
AtPlace(d, s, t, i, j) ==
    /\ s[i] = t[j] => d[i][j] = d[i - 1][j - 1]
    /\ s[i] # t[j] => d[i][j] - 1 \in {d[i][j - 1], d[i - 1][j], d[i - 1][j - 1]}
    /\ s[i] # t[j] => \A x \in {d[i][j - 1], d[i - 1][j], d[i - 1][j - 1]} : d[i][j] <= x + 1

(* The places of the table.                                                 *)
LEMMA Places ==
    ASSUME NEW m \in Nat, NEW n \in Nat, NEW s, NEW t, NEW d, Table(d, s, t, m, n)
    PROVE  /\ \A i \in 0..m, j \in 0..n : d[i][j] \in Nat
           /\ \A j \in 0..n : d[0][j] = j
           /\ \A i \in 0..m : d[i][0] = i
           /\ \A i \in 1..m, j \in 1..n : AtPlace(d, s, t, i, j)
  <1>1. \A i \in 0..m, j \in 0..n : d[i][j] \in Nat
    BY DEF Table
  <1>2. \A j \in 0..n : d[0][j] = j
    BY DEF Table
  <1>3. \A i \in 0..m : d[i][0] = i
    <2> DEFINE T == {i \in 0..m : d[i][0] = i}
    <2>1. 0 \in T
      BY <1>2
    <2>2. \A i \in 1..m : i - 1 \in T => i \in T
      <3>1. \A i \in 1..m : d[i][0] = d[i - 1][0] + 1
        BY DEF Table, Follows
      <3> QED BY <3>1
    <2>3. \A i \in 0..m : i \in T
      <3> HIDE DEF T
      <3> QED BY <2>1, <2>2, OneByOne
    <2> QED BY <2>3
  <1>4. ASSUME NEW i \in 1..m, NEW j \in 1..n
        PROVE  AtPlace(d, s, t, i, j)
    <2>1. d[i][j] = IF s[i] = t[j] THEN d[i - 1][j - 1]
                    ELSE 1 + min3(d[i][j - 1], d[i - 1][j], d[i - 1][j - 1])
      BY DEF Table, Follows
    <2>2. i - 1 \in 0..m /\ j - 1 \in 0..n /\ i \in 0..m /\ j \in 0..n
      OBVIOUS
    <2>3. PICK x \in Nat, y \in Nat, z \in Nat :
             x = d[i][j - 1] /\ y = d[i - 1][j] /\ z = d[i - 1][j - 1]
      BY <1>1, <2>2
    <2>4. PICK w \in Nat : w = min3(x, y, z) /\ w \in {x, y, z} /\ w <= x /\ w <= y /\ w <= z
      <3>1. /\ min3(x, y, z) \in Nat /\ min3(x, y, z) \in {x, y, z}
            /\ min3(x, y, z) <= x /\ min3(x, y, z) <= y /\ min3(x, y, z) <= z
        BY LeastOfThree, ZenonT(60)
      <3> QED BY <3>1, Zenon
    <2>5. d[i][j] = IF s[i] = t[j] THEN z ELSE 1 + w
      BY <2>1, <2>3, <2>4
    <2> QED BY <2>3, <2>4, <2>5 DEF AtPlace
  <1> QED BY <1>1, <1>2, <1>3, <1>4

(* Two texts are alike up to some place.                                    *)
Alike(s, t, i) == \A k \in 1..i : s[k] = t[k]

(* The distance is zero of texts that are equal.                            *)
LEMMA NoDistance ==
    ASSUME NEW m \in Nat, NEW n \in Nat, NEW s, NEW t, NEW d, Table(d, s, t, m, n)
    PROVE  \A i \in 0..m, j \in 0..n : d[i][j] = 0 <=> i = j /\ Alike(s, t, i)
  <1>0. \A i \in 1..m, j \in 1..n : AtPlace(d, s, t, i, j)
    BY Places, Zenon
  <1> DEFINE T == [i \in 0..m |-> {j \in 0..n : d[i][j] = 0 <=> i = j /\ Alike(s, t, i)}]
  <1>1. \A j \in 0..n : j \in T[0]
    <2>1. Alike(s, t, 0)
      BY DEF Alike
    <2> QED BY <2>1, Places
  <1>2. \A i \in 0..m : 0 \in T[i]
    <2>1. Alike(s, t, 0)
      BY DEF Alike
    <2> QED BY <2>1, Places
  <1>3. ASSUME NEW i \in 1..m, NEW j \in 1..n, j - 1 \in T[i - 1]
        PROVE  j \in T[i]
    <2>1. i - 1 \in 0..m /\ j - 1 \in 0..n /\ i \in 0..m /\ j \in 0..n
      OBVIOUS
    <2>2. d[i - 1][j - 1] = 0 <=> i - 1 = j - 1 /\ Alike(s, t, i - 1)
      BY <1>3, <2>1
    <2>3. Alike(s, t, i) <=> Alike(s, t, i - 1) /\ s[i] = t[i]
      BY DEF Alike
    <2>4. d[i][j] = 0 <=> i = j /\ Alike(s, t, i)
      <3>1. CASE s[i] = t[j]
        <4>1. d[i][j] = d[i - 1][j - 1]
          BY <1>0, <3>1, Zenon DEF AtPlace
        <4> QED BY <2>2, <2>3, <3>1, <4>1
      <3>2. CASE s[i] # t[j]
        <4>1. d[i][j] - 1 \in {d[i][j - 1], d[i - 1][j], d[i - 1][j - 1]}
          BY <1>0, <3>2, Zenon DEF AtPlace
        <4>2. d[i][j - 1] \in Nat /\ d[i - 1][j] \in Nat /\ d[i - 1][j - 1] \in Nat
          BY <2>1, Places
        <4>3. d[i][j] # 0
          BY <4>1, <4>2
        <4> QED BY <2>3, <3>2, <4>3
      <3> QED BY <3>1, <3>2
    <2> QED BY <2>1, <2>4
  <1>4. \A i \in 0..m, j \in 0..n : j \in T[i]
    <2> HIDE DEF T
    <2> QED BY <1>1, <1>2, <1>3, PlaceByPlace
  <1> QED BY <1>4

(* The start of one text up to i is that of the other up to j with one      *)
(* character at most replaced, inserted or removed, at place p.             *)
Past(k, p) == IF k < p THEN k ELSE k + 1
Replaced(s, t, i, p) == \A k \in 1..i : k # p => s[k] = t[k]
Inserted(s, t, i, p) == \A k \in 1..i : s[k] = t[Past(k, p)]
Near(s, t, i, j) ==
    \/ i = j /\ \E p \in 0..i : Replaced(s, t, i, p)
    \/ j = i + 1 /\ \E p \in 1..j : Inserted(s, t, i, p)
    \/ i = j + 1 /\ \E p \in 1..i : Inserted(t, s, j, p)

(* With the same character after each, they stay so, and were so before.    *)
LEMMA NearBySameEnd ==
    ASSUME NEW s, NEW t, NEW i \in Nat \ {0}, NEW j \in Nat \ {0}, s[i] = t[j]
    PROVE  Near(s, t, i, j) <=> Near(s, t, i - 1, j - 1)
  <1>1. \A p \in Nat : i = j => (Replaced(s, t, i, p) <=> Replaced(s, t, i - 1, p) \/ (p = i /\ Replaced(s, t, i - 1, p)))
    BY DEF Replaced
  <1>2. i = j /\ Replaced(s, t, i - 1, i) => Replaced(s, t, i - 1, 0)
    BY DEF Replaced
  <1>3. i = j => ((\E p \in 0..i : Replaced(s, t, i, p)) <=> \E p \in 0..(i - 1) : Replaced(s, t, i - 1, p))
    <2> SUFFICES ASSUME i = j
                 PROVE  (\E p \in 0..i : Replaced(s, t, i, p)) <=> \E p \in 0..(i - 1) : Replaced(s, t, i - 1, p)
      OBVIOUS
    <2>1. ASSUME NEW p \in 0..i, Replaced(s, t, i, p) PROVE \E q \in 0..(i - 1) : Replaced(s, t, i - 1, q)
      <3>1. Replaced(s, t, i - 1, p)
        BY <1>1, <2>1
      <3>2. CASE p = i
        BY <1>2, <3>1, <3>2
      <3>3. CASE p # i
        <4>1. p \in 0..(i - 1)
          BY <3>3
        <4> QED BY <3>1, <4>1
      <3> QED BY <3>2, <3>3
    <2>2. ASSUME NEW p \in 0..(i - 1), Replaced(s, t, i - 1, p) PROVE \E q \in 0..i : Replaced(s, t, i, q)
      <3>1. p \in 0..i /\ p \in Nat
        OBVIOUS
      <3> QED BY <1>1, <2>2, <3>1
    <2> QED BY <2>1, <2>2
  <1>4. ASSUME NEW a, NEW b, NEW l \in Nat \ {0}, a[l] = b[l + 1]
        PROVE  (\E p \in 1..(l + 1) : Inserted(a, b, l, p)) <=> \E p \in 1..l : Inserted(a, b, l - 1, p)
    <2>1. ASSUME NEW p \in 1..(l + 1), Inserted(a, b, l, p) PROVE \E q \in 1..l : Inserted(a, b, l - 1, q)
      <3>1. CASE p = l + 1
        <4>1. \A k \in 1..(l - 1) : a[k] = b[k]
          BY <2>1, <3>1 DEF Inserted, Past
        <4>2. Inserted(a, b, l - 1, l)
          BY <4>1 DEF Inserted, Past
        <4> QED BY <4>2
      <3>2. CASE p # l + 1
        <4>1. Inserted(a, b, l - 1, p) /\ p \in 1..l
          BY <2>1, <3>2 DEF Inserted
        <4> QED BY <4>1
      <3> QED BY <3>1, <3>2
    <2>2. ASSUME NEW p \in 1..l, Inserted(a, b, l - 1, p) PROVE \E q \in 1..(l + 1) : Inserted(a, b, l, q)
      <3>1. \A k \in 1..l : k # l => a[k] = b[Past(k, p)]
        BY <2>2 DEF Inserted
      <3>2. a[l] = b[Past(l, p)]
        BY <1>4 DEF Past
      <3>3. Inserted(a, b, l, p) /\ p \in 1..(l + 1)
        BY <3>1, <3>2 DEF Inserted
      <3> QED BY <3>3
    <2> QED BY <2>1, <2>2
  <1>5. j = i + 1 => ((\E p \in 1..j : Inserted(s, t, i, p)) <=> \E p \in 1..(j - 1) : Inserted(s, t, i - 1, p))
    <2> SUFFICES ASSUME j = i + 1
                 PROVE  (\E p \in 1..j : Inserted(s, t, i, p)) <=> \E p \in 1..(j - 1) : Inserted(s, t, i - 1, p)
      OBVIOUS
    <2>1. (\E p \in 1..(i + 1) : Inserted(s, t, i, p)) <=> \E p \in 1..i : Inserted(s, t, i - 1, p)
      BY <1>4
    <2> QED BY <2>1
  <1>6. i = j + 1 => ((\E p \in 1..i : Inserted(t, s, j, p)) <=> \E p \in 1..(i - 1) : Inserted(t, s, j - 1, p))
    <2> SUFFICES ASSUME i = j + 1
                 PROVE  (\E p \in 1..i : Inserted(t, s, j, p)) <=> \E p \in 1..(i - 1) : Inserted(t, s, j - 1, p)
      OBVIOUS
    <2>1. (\E p \in 1..(j + 1) : Inserted(t, s, j, p)) <=> \E p \in 1..j : Inserted(t, s, j - 1, p)
      BY <1>4
    <2> QED BY <2>1
  <1>7. (i = j <=> i - 1 = j - 1) /\ (j = i + 1 <=> j - 1 = (i - 1) + 1) /\ (i = j + 1 <=> i - 1 = (j - 1) + 1)
    OBVIOUS
  <1> QED BY <1>3, <1>5, <1>6, <1>7 DEF Near

(* With another character after each, they are so if they were alike        *)
(* without one or the other or both.                                        *)
LEMMA NearByOtherEnd ==
    ASSUME NEW s, NEW t, NEW i \in Nat \ {0}, NEW j \in Nat \ {0}, s[i] # t[j]
    PROVE  Near(s, t, i, j) <=> \/ i = j /\ Alike(s, t, i - 1)
                                \/ j = i + 1 /\ Alike(s, t, i)
                                \/ i = j + 1 /\ Alike(s, t, j)
  <1>1. i = j => ((\E p \in 0..i : Replaced(s, t, i, p)) <=> Alike(s, t, i - 1))
    <2> SUFFICES ASSUME i = j PROVE (\E p \in 0..i : Replaced(s, t, i, p)) <=> Alike(s, t, i - 1)
      OBVIOUS
    <2>1. \A p \in 0..i : Replaced(s, t, i, p) => p = i
      BY DEF Replaced
    <2>2. Replaced(s, t, i, i) <=> Alike(s, t, i - 1)
      BY DEF Replaced, Alike
    <2> QED BY <2>1, <2>2
  <1>2. ASSUME NEW a, NEW b, NEW l \in Nat \ {0}, a[l] # b[l + 1]
        PROVE  (\E p \in 1..(l + 1) : Inserted(a, b, l, p)) <=> \A k \in 1..l : a[k] = b[k]
    <2>1. \A p \in 1..(l + 1) : Inserted(a, b, l, p) => p = l + 1
      BY <1>2 DEF Inserted, Past
    <2>2. Inserted(a, b, l, l + 1) <=> \A k \in 1..l : a[k] = b[k]
      BY DEF Inserted, Past
    <2> QED BY <2>1, <2>2
  <1>3. j = i + 1 => ((\E p \in 1..j : Inserted(s, t, i, p)) <=> Alike(s, t, i))
    <2> SUFFICES ASSUME j = i + 1
                 PROVE  (\E p \in 1..j : Inserted(s, t, i, p)) <=> Alike(s, t, i)
      OBVIOUS
    <2>1. (\E p \in 1..(i + 1) : Inserted(s, t, i, p)) <=> \A k \in 1..i : s[k] = t[k]
      BY <1>2
    <2> QED BY <2>1 DEF Alike
  <1>4. i = j + 1 => ((\E p \in 1..i : Inserted(t, s, j, p)) <=> Alike(s, t, j))
    <2> SUFFICES ASSUME i = j + 1
                 PROVE  (\E p \in 1..i : Inserted(t, s, j, p)) <=> Alike(s, t, j)
      OBVIOUS
    <2>1. (\E p \in 1..(j + 1) : Inserted(t, s, j, p)) <=> \A k \in 1..j : t[k] = s[k]
      BY <1>2
    <2> QED BY <2>1 DEF Alike
  <1> QED BY <1>1, <1>3, <1>4 DEF Near

(* The distance is at most one of texts that are one edit apart.            *)
LEMMA OneEdit ==
    ASSUME NEW m \in Nat, NEW n \in Nat, NEW s, NEW t, NEW d, Table(d, s, t, m, n)
    PROVE  \A i \in 0..m, j \in 0..n : d[i][j] < 2 <=> Near(s, t, i, j)
  <1>0. \A i \in 1..m, j \in 1..n : AtPlace(d, s, t, i, j)
    BY Places, Zenon
  <1> DEFINE T == [i \in 0..m |-> {j \in 0..n : d[i][j] < 2 <=> Near(s, t, i, j)}]
  <1>1. \A j \in 0..n : j \in T[0]
    <2> TAKE j \in 0..n
    <2>1. d[0][j] = j
      BY Places
    <2>2. Replaced(s, t, 0, 0) /\ Inserted(s, t, 0, 1)
      BY DEF Replaced, Inserted
    <2>3. Near(s, t, 0, j) <=> j < 2
      BY <2>2 DEF Near
    <2> QED BY <2>1, <2>3
  <1>2. \A i \in 0..m : 0 \in T[i]
    <2> TAKE i \in 0..m
    <2>1. d[i][0] = i
      BY Places
    <2>2. Replaced(s, t, 0, 0) /\ Inserted(t, s, 0, 1)
      BY DEF Replaced, Inserted
    <2>3. Near(s, t, i, 0) <=> i < 2
      BY <2>2 DEF Near
    <2> QED BY <2>1, <2>3
  <1>3. ASSUME NEW i \in 1..m, NEW j \in 1..n, j - 1 \in T[i - 1]
        PROVE  j \in T[i]
    <2>1. i - 1 \in 0..m /\ j - 1 \in 0..n /\ i \in 0..m /\ j \in 0..n
      OBVIOUS
    <2>2. d[i - 1][j - 1] < 2 <=> Near(s, t, i - 1, j - 1)
      BY <1>3, <2>1
    <2>3. d[i][j] < 2 <=> Near(s, t, i, j)
      <3>1. CASE s[i] = t[j]
        <4>1. d[i][j] = d[i - 1][j - 1]
          BY <1>0, <3>1, Zenon DEF AtPlace
        <4>2. i \in Nat \ {0} /\ j \in Nat \ {0}
          OBVIOUS
        <4> HIDE DEF T
        <4>3. Near(s, t, i, j) <=> Near(s, t, i - 1, j - 1)
          BY <3>1, <4>2, NearBySameEnd
        <4> QED BY <2>2, <4>1, <4>3
      <3>2. CASE s[i] # t[j]
        <4>1. PICK x \in Nat, y \in Nat, z \in Nat, w \in Nat :
                 x = d[i][j - 1] /\ y = d[i - 1][j] /\ z = d[i - 1][j - 1] /\ w = d[i][j]
          BY <2>1, Places
        <4>2. w - 1 \in {x, y, z} /\ w <= x + 1 /\ w <= y + 1 /\ w <= z + 1
          <5>1. AtPlace(d, s, t, i, j)
            BY <1>0
          <5>2. /\ d[i][j] - 1 \in {d[i][j - 1], d[i - 1][j], d[i - 1][j - 1]}
                /\ \A v \in {d[i][j - 1], d[i - 1][j], d[i - 1][j - 1]} : d[i][j] <= v + 1
            BY <3>2, <5>1, Zenon DEF AtPlace
          <5> QED BY <4>1, <5>2
        <4>3. w < 2 <=> x = 0 \/ y = 0 \/ z = 0
          BY <4>2
        <4>4. x = 0 <=> i = j - 1 /\ Alike(s, t, i)
          BY <2>1, <4>1, NoDistance
        <4>5. y = 0 <=> i - 1 = j /\ Alike(s, t, i - 1)
          BY <2>1, <4>1, NoDistance
        <4>6. z = 0 <=> i - 1 = j - 1 /\ Alike(s, t, i - 1)
          BY <2>1, <4>1, NoDistance
        <4>7. i \in Nat \ {0} /\ j \in Nat \ {0}
          OBVIOUS
        <4> HIDE DEF T
        <4>8. Near(s, t, i, j) <=> \/ i = j /\ Alike(s, t, i - 1)
                                   \/ j = i + 1 /\ Alike(s, t, i)
                                   \/ i = j + 1 /\ Alike(s, t, j)
          BY <3>2, <4>7, NearByOtherEnd
        <4>9. /\ i = j - 1 <=> j = i + 1
              /\ i - 1 = j <=> i = j + 1
              /\ i - 1 = j - 1 <=> i = j
              /\ i - 1 = j => (Alike(s, t, i - 1) <=> Alike(s, t, j))
          OBVIOUS
        <4> QED BY <4>1, <4>3, <4>4, <4>5, <4>6, <4>8, <4>9
      <3> QED BY <3>1, <3>2
    <2> QED BY <2>1, <2>3
  <1>4. \A i \in 0..m, j \in 0..n : j \in T[i]
    <2> HIDE DEF T
    <2> QED BY <1>1, <1>2, <1>3, PlaceByPlace
  <1> QED BY <1>4

(* A text with a character put in at some place.                           *)
LEMMA WithInserted ==
    ASSUME NEW C, NEW s \in Seq(C), NEW c \in C, NEW i \in 1..(Len(s) + 1)
    PROVE  /\ InsertAt(s, i, c) \in Seq(C) /\ Len(InsertAt(s, i, c)) = Len(s) + 1
           /\ InsertAt(s, i, c)[i] = c
           /\ \A k \in 1..Len(s) : InsertAt(s, i, c)[Past(k, i)] = s[k]
  <1> DEFINE front == SubSeq(s, 1, i - 1)
             back == SubSeq(s, i, Len(s))
             q == InsertAt(s, i, c)
  <1>1. Len(s) \in Nat /\ i \in Nat /\ i >= 1 /\ i <= Len(s) + 1
    OBVIOUS
  <1>2. front \in Seq(C) /\ Len(front) = i - 1 /\ \A k \in 1..(i - 1) : front[k] = s[k]
    BY <1>1
  <1>3. back \in Seq(C) /\ Len(back) = Len(s) - i + 1 /\ \A k \in 1..(Len(s) - i + 1) : back[k] = s[k + i - 1]
    BY <1>1
  <1>4. q = front \o <<c>> \o back
    BY DEF InsertAt
  <1> HIDE DEF front, back, q
  <1>5. <<c>> \in Seq(C) /\ Len(<<c>>) = 1 /\ <<c>>[1] = c
    OBVIOUS
  <1> DEFINE start == front \o <<c>>
  <1>6. /\ start \in Seq(C) /\ Len(start) = i
        /\ start[i] = c /\ \A k \in 1..(i - 1) : start[k] = s[k]
    BY <1>1, <1>2, <1>5
  <1>7. q = start \o back
    BY <1>4
  <1> HIDE DEF start
  <1>8. q \in Seq(C) /\ Len(q) = Len(s) + 1
    <2>1. q \in Seq(C) /\ Len(q) = Len(start) + Len(back)
      BY <1>3, <1>6, <1>7, ConcatProperties
    <2> QED BY <1>1, <1>3, <1>6, <2>1
  <1>9. \A k \in 1..i : q[k] = start[k]
    <2> TAKE k \in 1..i
    <2>1. k \in 1..(Len(start) + Len(back)) /\ k <= Len(start)
      BY <1>1, <1>3, <1>6
    <2> QED BY <1>3, <1>6, <1>7, <2>1, ConcatProperties
  <1>10. \A k \in i..Len(s) : q[k + 1] = s[k]
    <2> TAKE k \in i..Len(s)
    <2>0. PICK x \in Nat : x = k + 1 /\ x \in 1..(Len(start) + Len(back)) /\ ~ (x <= Len(start))
      BY <1>1, <1>3, <1>6
    <2>1. q[k + 1] = back[k + 1 - i]
      <3>1. q[x] = back[x - Len(start)]
        BY <1>3, <1>6, <1>7, <2>0, ConcatProperties
      <3> QED BY <1>6, <2>0, <3>1
    <2>2. k + 1 - i \in 1..(Len(s) - i + 1) /\ (k + 1 - i) + i - 1 = k
      BY <1>1
    <2> QED BY <1>3, <2>1, <2>2
  <1>11. \A k \in 1..Len(s) : q[Past(k, i)] = s[k]
    BY <1>1, <1>6, <1>9, <1>10 DEF Past
  <1>12. q[i] = c
    BY <1>1, <1>6, <1>9
  <1> QED BY <1>8, <1>11, <1>12 DEF q

(* What is left of a text without the character at some place.              *)
LEMMA WithRemoved ==
    ASSUME NEW C, NEW s \in Seq(C), NEW i \in 1..Len(s)
    PROVE  /\ RemoveAt(s, i) \in Seq(C) /\ Len(RemoveAt(s, i)) = Len(s) - 1
           /\ \A k \in 1..(Len(s) - 1) : RemoveAt(s, i)[k] = s[Past(k, i)]
  <1> DEFINE front == SubSeq(s, 1, i - 1)
             back == SubSeq(s, i + 1, Len(s))
             q == RemoveAt(s, i)
  <1>1. Len(s) \in Nat /\ i \in Nat /\ i <= Len(s) /\ i >= 1
    OBVIOUS
  <1>2. front \in Seq(C) /\ Len(front) = i - 1 /\ \A k \in 1..(i - 1) : front[k] = s[k]
    BY <1>1
  <1>3. back \in Seq(C) /\ Len(back) = Len(s) - i /\ \A k \in 1..(Len(s) - i) : back[k] = s[i + k]
    BY <1>1
  <1>4. q = front \o back
    BY DEF RemoveAt
  <1> HIDE DEF front, back, q
  <1>5. q \in Seq(C) /\ Len(q) = Len(s) - 1
    BY <1>1, <1>2, <1>3, <1>4
  <1>6. \A k \in 1..(i - 1) : q[k] = s[k]
    BY <1>1, <1>2, <1>3, <1>4
  <1>7. \A k \in i..(Len(s) - 1) : q[k] = s[k + 1]
    <2> TAKE k \in i..(Len(s) - 1)
    <2>1. q[k] = back[k - (i - 1)]
      BY <1>1, <1>2, <1>3, <1>4
    <2>2. k - (i - 1) \in 1..(Len(s) - i) /\ i + (k - (i - 1)) = k + 1
      BY <1>1
    <2> QED BY <1>3, <2>1, <2>2
  <1>8. \A k \in 1..(Len(s) - 1) : q[k] = s[Past(k, i)]
    BY <1>1, <1>6, <1>7 DEF Past
  <1> QED BY <1>5, <1>8 DEF q

(* The texts that an insertion makes.                                       *)
LEMMA Insertions ==
    ASSUME NEW C, NEW s \in Seq(C), NEW t \in Seq(C)
    PROVE  (\E i \in 1..(Len(s) + 1), c \in C : t = InsertAt(s, i, c))
              <=> Len(t) = Len(s) + 1 /\ \E p \in 1..Len(t) : Inserted(s, t, Len(s), p)
  <1>1. ASSUME NEW i \in 1..(Len(s) + 1), NEW c \in C, t = InsertAt(s, i, c)
        PROVE  Len(t) = Len(s) + 1 /\ \E p \in 1..Len(t) : Inserted(s, t, Len(s), p)
    <2>1. /\ Len(InsertAt(s, i, c)) = Len(s) + 1
          /\ \A k \in 1..Len(s) : InsertAt(s, i, c)[Past(k, i)] = s[k]
      BY WithInserted
    <2>2. Len(t) = Len(s) + 1 /\ i \in 1..Len(t)
      BY <1>1, <2>1
    <2>3. Inserted(s, t, Len(s), i)
      BY <1>1, <2>1 DEF Inserted
    <2> QED BY <2>2, <2>3
  <1>2. ASSUME Len(t) = Len(s) + 1, NEW p \in 1..Len(t), Inserted(s, t, Len(s), p)
        PROVE  \E i \in 1..(Len(s) + 1), c \in C : t = InsertAt(s, i, c)
    <2>1. p \in 1..(Len(s) + 1) /\ t[p] \in C
      BY <1>2
    <2>2. PICK c \in C : c = t[p]
      BY <2>1
    <2> DEFINE q == InsertAt(s, p, c)
    <2>3. q \in Seq(C) /\ Len(q) = Len(s) + 1
      BY <2>1, WithInserted
    <2>4. q[p] = c
      BY <2>1, WithInserted
    <2>5. \A k \in 1..Len(s) : q[Past(k, p)] = s[k]
      BY <2>1, WithInserted
    <2> HIDE DEF q
    <2>6. \A k \in 1..Len(t) : q[k] = t[k]
      <3> TAKE k \in 1..Len(t)
      <3>1. CASE k = p
        BY <2>2, <2>4, <3>1
      <3>2. CASE k < p
        <4>1. k \in 1..Len(s) /\ Past(k, p) = k
          BY <1>2, <3>2 DEF Past
        <4> QED BY <1>2, <2>5, <4>1 DEF Inserted
      <3>3. CASE k > p
        <4>1. k - 1 \in 1..Len(s) /\ Past(k - 1, p) = k
          BY <1>2, <3>3 DEF Past
        <4> QED BY <1>2, <2>5, <4>1 DEF Inserted
      <3> QED BY <3>1, <3>2, <3>3
    <2>7. t = q
      BY <1>2, <2>3, <2>6, SeqEqual
    <2> QED BY <2>1, <2>7 DEF q
  <1> QED BY <1>1, <1>2

(* The texts that a removal makes.                                          *)
LEMMA Removals ==
    ASSUME NEW C, NEW s \in Seq(C), NEW t \in Seq(C)
    PROVE  (\E i \in DOMAIN s : t = RemoveAt(s, i))
              <=> Len(s) = Len(t) + 1 /\ \E p \in 1..Len(s) : Inserted(t, s, Len(t), p)
  <1>1. ASSUME NEW i \in DOMAIN s, t = RemoveAt(s, i)
        PROVE  Len(s) = Len(t) + 1 /\ \E p \in 1..Len(s) : Inserted(t, s, Len(t), p)
    <2>0. i \in 1..Len(s)
      OBVIOUS
    <2>1. Len(s) = Len(t) + 1 /\ i \in 1..Len(s) /\ Len(t) = Len(s) - 1
      <3>1. Len(RemoveAt(s, i)) = Len(s) - 1
        BY <2>0, WithRemoved
      <3> QED BY <1>1, <2>0, <3>1
    <2>2. \A k \in 1..Len(t) : t[k] = s[Past(k, i)]
      BY <1>1, <2>1, WithRemoved
    <2> QED BY <2>1, <2>2 DEF Inserted
  <1>2. ASSUME Len(s) = Len(t) + 1, NEW p \in 1..Len(s), Inserted(t, s, Len(t), p)
        PROVE  \E i \in DOMAIN s : t = RemoveAt(s, i)
    <2>4. /\ RemoveAt(s, p) \in Seq(C) /\ Len(RemoveAt(s, p)) = Len(s) - 1
          /\ \A k \in 1..(Len(s) - 1) : RemoveAt(s, p)[k] = s[Past(k, p)]
      BY WithRemoved, Zenon
    <2>1. /\ RemoveAt(s, p) \in Seq(C) /\ Len(RemoveAt(s, p)) = Len(s) - 1 /\ Len(t) = Len(s) - 1
          /\ \A k \in 1..(Len(s) - 1) : RemoveAt(s, p)[k] = s[Past(k, p)]
      BY <1>2, <2>4
    <2>2. \A k \in 1..Len(t) : t[k] = RemoveAt(s, p)[k]
      BY <1>2, <2>1 DEF Inserted
    <2>3. t = RemoveAt(s, p)
      BY <2>1, <2>2, SeqEqual
    <2> QED BY <2>3
  <1> QED BY <1>1, <1>2

(* The texts that a replacement makes, and the text itself.                 *)
LEMMA Replacements ==
    ASSUME NEW C, NEW s \in Seq(C), NEW t \in Seq(C)
    PROVE  (t = s \/ \E i \in DOMAIN s, c \in C : t = ReplaceAt(s, i, c))
              <=> Len(s) = Len(t) /\ \E p \in 0..Len(s) : Replaced(s, t, Len(s), p)
  <1>1. t = s => Len(s) = Len(t) /\ 0 \in 0..Len(s) /\ Replaced(s, t, Len(s), 0)
    BY DEF Replaced
  <1>2. ASSUME NEW i \in DOMAIN s, NEW c \in C, t = ReplaceAt(s, i, c)
        PROVE  Len(s) = Len(t) /\ i \in 0..Len(s) /\ Replaced(s, t, Len(s), i)
    BY <1>2 DEF ReplaceAt, Replaced
  <1>3. ASSUME Len(s) = Len(t), NEW p \in 0..Len(s), Replaced(s, t, Len(s), p)
        PROVE  t = s \/ \E i \in DOMAIN s, c \in C : t = ReplaceAt(s, i, c)
    <2>1. CASE p = 0
      <3>1. \A k \in 1..Len(s) : s[k] = t[k]
        BY <1>3, <2>1 DEF Replaced
      <3> QED BY <1>3, <3>1, SeqEqual
    <2>2. CASE p # 0
      <3>1. p \in DOMAIN s /\ t[p] \in C
        BY <1>3, <2>2
      <3>2. /\ ReplaceAt(s, p, t[p]) \in Seq(C) /\ Len(ReplaceAt(s, p, t[p])) = Len(t)
            /\ \A k \in 1..Len(t) : ReplaceAt(s, p, t[p])[k] = IF k = p THEN t[p] ELSE s[k]
        BY <1>3, <3>1 DEF ReplaceAt
      <3>3. \A k \in 1..Len(t) : t[k] = ReplaceAt(s, p, t[p])[k]
        BY <1>3, <3>2 DEF Replaced
      <3>4. t = ReplaceAt(s, p, t[p])
        BY <3>2, <3>3, SeqEqual
      <3> QED BY <3>1, <3>4
    <2> QED BY <2>1, <2>2
  <1> QED BY <1>1, <1>2, <1>3

(* The texts that one edit makes of a text are those near it.               *)
LEMMA EditsAreNear ==
    ASSUME NEW s \in Seq({"a", "b"}), NEW t \in Seq({"a", "b"})
    PROVE  t \in Edits(s) \cup {s} <=> Near(s, t, Len(s), Len(t))
  <1>1. t \in Edits(s) <=> \/ \E i \in 1..(Len(s) + 1), c \in {"a", "b"} : t = InsertAt(s, i, c)
                           \/ \E i \in DOMAIN s : t = RemoveAt(s, i)
                           \/ \E i \in DOMAIN s, c \in {"a", "b"} : t = ReplaceAt(s, i, c)
    BY DEF Edits
  <1>2. (\E i \in 1..(Len(s) + 1), c \in {"a", "b"} : t = InsertAt(s, i, c))
              <=> Len(t) = Len(s) + 1 /\ \E p \in 1..Len(t) : Inserted(s, t, Len(s), p)
    BY Insertions
  <1>3. (\E i \in DOMAIN s : t = RemoveAt(s, i))
              <=> Len(s) = Len(t) + 1 /\ \E p \in 1..Len(s) : Inserted(t, s, Len(t), p)
    BY Removals
  <1>4. (t = s \/ \E i \in DOMAIN s, c \in {"a", "b"} : t = ReplaceAt(s, i, c))
              <=> Len(s) = Len(t) /\ \E p \in 0..Len(s) : Replaced(s, t, Len(s), p)
    BY Replacements
  <1> QED BY <1>1, <1>2, <1>3, <1>4, Zenon DEF Near

(* Texts in lower case are what they are.                                   *)
LEMMA LowerAlready ==
    ASSUME NEW s \in Seq({"a", "b"})
    PROVE  utf8lower(s, FALSE) = s
  <1>1. Lower("a") = "a" /\ Lower("b") = "b"
    BY DEF Lower, LowerCase
  <1>2. \A i \in DOMAIN s : s[i] \in {"a", "b"}
    OBVIOUS
  <1>3. \A i \in DOMAIN s : Lower(s[i]) = s[i]
    BY <1>1, <1>2
  <1>4. utf8lower(s, FALSE) = [i \in DOMAIN s |-> Lower(s[i])]
    BY Zenon DEF utf8lower
  <1>5. s = [i \in DOMAIN s |-> s[i]]
    OBVIOUS
  <1> QED BY <1>3, <1>4, <1>5

(* The distance of two texts is below two if one edit at most makes one of  *)
(* them of the other.                                                       *)
LEMMA DistanceOfEdits ==
    ASSUME NEW s \in Seq({"a", "b"}), NEW t \in Seq({"a", "b"})
    PROVE  levenstein(s, t) < 2 <=> t \in Edits(s) \cup {s}
  <1>1. PICK m \in Nat, n \in Nat : m = Len(s) /\ n = Len(t)
    OBVIOUS
  <1>2. PICK d : d = Made(s, t, m, n)
    OBVIOUS
  <1>3. levenstein(s, t) = d[m][n]
    <2>1. utf8lower(s, FALSE) = s /\ utf8lower(t, FALSE) = t
      BY LowerAlready
    <2>2. m = Len(utf8lower(s, FALSE)) /\ n = Len(utf8lower(t, FALSE))
      BY <1>1, <2>1
    <2>3. levenstein(s, t) = Made(utf8lower(s, FALSE), utf8lower(t, FALSE), m, n)[m][n]
      BY <1>1, <2>2, LevensteinDef, ZenonT(60)
    <2> QED BY <1>2, <2>1, <2>3
  <1>4. Table(d, s, t, m, n)
    BY <1>1, <1>2, MadeTable
  <1>5. m \in 0..m /\ n \in 0..n
    OBVIOUS
  <1>6. d[m][n] < 2 <=> Near(s, t, m, n)
    BY <1>4, <1>5, OneEdit
  <1>7. t \in Edits(s) \cup {s} <=> Near(s, t, m, n)
    BY <1>1, EditsAreNear
  <1> QED BY <1>3, <1>6, <1>7

(* Texts of plain letters, of which nothing is taken for something else.    *)
Plain == Seq({"a", "b"})

(* The letters.                                                             *)
LEMMA PlainLetters ==
    ASSUME NEW c \in {"a", "b"}
    PROVE  /\ Lower(c) = c /\ c # Blank /\ c # "-" /\ c # "$" /\ c \notin Punctuation
           /\ ~ IsDigit(c) /\ ~ InNumber(c) /\ c \notin DOMAIN Unaccented
           /\ c \notin DOMAIN NumberWords /\ c \notin DOMAIN Multipliers /\ c # "dollars"
  <1>1. Lower("a") = "a" /\ Lower("b") = "b"
    BY DEF Lower, LowerCase
  <1>2. c # Blank /\ c # "-" /\ c # "$" /\ c \notin Punctuation
    BY DEF Blank, Punctuation, Quote
  <1>3. ~ IsDigit(c)
    BY DEF IsDigit, Decimals
  <1>4. ~ InNumber(c)
    BY <1>3 DEF InNumber
  <1>5. c \notin DOMAIN Unaccented
    BY DEF Unaccented
  <1>6. c \notin DOMAIN NumberWords
    BY DEF NumberWords
  <1>7. c \notin DOMAIN Multipliers
    BY DEF Multipliers
  <1> QED BY <1>1, <1>2, <1>3, <1>4, <1>5, <1>6, <1>7

(* Places counted from the end.                                             *)
LEMMA FromTheEnd ==
    ASSUME NEW n \in Nat, NEW j \in 1..n
    PROVE  n + 1 - j \in 1..(n + 1) /\ n + 1 - j + 1 = n + 1 - (j - 1)
  OBVIOUS

(* A text is its first character and the rest.                              *)
LEMMA FirstAndRest ==
    ASSUME NEW C, NEW s \in Seq(C), NEW i \in 1..Len(s)
    PROVE  SubSeq(s, i, Len(s)) = <<s[i]>> \o SubSeq(s, i + 1, Len(s))
  <1> PICK n \in Nat : n = Len(s)
    OBVIOUS
  <1>0. i \in Nat /\ i >= 1 /\ i <= n
    OBVIOUS
  <1> DEFINE rest == SubSeq(s, i + 1, n)
             all == SubSeq(s, i, n)
  <1>1. rest \in Seq(C) /\ Len(rest) = n - i /\ \A k \in 1..(n - i) : rest[k] = s[i + k]
    BY <1>0
  <1>2. all \in Seq(C) /\ Len(all) = n - i + 1 /\ \A k \in 1..(n - i + 1) : all[k] = s[k + i - 1]
    BY <1>0
  <1> HIDE DEF rest, all
  <1>3. <<s[i]>> \in Seq(C) /\ Len(<<s[i]>>) = 1 /\ <<s[i]>>[1] = s[i]
    OBVIOUS
  <1> DEFINE first == <<s[i]>>
             whole == first \o rest
  <1> HIDE DEF first
  <1>4. first \in Seq(C) /\ Len(first) = 1 /\ first[1] = s[i]
    BY <1>3 DEF first
  <1>5. /\ whole \in Seq(C) /\ Len(whole) = n - i + 1
        /\ \A k \in 1..(n - i + 1) : whole[k] = IF k <= 1 THEN first[k] ELSE rest[k - 1]
    <2>1. /\ whole \in Seq(C) /\ Len(whole) = Len(first) + Len(rest)
          /\ \A k \in 1..(Len(first) + Len(rest)) :
                whole[k] = IF k <= Len(first) THEN first[k] ELSE rest[k - Len(first)]
      BY <1>1, <1>4, ConcatProperties
    <2> HIDE DEF whole
    <2>2. Len(first) + Len(rest) = n - i + 1
      BY <1>0, <1>1, <1>4
    <2> QED BY <1>4, <2>1, <2>2
  <1> HIDE DEF whole
  <1>6. \A k \in 1..(n - i + 1) : whole[k] = all[k]
    <2> TAKE k \in 1..(n - i + 1)
    <2>1. CASE k = 1
      BY <1>0, <1>2, <1>4, <1>5, <2>1
    <2>2. CASE k # 1
      <3>1. k - 1 \in 1..(n - i) /\ i + (k - 1) = k + i - 1 /\ ~ (k <= 1)
        BY <1>0, <2>2
      <3> QED BY <1>1, <1>2, <1>5, <3>1
    <2> QED BY <2>1, <2>2
  <1>7. whole = all
    BY <1>2, <1>5, <1>6, SeqEqual
  <1> QED BY <1>7 DEF whole, all, first, rest

(* A text without a character is not changed by the replacement of texts    *)
(* with that character.                                                     *)
LEMMA NothingReplaced ==
    ASSUME NEW s \in Plain, NEW C, NEW sought \in Seq(C), NEW replace,
           NEW k \in 1..Len(sought), Lower(sought[k]) \notin {"a", "b"}
    PROVE  ReplaceString(s, sought, replace) = s
  <1> PICK n \in Nat : n = Len(s)
    BY DEF Plain
  <1> PICK l \in Nat \ {0} : l = Len(sought)
    OBVIOUS
  <1> DEFINE tail == [i \in 1..(n + 1) |-> SubSeq(s, i, n)]
             Match(i) == lowercase(SubSeq(s, i, i + l - 1)) = lowercase(sought)
             Step(f, i) == LET after == i + Len(sought)
                           IN  IF after > Len(s) + 1 THEN SubSeq(s, i, Len(s))
                               ELSE IF lowercase(SubSeq(s, i, after - 1)) = lowercase(sought)
                                    THEN replace \o f[after]
                                    ELSE <<s[i]>> \o f[i + 1]
             Is(f) == f = [i \in 1..(n + 1) |-> Step(f, i)]
  <1>1. \A i \in 1..(n + 1) : i + l <= n + 1 => ~ Match(i)
    <2> SUFFICES ASSUME NEW i \in 1..(n + 1), i + l <= n + 1, Match(i) PROVE FALSE
      OBVIOUS
    <2> DEFINE q == SubSeq(s, i, i + l - 1)
    <2>1. q \in Seq({"a", "b"}) /\ Len(q) = l
      BY DEF Plain
    <2>2. k \in DOMAIN q /\ k \in DOMAIN sought /\ q[k] \in {"a", "b"}
      <3> HIDE DEF q
      <3> QED BY <2>1
    <2>3. lowercase(q)[k] = Lower(q[k]) /\ lowercase(sought)[k] = Lower(sought[k])
      <3> HIDE DEF q
      <3> QED BY <2>2 DEF lowercase
    <2>4. Lower(q[k]) \in {"a", "b"}
      <3> HIDE DEF q
      <3> QED BY <2>2, PlainLetters
    <2> QED BY <2>3, <2>4
  <1>2. \A f : \A i \in 1..(n + 1) :
           Step(f, i) = IF i + l > n + 1 THEN SubSeq(s, i, n) ELSE <<s[i]>> \o f[i + 1]
    <2> TAKE f
    <2> TAKE i \in 1..(n + 1)
    <2>1. CASE i + l > n + 1
      <3>1. i + Len(sought) > Len(s) + 1
        BY <2>1
      <3>2. Step(f, i) = SubSeq(s, i, Len(s))
        BY <3>1, Zenon
      <3> HIDE DEF Step
      <3> QED BY <2>1, <3>2
    <2>2. CASE ~ (i + l > n + 1)
      <3>1. ~ (i + Len(sought) > Len(s) + 1)
        BY <2>2
      <3>2. ~ Match(i)
        <4> HIDE DEF Match
        <4> QED BY <1>1, <2>2
      <3>3. ~ (lowercase(SubSeq(s, i, i + Len(sought) - 1)) = lowercase(sought))
        BY <3>2
      <3>4. Step(f, i) = IF i + Len(sought) > Len(s) + 1 THEN SubSeq(s, i, Len(s))
                         ELSE IF lowercase(SubSeq(s, i, i + Len(sought) - 1)) = lowercase(sought)
                              THEN replace \o f[i + Len(sought)]
                              ELSE <<s[i]>> \o f[i + 1]
        OBVIOUS
      <3> HIDE DEF Step, Match
      <3>5. Step(f, i) = <<s[i]>> \o f[i + 1]
        BY <3>1, <3>3, <3>4, Zenon
      <3> QED BY <2>2, <3>5
    <2> HIDE DEF Step, Match
    <2> QED BY <2>1, <2>2
  <1> HIDE DEF Step
  <1>3. Is(tail)
    <2>1. \A i \in 1..(n + 1) : tail[i] = Step(tail, i)
      <3> TAKE i \in 1..(n + 1)
      <3>1. tail[i] = SubSeq(s, i, n)
        OBVIOUS
      <3>2. CASE i + l > n + 1
        <4> HIDE DEF tail
        <4> QED BY <1>2, <3>1, <3>2
      <3>3. CASE ~ (i + l > n + 1)
        <4>1. i \in 1..n /\ i + 1 \in 1..(n + 1)
          BY <3>3
        <4>2. tail[i + 1] = SubSeq(s, i + 1, n)
          BY <4>1
        <4>3. SubSeq(s, i, n) = <<s[i]>> \o SubSeq(s, i + 1, n)
          BY <4>1, FirstAndRest DEF Plain
        <4> HIDE DEF tail
        <4> QED BY <1>2, <3>1, <3>3, <4>2, <4>3
      <3> QED BY <3>2, <3>3
    <2> QED BY <2>1
  <1> DEFINE g == CHOOSE f_1 : Is(f_1)
  <1>4. Is(g)
    <2> HIDE DEF Is, tail
    <2> QED BY <1>3
  <1>5. ReplaceString(s, sought, replace) = g[1]
    <2>1. ReplaceString(s, sought, replace) = (CHOOSE f_1 : f_1 = [i \in 1..(Len(s) + 1) |-> Step(f_1, i)])[1]
      BY Zenon DEF ReplaceString, Step
    <2>2. \A f : f = [i \in 1..(Len(s) + 1) |-> Step(f, i)] <=> Is(f)
      OBVIOUS
    <2> HIDE DEF Is
    <2> QED BY <2>1, <2>2, Zenon
  <1>6. \A j \in 0..n : g[n + 1 - j] = tail[n + 1 - j]
    <2> DEFINE T == {j \in 0..n : g[n + 1 - j] = tail[n + 1 - j]}
    <2>1. \A i \in 1..(n + 1) : g[i] = Step(g, i) /\ tail[i] = Step(tail, i)
      <3> HIDE DEF g, tail
      <3> QED BY <1>3, <1>4
    <2> HIDE DEF g, tail
    <2>2. 0 \in T
      <3>1. n + 1 \in 1..(n + 1) /\ n + 1 + l > n + 1 /\ n + 1 - 0 = n + 1
        OBVIOUS
      <3>2. Step(g, n + 1) = Step(tail, n + 1)
        <4>1. Step(g, n + 1) = SubSeq(s, n + 1, n)
          BY <1>2, <3>1
        <4>2. Step(tail, n + 1) = SubSeq(s, n + 1, n)
          BY <1>2, <3>1
        <4> QED BY <4>1, <4>2
      <3> QED BY <2>1, <3>1, <3>2
    <2>3. \A j \in 1..n : j - 1 \in T => j \in T
      <3> SUFFICES ASSUME NEW j \in 1..n, g[n + 1 - (j - 1)] = tail[n + 1 - (j - 1)]
                   PROVE  g[n + 1 - j] = tail[n + 1 - j]
        OBVIOUS
      <3>0. PICK i : i = n + 1 - j
        OBVIOUS
      <3>1. i = n + 1 - j /\ i + 1 = n + 1 - (j - 1) /\ i \in 1..(n + 1)
        BY <3>0, FromTheEnd, Zenon
      <3>2. g[i + 1] = tail[i + 1]
        BY <3>1
      <3>3. Step(g, i) = IF i + l > n + 1 THEN SubSeq(s, i, n) ELSE <<s[i]>> \o g[i + 1]
        BY <1>2, <3>1
      <3>4. Step(tail, i) = IF i + l > n + 1 THEN SubSeq(s, i, n) ELSE <<s[i]>> \o tail[i + 1]
        BY <1>2, <3>1
      <3>5. g[i] = tail[i]
        BY <2>1, <3>1, <3>2, <3>3, <3>4
      <3> QED BY <3>1, <3>5
    <2>4. \A j \in 0..n : j \in T
      <3> HIDE DEF T
      <3> QED BY <2>2, <2>3, OneByOne
    <2> QED BY <2>4
  <1>7. g[1] = tail[1]
    <2>1. n \in 0..n /\ n + 1 - n = 1
      OBVIOUS
    <2> HIDE DEF g, tail
    <2>2. g[n + 1 - n] = tail[n + 1 - n]
      BY <1>6, <2>1
    <2> QED BY <2>1, <2>2
  <1>8. tail[1] = s
    <2>1. SubSeq(s, 1, n) = s
      BY DEF Plain
    <2> QED BY <2>1
  <1> QED BY <1>5, <1>7, <1>8

(* What a text of letters starts with.                                      *)
LEMMA PlainStart ==
    ASSUME NEW s \in Plain
    PROVE  /\ Leading(s, IsBlank) = 0 /\ Leading(s, IsDigit) = 0 /\ Leading(s, InNumber) = 0
           /\ Leading(s, LAMBDA c : c # Blank) = Len(s)
  <1> PICK n \in Nat : n = Len(s)
    BY DEF Plain
  <1>0. \A i \in 1..n : s[i] \in {"a", "b"}
    BY DEF Plain
  <1>1. \A i \in 1..n : ~ IsBlank(s[i]) /\ ~ IsDigit(s[i]) /\ ~ InNumber(s[i]) /\ s[i] # Blank
    BY <1>0, PlainLetters DEF IsBlank
  <1>2. ASSUME NEW S, S = {0} PROVE Max(S) = 0
    <2>1. S \subseteq 0..0 /\ S # {}
      BY <1>2
    <2>2. Max(S) \in S
      BY <2>1, LargestNumber
    <2> QED BY <1>2, <2>2
  <1>3. {k \in 0..n : \A i \in 1..k : IsBlank(s[i])} = {0}
    BY <1>1
  <1>4. {k \in 0..n : \A i \in 1..k : IsDigit(s[i])} = {0}
    BY <1>1
  <1>5. {k \in 0..n : \A i \in 1..k : InNumber(s[i])} = {0}
    BY <1>1
  <1>6. Max({k \in 0..n : \A i \in 1..k : s[i] # Blank}) = n
    <2> DEFINE S == {k \in 0..n : \A i \in 1..k : s[i] # Blank}
    <2>1. S \subseteq 0..n
      OBVIOUS
    <2>4. n \in S
      BY <1>1
    <2> HIDE DEF S
    <2>2. Max(S) \in S /\ \A x \in S : x <= Max(S)
      BY <2>1, <2>4, LargestNumber
    <2>3. Max(S) = n
      <3>1. Max(S) \in 0..n /\ n <= Max(S)
        BY <2>1, <2>2, <2>4
      <3> QED BY <3>1
    <2> QED BY <2>3 DEF S
  <1>7. Leading(s, IsBlank) = 0
    BY <1>2, <1>3 DEF Leading
  <1>8. Leading(s, IsDigit) = 0
    BY <1>2, <1>4 DEF Leading
  <1>9. Leading(s, InNumber) = 0
    BY <1>2, <1>5 DEF Leading
  <1>10. Leading(s, LAMBDA c : c # Blank) = n
    BY <1>6 DEF Leading
  <1> QED BY <1>7, <1>8, <1>9, <1>10

(* It is one word.                                                          *)
LEMMA OneWord ==
    ASSUME NEW s \in Plain
    PROVE  Words(s) = IF s = <<>> THEN <<>> ELSE <<s>>
  <1> PICK n \in Nat : n = Len(s)
    BY DEF Plain
  <1> DEFINE tail(i) == SubSeq(s, i, n)
             f == [i \in 1..(n + 1) |-> IF i = n + 1 THEN <<>> ELSE <<tail(i)>>]
             Step(h, i) == LET t == ltrim(SubSeq(s, i, Len(s)))
                               m == Leading(t, LAMBDA c : c # Blank)
                           IN  IF t = <<>> THEN <<>>
                               ELSE <<SubSeq(t, 1, m)>> \o h[Len(s) - Len(t) + m + 1]
             Is(h) == h = [i \in 1..(n + 1) |-> Step(h, i)]
  <1>1. \A i \in 1..(n + 1) : /\ tail(i) \in Plain /\ Len(tail(i)) = n + 1 - i
                              /\ tail(i) = <<>> <=> i = n + 1
    <2> TAKE i \in 1..(n + 1)
    <2>1. tail(i) \in Plain /\ Len(tail(i)) = n + 1 - i
      BY DEF Plain
    <2>2. tail(i) = <<>> <=> Len(tail(i)) = 0
      <3> HIDE DEF tail
      <3> QED BY <2>1 DEF Plain
    <2> HIDE DEF tail
    <2> QED BY <2>1, <2>2
  <1>2. \A i \in 1..(n + 1) : ltrim(tail(i)) = tail(i)
    <2> TAKE i \in 1..(n + 1)
    <2>1. tail(i) \in Plain
      BY <1>1
    <2> HIDE DEF tail
    <2>2. Leading(tail(i), IsBlank) = 0
      BY <2>1, PlainStart
    <2>3. SubSeq(tail(i), 1, Len(tail(i))) = tail(i)
      BY <2>1 DEF Plain
    <2> QED BY <2>2, <2>3 DEF ltrim
  <1>3. \A h : \A i \in 1..(n + 1) :
           Step(h, i) = IF i = n + 1 THEN <<>> ELSE <<tail(i)>> \o h[n + 1]
    <2> TAKE h
    <2> TAKE i \in 1..(n + 1)
    <2> PICK t : t = tail(i)
      OBVIOUS
    <2>1. t \in Plain /\ Len(t) = n + 1 - i /\ (t = <<>> <=> i = n + 1) /\ ltrim(t) = t
      BY <1>1, <1>2
    <2>2. PICK m : m = Leading(t, LAMBDA c : c # Blank)
      OBVIOUS
    <2>3. m = Len(t)
      BY <2>1, <2>2, PlainStart
    <2>4. Step(h, i) = IF t = <<>> THEN <<>> ELSE <<SubSeq(t, 1, m)>> \o h[Len(s) - Len(t) + m + 1]
      <3>1. ltrim(SubSeq(s, i, Len(s))) = t
        BY <2>1
      <3> QED BY <2>2, <3>1, Zenon DEF Step
    <2>5. SubSeq(t, 1, m) = t /\ Len(s) - Len(t) + m + 1 = n + 1
      BY <2>1, <2>3 DEF Plain
    <2> HIDE DEF Step, tail
    <2> QED BY <2>1, <2>4, <2>5
  <1> HIDE DEF Step
  <1>4. Is(f)
    <2>1. \A i \in 1..(n + 1) : f[i] = Step(f, i)
      <3> TAKE i \in 1..(n + 1)
      <3>1. f[i] = IF i = n + 1 THEN <<>> ELSE <<tail(i)>>
        <4> HIDE DEF tail
        <4> QED OBVIOUS
      <3>2. f[n + 1] = <<>>
        <4> HIDE DEF tail
        <4> QED OBVIOUS
      <3>3. <<tail(i)>> \o <<>> = <<tail(i)>>
        <4> HIDE DEF tail
        <4> PICK C : C = {tail(i)}
          OBVIOUS
        <4>1. <<tail(i)>> \in Seq(C)
          OBVIOUS
        <4> QED BY <4>1
      <3> HIDE DEF f, tail
      <3> QED BY <1>3, <3>1, <3>2, <3>3
    <2> HIDE DEF tail
    <2> QED BY <2>1
  <1> DEFINE g == CHOOSE f_1 : Is(f_1)
  <1>5. Is(g)
    <2> HIDE DEF Is, f
    <2> QED BY <1>4
  <1>6. Words(s) = g[1]
    <2>1. Words(s) = (CHOOSE f_1 : f_1 = [i \in 1..(Len(s) + 1) |-> Step(f_1, i)])[1]
      BY Zenon DEF Words, Step
    <2>2. \A h : h = [i \in 1..(Len(s) + 1) |-> Step(h, i)] <=> Is(h)
      OBVIOUS
    <2> HIDE DEF Is
    <2> QED BY <2>1, <2>2, Zenon
  <1>7. \A i \in 1..(n + 1) : g[i] = Step(g, i)
    <2> HIDE DEF g
    <2> QED BY <1>5
  <1> HIDE DEF g
  <1>8. g[n + 1] = <<>>
    <2>1. n + 1 \in 1..(n + 1)
      OBVIOUS
    <2> HIDE DEF tail
    <2>2. g[n + 1] = Step(g, n + 1)
      BY <1>7, <2>1
    <2> QED BY <1>3, <2>1, <2>2
  <1>9. tail(1) = s
    BY DEF Plain
  <1>10. g[1] = IF 1 = n + 1 THEN <<>> ELSE <<s>> \o <<>>
    <2>1. 1 \in 1..(n + 1)
      OBVIOUS
    <2> HIDE DEF tail
    <2>2. g[1] = Step(g, 1)
      BY <1>7, <2>1
    <2>3. Step(g, 1) = IF 1 = n + 1 THEN <<>> ELSE <<tail(1)>> \o g[n + 1]
      BY <1>3, <2>1
    <2> QED BY <1>8, <1>9, <2>2, <2>3
  <1>11. <<s>> \o <<>> = <<s>>
    <2> PICK C : C = {s}
      OBVIOUS
    <2>1. <<s>> \in Seq(C)
      OBVIOUS
    <2> QED BY <2>1
  <1>12. s = <<>> <=> 1 = n + 1
    BY DEF Plain
  <1> QED BY <1>6, <1>10, <1>11, <1>12

(* A text of letters has no mark to remove.                                 *)
LEMMA NoMarks ==
    ASSUME NEW s \in Plain
    PROVE  removepunct(s) = s
  <1> PICK n \in Nat : n = Len(s)
    BY DEF Plain
  <1> DEFINE seqs == [i \in 1..n |-> <<s[i]>>]
  <1>1. removepunct(s) = FlattenSeq(seqs)
    <2>1. \A i \in DOMAIN s : (IF s[i] \in Punctuation THEN <<>> ELSE <<s[i]>>) = <<s[i]>>
      BY PlainLetters DEF Plain
    <2>2. DOMAIN s = 1..n
      BY DEF Plain
    <2>3. [i \in DOMAIN s |-> IF s[i] \in Punctuation THEN <<>> ELSE <<s[i]>>] = seqs
      BY <2>1, <2>2
    <2> HIDE DEF seqs
    <2> QED BY <2>3 DEF removepunct
  <1>2. Len(seqs) = n /\ \A i \in 1..n : seqs[i] = <<s[i]>>
    OBVIOUS
  <1>3. CASE n = 0
    <2>1. FlattenSeq(seqs) = seqs
      BY <1>2, <1>3, Zenon DEF FlattenSeq
    <2>2. s = <<>>
      <3> HIDE DEF seqs
      <3>1. Len(s) = 0 /\ s \in Seq({"a", "b"})
        BY <1>3 DEF Plain
      <3> QED BY <3>1
    <2>3. seqs = s
      BY <1>2, <1>3, <2>2
    <2> QED BY <1>1, <2>1, <2>3
  <1>4. CASE n # 0
    <2> DEFINE f == [i \in 1..n |-> SubSeq(s, 1, i)]
               Is(h) == h = [i \in 1..Len(seqs) |-> IF i = 1 THEN seqs[i] ELSE h[i - 1] \o seqs[i]]
    <2>1. SubSeq(s, 1, 1) = <<s[1]>>
      <3> PICK p : p = SubSeq(s, 1, 1)
        OBVIOUS
      <3>1. p \in Plain /\ Len(p) = 1 /\ p[1] = s[1]
        BY <1>4 DEF Plain
      <3> PICK x : x = <<s[1]>>
        OBVIOUS
      <3>2. x \in Plain /\ Len(x) = 1 /\ x[1] = s[1]
        <4>1. s[1] \in {"a", "b"}
          BY <1>4 DEF Plain
        <4> QED BY <4>1 DEF Plain
      <3>3. \A k \in 1..Len(p) : p[k] = x[k]
        BY <3>1, <3>2
      <3> HIDE DEF Plain
      <3>4. p = x
        BY <3>1, <3>2, <3>3, SeqEqual DEF Plain
      <3> QED BY <3>4
    <2>2. \A i \in 2..n : SubSeq(s, 1, i) = SubSeq(s, 1, i - 1) \o <<s[i]>>
      <3> TAKE i \in 2..n
      <3> PICK p : p = SubSeq(s, 1, i - 1)
        OBVIOUS
      <3> PICK q : q = SubSeq(s, 1, i)
        OBVIOUS
      <3>1. p \in Plain /\ Len(p) = i - 1 /\ \A k \in 1..(i - 1) : p[k] = s[k]
        BY DEF Plain
      <3>2. q \in Plain /\ Len(q) = i /\ \A k \in 1..i : q[k] = s[k]
        BY DEF Plain
      <3>3. PICK x : x = <<s[i]>>
        OBVIOUS
      <3>4. x \in Plain /\ Len(x) = 1 /\ x[1] = s[i]
        BY <3>3 DEF Plain
      <3>5. /\ p \o x \in Plain /\ Len(p \o x) = Len(p) + Len(x)
            /\ \A k \in 1..(Len(p) + Len(x)) : (p \o x)[k] = IF k <= Len(p) THEN p[k] ELSE x[k - Len(p)]
        BY <3>1, <3>4, ConcatProperties, ZenonT(60) DEF Plain
      <3>6. \A k \in 1..i : (p \o x)[k] = q[k]
        <4> TAKE k \in 1..i
        <4>1. CASE k <= i - 1
          BY <3>1, <3>2, <3>4, <3>5, <4>1
        <4>2. CASE k = i
          BY <3>1, <3>2, <3>4, <3>5, <4>2
        <4>3. k \in Nat /\ i \in Nat /\ k <= i /\ (k <= i - 1 \/ k = i)
          OBVIOUS
        <4> QED BY <4>1, <4>2, <4>3
      <3>7. Len(p \o x) = Len(q)
        BY <3>1, <3>2, <3>4, <3>5
      <3>8. p \o x = q
        BY <3>2, <3>5, <3>6, <3>7, SeqEqual DEF Plain
      <3> QED BY <3>3, <3>8
    <2>3. Is(f)
      <3>1. \A i \in 1..n : f[i] = IF i = 1 THEN seqs[i] ELSE f[i - 1] \o seqs[i]
        <4> TAKE i \in 1..n
        <4>1. f[i] = SubSeq(s, 1, i) /\ seqs[i] = <<s[i]>>
          OBVIOUS
        <4>2. CASE i = 1
          <5> HIDE DEF f, seqs
          <5> QED BY <2>1, <4>1, <4>2
        <4>3. CASE i # 1
          <5>1. i - 1 \in 1..n /\ i \in 2..n
            BY <4>3
          <5>2. f[i - 1] = SubSeq(s, 1, i - 1)
            BY <5>1
          <5> HIDE DEF f, seqs
          <5> QED BY <2>2, <4>1, <4>3, <5>1, <5>2
        <4> QED BY <4>2, <4>3
      <3> HIDE DEF seqs
      <3> QED BY <1>2, <3>1
    <2> DEFINE g == CHOOSE f_1 : Is(f_1)
    <2>4. Is(g)
      <3> HIDE DEF Is, f
      <3> QED BY <2>3
    <2>5. FlattenSeq(seqs) = g[Len(seqs)]
      <3>1. Len(seqs) # 0
        BY <1>2, <1>4
      <3> HIDE DEF seqs
      <3> QED BY <3>1, Zenon DEF FlattenSeq
    <2>6. \A i \in 1..n : g[i] = IF i = 1 THEN seqs[i] ELSE g[i - 1] \o seqs[i]
      <3> HIDE DEF g, seqs
      <3> QED BY <1>2, <2>4
    <2>7. \A i \in 1..n : f[i] = IF i = 1 THEN seqs[i] ELSE f[i - 1] \o seqs[i]
      <3> HIDE DEF f, seqs
      <3> QED BY <1>2, <2>3
    <2>8. \A i \in 0..n : i \in {0} \cup {k \in 1..n : g[k] = f[k]}
      <3> DEFINE T == {0} \cup {k \in 1..n : g[k] = f[k]}
      <3> HIDE DEF f, g, seqs
      <3>1. \A i \in 1..n : i - 1 \in T => i \in T
        <4> TAKE i \in 1..n
        <4> HAVE i - 1 \in T
        <4>1. i # 1 => g[i - 1] = f[i - 1]
          OBVIOUS
        <4> QED BY <2>6, <2>7, <4>1
      <3>2. 0 \in T
        OBVIOUS
      <3> HIDE DEF T
      <3>3. \A i \in 0..n : i \in T
        BY <3>1, <3>2, OneByOne
      <3> QED BY <3>3 DEF T
    <2>9. g[n] = f[n]
      <3> HIDE DEF f, g
      <3> QED BY <1>4, <2>8
    <2>10. f[n] = s
      <3>1. f[n] = SubSeq(s, 1, n)
        BY <1>4
      <3> HIDE DEF f
      <3> QED BY <3>1 DEF Plain
    <2> HIDE DEF f, g, seqs
    <2> QED BY <1>1, <1>2, <2>5, <2>9, <2>10
  <1> QED BY <1>3, <1>4

(* It says no number.                                                       *)
LEMMA NoNumber ==
    ASSUME NEW s \in Plain
    PROVE  conv_num(s) = <<"0">>
  <1>1. Lower(Blank) \notin {"a", "b"} /\ Lower("-") \notin {"a", "b"}
    BY DEF Lower, LowerCase, Blank
  <1>2. \A r : ReplaceString(s, <<Blank, Blank>>, r) = s
    <2> TAKE r
    <2>1. <<Blank, Blank>> \in Seq({Blank}) /\ 1 \in 1..Len(<<Blank, Blank>>) /\ <<Blank, Blank>>[1] = Blank
      OBVIOUS
    <2> QED BY <1>1, <2>1, NothingReplaced
  <1>3. \A r : ReplaceString(s, <<"-">>, r) = s
    <2> TAKE r
    <2>1. <<"-">> \in Seq({"-"}) /\ 1 \in 1..Len(<<"-">>) /\ <<"-">>[1] = "-"
      OBVIOUS
    <2> QED BY <1>1, <2>1, NothingReplaced
  <1>4. \A r : ReplaceString(s, <<Blank, "and", Blank>>, r) = s
    <2> TAKE r
    <2>1. /\ <<Blank, "and", Blank>> \in Seq({Blank, "and"}) /\ 1 \in 1..Len(<<Blank, "and", Blank>>)
          /\ <<Blank, "and", Blank>>[1] = Blank
      OBVIOUS
    <2> QED BY <1>1, <2>1, NothingReplaced
  <1>5. CASE s = <<>>
    BY <1>5, Zenon DEF conv_num
  <1>6. CASE s # <<>>
    <2>1. Words(s) = <<s>>
      BY <1>6, OneWord
    <2>2. ~ IsNumberWord(s)
      <3>1. \A i \in 1..Len(s) : s[i] \in {"a", "b"}
        BY DEF Plain
      <3>2. \A i \in 1..Len(s) : /\ s[i] \notin DOMAIN NumberWords /\ s[i] \notin DOMAIN Multipliers
                                /\ s[i] # "dollars"
        BY <3>1, PlainLetters
      <3>3. Value(s) = 0
        <4>1. Len(s) = 1 => s[1] \notin DOMAIN NumberWords
          <5>1. Len(s) = 1 => 1 \in 1..Len(s)
            OBVIOUS
          <5> QED BY <3>2, <5>1, Zenon
        <4> QED BY <4>1, Zenon DEF Value
      <3>4. ~ IsMultiplier(s)
        BY <3>2, Zenon DEF IsMultiplier, Contains
      <3>5. ~ Contains(s, "dollars")
        BY <3>2, Zenon DEF Contains
      <3>6. ~ (Value(s) > 0)
        BY <3>3
      <3> QED BY <3>4, <3>5, <3>6, Zenon DEF IsNumberWord
    <2>3. 1 \in DOMAIN <<s>> /\ <<s>>[1] = s
      OBVIOUS
    <2>4. ~ \A i \in DOMAIN <<s>> : IsNumberWord(<<s>>[i])
      BY <2>2, <2>3, Zenon
    <2>5. ReplaceString(ReplaceString(ReplaceString(s, <<Blank, Blank>>, <<Blank>>), <<"-">>, <<>>),
                        <<Blank, "and", Blank>>, <<Blank>>) = s
      BY <1>2, <1>3, <1>4, Zenon
    <2>6. InNumbers(<<s>>) = <<"0">>
      BY <2>4, Zenon DEF InNumbers
    <2> QED BY <1>6, <2>1, <2>5, <2>6, Zenon DEF conv_num
  <1> QED BY <1>5, <1>6

(* Nothing of it is tidied away.                                            *)
LEMMA NothingTidied ==
    ASSUME NEW s \in Plain
    PROVE  tidy_num(s) = s
  <1>1. Digits(s) = <<>>
    <2>1. Leading(s, InNumber) = 0
      BY PlainStart
    <2>2. SubSeq(s, 1, 0) = <<>>
      BY DEF Plain
    <2> QED BY <2>1, <2>2, Zenon DEF Digits
  <1>2. ~ HasUnit(s)
    BY <1>1, Zenon DEF HasUnit
  <1>3. s # <<>> => s[1] \in {"a", "b"} /\ 1 \in DOMAIN s
    BY DEF Plain
  <1>4. s # <<>> => s[1] # "$" /\ s[1] # "-" /\ ~ InNumber(s[1])
    BY <1>3, PlainLetters
  <1>5. Len(s) > 1 => s # <<>>
    BY DEF Plain
  <1>6. number_tidy_dollars(s) = s /\ number_tidy_nodollars(s) = s
    BY <1>2, Zenon DEF number_tidy_dollars, number_tidy_nodollars
  <1>7. TidySign(s) = s
    BY <1>4, <1>5, Zenon DEF TidySign
  <1>8. ~ IsNumeral(s)
    BY <1>3, <1>4, Zenon DEF IsNumeral
  <1>9. TidyNumeral(s) = s
    BY <1>4, <1>5, <1>8, Zenon DEF TidyNumeral
  <1> QED BY <1>6, <1>7, <1>9, Zenon DEF tidy_num

(* It is compared as it was written.                                        *)
LEMMA GivenAsWritten ==
    ASSUME NEW s \in Plain
    PROVE  Given(s) = s /\ length(s) = Len(s) /\ ~ IsAmount(s) /\ ~ is_number(s)
  <1>1. from_string(<<"0">>) = 0
    <2>1. InBase(0, 10) = <<0>>
      <3>1. 10 \in Nat /\ 10 > 1 /\ 0 \in Nat /\ 0 < 10
        OBVIOUS
      <3>2. \A n \in Nat : InBase(n, 10) = IF n < 10 THEN <<n>> ELSE InBase(n \div 10, 10) \o <<n % 10>>
        BY <3>1, InBaseDef
      <3> QED BY <3>1, <3>2, Zenon
    <2>2. to_string(0) = [i \in DOMAIN <<0>> |-> Decimals[<<0>>[i] + 1]]
      BY <2>1, Zenon DEF to_string
    <2>3. Decimals[0 + 1] = "0"
      BY DEF Decimals
    <2>4. to_string(0) = <<"0">>
      <3>1. DOMAIN <<0>> = {1} /\ <<0>>[1] = 0
        OBVIOUS
      <3>2. [i \in DOMAIN <<0>> |-> Decimals[<<0>>[i] + 1]] = [i \in {1} |-> "0"]
        BY <2>3, <3>1
      <3>3. [i \in {1} |-> "0"] = <<"0">>
        OBVIOUS
      <3> QED BY <2>2, <3>2, <3>3
    <2> QED BY <2>4, NumbersReadBack
  <1>2. ~ (from_string(conv_num(s)) > 0)
    BY <1>1, NoNumber
  <1>3. Given(s) = s
    BY <1>2, NoMarks, NothingTidied, Zenon DEF Given
  <1>4. \A i \in DOMAIN s : s[i] \in {"a", "b"}
    BY DEF Plain
  <1>5. length(s) = Len(s)
    <2>1. {i \in DOMAIN s : s[i] \in DOMAIN Unaccented} = {}
      BY <1>4, PlainLetters, Zenon
    <2>2. Cardinality({}) = 0
      BY FS_EmptySet
    <2>3. length(s) = Len(s) + 0
      BY <2>1, <2>2, Zenon DEF length
    <2> QED BY <2>3 DEF Plain
  <1>6. s # <<>> => 1 \in DOMAIN s
    BY DEF Plain
  <1>7. ~ IsAmount(s) /\ ~ is_number(s)
    BY <1>4, <1>6, PlainLetters, Zenon DEF IsAmount, is_number
  <1> QED BY <1>3, <1>5, <1>7

(* Of texts that differ by one edit each is an edit of the other.           *)
LEMMA EditsBothWays ==
    ASSUME NEW s \in Plain, NEW t \in Plain
    PROVE  t \in Edits(s) \cup {s} <=> s \in Edits(t) \cup {t}
  <1> PICK m \in Nat, n \in Nat : m = Len(s) /\ n = Len(t)
    BY DEF Plain
  <1>1. Near(s, t, m, n) <=> Near(t, s, n, m)
    <2>1. \A p : m = n => (Replaced(s, t, m, p) <=> Replaced(t, s, n, p))
      BY DEF Replaced
    <2>2. \A p : Inserted(s, t, m, p) <=> Inserted(s, t, m, p)
      OBVIOUS
    <2> QED BY <2>1 DEF Near
  <1>2. t \in Edits(s) \cup {s} <=> Near(s, t, m, n)
    BY EditsAreNear DEF Plain
  <1>3. s \in Edits(t) \cup {t} <=> Near(t, s, n, m)
    BY EditsAreNear DEF Plain
  <1> QED BY <1>1, <1>2, <1>3

(* Which messages answer a question of six letters or more (state.cpp:289). *)
LEMMA MessagesAccepted ==
    ASSUME NEW q \in Plain, NEW s \in Plain, Len(q) > 5
    PROVE  Accepts(q, s, FALSE) <=> s = q \/ (s \in Edits(q) /\ Len(s) >= Len(q))
  <1>1. q # <<>>
    OBVIOUS
  <1>2. /\ removepunct(q) = q /\ Given(s) = s /\ length(s) = Len(s) /\ length(q) = Len(q)
        /\ ~ IsAmount(q) /\ ~ is_number(q)
        /\ utf8lower(q, FALSE) = q /\ utf8lower(s, FALSE) = s
    BY NoMarks, GivenAsWritten, LowerAlready DEF Plain
  <1>3. levenstein(s, q) < 2 <=> s \in Edits(q) \cup {q}
    BY DistanceOfEdits, EditsBothWays DEF Plain
  <1>4. Accepts(q, s, FALSE) <=> \/ Len(s) >= Len(q) /\ q = s
                                \/ q = s \/ (Len(s) >= Len(q) /\ levenstein(s, q) < 2)
    BY <1>1, <1>2, Zenon DEF Accepts, IsMatch
  <1> QED BY <1>3, <1>4

(* A misspelling is one edit (state.cpp:289): for every two texts, and for  *)
(* every message of letters.                                                *)
THEOREM OneEditIsForgiven ==
    ASSUME judged.of \in {"distance", "message"}, judged.s \in Seq({"a", "b"}),
           judged.of = "distance" => judged.t \in Seq({"a", "b"})
    PROVE  MisspellingsAreForgiven
  <1>1. judged.of = "distance"
            => (levenstein(judged.s, judged.t) < 2 <=> judged.t \in Edits(judged.s) \cup {judged.s})
    BY DistanceOfEdits
  <1>2. Accepts(Spelled, judged.s, FALSE)
            <=> judged.s = Spelled \/ (judged.s \in Edits(Spelled) /\ Len(judged.s) >= 6)
    <2>1. Spelled \in Plain /\ Len(Spelled) = 6
      BY DEF Spelled, Plain
    <2>2. judged.s \in Plain
      BY DEF Plain
    <2> HIDE DEF Spelled, Plain
    <2>4. Len(Spelled) > 5
      BY <2>1
    <2>3. Accepts(Spelled, judged.s, FALSE)
            <=> judged.s = Spelled \/ (judged.s \in Edits(Spelled) /\ Len(judged.s) >= Len(Spelled))
      BY <2>1, <2>2, <2>4, MessagesAccepted
    <2> QED BY <2>1, <2>3
  <1>3. judged.of \notin {"question", "pasted"}
    OBVIOUS
  <1> QED BY <1>1, <1>2, <1>3, Zenon DEF MisspellingsAreForgiven
=============================================================================
