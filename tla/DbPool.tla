------------------------------- MODULE DbPool -------------------------------
(***************************************************************************)
(* The foreground connection pool of the database layer: db::query picks a *)
(* connection by round robin, skipping those marked busy, and real_query   *)
(* escapes the parameters, marks the connection busy and runs the query    *)
(* under the connection's mutex (src/database.cpp).                        *)
(*                                                                         *)
(* curr_index and the busy flags are plain variables shared by every       *)
(* thread.  As the project builds it (g++ -O2, CMakeLists.txt:33) each of  *)
(* the two places that advance curr_index reads it once and writes it once *)
(* (an index past the end is wrapped in a register), so each is a load and *)
(* a later store here.                                                     *)
(***************************************************************************)
EXTENDS Integers, FiniteSets

CONSTANTS
    Threads,        \* threads that call db::query
    PoolSize        \* POOL_SIZE

ASSUME PoolAssumption ==
    /\ PoolSize \in Nat \ {0}
    /\ "free" \notin Threads

VARIABLES
    curr_index,
    busy,           \* of each connection
    mutex,          \* of each connection: the thread that holds it, or "free"
    pc,             \* what each thread does next
    conn,           \* c, the connection each thread looks at or uses
    tries,
    saw,            \* history: connections the search found busy
    disturbed       \* history: threads during whose search another thread
                    \* moved curr_index

vars == <<curr_index, busy, mutex, pc, conn, tries, saw, disturbed>>
search == <<curr_index, tries, saw, disturbed>>

Conns == 0..(PoolSize - 1)
PCs == {"idle", "advance", "store", "look", "skip", "escape", "claim", "lock",
        "run", "unlock"}

TypeOK ==
    /\ curr_index \in Nat
    /\ busy \in [Conns -> BOOLEAN]
    /\ mutex \in [Conns -> Threads \cup {"free"}]
    /\ pc \in [Threads -> PCs]
    /\ conn \in [Threads -> Nat]
    /\ tries \in [Threads -> Nat]
    /\ saw \in [Threads -> SUBSET Conns]
    /\ disturbed \subseteq Threads

Init ==
    /\ curr_index = 0
    /\ busy = [c \in Conns |-> FALSE]
    /\ mutex = [c \in Conns |-> "free"]
    /\ pc = [t \in Threads |-> "idle"]
    /\ conn = [t \in Threads |-> 0]
    /\ tries = [t \in Threads |-> 0]
    /\ saw = [t \in Threads |-> {}]
    /\ disturbed = {}

At(t, from, to) == pc[t] = from /\ pc' = [pc EXCEPT ![t] = to]
Use(t, c) == conn' = [conn EXCEPT ![t] = c]

-----------------------------------------------------------------------------
(* query: the search for a connection *)

MaxTriesShort == PoolSize                                         \* mutant
MaxTries == PoolSize + 1

NextIndexLate == IF curr_index >= PoolSize THEN 0 ELSE curr_index + 1 \* mutant

(* c = ++curr_index, or the first connection past the last.                 *)
NextIndex == IF curr_index + 1 >= PoolSize THEN 0 ELSE curr_index + 1

(* The first connection tried: load curr_index...                           *)
Start(t) ==
    /\ \/ curr_index < PoolSize /\ At(t, "idle", "advance") /\ Use(t, curr_index)
       \/ curr_index >= PoolSize /\ At(t, "idle", "store") /\ Use(t, 0)
    /\ tries' = [tries EXCEPT ![t] = 0]
    /\ saw' = [saw EXCEPT ![t] = {}]
    /\ disturbed' = disturbed \ {t}
    /\ UNCHANGED <<curr_index, busy, mutex>>

SetIndex(t, i) ==
    /\ curr_index' = i
    /\ disturbed' = disturbed \cup (Threads \ {t})
    /\ UNCHANGED <<busy, mutex, conn, tries, saw>>

(* ...and store it, one further on or wrapped.                              *)
Advance(t) == At(t, "advance", "look") /\ SetIndex(t, conn[t] + 1)
Store(t) == At(t, "store", "look") /\ SetIndex(t, conn[t])

(* The condition of the loop, which gives up after MaxTries.                *)
Look(t) ==
    /\ \/ /\ tries[t] < MaxTries /\ busy[conn[t]]
          /\ At(t, "look", "skip")
          /\ saw' = [saw EXCEPT ![t] = @ \cup {conn[t]}]
       \/ /\ tries[t] >= MaxTries \/ ~busy[conn[t]]
          /\ At(t, "look", "escape")
          /\ UNCHANGED saw
    /\ UNCHANGED <<curr_index, busy, mutex, conn, tries, disturbed>>

(* The body of the loop: on to the next connection (Store follows).         *)
Skip(t) ==
    /\ At(t, "skip", "store") /\ Use(t, NextIndex)
    /\ tries' = [tries EXCEPT ![t] = @ + 1]
    /\ UNCHANGED <<curr_index, busy, mutex, saw, disturbed>>

-----------------------------------------------------------------------------
(* real_query *)

(* Escape the parameters on the handle of the connection.  When one cannot  *)
(* be escaped the query is abandoned.                                       *)
Escape(t) ==
    /\ At(t, "escape", "claim") \/ At(t, "escape", "idle")
    /\ UNCHANGED <<search, busy, mutex, conn>>

Claim(t) ==
    /\ At(t, "claim", "lock")
    /\ busy' = [busy EXCEPT ![conn[t]] = TRUE]
    /\ UNCHANGED <<search, mutex, conn>>

LockUnguarded(t) ==                                               \* mutant
    /\ At(t, "lock", "run")
    /\ mutex' = [mutex EXCEPT ![conn[t]] = t]
    /\ UNCHANGED <<search, busy, conn>>

Lock(t) ==
    /\ At(t, "lock", "run")
    /\ mutex[conn[t]] = "free"
    /\ mutex' = [mutex EXCEPT ![conn[t]] = t]
    /\ UNCHANGED <<search, busy, conn>>

(* The query has run, with an error or not.                                 *)
Finish(t) ==
    /\ At(t, "run", "unlock")
    /\ busy' = [busy EXCEPT ![conn[t]] = FALSE]
    /\ UNCHANGED <<search, mutex, conn>>

Unlock(t) ==
    /\ At(t, "unlock", "idle")
    /\ mutex' = [mutex EXCEPT ![conn[t]] = "free"]
    /\ UNCHANGED <<search, busy, conn>>

-----------------------------------------------------------------------------
Query(t) ==
    \/ Start(t) \/ Advance(t) \/ Store(t) \/ Look(t) \/ Skip(t)
    \/ Escape(t) \/ Claim(t) \/ Lock(t) \/ Finish(t) \/ Unlock(t)

Next == \E t \in Threads : Query(t)

(* A thread in a query goes on.  Whoever waits for a connection's mutex     *)
(* gets it in the end when it is released over and over: each holder keeps  *)
(* it for one query, which the server cuts off after three seconds.         *)
Fairness ==
    \A t \in Threads :
        /\ WF_vars(Query(t) /\ pc[t] # "idle")
        /\ SF_vars(Lock(t))

Spec == Init /\ [][Next]_vars /\ Fairness

-----------------------------------------------------------------------------
(* Properties *)

(* However the threads' loads and stores of curr_index interleave, no       *)
(* thread indexes past the connections (database.cpp:213-222), although     *)
(* curr_index itself does go one past the end.                              *)
IndexInPool == curr_index <= PoolSize /\ \A t \in Threads : conn[t] < PoolSize

OnConnection(t, c, where) == conn[t] = c /\ pc[t] \in where

(* "One DB handle can't query the database from multiple threads at the     *)
(* same time" (database.cpp:285): two threads that chose the same           *)
(* connection, having both seen it free, do not query it together.          *)
OneQueryPerConnection ==
    \A c \in Conns : \A t, u \in Threads :
        OnConnection(t, c, {"run", "unlock"}) /\ OnConnection(u, c, {"run", "unlock"})
            => t = u

(* A connection is never left marked busy once the queries on it are over,  *)
(* which would take it out of the pool for good: the early return of a      *)
(* failed escape and the error of a failed query both leave it unmarked.    *)
BusyIsTransient ==
    \A c \in Conns : busy[c] => \E t \in Threads : OnConnection(t, c, {"lock", "run"})

(* A search that gives up has found every connection of the pool busy, if   *)
(* no other thread moved curr_index meanwhile: POOL_SIZE + 1 tries reach    *)
(* them all although the first skip jumps over a connection, because        *)
(* curr_index is already one ahead of the first connection tried.           *)
SearchIsThorough ==
    \A t \in Threads \ disturbed :
        pc[t] = "escape" /\ tries[t] >= MaxTries => saw[t] = Conns
=============================================================================
