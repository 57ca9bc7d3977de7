-------------------------- MODULE BackgroundQueue --------------------------
(***************************************************************************)
(* The background queries of the database layer (src/database.cpp):        *)
(* threads append queries to background_queries under b_db_mutex; one      *)
(* thread moves them in batches to a queue of its own, under the same      *)
(* mutex, and executes the batch without it.                               *)
(***************************************************************************)
EXTENDS Integers, Sequences

CONSTANTS
    Callers,     \* threads that call backgroundquery
    Queries,     \* the queries they issue
    MaxIssued    \* bound on the queries issued

ASSUME QueueAssumption == MaxIssued \in Nat

VARIABLES
    background_queries,
    bg_copy,          \* the batch of the background thread
    b_db_mutex,       \* holder of the mutex: a caller, "bgthread" or "free"
    bgpc,             \* what the background thread does next
    issued,           \* history: queries in the order they were queued
    executed          \* history: queries in the order they were executed

queueVars == <<background_queries, bg_copy, b_db_mutex, bgpc, issued, executed>>

ASSUME HolderAssumption == "bgthread" \notin Callers /\ "free" \notin Callers

QueueTypeOK ==
    /\ background_queries \in Seq(Queries)
    /\ bg_copy \in Seq(Queries)
    /\ b_db_mutex \in Callers \cup {"bgthread", "free"}
    /\ bgpc \in {"lock", "copy", "sleep", "run"}
    /\ issued \in Seq(Queries)
    /\ executed \in Seq(Queries)

QueueInit ==
    /\ background_queries = <<>> /\ bg_copy = <<>>
    /\ b_db_mutex = "free"
    /\ bgpc = "lock"
    /\ issued = <<>> /\ executed = <<>>

(* backgroundquery: take the mutex... *)
LockQueue(p) ==
    /\ b_db_mutex = "free" /\ Len(issued) < MaxIssued
    /\ b_db_mutex' = p
    /\ UNCHANGED <<background_queries, bg_copy, bgpc, issued, executed>>

(* ...emplace the query and release the mutex. *)
BackgroundQuery(p, q) ==
    /\ b_db_mutex = p
    /\ background_queries' = Append(background_queries, q)
    /\ issued' = Append(issued, q)
    /\ b_db_mutex' = "free"
    /\ UNCHANGED <<bg_copy, bgpc, executed>>

(* bgthread: a new, empty batch, and the mutex. *)
BgLock ==
    /\ bgpc = "lock" /\ b_db_mutex = "free"
    /\ b_db_mutex' = "bgthread" /\ bgpc' = "copy"
    /\ bg_copy' = <<>>
    /\ UNCHANGED <<background_queries, issued, executed>>

BgCopyStacked ==                                                  \* mutant
    /\ bgpc = "copy" /\ background_queries # <<>>
    /\ bg_copy' = <<Head(background_queries)>> \o bg_copy
    /\ background_queries' = Tail(background_queries)
    /\ UNCHANGED <<b_db_mutex, bgpc, issued, executed>>

(* One round of the loop that moves the queue to the batch. *)
BgCopy ==
    /\ bgpc = "copy" /\ background_queries # <<>>
    /\ bg_copy' = Append(bg_copy, Head(background_queries))
    /\ background_queries' = Tail(background_queries)
    /\ UNCHANGED <<b_db_mutex, bgpc, issued, executed>>

BgUnlock ==
    /\ bgpc = "copy" /\ background_queries = <<>>
    /\ b_db_mutex' = "free"
    /\ bgpc' = IF bg_copy = <<>> THEN "sleep" ELSE "run"
    /\ UNCHANGED <<background_queries, bg_copy, issued, executed>>

BgSleepForEver == bgpc = "sleep" /\ UNCHANGED queueVars                \* mutant

BgSleep ==
    /\ bgpc = "sleep" /\ bgpc' = "lock"
    /\ UNCHANGED <<background_queries, bg_copy, b_db_mutex, issued, executed>>

(* Execute the first query of the batch; an error is logged and forgotten.  *)
BgRun ==
    /\ bgpc = "run" /\ bg_copy # <<>>
    /\ executed' = Append(executed, Head(bg_copy))
    /\ bg_copy' = Tail(bg_copy)
    /\ UNCHANGED <<background_queries, b_db_mutex, bgpc, issued>>

BgBatchDone ==
    /\ bgpc = "run" /\ bg_copy = <<>>
    /\ bgpc' = "lock"
    /\ UNCHANGED <<background_queries, bg_copy, b_db_mutex, issued, executed>>

bgthread == BgLock \/ BgCopy \/ BgUnlock \/ BgSleep \/ BgRun \/ BgBatchDone

QueueNext ==
    \/ \E p \in Callers : LockQueue(p) \/ \E q \in Queries : BackgroundQuery(p, q)
    \/ bgthread

(* A caller that holds the mutex goes on.  The background thread is not     *)
(* starved of the mutex: it asks for it over and over.                      *)
QueueFairness ==
    /\ \A p \in Callers : WF_queueVars(\E q \in Queries : BackgroundQuery(p, q))
    /\ SF_queueVars(BgLock)
    /\ WF_queueVars(BgCopy) /\ WF_queueVars(BgUnlock) /\ WF_queueVars(BgSleep)
    /\ WF_queueVars(BgRun) /\ WF_queueVars(BgBatchDone)

QueueSpec == QueueInit /\ [][QueueNext]_queueVars /\ QueueFairness

-----------------------------------------------------------------------------
(* Properties *)

(* "background queries will be executed in the order passed to this         *)
(* function" (database.h:132): none is lost, executed twice or overtaken,   *)
(* wherever the background thread is in its batch.                          *)
ExecutedInOrder == issued = executed \o bg_copy \o background_queries

(* "It will be guaranteed to execute at some point in the near future"      *)
(* (database.h:131): while the process runs.                                *)
EventuallyExecuted ==
    \A n \in 1..MaxIssued : Len(issued) >= n ~> Len(executed) >= n
=============================================================================
