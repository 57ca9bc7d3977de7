---------------------------- MODULE ModuleLoader ----------------------------
(***************************************************************************)
(* Loadable modules and the dispatch of events to them (src/modules.cpp,   *)
(* sporks/modules.h, src/events.cpp), the operator's commands that load    *)
(* and unload them while the bot runs (modules/diagnostics) and the count  *)
(* of ready shards.                                                        *)
(*                                                                         *)
(* FOREACH_MOD copies the list of an event's handlers under the loader's   *)
(* mutex and calls them after releasing it, although its comment says that *)
(* the mutex is held meanwhile.  Unload keeps the mutex until the module   *)
(* is destroyed.                                                           *)
(***************************************************************************)
EXTENDS Integers, Sequences, SequencesExt, FiniteSets

CONSTANTS
    Threads,        \* the library's threads, one for each shard
    Files,          \* shared objects that can be loaded
    Diagnostics,    \* the one with the operator's commands
    Startup,        \* those config.json lists, in its order
    Attaches,       \* the events each attaches to
    Joining,        \* those whose destructor joins a thread of their own
    MaxEvents       \* bound: events received from Discord

ASSUME LoaderAssumption ==
    /\ IsFiniteSet(Files)
    /\ Diagnostics \in Files
    /\ Startup \in Seq(Files) /\ IsInjective(Startup)
    /\ Attaches \in [Files -> SUBSET {"message", "other", "ready", "all_ready"}]
    /\ Joining \subseteq Files
    /\ MaxEvents \in Nat
    /\ "free" \notin Threads

VARIABLES
    Modules,            \* Modules and ModuleList: the object of each loaded file
    EventHandlers,      \* of each event: the objects attached, in order
    mtx,                \* the loader's mutex: its holder, or "free"
    objects,            \* every object made: its file and whether it is
                        \* live, destroyed or leaked
    shard_init_count,
    pc, event, command, list_to_call, local,  \* of each thread: its locals
    events              \* history: events received

loader == <<Modules, EventHandlers, mtx, objects>>
dispatch == <<event, command, events>>
vars == <<loader, dispatch, shard_init_count, pc, list_to_call, local>>

Events == {"message", "other", "ready", "all_ready"}
None == 0

Ordinary == [name |-> "none"]
SudoCommands ==
    {[name |-> n] : n \in {"modules", "restart", "show"}}
        \cup [name : {"load", "unload", "reload"}, file : Files]

Loaded == {f \in Files : Modules[f] # None}
Objects == DOMAIN objects

TypeOK ==
    /\ Modules \in [Files -> {None} \cup Objects]
    /\ EventHandlers \in [Events -> Seq(Objects)]
    /\ mtx \in Threads \cup {"free"}
    /\ objects \in Seq([file : Files, state : {"live", "destroyed", "leaked"}])
    /\ shard_init_count \in Nat
    /\ pc \in [Threads -> {"idle", "copy", "call", "describe", "load", "unload",
                           "destroy", "count", "store", "compare"}]
    /\ event \in [Threads -> Events]
    /\ command \in [Threads -> SudoCommands \cup {Ordinary}]
    /\ list_to_call \in [Threads -> Seq(Objects)]
    /\ local \in [Threads -> Nat]
    /\ events \in 0..MaxEvents

(* LoadAll at start-up, before any event is received.                       *)
LoadedAtStart(f) == IF Contains(Startup, f) THEN CHOOSE i \in DOMAIN Startup : Startup[i] = f
                                            ELSE None

(* The object attaches to the events E, behind those attached already.      *)
Attached(handlers, o, E) ==
    [e \in Events |-> IF e \in E THEN Append(handlers[e], o) ELSE handlers[e]]

(* The handlers once the first i modules are loaded.                        *)
HandlersAtStart[i \in 0..Len(Startup)] ==
    IF i = 0 THEN [e \in Events |-> <<>>]
    ELSE Attached(HandlersAtStart[i - 1], i, Attaches[Startup[i]])

(* What a process begins with, but for the history.                         *)
Fresh(modules, handlers, lock, made, count, pcs, evs, cmds, lists, locals) ==
    /\ modules = [f \in Files |-> LoadedAtStart(f)]
    /\ handlers = HandlersAtStart[Len(Startup)]
    /\ lock = "free"
    /\ made = [i \in DOMAIN Startup |-> [file |-> Startup[i], state |-> "live"]]
    /\ count = 0
    /\ pcs = [t \in Threads |-> "idle"]
    /\ evs = [t \in Threads |-> "message"]
    /\ cmds = [t \in Threads |-> Ordinary]
    /\ lists = [t \in Threads |-> <<>>]
    /\ locals = [t \in Threads |-> 0]

LoadAll == Fresh(Modules, EventHandlers, mtx, objects, shard_init_count,
                 pc, event, command, list_to_call, local)

Init == LoadAll /\ events = 0

Goto(t, where) == pc' = [pc EXCEPT ![t] = where]
At(t, from, to) == pc[t] = from /\ Goto(t, to)
CallList(t, list) == list_to_call' = [list_to_call EXCEPT ![t] = list]

-----------------------------------------------------------------------------
(* Events *)

Receive(t, e, c) ==
    /\ At(t, "idle", "copy")
    /\ events < MaxEvents /\ events' = events + 1
    /\ event' = [event EXCEPT ![t] = e]
    /\ command' = [command EXCEPT ![t] = c]
    /\ UNCHANGED <<loader, shard_init_count, list_to_call, local>>

(* A message of a user that mentions the bot may be a command.              *)
OnMessage(t) == \E c \in SudoCommands \cup {Ordinary} : Receive(t, "message", c)
OnReady(t) == Receive(t, "ready", Ordinary)
(* The changes of guilds and entitlements, and the timer of 30 seconds.     *)
OnOther(t) == Receive(t, "other", Ordinary)

(* FOREACH_MOD: the copy under the mutex...                                 *)
CopyHandlers(t) ==
    /\ At(t, "copy", "call")
    /\ mtx = "free"
    /\ CallList(t, EventHandlers[event[t]])
    /\ UNCHANGED <<loader, dispatch, shard_init_count, local>>

(* Only the diagnostics module eats events: those that are for it.          *)
IsSudo(t) == /\ objects[Head(list_to_call[t])].file = Diagnostics
             /\ command[t] # Ordinary
PassesOn(t) == ~IsSudo(t)

(* ...and the calls.  An exception is logged and the next module is called. *)
CallModule(t) ==
    /\ At(t, "call", "call")
    /\ list_to_call[t] # <<>> /\ PassesOn(t)
    /\ CallList(t, Tail(list_to_call[t]))
    /\ UNCHANGED <<loader, dispatch, shard_init_count, local>>

AllCalled(t) ==
    /\ pc[t] = "call" /\ list_to_call[t] = <<>>
    /\ Goto(t, IF event[t] = "ready" THEN "count" ELSE "idle")
    /\ UNCHANGED <<loader, dispatch, shard_init_count, list_to_call, local>>

(* shard_init_count++, which is not atomic...                               *)
LoadCount(t) ==
    /\ At(t, "count", "store")
    /\ local' = [local EXCEPT ![t] = shard_init_count]
    /\ UNCHANGED <<loader, dispatch, shard_init_count, list_to_call>>

StoreCount(t) ==
    /\ At(t, "store", "compare")
    /\ shard_init_count' = local[t] + 1
    /\ UNCHANGED <<loader, dispatch, list_to_call, local>>

(* ...and the second event of onReady.                                      *)
CompareCount(t) ==
    /\ \/ /\ shard_init_count = Cardinality(Threads) /\ At(t, "compare", "copy")
          /\ event' = [event EXCEPT ![t] = "all_ready"]
       \/ /\ shard_init_count # Cardinality(Threads) /\ At(t, "compare", "idle")
          /\ UNCHANGED event
    /\ UNCHANGED <<loader, command, events, shard_init_count, list_to_call, local>>

-----------------------------------------------------------------------------
(* The operator's commands, on the thread that received the message *)

(* The event is eaten: no further module is called.                         *)
After(t) == /\ Goto(t, "idle") /\ CallList(t, <<>>)

WithoutFirst(o) ==                                                \* mutant
    [e \in Events |-> IF EventHandlers[e] # <<>> /\ Head(EventHandlers[e]) = o
                      THEN Tail(EventHandlers[e]) ELSE EventHandlers[e]]

Without(o) == [e \in Events |-> RemoveFirst(EventHandlers[e], o)]

(* dlopen, init_module (whose constructor attaches the module) and the      *)
(* entry in the lists.                                                      *)
LoadObject(f) ==
    LET o == Len(objects) + 1 IN
    /\ objects' = Append(objects, [file |-> f, state |-> "live"])
    /\ Modules' = [Modules EXCEPT ![f] = o]
    /\ EventHandlers' = Attached(EventHandlers, o, Attaches[f])

(* Loading fails too when the file is not there or is not a module.         *)
Load(t, f) ==
    /\ mtx = "free"
    /\ \/ Modules[f] = None /\ LoadObject(f)
       \/ UNCHANGED <<Modules, EventHandlers, objects>>
    /\ After(t)
    /\ UNCHANGED <<dispatch, mtx, shard_init_count, local>>

(* Detaches the module and forgets it; the mutex stays locked.              *)
UnloadBegin(t, f) ==
    /\ mtx = "free" /\ Modules[f] # None
    /\ EventHandlers' = Without(Modules[f])
    /\ Modules' = [Modules EXCEPT ![f] = None]
    /\ mtx' = t
    /\ Goto(t, "destroy") /\ local' = [local EXCEPT ![t] = Modules[f]]
    /\ UNCHANGED <<objects, dispatch, shard_init_count, list_to_call>>

UnloadFails(t, f) ==
    /\ mtx = "free" /\ Modules[f] = None
    /\ After(t)
    /\ UNCHANGED <<loader, dispatch, shard_init_count, local>>

DestroyKeepingMutex(t) == LET o == local[t] IN                    \* mutant
    /\ pc[t] = "destroy"
    /\ objects' = [objects EXCEPT ![o].state = "destroyed"]
    /\ After(t)
    /\ UNCHANGED <<Modules, EventHandlers, mtx, dispatch, shard_init_count, local>>

(* A destructor that waits for its module's thread never returns: nothing   *)
(* sets `terminating`.                                                      *)
DestructorReturns(o) == objects[o].file \notin Joining

(* The rest of Unload.  Its reference into Modules dangles since the entry  *)
(* was erased: it shows the object still, or nothing to delete.             *)
Destroy(t) ==
    LET o == local[t] IN
    /\ pc[t] = "destroy" /\ DestructorReturns(o)
    /\ \E s \in {"destroyed", "leaked"} : objects' = [objects EXCEPT ![o].state = s]
    /\ mtx' = "free"
    /\ IF command[t].name = "reload"
       THEN Goto(t, "load") /\ UNCHANGED list_to_call
       ELSE After(t)
    /\ UNCHANGED <<Modules, EventHandlers, dispatch, shard_init_count, local>>

(* The list of modules is read without the mutex.                           *)
ListModules(t) ==
    /\ Goto(t, "describe")
    /\ CallList(t, SetToSeq({Modules[f] : f \in Loaded}))
    /\ UNCHANGED <<loader, dispatch, shard_init_count, local>>

DescribeModule(t) ==
    /\ pc[t] = "describe"
    /\ \/ list_to_call[t] # <<>> /\ Goto(t, "describe") /\ CallList(t, Tail(list_to_call[t]))
       \/ list_to_call[t] = <<>> /\ After(t)
    /\ UNCHANGED <<loader, dispatch, shard_init_count, local>>

(* The diagnostics module does not unload itself.                           *)
Refuse(t) ==
    /\ command[t].name \in {"unload", "reload"} /\ command[t].file = Diagnostics
    /\ After(t)
    /\ UNCHANGED <<loader, dispatch, shard_init_count, local>>

(* Statistics, queries and what is not a command: an answer and no more.    *)
Show(t) ==
    /\ command[t].name = "show"
    /\ After(t)
    /\ UNCHANGED <<loader, dispatch, shard_init_count, local>>

(* exit(0); the script starts the bot again.  Reading the dangling          *)
(* reference may have the same effect.                                      *)
Restart ==
    /\ Fresh(Modules', EventHandlers', mtx', objects', shard_init_count',
             pc', event', command', list_to_call', local')
    /\ UNCHANGED events

Sudo(t) ==
    /\ pc[t] = "call" /\ list_to_call[t] # <<>> /\ IsSudo(t)
    /\ \/ command[t].name = "modules" /\ ListModules(t)
       \/ command[t].name = "restart" /\ Restart
       \/ Refuse(t) \/ Show(t)
       \/ command[t].name = "load" /\ Load(t, command[t].file)
       \/ /\ command[t].name \in {"unload", "reload"} /\ command[t].file # Diagnostics
          /\ UnloadBegin(t, command[t].file) \/ UnloadFails(t, command[t].file)

Reload(t) == pc[t] = "load" /\ Load(t, command[t].file)
UnloadCrashes(t) == pc[t] = "destroy" /\ Restart

-----------------------------------------------------------------------------
Step(t) ==
    \/ CopyHandlers(t) \/ CallModule(t) \/ AllCalled(t)
    \/ LoadCount(t) \/ StoreCount(t) \/ CompareCount(t)
    \/ Sudo(t) \/ Destroy(t) \/ Reload(t) \/ DescribeModule(t)

Next ==
    \E t \in Threads :
        \/ OnMessage(t) \/ OnReady(t) \/ OnOther(t)
        \/ Step(t) \/ UnloadCrashes(t)

(* A thread goes on with the event it has.                                  *)
Fairness == \A t \in Threads : WF_vars(Step(t))

Spec == Init /\ [][Next]_vars /\ Fairness

-----------------------------------------------------------------------------
(* Properties *)

(* However loading, unloading and reloading interleave, the handlers of an  *)
(* event are the loaded modules that attach to it, each once and in the     *)
(* order in which they were loaded (modules.cpp:70, :189): Load and Unload  *)
(* leave no handler behind and lose none.                                   *)
HandlersMatchModules ==
    \A e \in Events :
        /\ ToSet(EventHandlers[e]) = {Modules[f] : f \in {g \in Loaded : e \in Attaches[g]}}
        /\ \A i, j \in DOMAIN EventHandlers[e] :
               i < j => EventHandlers[e][i] < EventHandlers[e][j]

(* "All major parts of this bot are modular, and can be hot-reloaded on the *)
(* fly" (sporks/bot.h:28): whatever is loaded and unloaded, every event     *)
(* that is received is dispatched to the end, or the process ends.          *)
EventsFinish == \A t \in Threads : pc[t] # "idle" ~> pc[t] = "idle"
=============================================================================
