--------------------------- MODULE PluginLifetime ---------------------------
(***************************************************************************)
(* Plugins between the thread that owns them and the io thread that        *)
(* enables and disables them as the system connects and times out          *)
(* (core/system_impl.cpp), and what a plugin has registered with the       *)
(* system: a message handler (core/mavlink_message_handler.cpp), a         *)
(* repeated call (core/call_every_handler.cpp, see CallEveryHandler) and   *)
(* the subscriptions of its users (core/callback_list_impl.hpp).  The      *)
(* plugin is plugins/info/info_impl.cpp, which has one of each.            *)
(*                                                                         *)
(* The io thread runs one handler after another; a handler that calls into *)
(* plugins has a step for the start and one for the end of each call, so   *)
(* that user threads may run in between.  Each plugin is created, used and *)
(* destroyed by a thread of its own, and destroyed once.                   *)
(***************************************************************************)
EXTENDS Naturals, Sequences

CONSTANTS
    Plugins,
    MaxTasks,  \* users subscribe and unsubscribe while fewer are posted
    None       \* no plugin

ASSUME PluginAssumption == None \notin Plugins

VARIABLES
    connected,   \* _connected, and that the heartbeat timeout is registered
    registry,    \* _plugin_impls
    table,       \* plugins with an entry in MavlinkMessageHandler::_table
    retrying,    \* plugins whose call_every entry is registered
    listed,      \* plugins with an entry in their CallbackList
    tasks,       \* what is posted to the io context
    doing,       \* the io thread: which handler it runs
    inside,      \* the plugin that it has called
    rest,        \* the plugins that the handler has still to call
    phase,       \* how far the owner of each plugin has come
    subscribed,  \* plugins whose user holds a handle
    enabled      \* history: plugins whose last call on the io thread was enable()

ioVars == <<doing, inside, rest>>
vars == <<connected, registry, table, retrying, listed, tasks, ioVars, phase,
          subscribed, enabled>>

Phases == {"none", "init", "alive", "erase", "disable", "disabling", "deinit",
           "destruct", "drain", "gone"}
Handlers == {"idle", "enable", "disable", "version", "flight", "retry"}
Tasks == [op : {"register", "insert", "erase", "unregister", "subscribe",
                "unsubscribe", "drain"},
          plugin : Plugins]

\* The types of the variables; the io thread is in a plugin, has plugins left
\* to call, or is idle.
TypeOK ==
    /\ connected \in BOOLEAN
    /\ registry \subseteq Plugins
    /\ table \subseteq Plugins
    /\ retrying \subseteq Plugins
    /\ listed \subseteq Plugins
    /\ tasks \in Seq(Tasks)
    /\ doing \in Handlers
    /\ inside \in Plugins \cup {None}
    /\ rest \subseteq Plugins
    /\ doing = "idle" <=> inside = None /\ rest = {}
    /\ phase \in [Plugins -> Phases]
    /\ subscribed \subseteq Plugins
    /\ enabled \subseteq Plugins

Init ==
    /\ connected = FALSE
    /\ registry = {}
    /\ table = {}
    /\ retrying = {}
    /\ listed = {}
    /\ tasks = <<>>
    /\ doing = "idle"
    /\ inside = None
    /\ rest = {}
    /\ phase = [p \in Plugins |-> "none"]
    /\ subscribed = {}
    /\ enabled = {}

Task(op, p) == [op |-> op, plugin |-> p]
Post(op, p) == tasks' = Append(tasks, Task(op, p))
Enter(p, next) == phase' = [phase EXCEPT ![p] = next]

(***************************************************************************)
(* The owner of a plugin, on a user thread.                                *)
(***************************************************************************)

\* The plugin is constructed: init() posts the registration of its handlers.
Construct(p) ==
    /\ phase[p] = "none"
    /\ Post("register", p)
    /\ Enter(p, "init")
    /\ UNCHANGED <<connected, registry, table, retrying, listed, ioVars,
                   subscribed, enabled>>

\* The rest of register_plugin: the insertion is posted, and not waited for.
RegisterPlugin(p) ==
    /\ phase[p] = "init"
    /\ Post("insert", p)
    /\ Enter(p, "alive")
    /\ UNCHANGED <<connected, registry, table, retrying, listed, ioVars,
                   subscribed, enabled>>

Subscribe(p) ==
    /\ phase[p] = "alive" /\ p \notin subscribed /\ Len(tasks) < MaxTasks
    /\ subscribed' = subscribed \cup {p}
    /\ Post("subscribe", p)
    /\ UNCHANGED <<connected, registry, table, retrying, listed, ioVars, phase,
                   enabled>>

Unsubscribe(p) ==
    /\ phase[p] = "alive" /\ p \in subscribed /\ Len(tasks) < MaxTasks
    /\ subscribed' = subscribed \ {p}
    /\ Post("unsubscribe", p)
    /\ UNCHANGED <<connected, registry, table, retrying, listed, ioVars, phase,
                   enabled>>

\* Mutant: the removal from the registry is posted, but not waited for.
UnregisterWithoutWaiting(p) ==
    /\ phase[p] = "alive"
    /\ Post("erase", p)
    /\ Enter(p, "disable")
    /\ UNCHANGED <<connected, registry, table, retrying, listed, ioVars,
                   subscribed, enabled>>

\* The destructor: unregister_plugin posts the removal and waits for it.
UnregisterPlugin(p) ==
    /\ phase[p] = "alive"
    /\ Post("erase", p)
    /\ Enter(p, "erase")
    /\ UNCHANGED <<connected, registry, table, retrying, listed, ioVars,
                   subscribed, enabled>>

\* Mutant: disable() leaves the repeated call registered.
DisableNothing(p) ==
    /\ phase[p] = "disable"
    /\ Enter(p, "disabling")
    /\ UNCHANGED <<connected, registry, table, retrying, listed, tasks, ioVars,
                   subscribed, enabled>>

\* Its disable() removes the repeated call, which is not started any more.
Disable(p) ==
    /\ phase[p] = "disable"
    /\ retrying' = retrying \ {p}
    /\ Enter(p, "disabling")
    /\ UNCHANGED <<connected, registry, table, listed, tasks, ioVars,
                   subscribed, enabled>>

\* Mutant: remove_call_every() in the place of remove_call_every_blocking().
ReturnAtOnce(p) ==
    /\ phase[p] = "disabling"
    /\ Post("unregister", p)
    /\ Enter(p, "deinit")
    /\ UNCHANGED <<connected, registry, table, retrying, listed, ioVars,
                   subscribed, enabled>>

\* remove_call_every_blocking() returns when the call is not running either;
\* deinit() posts unregister_all_blocking() and waits for it.
Deinit(p) ==
    /\ phase[p] = "disabling"
    /\ ~(doing = "retry" /\ inside = p)
    /\ Post("unregister", p)
    /\ Enter(p, "deinit")
    /\ UNCHANGED <<connected, registry, table, retrying, listed, ioVars,
                   subscribed, enabled>>

\* The members are destroyed: ~CallbackListImpl posts and waits.
DestroyMembers(p) ==
    /\ phase[p] = "destruct"
    /\ Post("drain", p)
    /\ Enter(p, "drain")
    /\ UNCHANGED <<connected, registry, table, retrying, listed, ioVars,
                   subscribed, enabled>>

(***************************************************************************)
(* The io thread: posted tasks.  A task that somebody waits for lets that  *)
(* thread go on.                                                           *)
(***************************************************************************)

\* A handler is about to call into the plugins in `ps', one after the other.
Call(handler, ps) ==
    /\ doing' = IF ps = {} THEN "idle" ELSE handler
    /\ rest' = ps
    /\ inside' = None

\* Mutant: only set_connected() enables plugins.
InsertOnly(p) ==
    /\ registry' = registry \cup {p}
    /\ UNCHANGED <<table, listed, ioVars, phase>>

\* Whether the system is connected is looked up here, not when it was posted.
Insert(p) ==
    /\ registry' = registry \cup {p}
    /\ Call("enable", IF connected THEN {p} ELSE {})
    /\ UNCHANGED <<table, listed, phase>>

Erase(p) ==
    /\ registry' = registry \ {p}
    /\ Enter(p, "disable")
    /\ UNCHANGED <<table, listed, ioVars>>

\* Mutant: the promise that the owner waits for is not fulfilled.
UnregisterSilently(p) ==
    /\ table' = table \ {p}
    /\ UNCHANGED <<registry, listed, ioVars, phase>>

UnregisterAll(p) ==
    /\ table' = table \ {p}
    /\ Enter(p, "destruct")
    /\ UNCHANGED <<registry, listed, ioVars>>

\* The list is destroyed once the posted mutations have run.
Drained(p) ==
    /\ listed' = listed \ {p}
    /\ Enter(p, "gone")
    /\ UNCHANGED <<registry, table, ioVars>>

ChangeTable(p) ==
    /\ table' = table \cup {p}
    /\ UNCHANGED <<registry, listed, ioVars, phase>>

ChangeList(ps) ==
    /\ listed' = ps
    /\ UNCHANGED <<registry, table, ioVars, phase>>

RunTask ==
    /\ doing = "idle"
    /\ tasks # <<>>
    /\ tasks' = Tail(tasks)
    /\ LET p == Head(tasks).plugin
           op == Head(tasks).op
       IN \/ op = "register" /\ ChangeTable(p)
          \/ op = "insert" /\ Insert(p)
          \/ op = "erase" /\ Erase(p)
          \/ op = "unregister" /\ UnregisterAll(p)
          \/ op = "subscribe" /\ ChangeList(listed \cup {p})
          \/ op = "unsubscribe" /\ ChangeList(listed \ {p})
          \/ op = "drain" /\ Drained(p)
    /\ UNCHANGED <<connected, retrying, subscribed, enabled>>

(***************************************************************************)
(* The io thread: messages and timers.                                     *)
(***************************************************************************)

\* process_heartbeat: only the first heartbeat of a connection enables.
SetConnected ==
    /\ doing = "idle"
    /\ ~connected
    /\ connected' = TRUE
    /\ Call("enable", registry)
    /\ UNCHANGED <<registry, table, retrying, listed, tasks, phase, subscribed,
                   enabled>>

\* heartbeats_timed_out.
SetDisconnected ==
    /\ doing = "idle"
    /\ connected
    /\ connected' = FALSE
    /\ Call("disable", registry)
    /\ UNCHANGED <<registry, table, retrying, listed, tasks, phase, subscribed,
                   enabled>>

\* process_message calls every entry of the table for this message.
ProcessMessage(message) ==
    /\ doing = "idle"
    /\ Call(message, table)
    /\ UNCHANGED <<connected, registry, table, retrying, listed, tasks, phase,
                   subscribed, enabled>>

\* CallEveryHandler::run_once finds the interval elapsed.
Retry(p) ==
    /\ doing = "idle"
    /\ p \in retrying
    /\ Call("retry", {p})
    /\ UNCHANGED <<connected, registry, table, retrying, listed, tasks, phase,
                   subscribed, enabled>>

\* The repeated call may be removed between being picked and being started.
Skip(p) ==
    /\ doing = "retry" /\ p \in rest /\ p \notin retrying
    /\ Call("idle", {})
    /\ UNCHANGED <<connected, registry, table, retrying, listed, tasks, phase,
                   subscribed, enabled>>

CallPlugin(p) ==
    /\ inside = None /\ p \in rest
    /\ doing = "retry" => p \in retrying
    /\ inside' = p
    /\ rest' = rest \ {p}
    /\ UNCHANGED <<connected, registry, table, retrying, listed, tasks, doing,
                   phase, subscribed, enabled>>

\* The call returns.  enable() adds the repeated call, disable() and the
\* answer to the repeated request remove it.
Return(p) ==
    /\ inside = p
    /\ enabled' = CASE doing = "enable" -> enabled \cup {p}
                    [] doing = "disable" -> enabled \ {p}
                    [] OTHER -> enabled
    /\ retrying' = CASE doing = "enable" -> retrying \cup {p}
                     [] doing \in {"disable", "version"} -> retrying \ {p}
                     [] OTHER -> retrying
    /\ Call(doing, rest)
    /\ UNCHANGED <<connected, registry, table, listed, tasks, phase, subscribed>>

Owner(p) ==
    \/ Construct(p) \/ RegisterPlugin(p) \/ Subscribe(p) \/ Unsubscribe(p)
    \/ UnregisterPlugin(p) \/ Disable(p) \/ Deinit(p) \/ DestroyMembers(p)

Next ==
    \/ RunTask
    \/ SetConnected
    \/ SetDisconnected
    \/ \E message \in {"version", "flight"} : ProcessMessage(message)
    \/ \E p \in Plugins : Retry(p) \/ Skip(p) \/ CallPlugin(p) \/ Return(p) \/ Owner(p)

\* The io context runs what is posted in order, and so do the plugins' calls
\* return; a destructor that can go on does.
Fairness ==
    /\ SF_vars(RunTask)
    /\ WF_vars(\E p \in Plugins : Skip(p) \/ CallPlugin(p) \/ Return(p))
    /\ \A p \in Plugins :
          WF_vars(RegisterPlugin(p) \/ Disable(p) \/ Deinit(p) \/ DestroyMembers(p))

Spec == Init /\ [][Next]_vars
FairSpec == Spec /\ Fairness

-----------------------------------------------------------------------------
(***************************************************************************)
(* Properties                                                              *)
(***************************************************************************)

\* The last disable() and deinit() are under way, and the destructor after them.
Closing == {"disabling", "deinit", "destruct", "drain"}

\* What a plugin sees of its life.  A call from the io thread shows whatever
\* its owner is doing.
stage == [p \in Plugins |->
    IF inside = p /\ doing = "enable" THEN "enabling"
    ELSE IF inside = p /\ doing = "disable" THEN "disabling"
    ELSE CASE phase[p] = "none" -> "absent"
           [] phase[p] = "init" -> "initializing"
           [] phase[p] \in Closing -> "closing"
           [] phase[p] = "gone" -> "gone"
           [] OTHER -> IF p \in enabled THEN "enabled" ELSE "disabled"]

\* THREADING.md:118-141 - a plugin is enabled and disabled in turn and one
\* call at a time, also when it registers just as the system connects, and
\* never again once its owner tears it down.
Contract == INSTANCE PluginContract
ImplementsContract == Contract!Spec

\* system_impl.cpp:1375-1378 - whenever the io thread is between two handlers,
\* the plugins it knows are enabled if and only if the system is connected.
EnabledWhileConnected ==
    doing = "idle" => \A p \in registry : p \in enabled <=> connected

\* THREADING.md:63 - a blocking removal has returned: what was removed is not
\* running, even if it was when the removal began.
RemovedIsNotRunning ==
    \A p \in Plugins :
       inside = p =>
          /\ doing = "retry" => phase[p] \in {"alive", "erase", "disable", "disabling"}
          /\ doing \in {"version", "flight"} =>
                phase[p] \notin {"none", "destruct", "drain", "gone"}

\* Nothing on the io thread refers to a plugin that was destroyed: it is in no
\* registry, nothing that is posted captures it, and no handler is going to
\* call it.
GoneIsForgotten ==
    \A p \in Plugins : phase[p] = "gone" =>
       /\ p \notin registry \cup table \cup retrying \cup listed \cup rest
       /\ inside # p
       /\ \A i \in DOMAIN tasks : tasks[i].plugin # p

\* A destructor does not wait for ever.
DestructorReturns == \A p \in Plugins : phase[p] = "erase" ~> phase[p] = "gone"
=============================================================================
