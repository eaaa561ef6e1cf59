-------------------------- MODULE ParameterClient ---------------------------
(***************************************************************************)
(* Getting and setting parameters, one request at a time                   *)
(* (core/mavlink_parameter_client.{hpp,cpp}) over the cache that a         *)
(* "get all" fills (core/mavlink_parameter_cache.cpp).                     *)
(*                                                                         *)
(* Everything runs on the io thread in tasks, message handlers and         *)
(* timeouts; a handler is one action.  A parameter is its index on the     *)
(* server.  Of a value only the comparison with the one that is being set  *)
(* matters.  The server may send what belongs to the protocol at any time, *)
(* as often as it likes and in any order, and it may be silent.            *)
(***************************************************************************)
EXTENDS Naturals, Sequences, SequencesExt, FiniteSets

CONSTANTS
    Requests,   \* calls of the public API
    Kind,       \* Kind[r] is "get", "set" or "all": the type of the WorkItem
    Name,       \* the parameter of a get or set
    Owner,      \* the cookie of the request: the plugin that asks
    NumParams,  \* the server has the parameters 0..NumParams - 1
    Retries,    \* initial WorkItem::retries_to_do
    ChunkSize,  \* chunk_size of request_next_missing
    Nothing     \* no parameter, no index

Params == 0..(NumParams - 1)
Owners == {Owner[r] : r \in Requests}

ASSUME RequestAssumption ==
    /\ Kind \in [Requests -> {"get", "set", "all"}]
    /\ Name \in [Requests -> Params]
    /\ Nothing \notin Nat
ASSUME NumberAssumption ==
    NumParams \in Nat \ {0} /\ Retries \in Nat /\ ChunkSize \in Nat \ {0}

VARIABLES
    extended,      \* _use_extended
    queue,         \* _work_queue
    requested,     \* requests with already_requested
    retries,       \* retries_to_do of each request
    timer,         \* whether the timeout of _timeout_cookie is registered
    stale,         \* number of registered timeouts whose cookie was overwritten
    count,         \* WorkItemGetAll::count of each request
    rerequesting,  \* requests with WorkItemGetAll::rerequesting
    label,         \* _param_cache: the index each parameter is stored with
    lastMissing,   \* _param_cache: _last_missing_requested
    tasks,         \* what is posted to the io context
    calling,       \* owners the io thread is telling of a success
    asked,         \* history: requests that were made
    late,          \* history: those made by a callback of an owner that cancels
    cancelling,    \* history: owners that called cancel_all_param
    cancelled,     \* history: owners whose cancel_all_param was executed
    results,       \* history: what the callback of each request was called with
    fresh          \* history: parameters received since the last "get all" began

cacheVars == <<label, lastMissing, fresh>>
allVars == <<count, rerequesting>>
timerVars == <<timer, stale>>
callerVars == <<asked, late, cancelling, cancelled>>
vars == <<extended, queue, requested, retries, timerVars, allVars, cacheVars,
          tasks, calling, callerVars, results>>

Results == {"Success", "Timeout", "ConnectionError", "WrongType", "Failed"}
DoWorkTask == [op |-> "do_work"]
Tasks == {DoWorkTask} \cup [op : {"enqueue"}, request : Requests]
                      \cup [op : {"cancel"}, owner : Owners]

\* The types of the variables.
TypeOK ==
    /\ extended \in BOOLEAN
    /\ queue \in Seq(Requests)
    /\ requested \subseteq Requests
    /\ retries \in [Requests -> 0..Retries]
    /\ timer \in BOOLEAN
    /\ stale \in Nat
    /\ count \in [Requests -> 0..NumParams]
    /\ rerequesting \subseteq requested
    /\ label \in [Params -> Params \cup {Nothing}]
    /\ lastMissing \in Params \cup {Nothing}
    /\ tasks \in Seq(Tasks)
    /\ calling \subseteq Owners
    /\ asked \subseteq Requests
    /\ late \subseteq asked
    /\ cancelled \subseteq cancelling
    /\ cancelling \subseteq Owners
    /\ results \in [Requests -> Seq(Results)]
    /\ fresh \subseteq Params

\* A client that was just created, or one that has got all parameters before.
Init ==
    /\ extended \in BOOLEAN
    /\ queue = <<>>
    /\ requested = {}
    /\ retries = [r \in Requests |-> Retries]
    /\ timer = FALSE
    /\ stale = 0
    /\ count = [r \in Requests |-> 0]
    /\ rerequesting = {}
    /\ label \in {[p \in Params |-> Nothing], [p \in Params |-> p]}
    /\ lastMissing = Nothing
    /\ tasks = <<>>
    /\ calling = {}
    /\ asked = {}
    /\ late = {}
    /\ cancelling = {}
    /\ cancelled = {}
    /\ results = [r \in Requests |-> <<>>]
    /\ fresh = {}

(***************************************************************************)
(* What the handlers have in common.                                       *)
(***************************************************************************)

\* No request is at the front, or it was not sent.
NothingUnderWay == queue # <<>> => Head(queue) \notin requested

\* The request at the front, once it was sent.
UnderWay(r) == queue # <<>> /\ r = Head(queue) /\ r \in requested

Call(r, result) == results' = [results EXCEPT ![r] = Append(@, result)]

\* Until its next step the io thread is inside the callback that a step calls.
\* It matters for those that ask for more: they do it after a success.
Calls ==
    calling' = {Owner[r] : r \in {s \in Requests :
                                     results'[s] = Append(results[s], "Success")}}

\* Mutant: the request behind the one that ends is not started.
FinishQuietly(r, result, ts) ==
    /\ queue' = Tail(queue)
    /\ tasks' = ts
    /\ Call(r, result)

\* The front ends: pop_front(), a posted do_work() for those behind, and the
\* callback.  `ts' are the tasks that are posted already.
Finish(r, result, ts) ==
    /\ queue' = Tail(queue)
    /\ tasks' = IF Len(queue) > 1 THEN Append(ts, DoWorkTask) ELSE ts
    /\ Call(r, result)

\* _timeout_cookie = _timeout_handler.add(...), with `t' and `s' for timer and
\* stale.  A timeout that is still registered loses its cookie.
AddTimeout(t, s) == timer' = TRUE /\ stale' = IF t THEN s + 1 ELSE s

\* _timeout_handler.remove(_timeout_cookie).
RemoveTimeout == timer' = FALSE /\ UNCHANGED stale

\* How many elements of a set come before `i'.
Rank(S, i) == Cardinality({j \in S : j < i})

CacheSize(l) == Cardinality({p \in DOMAIN l : l[p] # Nothing})

\* MavlinkParameterCache::add_new_param; an index of -1 becomes the position.
AddNewParam(p, indexed) ==
    label' = IF label[p] # Nothing THEN label
             ELSE [label EXCEPT ![p] = IF indexed THEN p ELSE CacheSize(label)]

\* Mutant: the cache keeps what earlier requests have found.
KeepCache == fresh' = {} /\ UNCHANGED <<label, lastMissing>>

\* clear_cache(), before a get or a "get all" is sent.
ClearCache ==
    /\ label' = [p \in Params |-> Nothing]
    /\ lastMissing' = Nothing
    /\ fresh' = {}

\* Mutant: indices are counted from one.
MissingFromOne(l, n) == {i \in 1..(n - 1) : \A p \in DOMAIN l : l[p] # i}

\* The indices below `n' that no entry of the cache is stored with.
Missing(l, n) == {i \in 0..(n - 1) : \A p \in DOMAIN l : l[p] # i}

\* next_missing_indices: the first ChunkSize of them.
NextMissing(l, n) ==
    {i \in Missing(l, n) : Rank(Missing(l, n), i) < ChunkSize}

\* request_next_missing with the cache `l': whether all could be sent is `ok'.
\* It fails as well when nothing is missing.
RequestNextMissing(l, n, ok) ==
    /\ ok => NextMissing(l, n) # {}
    /\ lastMissing' = IF NextMissing(l, n) = {} THEN lastMissing
                      ELSE CHOOSE i \in NextMissing(l, n) :
                              \A j \in NextMissing(l, n) : j <= i

(***************************************************************************)
(* The tasks of the io context.                                            *)
(***************************************************************************)

\* do_work() with the queue `q' and the tasks `ts'; `ok' is whether the message
\* could be sent.
DoWork(q, ts, ok) ==
    \/ /\ q # <<>> => Head(q) \in requested
       /\ queue' = q
       /\ tasks' = ts
       /\ UNCHANGED <<requested, timerVars, cacheVars, results>>
    \/ /\ q # <<>>
       /\ Head(q) \notin requested
       /\ IF Kind[Head(q)] = "set" THEN UNCHANGED cacheVars ELSE ClearCache
       /\ IF ok
          THEN /\ requested' = requested \cup {Head(q)}
               /\ AddTimeout(timer, stale)
               /\ queue' = q
               /\ tasks' = ts
               /\ UNCHANGED results
          ELSE /\ queue' = Tail(q)
               /\ tasks' = IF Len(q) > 1 THEN Append(ts, DoWorkTask) ELSE ts
               /\ Call(Head(q), "ConnectionError")
               /\ UNCHANGED <<requested, timerVars>>

RunDoWork(ok) ==
    /\ tasks # <<>> /\ Head(tasks).op = "do_work"
    /\ DoWork(queue, Tail(tasks), ok)
    /\ Calls
    /\ UNCHANGED <<extended, retries, allVars, callerVars>>

\* The task posted by set_param_async, get_param_async, get_all_params_async.
Enqueue(ok) ==
    /\ tasks # <<>> /\ Head(tasks).op = "enqueue"
    /\ LET q == Append(queue, Head(tasks).request) IN
       IF queue = <<>>
       THEN DoWork(q, Tail(tasks), ok)
       ELSE /\ queue' = q
            /\ tasks' = Tail(tasks)
            /\ UNCHANGED <<requested, timerVars, cacheVars, results>>
    /\ Calls
    /\ UNCHANGED <<extended, retries, allVars, callerVars>>

\* Mutant: the request that is under way is not cancelled.
EraseQueued ==
    /\ tasks # <<>> /\ Head(tasks).op = "cancel"
    /\ queue' = SelectSeq(queue, LAMBDA r : \/ Owner[r] # Head(tasks).owner
                                            \/ r \in requested)
    /\ cancelled' = cancelled \cup {Head(tasks).owner}
    /\ tasks' = Tail(tasks)
    /\ calling' = {}
    /\ UNCHANGED <<extended, requested, retries, timerVars, allVars, cacheVars,
                   asked, late, cancelling, results>>

\* The positions in `q' of the requests that others than `o' have made.
Kept(q, o) == {i \in DOMAIN q : Owner[q[i]] # o}

\* erase(remove_if(...)): those requests move up, in the order they have.
Without(q, o) ==
    [n \in 1..Cardinality(Kept(q, o)) |->
        q[CHOOSE i \in Kept(q, o) : Rank(Kept(q, o), i) = n - 1]]

\* The task dispatched by cancel_all_param.
Erase ==
    /\ tasks # <<>> /\ Head(tasks).op = "cancel"
    /\ queue' = Without(queue, Head(tasks).owner)
    /\ cancelled' = cancelled \cup {Head(tasks).owner}
    /\ tasks' = Tail(tasks)
    /\ calling' = {}
    /\ UNCHANGED <<extended, requested, retries, timerVars, allVars, cacheVars,
                   asked, late, cancelling, results>>

(***************************************************************************)
(* The callers: plugins, on user threads and in their callbacks.           *)
(***************************************************************************)

\* A request from any thread, until the owner cancels.  Callbacks on the io
\* thread do not know of that: set_param_int_async makes a set for the same
\* owner from the callback of its get, before the cancellation is executed or
\* after.
Request(r) ==
    /\ r \notin asked
    /\ Owner[r] \in cancelling => Owner[r] \in calling
    /\ asked' = asked \cup {r}
    /\ late' = IF Owner[r] \in cancelling THEN late \cup {r} ELSE late
    /\ tasks' = Append(tasks, [op |-> "enqueue", request |-> r])
    /\ UNCHANGED <<extended, queue, requested, retries, timerVars, allVars,
                   cacheVars, calling, cancelling, cancelled, results>>

\* A user thread that destroys a plugin calls cancel_all_param and waits.
Cancel(o) ==
    /\ o \notin cancelling
    /\ cancelling' = cancelling \cup {o}
    /\ tasks' = Append(tasks, [op |-> "cancel", owner |-> o])
    /\ UNCHANGED <<extended, queue, requested, retries, timerVars, allVars,
                   cacheVars, calling, asked, late, cancelled, results>>

(***************************************************************************)
(* The messages of the server.                                             *)
(***************************************************************************)

\* PARAM_VALUE while a set is under way: the value is the one that was set, a
\* stale one, or one of another type.
SetValue(r, value, ok) ==
    \/ /\ value = "type"
       /\ RemoveTimeout
       /\ Finish(r, "WrongType", tasks)
       /\ UNCHANGED retries
    \/ /\ value = "same"
       /\ RemoveTimeout
       /\ Finish(r, "Success", tasks)
       /\ UNCHANGED retries
    \/ /\ value = "other" /\ retries[r] > 0 /\ ok
       /\ retries' = [retries EXCEPT ![r] = @ - 1]
       /\ UNCHANGED <<queue, tasks, results, timerVars>>
    \/ /\ value = "other" /\ retries[r] > 0 /\ ~ok
       /\ Finish(r, "ConnectionError", tasks)
       /\ UNCHANGED <<retries, timerVars>>
    \/ /\ value = "other" /\ retries[r] = 0
       /\ Finish(r, "Timeout", tasks)
       /\ UNCHANGED <<retries, timerVars>>

\* PARAM_VALUE or PARAM_EXT_VALUE while a "get all" is under way.  Only the
\* former asks for the next chunk when the last of a chunk comes in.
AllValue(r, p, indexed, ok) ==
    /\ AddNewParam(p, indexed)
    /\ fresh' = fresh \cup {p}
    /\ count' = [count EXCEPT ![r] = NumParams]
    /\ \/ /\ CacheSize(label') = NumParams
          /\ RemoveTimeout
          /\ Finish(r, "Success", tasks)
          /\ UNCHANGED lastMissing
       \/ /\ CacheSize(label') # NumParams
          /\ UNCHANGED timerVars
          /\ IF ~extended /\ r \in rerequesting /\ indexed /\ lastMissing = p
             THEN /\ RequestNextMissing(label', NumParams, ok)
                  /\ IF ok THEN UNCHANGED <<queue, tasks, results>>
                           ELSE Finish(r, "ConnectionError", tasks)
             ELSE UNCHANGED <<queue, tasks, results, lastMissing>>
    /\ UNCHANGED rerequesting

\* The value a get has asked for.
GetValue(r, p) ==
    /\ Kind[r] = "get" /\ Name[r] = p
    /\ RemoveTimeout
    /\ Finish(r, "Success", tasks)
    /\ UNCHANGED <<retries, allVars, cacheVars>>

ProcessParamValue(p, indexed, value, ok) ==
    /\ ~extended
    /\ \E r \in Requests :
          /\ UnderWay(r)
          /\ \/ /\ Kind[r] = "set" /\ Name[r] = p
                /\ SetValue(r, value, ok)
                /\ UNCHANGED <<allVars, cacheVars>>
             \/ GetValue(r, p)
             \/ /\ Kind[r] = "all"
                /\ AllValue(r, p, indexed, ok)
                /\ UNCHANGED retries
    /\ Calls
    /\ UNCHANGED <<extended, requested, callerVars>>

\* A set is not ended by a value here, but by process_param_ext_ack.
ProcessParamExtValue(p, indexed) ==
    /\ extended
    /\ \E r \in Requests :
          /\ UnderWay(r)
          /\ \/ GetValue(r, p)
             \/ /\ Kind[r] = "all"
                /\ AllValue(r, p, indexed, TRUE)
                /\ UNCHANGED retries
    /\ Calls
    /\ UNCHANGED <<extended, requested, callerVars>>

\* process_param_ext_ack for a set; PARAM_ACK_IN_PROGRESS only refreshes.
ProcessParamExtAck(p, result) ==
    \E r \in Requests :
       /\ UnderWay(r)
       /\ extended /\ Kind[r] = "set" /\ Name[r] = p
       /\ RemoveTimeout
       /\ Finish(r, result, tasks)
       /\ Calls
       /\ UNCHANGED <<extended, requested, retries, allVars, cacheVars, callerVars>>

\* process_param_error for a get or a set.
ProcessParamError(p) ==
    \E r \in Requests :
       /\ UnderWay(r)
       /\ ~extended /\ Kind[r] \in {"get", "set"} /\ Name[r] = p
       /\ RemoveTimeout
       /\ Finish(r, "Failed", tasks)
       /\ Calls
       /\ UNCHANGED <<extended, requested, retries, allVars, cacheVars, callerVars>>

(***************************************************************************)
(* receive_timeout.                                                        *)
(***************************************************************************)

\* Mutant: a request that was sent again has no timeout.
SendAgainOnce(r, t, s, ok) ==
    \/ /\ ok
       /\ retries' = [retries EXCEPT ![r] = @ - 1]
       /\ timer' = t /\ stale' = s
       /\ UNCHANGED <<queue, tasks, results>>
    \/ /\ ~ok
       /\ Finish(r, "ConnectionError", tasks)
       /\ timer' = t /\ stale' = s
       /\ UNCHANGED retries

\* A get or set is sent again.
SendAgain(r, t, s, ok) ==
    \/ /\ ok
       /\ retries' = [retries EXCEPT ![r] = @ - 1]
       /\ AddTimeout(t, s)
       /\ UNCHANGED <<queue, tasks, results>>
    \/ /\ ~ok
       /\ Finish(r, "ConnectionError", tasks)
       /\ timer' = t /\ stale' = s
       /\ UNCHANGED retries

\* The list is requested again; the attempt counts even if it fails.
RequestListAgain(r, t, s, ok) ==
    /\ retries' = [retries EXCEPT ![r] = @ - 1]
    /\ IF ok THEN /\ AddTimeout(t, s)
                  /\ UNCHANGED <<queue, tasks, results>>
             ELSE /\ Finish(r, "ConnectionError", tasks)
                  /\ timer' = t /\ stale' = s

\* The callback hears of the timeout, but the request stays where it is.
GiveUpList(r, t, s) ==
    /\ Call(r, "Timeout")
    /\ timer' = t /\ stale' = s
    /\ UNCHANGED <<queue, tasks, retries>>

RequestMissing(r, t, s, ok) ==
    /\ rerequesting' = rerequesting \cup {r}
    /\ RequestNextMissing(label, count[r], ok)
    /\ IF ok THEN /\ AddTimeout(t, s)
                  /\ UNCHANGED <<queue, tasks, results>>
             ELSE /\ Finish(r, "ConnectionError", tasks)
                  /\ timer' = t /\ stale' = s
    /\ UNCHANGED <<retries, count, label, fresh>>

\* receive_timeout(), with `t' and `s' for timer and stale.
ReceiveTimeout(t, s, ok) ==
    /\ \/ /\ NothingUnderWay
          /\ timer' = t /\ stale' = s
          /\ UNCHANGED <<queue, tasks, results, retries, allVars, cacheVars>>
       \/ \E r \in Requests :
             /\ UnderWay(r)
             /\ \/ /\ Kind[r] # "all" /\ retries[r] > 0
                   /\ SendAgain(r, t, s, ok)
                   /\ UNCHANGED <<allVars, cacheVars>>
                \/ /\ Kind[r] # "all" /\ retries[r] = 0
                   /\ Finish(r, "Timeout", tasks)
                   /\ timer' = t /\ stale' = s
                   /\ UNCHANGED <<retries, allVars, cacheVars>>
                \/ /\ Kind[r] = "all" /\ count[r] = 0 /\ retries[r] > 0
                   /\ RequestListAgain(r, t, s, ok)
                   /\ UNCHANGED <<allVars, cacheVars>>
                \/ /\ Kind[r] = "all" /\ count[r] = 0 /\ retries[r] = 0
                   /\ GiveUpList(r, t, s)
                   /\ UNCHANGED <<allVars, cacheVars>>
                \/ /\ Kind[r] = "all" /\ count[r] # 0
                   /\ RequestMissing(r, t, s, ok)
    /\ Calls
    /\ UNCHANGED <<extended, requested, callerVars>>

\* A registered timeout fires, also one that was left behind by a request.
TimeoutFires(ok) ==
    \/ timer /\ ReceiveTimeout(FALSE, stale, ok)
    \/ stale > 0 /\ ReceiveTimeout(timer, stale - 1, ok)

TaskStep == \E ok \in BOOLEAN : RunDoWork(ok) \/ Enqueue(ok)

Next ==
    \/ \E r \in Requests : Request(r)
    \/ \E o \in Owners : Cancel(o)
    \/ TaskStep
    \/ Erase
    \/ \E p \in Params, indexed, ok \in BOOLEAN, value \in {"same", "other", "type"} :
          ProcessParamValue(p, indexed, value, ok)
    \/ \E p \in Params, indexed \in BOOLEAN : ProcessParamExtValue(p, indexed)
    \/ \E p \in Params, result \in {"Success", "Failed"} : ProcessParamExtAck(p, result)
    \/ \E p \in Params : ProcessParamError(p)
    \/ \E ok \in BOOLEAN : TimeoutFires(ok)

\* The io thread runs what is posted, and timeouts fire: the server does not
\* refresh a request for ever.  No send has to fail: asking for the same missing
\* parameter again and again changes nothing.
Fairness ==
    /\ WF_vars(TaskStep)
    /\ WF_vars(Erase)
    /\ WF_vars(TimeoutFires(TRUE))

Spec == Init /\ [][Next]_vars
FairSpec == Spec /\ Fairness

-----------------------------------------------------------------------------
(***************************************************************************)
(* Properties                                                              *)
(***************************************************************************)

\* A "get all" whose callback has heard of the timeout at line 1331.
GivenUp(r) == Kind[r] = "all" /\ results[r] # <<>>

\* Until then the request that is under way has its own timeout, whatever
\* timeouts earlier requests have left behind.
RequestHasTimeout ==
    \A r \in Requests : UnderWay(r) /\ ~GivenUp(r) => timer

Pending(task) == \E i \in DOMAIN tasks : tasks[i] = task

\* THREADING.md:115-117 - whatever ends the front kicks do_work, except a
\* cancellation of the request under way.
QueueIsKicked ==
    queue # <<>> /\ Head(queue) \notin requested /\ cancelled = {}
        => Pending(DoWorkTask)

\* THREADING.md:115 - "If you add a work queue, or a path that retires an item,
\* it has to kick do_work() itself": so does a cancellation.
QueueIsAlwaysKicked ==
    queue # <<>> /\ Head(queue) \notin requested => Pending(DoWorkTask)

\* The callback of a get or set is called once.  Once the cancellation of its
\* owner was executed no callback of the owner is called (line 446), but for the
\* requests that its callbacks have made while the owner was cancelling: those
\* come behind the cancellation and are heard.
HearsOnce ==
    [][\A r \in Requests : results'[r] # results[r]
          => /\ Kind[r] = "all" \/ results[r] = <<>>
             /\ Owner[r] \in cancelled => r \in late]_vars

\* A "get all" that succeeds hands over every parameter of the server, and none
\* that an earlier request has left in the cache.
GetAllIsComplete ==
    [][\A r \in Requests :
          Kind[r] = "all" /\ results'[r] = Append(results[r], "Success")
             => fresh' = Params]_vars

\* Line 1375 - "there should a missing index": while parameters are missing
\* there is one to ask for, also when some arrived without their index.
MissingIndexExists ==
    \A r \in Requests :
       UnderWay(r) /\ Kind[r] = "all" /\ count[r] # 0 => Missing(label, count[r]) # {}

\* Nothing is under way and nothing is coming, although requests wait.
Orphaned ==
    /\ cancelled # {}
    /\ queue # <<>> /\ Head(queue) \notin requested
    /\ ~Pending(DoWorkTask)

\* A get or set that is in the queue ends, unless a "get all" before it does
\* not, or a cancellation stops the queue.
GetAndSetEnd ==
    \A r \in Requests :
       Kind[r] # "all" /\ r \in ToSet(queue)
          ~> \/ results[r] # <<>>
             \/ Owner[r] \in cancelled /\ r \notin late
             \/ Orphaned
             \/ queue # <<>> /\ Kind[Head(queue)] = "all"
=============================================================================
