-------------------------- MODULE CallEveryHandler --------------------------
(***************************************************************************)
(* Periodic callbacks (core/call_every_handler.{hpp,cpp}).                 *)
(*                                                                         *)
(* As in TimeoutHandler, every stretch of code under _mutex is one action, *)
(* run_once is called on the io_context thread, everything else by any     *)
(* thread.  _entries is in the order of the cookies, and run_once pushes   *)
(* each of them once to _due and empties it, so both are sets of cookies.  *)
(* A tick of the clock is the millisecond of add() and call_soon().        *)
(***************************************************************************)
EXTENDS Integers

CONSTANTS
    Users,       \* threads other than the io_context thread
    IoThread,    \* the thread that calls run_once and runs the callbacks
    Intervals,   \* the intervals add() and change() are called with, in ticks
    MaxCookie,   \* bound: number of calls of add()
    MaxTime      \* bound: the clock stops here

ASSUME ThreadAssumption == IoThread \notin Users
ASSUME NumberAssumption == /\ Intervals \subseteq Nat
                           /\ MaxCookie \in Nat
                           /\ MaxTime \in Nat

Threads == Users \cup {IoThread}
Cookies == 1..MaxCookie
NoThread == "no thread"
ASSUME NoThreadAssumption == NoThread \notin Threads

VARIABLES
    now,              \* the steady clock
    entries,          \* _entries: their cookies
    due,              \* _due: cookies found due and not invoked yet
    lastTime,         \* Entry::last_time of each cookie
    interval,         \* Entry::interval_s of each cookie
    callable,         \* cookies whose Entry::callback is not empty
    executing,        \* _executing_cookie, 0 if none
    executingThread,  \* _executing_thread
    nextCookie,       \* _next_cookie
    pc,               \* where each thread is in its call, "idle" if in none
    target,           \* the cookie the call of each thread is about
    removed,          \* history: cookies a remove call has taken out
    released          \* history: cookies a remove_blocking returned for,
                      \* called from outside the cookie's own callback

entryVars == <<entries, due, lastTime, interval, callable, nextCookie>>
executingVars == <<executing, executingThread>>
callVars == <<pc, target, removed, released>>
vars == <<now, entryVars, executingVars, callVars>>

\* The places of a call at which the caller does not hold the mutex.
Places == {"idle", "wakeup", "wait", "notified"}

\* The types of the variables.
TypeOK ==
    /\ now \in Nat
    /\ entries \subseteq 1..(nextCookie - 1)
    /\ due \subseteq entries
    /\ lastTime \in [Cookies -> Int]
    /\ interval \in [Cookies -> Nat]
    /\ callable \subseteq Cookies
    /\ executing \in 0..(nextCookie - 1)
    /\ executingThread \in Threads \cup {NoThread}
    /\ nextCookie \in 1..(MaxCookie + 1)
    /\ pc \in [Threads -> Places]
    /\ target \in [Threads -> Cookies \cup {0}]
    /\ removed \subseteq 1..(nextCookie - 1)
    /\ released \subseteq removed

Init ==
    /\ now = 0
    /\ entries = {}
    /\ due = {}
    /\ lastTime = [c \in Cookies |-> 0]
    /\ interval = [c \in Cookies |-> 0]
    /\ callable = {}
    /\ executing = 0
    /\ executingThread = NoThread
    /\ nextCookie = 1
    /\ pc = [t \in Threads |-> "idle"]
    /\ target = [t \in Threads |-> 0]
    /\ removed = {}
    /\ released = {}

(***************************************************************************)
(* The calls of any thread.                                                *)
(***************************************************************************)

\* When an entry is due: earliest_with_lock takes the least of them.
Deadline(c) == lastTime[c] + interval[c]

\* `time' is before the deadline of every entry.
MovedEarlier(time) == \A c \in entries : time < Deadline(c)

\* The last_time with which an entry is run straightaway.
JustDue(d) == now - d - 1

Return(t) == pc' = [pc EXCEPT ![t] = "idle"]
CallWakeup(t) == pc' = [pc EXCEPT ![t] = "wakeup"]

Add(t, d, hasCallback) ==
    /\ pc[t] = "idle"
    /\ nextCookie <= MaxCookie
    /\ entries' = entries \cup {nextCookie}
    /\ lastTime' = [lastTime EXCEPT ![nextCookie] = JustDue(d)]
    /\ interval' = [interval EXCEPT ![nextCookie] = d]
    /\ callable' = IF hasCallback THEN callable \cup {nextCookie} ELSE callable
    /\ nextCookie' = nextCookie + 1
    /\ CallWakeup(t)
    /\ UNCHANGED <<now, due, executingVars, target, removed, released>>

\* Mutant: a new interval only counts from the next call on.
ChangeSilently(t, c, d) ==
    /\ pc[t] = "idle"
    /\ c \in entries
    /\ interval' = [interval EXCEPT ![c] = d]
    /\ UNCHANGED <<now, entries, due, lastTime, callable, nextCookie,
                   executingVars, callVars>>

\* change() of an entry that is there; otherwise it does nothing.
Change(t, c, d) ==
    /\ pc[t] = "idle"
    /\ c \in entries
    /\ interval' = [interval EXCEPT ![c] = d]
    /\ IF MovedEarlier(lastTime[c] + d) THEN CallWakeup(t) ELSE Return(t)
    /\ UNCHANGED <<now, entries, due, lastTime, callable, nextCookie,
                   executingVars, target, removed, released>>

Reset(t, c) ==
    /\ pc[t] = "idle"
    /\ c \in entries
    /\ lastTime' = [lastTime EXCEPT ![c] = now]
    /\ UNCHANGED <<now, entries, due, interval, callable, nextCookie,
                   executingVars, callVars>>

CallSoon(t, c) ==
    /\ pc[t] = "idle"
    /\ c \in entries
    /\ lastTime' = [lastTime EXCEPT ![c] = JustDue(interval[c])]
    /\ CallWakeup(t)
    /\ UNCHANGED <<now, entries, due, interval, callable, nextCookie,
                   executingVars, target, removed, released>>

\* The call of _wakeup_callback, with no lock held, and the return.
Wakeup(t) ==
    /\ pc[t] = "wakeup"
    /\ Return(t)
    /\ UNCHANGED <<now, entryVars, executingVars, target, removed, released>>

\* The predicate remove_impl waits for.
MayReturn(t, c) == executing # c \/ executingThread = t

\* A call from within the callback of c promises nothing about that callback.
Release(t, c) ==
    released' = IF executing = c /\ executingThread = t
                THEN released ELSE released \cup {c}

\* Mutant: what run_once has already found due is called nevertheless.
RemoveFromEntries(t, c, blocking) ==
    /\ pc[t] = "idle"
    /\ c \in 1..(nextCookie - 1)
    /\ entries' = entries \ {c}
    /\ removed' = removed \cup {c}
    /\ Return(t)
    /\ UNCHANGED <<now, due, lastTime, interval, callable, nextCookie,
                   executingVars, target, released>>

\* remove_impl(c, blocking) until it returns or waits; cookie 0 is nothing.
Remove(t, c, blocking) ==
    /\ pc[t] = "idle"
    /\ c \in 1..(nextCookie - 1)
    /\ entries' = entries \ {c}
    /\ due' = due \ {c}
    /\ removed' = removed \cup {c}
    /\ IF blocking /\ ~MayReturn(t, c)
       THEN /\ pc' = [pc EXCEPT ![t] = "wait"]
            /\ target' = [target EXCEPT ![t] = c]
            /\ UNCHANGED released
       ELSE /\ Return(t)
            /\ IF blocking THEN Release(t, c) ELSE UNCHANGED released
            /\ UNCHANGED target
    /\ UNCHANGED <<now, lastTime, interval, callable, nextCookie,
                   executingVars>>

\* A condition variable may also wake a waiter for no reason.
SpuriousWakeup(t) ==
    /\ pc[t] = "wait"
    /\ pc' = [pc EXCEPT ![t] = "notified"]
    /\ UNCHANGED <<now, entryVars, executingVars, target, removed, released>>

\* A notified waiter takes the mutex and tests the predicate again.
Recheck(t) ==
    /\ pc[t] = "notified"
    /\ IF MayReturn(t, target[t])
       THEN /\ Return(t)
            /\ target' = [target EXCEPT ![t] = 0]
            /\ Release(t, target[t])
       ELSE /\ pc' = [pc EXCEPT ![t] = "wait"]
            /\ UNCHANGED <<target, released>>
    /\ UNCHANGED <<now, entryVars, executingVars, removed>>

(***************************************************************************)
(* run_once, on the io thread, with the mutex let go during callbacks.     *)
(***************************************************************************)

\* The head of the while loop, `queue' being _due.
InvokeNext(queue) ==
    IF queue = {}
    THEN /\ due' = {}
         /\ executing' = 0
         /\ executingThread' = NoThread
    ELSE \E c \in queue :
            /\ \A other \in queue : c <= other
            /\ due' = queue \ {c}
            /\ executing' = c
            /\ executingThread' = IoThread

\* The entries whose interval is up.
Elapsed == {c \in entries : now - lastTime[c] > interval[c]}

\* They are due one interval later again, whether they have a callback or not.
RunOnce ==
    /\ executing = 0
    /\ pc[IoThread] = "idle"
    /\ lastTime' = [c \in Cookies |-> IF c \in Elapsed THEN Deadline(c) ELSE lastTime[c]]
    /\ InvokeNext(due \cup (Elapsed \cap callable))
    /\ UNCHANGED <<now, entries, interval, callable, nextCookie, callVars>>

\* Mutant: run_once calls one entry and leaves the others to the next poll.
CallbackReturnsToPoll ==
    /\ executing # 0
    /\ pc[IoThread] = "idle"
    /\ pc' = [t \in Threads |-> IF pc[t] = "wait" THEN "notified" ELSE pc[t]]
    /\ executing' = 0
    /\ executingThread' = NoThread
    /\ UNCHANGED <<now, entryVars, target, removed, released>>

\* A callback returns: _callback_done.notify_all() and the next iteration.
CallbackReturns ==
    /\ executing # 0
    /\ pc[IoThread] = "idle"
    /\ pc' = [t \in Threads |-> IF pc[t] = "wait" THEN "notified" ELSE pc[t]]
    /\ InvokeNext(due)
    /\ UNCHANGED <<now, entries, lastTime, interval, callable, nextCookie,
                   target, removed, released>>

Tick ==
    /\ now < MaxTime
    /\ now' = now + 1
    /\ UNCHANGED <<entryVars, executingVars, callVars>>

Call(t) ==
    \/ \E d \in Intervals, hasCallback \in BOOLEAN : Add(t, d, hasCallback)
    \/ \E c \in Cookies, d \in Intervals : Change(t, c, d)
    \/ \E c \in Cookies : Reset(t, c) \/ CallSoon(t, c)
    \/ Wakeup(t)
    \/ \E c \in Cookies, blocking \in BOOLEAN : Remove(t, c, blocking)
    \/ SpuriousWakeup(t)
    \/ Recheck(t)

Next ==
    \/ \E t \in Threads : Call(t)
    \/ RunOnce
    \/ CallbackReturns
    \/ Tick

\* The io thread keeps polling, callbacks return, however many calls they make
\* before, and a thread inside a call goes on.  Nobody has to start a call.
Fairness ==
    /\ WF_vars(Tick)
    /\ SF_vars(RunOnce)
    /\ SF_vars(CallbackReturns)
    /\ \A t \in Threads : WF_vars(Wakeup(t)) /\ WF_vars(Recheck(t))

Spec == Init /\ [][Next]_vars
FairSpec == Spec /\ Fairness

-----------------------------------------------------------------------------
(***************************************************************************)
(* Properties                                                              *)
(***************************************************************************)

\* call_every_handler.hpp:40-49 - a removed entry is not started any more, even
\* if run_once has found it due, and after remove_blocking it is not running.
Contract == INSTANCE Cancellation WITH
    registered <- entries,
    running <- {executing} \ {0}

ImplementsCancellation == Contract!Spec

\* However far run_once lags behind and catches up, an entry is never pushed
\* further into the future than one interval from now: none falls silent.
NeverAhead == \A c \in entries : lastTime[c] <= now

\* call_every_handler.hpp:71 - whenever the earliest deadline moves to an earlier
\* time, the thread that moved it is about to wake up the owner's timer, and
\* reset(), removals and run_once never move it to an earlier time.
EarlierDeadlineWakesUp ==
    [][(\E c \in entries' : MovedEarlier(Deadline(c)'))
          => \E t \in Threads : pc[t] = "idle" /\ pc'[t] = "wakeup"]_vars

\* What is found due is called, unless it is removed first, whatever other
\* callbacks do in between.
DueIsCalled == \A c \in Cookies : c \in due ~> executing = c \/ c \in removed
=============================================================================
