--------------------------- MODULE TimeoutHandler ---------------------------
(***************************************************************************)
(* One-shot timeouts (core/timeout_handler.{hpp,cpp}).                     *)
(*                                                                         *)
(* add, refresh, remove and remove_blocking may be called by any thread,   *)
(* and by a timeout's callback; run_once is called by the io_context       *)
(* thread only.  Every stretch of code under _timeouts_mutex is one        *)
(* action, so the interleavings are those of the critical sections.        *)
(*                                                                         *)
(* _timeouts is kept in insertion order, which is the order of the cookies *)
(* (refresh changes a deadline, never a position), and run_once empties    *)
(* _due before it returns.  Both lists are therefore sets of cookies here, *)
(* and the front of _due is its smallest cookie.                           *)
(***************************************************************************)
EXTENDS Integers

CONSTANTS
    Users,       \* threads other than the io_context thread
    IoThread,    \* the thread that calls run_once and runs the callbacks
    Durations,   \* the durations add() is called with, in ticks
    MaxCookie,   \* bound: number of calls of add()
    MaxTime      \* bound: the clock stops here

ASSUME ThreadAssumption == IoThread \notin Users
ASSUME NumberAssumption == /\ Durations \subseteq Nat
                           /\ MaxCookie \in Nat
                           /\ MaxTime \in Nat

Threads == Users \cup {IoThread}
Cookies == 1..MaxCookie
NoThread == "no thread"
ASSUME NoThreadAssumption == NoThread \notin Threads

VARIABLES
    now,              \* the steady clock
    timeouts,         \* _timeouts: cookies that wait for their deadline
    due,              \* _due: cookies found due and not invoked yet
    deadline,         \* Timeout::time of each cookie
    duration,         \* Timeout::duration_s of each cookie
    callable,         \* cookies whose Timeout::callback is not empty
    executing,        \* _executing_cookie, 0 if none
    executingThread,  \* _executing_thread
    nextCookie,       \* _next_cookie
    pc,               \* where each thread is in its call, "idle" if in none
    target,           \* the cookie the call of each thread is about
    started,          \* history: cookies whose callback was started
    removed,          \* history: cookies a remove call has taken out
    released          \* history: cookies a remove_blocking returned for,
                      \* called from outside the cookie's own callback

handlerVars == <<timeouts, due, deadline, duration, callable, executing,
                 executingThread, nextCookie>>
vars == <<now, handlerVars, pc, target, started, removed, released>>

\* The places of a call at which the caller does not hold the mutex: about to
\* call _wakeup_callback, in the wait set of _callback_done, or notified and
\* about to test the predicate of the wait again.
Places == {"idle", "wakeup", "wait", "notified"}

\* The types of the variables.
TypeOK ==
    /\ now \in Nat
    /\ timeouts \subseteq Cookies
    /\ due \subseteq Cookies
    /\ deadline \in [Cookies -> Nat]
    /\ duration \in [Cookies -> Nat]
    /\ callable \subseteq Cookies
    /\ executing \in Cookies \cup {0}
    /\ executingThread \in Threads \cup {NoThread}
    /\ nextCookie \in 1..(MaxCookie + 1)
    /\ pc \in [Threads -> Places]
    /\ target \in [Threads -> Cookies \cup {0}]
    /\ started \subseteq Cookies
    /\ removed \subseteq Cookies
    /\ released \subseteq Cookies

Init ==
    /\ now = 0
    /\ timeouts = {}
    /\ due = {}
    /\ deadline = [c \in Cookies |-> 0]
    /\ duration = [c \in Cookies |-> 0]
    /\ callable = {}
    /\ executing = 0
    /\ executingThread = NoThread
    /\ nextCookie = 1
    /\ pc = [t \in Threads |-> "idle"]
    /\ target = [t \in Threads |-> 0]
    /\ started = {}
    /\ removed = {}
    /\ released = {}

(***************************************************************************)
(* The calls of any thread.                                                *)
(***************************************************************************)

\* `time' is before every deadline of _timeouts: !previous_earliest, or
\* time < *previous_earliest.
MovedEarlier(time) == \A c \in timeouts : time < deadline[c]

Return(t) == pc' = [pc EXCEPT ![t] = "idle"]

\* add() up to the unlock.
Add(t, d, hasCallback) ==
    /\ pc[t] = "idle"
    /\ nextCookie <= MaxCookie
    /\ now + d < MaxTime
    /\ timeouts' = timeouts \cup {nextCookie}
    /\ deadline' = [deadline EXCEPT ![nextCookie] = now + d]
    /\ duration' = [duration EXCEPT ![nextCookie] = d]
    /\ callable' = IF hasCallback THEN callable \cup {nextCookie} ELSE callable
    /\ nextCookie' = nextCookie + 1
    /\ IF MovedEarlier(now + d) THEN pc' = [pc EXCEPT ![t] = "wakeup"]
                                ELSE Return(t)
    /\ UNCHANGED <<now, due, executing, executingThread, target, started,
                   removed, released>>

\* refresh() up to the unlock.  A timeout that is no longer in _timeouts, due
\* ones included, is left alone.
Refresh(t, c) ==
    LET time == now + duration[c] IN
    /\ pc[t] = "idle"
    /\ c \in timeouts
    /\ time < MaxTime
    /\ deadline' = [deadline EXCEPT ![c] = time]
    /\ IF MovedEarlier(time) THEN pc' = [pc EXCEPT ![t] = "wakeup"]
                             ELSE Return(t)
    /\ UNCHANGED <<now, timeouts, due, duration, callable, executing,
                   executingThread, nextCookie, target, started, removed,
                   released>>

\* The call of _wakeup_callback, with no lock held, and the return.
Wakeup(t) ==
    /\ pc[t] = "wakeup"
    /\ Return(t)
    /\ UNCHANGED <<now, handlerVars, target, started, removed, released>>

\* Mutant: remove_blocking does not wait.
NoWait(t, c) == TRUE

\* The predicate remove_impl waits for.
MayReturn(t, c) == executing # c \/ executingThread = t

\* What the return of a remove_blocking(c) call gives its caller.  A call from
\* within the callback of c itself promises nothing about that callback.
Release(t, c) ==
    released' = IF executing = c /\ executingThread = t
                THEN released ELSE released \cup {c}

\* Mutant: remove_impl that forgets the timeouts already moved to _due.
RemoveOfWaiting(t, c, blocking) ==
    /\ pc[t] = "idle"
    /\ c \in 1..(nextCookie - 1)
    /\ timeouts' = timeouts \ {c}
    /\ removed' = removed \cup {c}
    /\ Return(t)
    /\ UNCHANGED <<now, due, deadline, duration, callable, executing,
                   executingThread, nextCookie, target, started, released>>

\* remove_impl(c, blocking) until it returns or waits.  Cookie 0 stands for
\* "nothing registered" and returns at once.
Remove(t, c, blocking) ==
    /\ pc[t] = "idle"
    /\ c < nextCookie
    /\ IF c = 0
       THEN /\ Return(t)
            /\ UNCHANGED <<timeouts, due, target, removed, released>>
       ELSE /\ timeouts' = timeouts \ {c}
            /\ due' = due \ {c}
            /\ removed' = removed \cup {c}
            /\ IF blocking /\ ~MayReturn(t, c)
               THEN /\ pc' = [pc EXCEPT ![t] = "wait"]
                    /\ target' = [target EXCEPT ![t] = c]
                    /\ UNCHANGED released
               ELSE /\ Return(t)
                    /\ IF blocking THEN Release(t, c) ELSE UNCHANGED released
                    /\ UNCHANGED target
    /\ UNCHANGED <<now, deadline, duration, callable, executing,
                   executingThread, nextCookie, started>>

\* A condition variable may also wake a waiter for no reason.
SpuriousWakeup(t) ==
    /\ pc[t] = "wait"
    /\ pc' = [pc EXCEPT ![t] = "notified"]
    /\ UNCHANGED <<now, handlerVars, target, started, removed, released>>

\* A notified waiter takes the mutex and tests the predicate again.
Recheck(t) ==
    /\ pc[t] = "notified"
    /\ IF MayReturn(t, target[t])
       THEN /\ Return(t)
            /\ target' = [target EXCEPT ![t] = 0]
            /\ Release(t, target[t])
       ELSE /\ pc' = [pc EXCEPT ![t] = "wait"]
            /\ UNCHANGED <<target, released>>
    /\ UNCHANGED <<now, handlerVars, started, removed>>

(***************************************************************************)
(* run_once, on the io thread.  The mutex is held from the moment the due  *)
(* timeouts are moved to the moment the first callback is invoked, and     *)
(* from the return of a callback to the invocation of the next.            *)
(***************************************************************************)

\* Mutant: run_once drops what is due behind the first callback.
InvokeFirstOnly(queue) ==
    /\ due' = {}
    /\ IF queue \cap callable = {}
       THEN /\ executing' = 0
            /\ executingThread' = NoThread
            /\ UNCHANGED started
       ELSE \E c \in queue \cap callable :
               /\ executing' = c
               /\ executingThread' = IoThread
               /\ started' = started \cup {c}

\* The head of the while loop, `queue' being _due: skip the timeouts without a
\* callback, invoke the first one that has one, or leave run_once.
InvokeNext(queue) ==
    LET ready == queue \cap callable IN
    IF ready = {}
    THEN /\ due' = {}
         /\ executing' = 0
         /\ executingThread' = NoThread
         /\ UNCHANGED started
    ELSE \E c \in ready :
            /\ \A other \in ready : c <= other
            /\ due' = {other \in queue : c < other}
            /\ executing' = c
            /\ executingThread' = IoThread
            /\ started' = started \cup {c}

\* Mutant: a timeout is due at its deadline already.
ExpiredAtDeadline == {c \in timeouts : deadline[c] <= now}

\* The timeouts run_once moves to _due: time < now.
Expired == {c \in timeouts : deadline[c] < now}

RunOnce ==
    /\ executing = 0
    /\ pc[IoThread] = "idle"
    /\ timeouts' = timeouts \ Expired
    /\ InvokeNext(due \cup Expired)
    /\ UNCHANGED <<now, deadline, duration, callable, nextCookie, pc, target,
                   removed, released>>

\* Mutant: nobody is notified of the end of a callback.
CallbackReturnsSilently ==
    /\ executing # 0
    /\ pc[IoThread] = "idle"
    /\ InvokeNext(due)
    /\ UNCHANGED <<now, timeouts, deadline, duration, callable, nextCookie,
                   pc, target, removed, released>>

\* A callback returns: _callback_done.notify_all() and the next iteration.
CallbackReturns ==
    /\ executing # 0
    /\ pc[IoThread] = "idle"
    /\ pc' = [t \in Threads |-> IF pc[t] = "wait" THEN "notified" ELSE pc[t]]
    /\ InvokeNext(due)
    /\ UNCHANGED <<now, timeouts, deadline, duration, callable, nextCookie,
                   target, removed, released>>

Tick ==
    /\ now < MaxTime
    /\ now' = now + 1
    /\ UNCHANGED <<handlerVars, pc, target, started, removed, released>>

Call(t) ==
    \/ \E d \in Durations, hasCallback \in BOOLEAN : Add(t, d, hasCallback)
    \/ \E c \in Cookies : Refresh(t, c)
    \/ Wakeup(t)
    \/ \E c \in Cookies \cup {0}, blocking \in BOOLEAN : Remove(t, c, blocking)
    \/ SpuriousWakeup(t)
    \/ Recheck(t)

Next ==
    \/ \E t \in Threads : Call(t)
    \/ RunOnce
    \/ CallbackReturns
    \/ Tick

\* The io thread keeps polling, callbacks return, and a thread inside a call
\* goes on.  Nobody is obliged to start a call.
Fairness ==
    /\ WF_vars(Tick)
    /\ WF_vars(RunOnce)
    /\ WF_vars(CallbackReturns)
    /\ \A t \in Threads : WF_vars(Wakeup(t)) /\ WF_vars(Recheck(t))

Spec == Init /\ [][Next]_vars
FairSpec == Spec /\ Fairness

-----------------------------------------------------------------------------
(***************************************************************************)
(* Properties                                                              *)
(***************************************************************************)

\* timeout_handler.hpp:41 - once remove(c) has returned, the callback of c is
\* not started any more, even if run_once had already picked c up as due; and
\* since timeouts are one-shot no callback is started twice, whatever refresh
\* calls race with run_once.
StartsAtMostOnceAndNeverAfterRemove ==
    [][\A c \in Cookies :
         (executing' = c /\ executing # c) => c \notin removed \cup started]_vars

\* timeout_handler.hpp:46 - once remove_blocking(c) has returned, the callback
\* of c is not running, so its owner can be destroyed.  (That it is never
\* started again is the property above.)
ReleasedIsNotRunning == executing \notin released

\* timeout_handler.hpp:39-51 - the same for whoever knows only the promise: a
\* timeout is registered, may be called, is removed and then released; all the
\* rest of the handler is invisible.
Contract == INSTANCE Cancellation WITH
    registered <- timeouts \cup due,
    running <- {executing} \ {0}

ImplementsCancellation == Contract!Spec

\* A callback only runs once its deadline, as last refreshed before run_once
\* picked it up, is strictly in the past.
NeverEarly == executing # 0 => deadline[executing] < now

\* A remove_blocking call that waits for a running callback returns: no
\* notification is lost, and the io thread never waits for itself.
BlockedRemoveReturns ==
    \A t \in Threads : pc[t] \in {"wait", "notified"} ~> pc[t] = "idle"

\* Every timeout leaves the handler: it fires or it is removed.
EveryTimeoutFiresOrIsRemoved ==
    \A c \in Cookies :
        c \in timeouts /\ c \in callable ~> c \in started \cup removed
=============================================================================
