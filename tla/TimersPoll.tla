----------------------------- MODULE TimersPoll -----------------------------
(***************************************************************************)
(* What drives the TimeoutHandler: MavsdkImpl::schedule_timers_poll and    *)
(* wake_timers_poll (core/mavsdk_impl.cpp), composed with TimeoutHandler   *)
(* and with one entry of the CallEveryHandler.                             *)
(*                                                                         *)
(* Nothing polls: the io thread calls run_once when _timers_poll_timer     *)
(* expires, and that timer is armed for the earliest deadline.  The        *)
(* deadlines of the two handlers are read one after the other, without a   *)
(* lock, and the timer is armed after that, while user threads add and     *)
(* refresh timeouts.  `FairSpec' of TimeoutHandler assumes that run_once   *)
(* is called when something is due; here that has to come out.             *)
(*                                                                         *)
(* The other components of the io thread are only seen through the calls   *)
(* they make; _should_exit and the teardown are left out.                  *)
(*                                                                         *)
(* A tick is the millisecond the wait is rounded up to.                    *)
(***************************************************************************)
EXTENDS TimeoutHandler, FiniteSets

CONSTANTS
    Interval,    \* interval_s of the entry of CallEveryHandler
    MaxWait,     \* MAX_TIMERS_POLL_WAIT
    MaxPosted    \* bound: wake-ups posted, or about to be, at a time

ASSUME PollAssumption == /\ Interval \in Nat
                         /\ MaxWait \in Nat
                         /\ MaxPosted \in Nat

NotArmed == -1
Never == -2

VARIABLES
    every,    \* the time the entry of CallEveryHandler is due
    calling,  \* threads in call_soon, about to call _wakeup_callback
    armed,    \* the expiry of _timers_poll_timer, NotArmed if no wait is pending
    ready,    \* whether a wait has completed and its handler has not run yet
    posted,   \* wake-ups posted to the io_context
    io,       \* where the io thread is: in another handler ("idle"), or at one
              \* of the steps below
    next      \* the earliest deadline schedule_timers_poll has read so far

pollVars == <<every, calling, armed, ready, posted, io, next>>
allVars == <<vars, pollVars>>

Steps == {"idle", "run_once", "in run_once", "call_every", "read", "read every",
          "arm"}

\* The constructor has armed the timer for the entry, which is due at once.
PollInit ==
    /\ Init
    /\ every = -1
    /\ calling = {}
    /\ armed = 0
    /\ ready = FALSE
    /\ posted = 0
    /\ io = "idle"
    /\ next = Never

-----------------------------------------------------------------------------
(***************************************************************************)
(* Calls of the handlers.  The io thread makes calls from the callbacks of *)
(* run_once and from its other handlers.                                   *)
(***************************************************************************)

Waking == calling \cup {t \in Threads : pc[t] = "wakeup"}

MayCall(t) ==
    /\ t \notin calling
    /\ t = IoThread => io \in {"idle", "in run_once"}
    /\ posted + Cardinality(Waking) < MaxPosted

\* Mutant: no wake-up is posted while the io thread is busy with the timers.
WakeIfIdle(t) ==
    /\ \/ Wakeup(t) /\ UNCHANGED calling
       \/ t \in calling /\ calling' = calling \ {t} /\ UNCHANGED vars
    /\ posted' = IF io = "idle" THEN posted + 1 ELSE posted
    /\ UNCHANGED <<every, armed, ready, io, next>>

\* wake_timers_poll, the _wakeup_callback of both handlers.
WakeTimersPoll(t) ==
    /\ \/ Wakeup(t) /\ UNCHANGED calling
       \/ t \in calling /\ calling' = calling \ {t} /\ UNCHANGED vars
    /\ posted' = posted + 1
    /\ UNCHANGED <<every, armed, ready, io, next>>

HandlerCall(t) ==
    /\ \/ /\ MayCall(t)
          /\ \/ \E d \in Durations, hasCallback \in BOOLEAN : Add(t, d, hasCallback)
             \/ \E c \in Cookies : Refresh(t, c)
             \/ \E c \in Cookies \cup {0}, blocking \in BOOLEAN :
                   Remove(t, c, blocking)
       \/ SpuriousWakeup(t)
       \/ Recheck(t)
    /\ UNCHANGED pollVars

\* CallEveryHandler::call_soon always wakes the poll, ...
CallSoon(t) ==
    /\ MayCall(t)
    /\ pc[t] = "idle"
    /\ every' = now - 1
    /\ calling' = calling \cup {t}
    /\ UNCHANGED <<vars, armed, ready, posted, io, next>>

\* ... reset, which makes it later, never.
Reset(t) ==
    /\ MayCall(t)
    /\ pc[t] = "idle"
    /\ every' = now + Interval
    /\ UNCHANGED <<vars, calling, armed, ready, posted, io, next>>

-----------------------------------------------------------------------------
(***************************************************************************)
(* The io thread.                                                          *)
(***************************************************************************)

IoFree == io = "idle" /\ pc[IoThread] = "idle" /\ IoThread \notin calling

\* The wait completes; from then on it can not be cancelled.  The io_context
\* looks for expired timers once it has run all handlers it collected before.
TimerExpires ==
    /\ IoFree
    /\ ~ready
    /\ armed # NotArmed
    /\ armed <= now
    /\ armed' = NotArmed
    /\ ready' = TRUE
    /\ UNCHANGED <<vars, every, calling, posted, io, next>>

\* The handler of async_wait starts: run_once of both handlers, and schedule.
TimerHandler ==
    /\ IoFree
    /\ ready
    /\ ready' = FALSE
    /\ io' = "run_once"
    /\ UNCHANGED <<vars, every, calling, armed, posted, next>>

\* The posted wake-up only schedules.
PostedWake ==
    /\ IoFree
    /\ posted > 0
    /\ posted' = posted - 1
    /\ io' = "read"
    /\ UNCHANGED <<vars, every, calling, armed, ready, next>>

AfterRunOnce == io' = IF executing' = 0 THEN "call_every" ELSE "in run_once"

TimeoutsRunOnce ==
    /\ io = "run_once"
    /\ RunOnce
    /\ AfterRunOnce
    /\ UNCHANGED <<every, calling, armed, ready, posted, next>>

NextCallback ==
    /\ io = "in run_once"
    /\ IoThread \notin calling
    /\ CallbackReturns
    /\ AfterRunOnce
    /\ UNCHANGED <<every, calling, armed, ready, posted, next>>

\* CallEveryHandler::run_once catches up by one interval at a time.
CallEveryRunOnce ==
    /\ io = "call_every"
    /\ every' = IF every < now THEN every + Interval ELSE every
    /\ io' = "read"
    /\ UNCHANGED <<vars, calling, armed, ready, posted, next>>

\* timeout_handler.next_deadline().
ReadTimeouts ==
    /\ io = "read"
    /\ \/ timeouts = {} /\ next' = Never
       \/ \E c \in timeouts : /\ \A other \in timeouts : deadline[c] <= deadline[other]
                              /\ next' = deadline[c]
    /\ io' = "read every"
    /\ UNCHANGED <<vars, every, calling, armed, ready, posted>>

\* call_every_handler.next_deadline().
ReadCallEvery ==
    /\ io = "read every"
    /\ next' = IF next = Never \/ every < next THEN every ELSE next
    /\ io' = "arm"
    /\ UNCHANGED <<vars, every, calling, armed, ready, posted>>

\* How long to wait for a deadline.
Wait(time) ==
    IF time <= now
    THEN 0
    ELSE IF time - now + 1 < MaxWait THEN time - now + 1 ELSE MaxWait

\* expires_after cancels the wait that is pending, but not one that is ready.  It
\* reads the clock again: the wait was computed from an earlier reading, in the
\* statements before it.  One reading stands for the two, so what passes between
\* them, by which the timer is later than below, is left out.
Arm ==
    /\ io = "arm"
    /\ armed' = now + Wait(next)
    /\ next' = Never
    /\ io' = "idle"
    /\ UNCHANGED <<vars, every, calling, ready, posted>>

PollTick == Tick /\ UNCHANGED pollVars

-----------------------------------------------------------------------------
IoStep ==
    \/ TimerHandler
    \/ PostedWake
    \/ TimeoutsRunOnce
    \/ NextCallback
    \/ CallEveryRunOnce
    \/ ReadTimeouts
    \/ ReadCallEvery
    \/ Arm

PollNext ==
    \/ \E t \in Threads : HandlerCall(t) \/ WakeTimersPoll(t)
                             \/ CallSoon(t) \/ Reset(t)
    \/ TimerExpires
    \/ IoStep
    \/ PollTick

\* Threads inside a call go on, timers expire, and the io thread runs each
\* handler that is ready (it runs them in order, so none waits for ever).
PollFairness ==
    /\ WF_allVars(PollTick)
    /\ SF_allVars(TimerExpires)
    /\ SF_allVars(TimerHandler)
    /\ SF_allVars(PostedWake)
    /\ WF_allVars(TimeoutsRunOnce \/ NextCallback \/ CallEveryRunOnce
                     \/ ReadTimeouts \/ ReadCallEvery \/ Arm)
    /\ \A t \in Threads :
          /\ WF_allVars(WakeTimersPoll(t))
          /\ WF_allVars(Recheck(t) /\ UNCHANGED pollVars)

PollSpec == PollInit /\ [][PollNext]_allVars
FairPollSpec == PollSpec /\ PollFairness

-----------------------------------------------------------------------------
(***************************************************************************)
(* Properties                                                              *)
(***************************************************************************)

\* A deadline is looked after: the timer is armed for it (one tick later, as
\* run_once only fires what is strictly in the past) or is about to be armed
\* from a value that is not later.
LookedAfter(time) ==
    \/ armed # NotArmed /\ (armed <= now \/ armed <= time + 1)
    \/ ready
    \/ posted > 0
    \/ Waking # {}
    \/ io \in {"run_once", "in run_once", "call_every", "read"}
    \/ io = "arm" /\ next # Never /\ next <= time

\* No wake-up is lost: a timeout, or the entry of CallEveryHandler, that is
\* added, refreshed or called early between the reading of the deadlines and
\* the arming of the timer is not left to the cap of the wait, which "can
\* only make a timer late".
NoLostWakeup ==
    /\ \A c \in timeouts :
          \/ LookedAfter(deadline[c])
          \/ io = "read every" /\ next # Never /\ next <= deadline[c]
    /\ LookedAfter(every) \/ io = "read every"

\* The poll keeps the promise TimeoutHandler relies on: what is due is run.
ImplementsTimeoutHandler == FairSpec
=============================================================================
