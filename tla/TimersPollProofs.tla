-------------------------- MODULE TimersPollProofs --------------------------
(***************************************************************************)
(* Proofs about TimersPoll, for every set of threads, every interval and   *)
(* every cap of the wait: the timers poll makes only steps that            *)
(* TimeoutHandler allows, so what TimeoutHandlerProofs proves holds of it  *)
(* as well, and no wake-up is lost.                                        *)
(*                                                                         *)
(* NoLostWakeup is kept by a step because whoever adds, refreshes or moves *)
(* a deadline is either about to wake the poll up or found an earlier      *)
(* deadline, which is looked after already.  It is not inductive: a timer  *)
(* that is armed early enough does not help once a pass of the io thread   *)
(* is about to arm it again (Served).  It needs to know, too, that a       *)
(* deadline is never taken for Never, and that the reset of the entry of   *)
(* CallEveryHandler only makes it later.                                   *)
(***************************************************************************)
EXTENDS TimersPoll, TimeoutHandlerProofs

\* The types of the variables the poll adds, as far as the proof needs them.
\* A deadline is not Never, and the entry is never more than one interval
\* ahead.
PollTypeInv ==
    /\ every \in Int
    /\ -1 <= every
    /\ every <= now + Interval
    /\ armed \in Nat \cup {NotArmed}
    /\ posted \in Nat
    /\ next \in Int
    /\ io = "arm" => next # Never

\* The io thread will look at the deadlines because of something that comes
\* later than its present pass.
Woken == ready \/ posted > 0 \/ Waking # {}

\* The timer expires before it is too late; what was read so far is not too
\* late.
Armed(time) == armed # NotArmed /\ (armed <= now \/ armed <= time + 1)
Read(time) == next # Never /\ next <= time

\* How a deadline is looked after, depending on where the io thread is: the
\* timer counts only as long as no pass is about to arm it again.
Served(time) ==
    \/ Woken
    \/ io = "idle" /\ Armed(time)
    \/ io \in {"run_once", "in run_once", "call_every", "read"}
    \/ io = "arm" /\ Read(time)

\* NoLostWakeup with Served in place of LookedAfter, one handler at a time.
TimeoutServed(c) ==
    \/ Served(deadline[c])
    \/ io = "read every" /\ Read(deadline[c])
TimeoutsServed == \A c \in timeouts : TimeoutServed(c)

EveryServed == Served(every) \/ io = "read every"

PollInv == HandlerInv /\ PollTypeInv /\ TimeoutsServed /\ EveryServed

-----------------------------------------------------------------------------
\* Every step of the poll is a step of the handler, or none of its business.
LEMMA PollStepIsHandlerStep == [PollNext]_allVars => [Next]_vars
<1> SUFFICES ASSUME [PollNext]_allVars PROVE [Next]_vars
  OBVIOUS
<1>1. ASSUME NEW t \in Threads,
             HandlerCall(t) \/ WakeTimersPoll(t) \/ CallSoon(t) \/ Reset(t)
      PROVE  [Next]_vars
  <2>1. CASE HandlerCall(t)
    BY <2>1 DEF HandlerCall, Next, Call
  <2>2. CASE WakeTimersPoll(t)
    BY <2>2 DEF WakeTimersPoll, Next, Call
  <2>3. CASE CallSoon(t) \/ Reset(t)
    BY <2>3 DEF CallSoon, Reset
  <2> QED
    BY <1>1, <2>1, <2>2, <2>3
<1>2. CASE TimerExpires \/ TimerHandler \/ PostedWake \/ CallEveryRunOnce
              \/ ReadTimeouts \/ ReadCallEvery \/ Arm
  BY <1>2 DEF TimerExpires, TimerHandler, PostedWake, CallEveryRunOnce,
              ReadTimeouts, ReadCallEvery, Arm
<1>3. CASE TimeoutsRunOnce \/ NextCallback \/ PollTick
  BY <1>3 DEF TimeoutsRunOnce, NextCallback, PollTick, Next
<1>4. CASE UNCHANGED allVars
  BY <1>4 DEF allVars
<1> QED
  BY <1>1, <1>2, <1>3, <1>4 DEF PollNext, IoStep

-----------------------------------------------------------------------------
\* What serves a deadline serves the later ones as well.
LEMMA ServedIsMonotone ==
    ASSUME PollTypeInv, now \in Nat, NEW early \in Int, NEW late \in Int,
           early <= late
    PROVE  /\ Served(early) => Served(late)
           /\ Read(early) => Read(late)
<1>1. armed \in Int /\ next \in Int
  BY DEF PollTypeInv, NotArmed
<1>2. Armed(early) => Armed(late)
  BY <1>1 DEF Armed
<1>3. Read(early) => Read(late)
  BY <1>1 DEF Read
<1> QED
  BY <1>2, <1>3, Zenon DEF Served

\* The first deadline is looked at by the timer the constructor armed.
LEMMA InitPollInv == PollInit => PollInv
<1> SUFFICES ASSUME PollInit PROVE PollInv
  OBVIOUS
<1>1. HandlerInv
  BY InitHandlerInv DEF PollInit
<1>2. PollTypeInv
  BY PollAssumption DEF PollInit, Init, PollTypeInv, Never
<1>3. Armed(every) /\ io = "idle" /\ timeouts = {}
  BY DEF PollInit, Init, Armed, NotArmed
<1>4. TimeoutsServed /\ EveryServed
  BY <1>3 DEF TimeoutsServed, EveryServed, Served
<1> QED
  BY <1>1, <1>2, <1>4 DEF PollInv

\* The types, one action at a time.
LEMMA PollTypeInvStep ==
    ASSUME TypeOK, PollTypeInv, [PollNext]_allVars PROVE PollTypeInv'
<1> USE DEF PollTypeInv
<1>0. now \in Nat /\ Interval \in Nat /\ MaxWait \in Nat
  BY PollAssumption DEF TypeOK
<1>1. ASSUME NEW t \in Threads,
             HandlerCall(t) \/ WakeTimersPoll(t) \/ CallSoon(t) \/ Reset(t)
      PROVE  PollTypeInv'
  <2>1. CASE HandlerCall(t)
    <3>1. UNCHANGED now
      BY <2>1 DEF HandlerCall, Add, Refresh, Remove, SpuriousWakeup, Recheck
    <3> QED
      BY <2>1, <3>1 DEF HandlerCall, pollVars
  <2>2. CASE WakeTimersPoll(t)
    <3>1. UNCHANGED now
      BY <2>2 DEF WakeTimersPoll, Wakeup, vars
    <3> QED
      BY <2>2, <3>1 DEF WakeTimersPoll
  <2>3. CASE CallSoon(t)
    BY <1>0, <2>3 DEF CallSoon, vars
  <2>4. CASE Reset(t)
    BY <1>0, <2>4 DEF Reset, vars
  <2> QED
    BY <1>1, <2>1, <2>2, <2>3, <2>4
<1>2. CASE TimerExpires
  BY <1>2 DEF TimerExpires, vars
<1>3. CASE TimerHandler \/ PostedWake
  BY <1>3 DEF TimerHandler, PostedWake, vars
<1>4. CASE TimeoutsRunOnce
  BY <1>4 DEF TimeoutsRunOnce, RunOnce, AfterRunOnce
<1>5. CASE NextCallback
  BY <1>5 DEF NextCallback, CallbackReturns, AfterRunOnce
<1>6. CASE CallEveryRunOnce
  BY <1>0, <1>6 DEF CallEveryRunOnce, vars
<1>7. CASE ReadTimeouts
  <2>1. next' \in Int
    <3>1. CASE next' = Never
      BY <3>1 DEF Never
    <3>2. CASE next' # Never
      <4>1. PICK c \in timeouts : next' = deadline[c]
        BY <1>7, <3>2 DEF ReadTimeouts
      <4> QED
        BY <4>1 DEF TypeOK
    <3> QED
      BY <3>1, <3>2
  <2>2. io' # "arm" /\ UNCHANGED <<now, every, armed, posted>>
    BY <1>7 DEF ReadTimeouts, vars
  <2> QED
    BY <2>1, <2>2
<1>8. CASE ReadCallEvery
  <2>1. next' \in Int /\ next' # Never
    <3>1. CASE next = Never \/ every < next
      <4>1. next' = every
        BY <1>8, <3>1 DEF ReadCallEvery
      <4>2. every \in Int /\ -1 <= every
        OBVIOUS
      <4> QED
        BY <4>1, <4>2 DEF Never
    <3>2. CASE ~(next = Never \/ every < next)
      BY <1>8, <3>2 DEF ReadCallEvery
    <3> QED
      BY <3>1, <3>2
  <2>2. UNCHANGED <<now, every, armed, posted>>
    BY <1>8 DEF ReadCallEvery, vars
  <2> QED
    BY <2>1, <2>2
<1>9. CASE Arm
  <2>1. armed' \in Nat
    BY <1>0, <1>9 DEF Arm, Wait
  <2> QED
    BY <1>9, <2>1 DEF Arm, vars, Never
<1>10. CASE PollTick
  BY <1>0, <1>10 DEF PollTick, Tick, pollVars
<1>11. CASE UNCHANGED allVars
  BY <1>11 DEF allVars, pollVars, vars
<1> QED
  BY <1>1, <1>2, <1>3, <1>4, <1>5, <1>6, <1>7, <1>8, <1>9, <1>10, <1>11
     DEF PollNext, IoStep

-----------------------------------------------------------------------------
\* Once the io thread will look again every deadline is served.
LEMMA WokenServesAll ==
    ASSUME Woken' \/ io' \in {"run_once", "in run_once", "call_every", "read"}
    PROVE  TimeoutsServed' /\ EveryServed'
<1>1. CASE Woken'
  BY <1>1, Zenon DEF TimeoutsServed, TimeoutServed, EveryServed, Served
<1>2. CASE io' \in {"run_once", "in run_once", "call_every", "read"}
  BY <1>2 DEF TimeoutsServed, TimeoutServed, EveryServed, Served
<1> QED
  BY <1>1, <1>2

\* Calls of the handler: a new deadline is later than one that is looked after,
\* or its caller is about to wake the poll up.
LEMMA HandlerCallServes ==
    ASSUME PollInv, NEW t \in Threads, HandlerCall(t)
    PROVE  TimeoutsServed' /\ EveryServed'
<1>0. /\ pc \in [Threads -> Places] /\ timeouts \subseteq Cookies
      /\ deadline \in [Cookies -> Nat] /\ duration \in [Cookies -> Nat]
      /\ now \in Nat /\ nextCookie \in Nat
  BY DEF PollInv, HandlerInv, TypeOK
<1>1. UNCHANGED <<now, armed, ready, posted, io, next, every, calling>>
  BY DEF HandlerCall, Add, Refresh, Remove, SpuriousWakeup, Recheck, pollVars
<1>2. Waking \subseteq Waking'
  BY <1>0, <1>1 DEF HandlerCall, Add, Refresh, Remove, SpuriousWakeup, Recheck,
     Return, Waking, Places
<1>3. Woken => Woken'
  BY <1>1, <1>2 DEF Woken
<1>4. EveryServed'
  BY <1>1, <1>3 DEF PollInv, EveryServed, Served, Armed, Read
<1>5. ASSUME pc' = [pc EXCEPT ![t] = "wakeup"] PROVE TimeoutsServed'
  <2>1. t \in Waking'
    BY <1>0, <1>5 DEF Waking
  <2> QED
    BY <2>1, WokenServesAll DEF Woken
<1>6. ASSUME NEW c \in Cookies, NEW time \in Nat,
             timeouts' \subseteq timeouts \cup {c},
             deadline' = [deadline EXCEPT ![c] = time],
             ~MovedEarlier(time)
      PROVE  TimeoutsServed'
  <2>1. PICK first \in timeouts : ~(time < deadline[first])
    BY <1>6 DEF MovedEarlier
  <2>2. deadline[first] \in Int /\ deadline[first] <= time
    BY <1>0, <2>1
  <2>3. \/ Served(time)
        \/ io = "read every" /\ Read(time)
    <3>1. TimeoutServed(first)
      BY DEF PollInv, TimeoutsServed
    <3>2. /\ Served(deadline[first]) => Served(time)
          /\ Read(deadline[first]) => Read(time)
      BY <1>0, <2>2, ServedIsMonotone DEF PollInv
    <3> QED
      BY <3>1, <3>2 DEF TimeoutServed
  <2>4. deadline'[c] = time /\ \A a \in Cookies \ {c} : deadline'[a] = deadline[a]
    BY <1>0, <1>6
  <2>5. ASSUME NEW a \in timeouts' PROVE TimeoutServed(a)'
    <3>1. CASE a = c
      BY <1>1, <1>3, <2>3, <2>4, <3>1 DEF TimeoutServed, Served, Armed, Read
    <3>2. CASE a # c
      <4>1. a \in timeouts /\ a \in Cookies
        BY <1>0, <1>6, <3>2
      <4>2. deadline'[a] = deadline[a]
        BY <2>4, <3>2, <4>1
      <4>3. TimeoutServed(a)
        BY <4>1 DEF PollInv, TimeoutsServed
      <4> QED
        BY <1>1, <1>3, <4>2, <4>3 DEF TimeoutServed, Served, Armed, Read
    <3> QED
      BY <3>1, <3>2
  <2> QED
    BY <2>5 DEF TimeoutsServed
<1>7. ASSUME timeouts' \subseteq timeouts, deadline' = deadline
      PROVE  TimeoutsServed'
  BY <1>1, <1>3, <1>7
     DEF PollInv, TimeoutsServed, TimeoutServed, Served, Armed, Read
<1>8. ASSUME NEW d \in Durations, NEW hasCallback \in BOOLEAN,
             Add(t, d, hasCallback)
      PROVE  TimeoutsServed'
  <2>1. nextCookie \in Cookies /\ now + d \in Nat
    BY <1>0, <1>8, NumberAssumption DEF Add, HandlerInv, TypeOK, PollInv, Cookies
  <2>2. CASE MovedEarlier(now + d)
    BY <1>5, <1>8, <2>2 DEF Add
  <2>3. CASE ~MovedEarlier(now + d)
    BY <1>6, <1>8, <2>1, <2>3 DEF Add
  <2> QED
    BY <2>2, <2>3
<1>9. ASSUME NEW c \in Cookies, Refresh(t, c) PROVE TimeoutsServed'
  <2>1. now + duration[c] \in Nat
    BY <1>0
  <2>2. CASE MovedEarlier(now + duration[c])
    BY <1>5, <1>9, <2>2 DEF Refresh
  <2>3. CASE ~MovedEarlier(now + duration[c])
    BY <1>6, <1>9, <2>1, <2>3 DEF Refresh
  <2> QED
    BY <2>2, <2>3
<1>10. ASSUME NEW c \in Cookies \cup {0}, NEW blocking \in BOOLEAN,
              Remove(t, c, blocking)
       PROVE  TimeoutsServed'
  <2>1. timeouts' \subseteq timeouts /\ deadline' = deadline
    BY <1>10 DEF Remove
  <2> QED
    BY <1>7, <2>1
<1>11. CASE SpuriousWakeup(t) \/ Recheck(t)
  <2>1. timeouts' \subseteq timeouts /\ deadline' = deadline
    BY <1>11 DEF SpuriousWakeup, Recheck, handlerVars
  <2> QED
    BY <1>4, <1>7, <2>1
<1> QED
  BY <1>4, <1>8, <1>9, <1>10, <1>11 DEF HandlerCall

\* The other calls: a wake-up that is posted, an entry that is called soon, and
\* one that is put off.
LEMMA OtherCallServes ==
    ASSUME PollInv, NEW t \in Threads,
           WakeTimersPoll(t) \/ CallSoon(t) \/ Reset(t)
    PROVE  TimeoutsServed' /\ EveryServed'
<1>1. CASE WakeTimersPoll(t)
  <2>1. posted' > 0
    BY <1>1 DEF WakeTimersPoll, PollInv, PollTypeInv
  <2> QED
    BY <2>1, WokenServesAll DEF Woken
<1>2. CASE CallSoon(t)
  <2>1. t \in Waking'
    BY <1>2 DEF CallSoon, Waking
  <2> QED
    BY <2>1, WokenServesAll DEF Woken
<1>3. CASE Reset(t)
  <2>1. /\ UNCHANGED <<now, timeouts, deadline, armed, ready, posted, io, next,
                       calling, pc>>
        /\ every' = now + Interval
    BY <1>3 DEF Reset, vars, handlerVars
  <2>2. Woken' <=> Woken
    BY <2>1 DEF Woken, Waking
  <2>3. TimeoutsServed'
    BY <2>1, <2>2
       DEF PollInv, TimeoutsServed, TimeoutServed, Served, Armed, Read
  <2>4. every' \in Int /\ every <= every' /\ now \in Nat /\ every \in Int
    BY <2>1, PollAssumption DEF PollInv, PollTypeInv, HandlerInv, TypeOK
  <2>5. EveryServed'
    <3> DEFINE later == now + Interval
    <3>1. later \in Int /\ every <= later /\ every' = later
      BY <2>1, <2>4
    <3>2. Served(later) \/ io = "read every"
      BY <2>4, <3>1, ServedIsMonotone DEF PollInv, EveryServed
    <3> HIDE DEF later
    <3> QED
      BY <2>1, <2>2, <3>1, <3>2 DEF EveryServed, Served, Armed, Read
  <2> QED
    BY <2>3, <2>5
<1> QED
  BY <1>1, <1>2, <1>3

\* The io thread: as long as it is going to read a deadline that deadline is
\* looked after, and what it has read is not later than any.
LEMMA IoStepServes ==
    ASSUME PollInv, TimerExpires \/ IoStep
    PROVE  TimeoutsServed' /\ EveryServed'
<1>0. /\ deadline \in [Cookies -> Nat] /\ timeouts \subseteq Cookies
      /\ now \in Nat /\ MaxWait \in Nat
      /\ every \in Int /\ -1 <= every /\ next \in Int
      /\ io = "arm" => next # Never
  BY PollAssumption DEF PollInv, HandlerInv, TypeOK, PollTypeInv
<1>1. CASE TimerExpires
  BY <1>1, WokenServesAll DEF TimerExpires, Woken
<1>2. CASE TimerHandler \/ PostedWake \/ CallEveryRunOnce
  BY <1>2, WokenServesAll DEF TimerHandler, PostedWake, CallEveryRunOnce
<1>3. CASE TimeoutsRunOnce \/ NextCallback
  BY <1>3, WokenServesAll DEF TimeoutsRunOnce, NextCallback, AfterRunOnce
<1>4. CASE ReadTimeouts
  <2>1. io' = "read every" /\ UNCHANGED <<timeouts, deadline>>
    BY <1>4 DEF ReadTimeouts, vars, handlerVars
  <2>2. ASSUME NEW c \in timeouts PROVE next' # Never /\ next' <= deadline[c]
    <3>1. PICK first \in timeouts :
             /\ \A other \in timeouts : deadline[first] <= deadline[other]
             /\ next' = deadline[first]
      BY <1>4 DEF ReadTimeouts
    <3>2. deadline[first] \in Nat
      BY <1>0
    <3> QED
      BY <3>1, <3>2 DEF Never
  <2> QED
    BY <2>1, <2>2 DEF TimeoutsServed, TimeoutServed, EveryServed, Read
<1>5. CASE ReadCallEvery
  <2>1. /\ io = "read every" /\ io' = "arm"
        /\ UNCHANGED <<now, timeouts, deadline, every, armed, ready, posted,
                       calling, pc>>
    BY <1>5 DEF ReadCallEvery, vars, handlerVars
  <2>2. Woken' <=> Woken
    BY <2>1 DEF Woken, Waking
  <2>3. /\ next' \in Int /\ next' # Never /\ next' <= every
        /\ next # Never => next' <= next
    <3>1. CASE next = Never \/ every < next
      <4>1. next' = every
        BY <1>5, <3>1 DEF ReadCallEvery
      <4> QED
        BY <1>0, <3>1, <4>1 DEF Never
    <3>2. CASE ~(next = Never \/ every < next)
      <4>1. next' = next
        BY <1>5, <3>2 DEF ReadCallEvery
      <4> QED
        BY <1>0, <3>2, <4>1
    <3> QED
      BY <3>1, <3>2
  <2>4. EveryServed'
    BY <2>1, <2>3 DEF EveryServed, Served, Read
  <2>5. ASSUME NEW c \in timeouts PROVE TimeoutServed(c)'
    <3>0. deadline' = deadline
      BY <2>1
    <3>1. deadline[c] \in Int /\ deadline'[c] = deadline[c]
      BY <1>0, <3>0
    <3>2. CASE Woken
      BY <2>2, <3>2, Zenon DEF TimeoutServed, Served
    <3>3. CASE Read(deadline[c])
      <4>1. next' # Never /\ next' <= deadline[c]
        BY <1>0, <2>3, <3>1, <3>3 DEF Read
      <4> QED
        BY <2>1, <3>1, <4>1 DEF TimeoutServed, Served, Read
    <3>4. Woken \/ Read(deadline[c])
      BY <2>1 DEF PollInv, TimeoutsServed, TimeoutServed, Served
    <3> QED
      BY <3>2, <3>3, <3>4
  <2> QED
    BY <2>1, <2>4, <2>5 DEF TimeoutsServed
<1>6. CASE Arm
  <2>1. /\ io = "arm" /\ io' = "idle"
        /\ UNCHANGED <<now, timeouts, deadline, every, ready, posted, calling, pc>>
    BY <1>6 DEF Arm, vars, handlerVars
  <2>2. Woken' <=> Woken
    BY <2>1 DEF Woken, Waking
  <2>3. /\ armed' \in Nat
        /\ armed' <= now \/ armed' <= next + 1
    <3>1. CASE next <= now
      BY <1>0, <1>6, <3>1 DEF Arm, Wait
    <3>2. CASE ~(next <= now)
      BY <1>0, <1>6, <3>2 DEF Arm, Wait
    <3> QED
      BY <3>1, <3>2
  <2>4. ASSUME NEW time \in Int, Read(time)
        PROVE  armed' # NotArmed /\ (armed' <= now' \/ armed' <= time + 1)
    BY <1>0, <2>1, <2>3, <2>4 DEF Read, NotArmed
  <2>5. ASSUME NEW c \in timeouts PROVE TimeoutServed(c)'
    <3>0. deadline' = deadline /\ deadline[c] \in Int
      BY <1>0, <2>1
    <3>1. deadline[c] \in Int /\ deadline'[c] = deadline[c]
      BY <3>0
    <3>2. Woken \/ Read(deadline[c])
      BY <2>1 DEF PollInv, TimeoutsServed, TimeoutServed, Served
    <3> QED
      BY <2>1, <2>2, <2>4, <3>1, <3>2 DEF TimeoutServed, Served, Armed, Read
  <2>6. EveryServed'
    <3>1. Woken \/ Read(every)
      BY <2>1 DEF PollInv, EveryServed, Served
    <3> QED
      BY <1>0, <2>1, <2>2, <2>4, <3>1 DEF EveryServed, Served, Armed
  <2> QED
    BY <2>1, <2>5, <2>6 DEF TimeoutsServed
<1> QED
  BY <1>1, <1>2, <1>3, <1>4, <1>5, <1>6 DEF IoStep

\* Time only brings a timer nearer.
LEMMA TickServes ==
    ASSUME PollInv, PollTick
    PROVE  TimeoutsServed' /\ EveryServed'
<1>1. /\ UNCHANGED <<timeouts, deadline, every, armed, ready, posted, io, next,
                     calling, pc>>
      /\ now' = now + 1
  BY DEF PollTick, Tick, pollVars, handlerVars
<1>2. Woken' <=> Woken
  BY <1>1 DEF Woken, Waking
<1>3. now \in Nat /\ armed \in Int
  BY DEF PollInv, HandlerInv, TypeOK, PollTypeInv, NotArmed
<1>4. armed <= now => armed <= now'
  BY <1>1, <1>3
<1>5. TimeoutsServed'
  BY <1>1, <1>2, <1>4
     DEF PollInv, TimeoutsServed, TimeoutServed, Served, Armed, Read
<1>6. EveryServed'
  BY <1>1, <1>2, <1>4 DEF PollInv, EveryServed, Served, Armed, Read
<1> QED
  BY <1>5, <1>6

\* Every step keeps the invariant.
LEMMA PollNextKeepsInv == PollInv /\ [PollNext]_allVars => PollInv'
<1> SUFFICES ASSUME PollInv, [PollNext]_allVars PROVE PollInv'
  OBVIOUS
<1>1. HandlerInv'
  BY PollStepIsHandlerStep, NextKeepsInv DEF PollInv
<1>2. PollTypeInv'
  BY PollTypeInvStep DEF PollInv, HandlerInv
<1>3. TimeoutsServed' /\ EveryServed'
  <2>1. CASE PollNext
    <3>1. CASE \E t \in Threads : HandlerCall(t)
      BY <3>1, HandlerCallServes
    <3>2. CASE \E t \in Threads : WakeTimersPoll(t) \/ CallSoon(t) \/ Reset(t)
      BY <3>2, OtherCallServes
    <3> QED
      BY <2>1, <3>1, <3>2, IoStepServes, TickServes DEF PollNext
  <2>2. CASE UNCHANGED allVars
    <3>1. UNCHANGED <<now, timeouts, deadline, every, armed, ready, posted, io,
                      next, calling, pc>>
      BY <2>2 DEF allVars, pollVars, vars, handlerVars
    <3>2. Woken' <=> Woken
      BY <3>1 DEF Woken, Waking
    <3> QED
      BY <3>1, <3>2 DEF PollInv, TimeoutsServed, TimeoutServed, EveryServed,
         Served, Armed, Read
  <2> QED
    BY <2>1, <2>2
<1> QED
  BY <1>1, <1>2, <1>3 DEF PollInv

-----------------------------------------------------------------------------
\* The timers poll uses the handler only through its calls and run_once: what
\* TimeoutHandlerProofs proves of Spec holds of the poll.  (That it also calls
\* run_once when something is due is the fairness TLC checks.)
THEOREM PollImplementsHandler == PollSpec => Spec
<1>1. PollInit => Init
  BY DEF PollInit
<1> QED
  BY <1>1, PollStepIsHandlerStep, PTL DEF PollSpec, Spec

\* What NoLostWakeup rests on holds in every reachable state.
THEOREM PollInvariance == PollSpec => []PollInv
BY InitPollInv, PollNextKeepsInv, PTL DEF PollSpec

\* Whatever user threads add, refresh or call early while schedule_timers_poll
\* is between reading the deadlines and arming the timer, no deadline is left
\* to the cap of the wait.
THEOREM NoWakeupIsLost == PollSpec => []NoLostWakeup
<1>1. PollInv => NoLostWakeup
  BY DEF PollInv, TimeoutsServed, TimeoutServed, EveryServed, Served, Woken,
     Armed, Read, NoLostWakeup, LookedAfter
<1> QED
  BY <1>1, PollInvariance, PTL
=============================================================================
