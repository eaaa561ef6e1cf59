----------------------- MODULE CallEveryHandlerProofs -----------------------
(***************************************************************************)
(* CallEveryHandler implements Cancellation, no entry is pushed ahead of   *)
(* the clock, and whoever moves the earliest deadline to an earlier time   *)
(* wakes up the timer; for any threads, intervals and number of entries.   *)
(***************************************************************************)
EXTENDS CallEveryHandler, TLAPS

\* Waiting callers have removed what they wait for; what was removed is not
\* registered, and what was released is not running.
CancelInv ==
    /\ entries \cap removed = {}
    /\ executing \notin released
    /\ \A t \in Threads : pc[t] \in {"wait", "notified"} => target[t] \in removed

EveryInv == TypeOK /\ CancelInv /\ NeverAhead

USE NumberAssumption DEF Cookies, Threads

-----------------------------------------------------------------------------

LEMMA InitEveryInv == Init => EveryInv
BY DEF Init, EveryInv, TypeOK, CancelInv, NeverAhead, Places

\* A call that ends changes the place of its thread only.
LEMMA PlacesAreTyped ==
    ASSUME pc \in [Threads -> Places], NEW t \in Threads, NEW place \in Places
    PROVE  [pc EXCEPT ![t] = place] \in [Threads -> Places]
OBVIOUS

LEMMA AddInv ==
    ASSUME EveryInv, NEW t \in Threads, NEW d \in Intervals, NEW b \in BOOLEAN,
           Add(t, d, b)
    PROVE  EveryInv'
<1> USE DEF Add, CallWakeup, JustDue, executingVars, EveryInv
<1>1. nextCookie \in Cookies /\ nextCookie \in Nat /\ d \in Nat BY DEF TypeOK
<1>2. TypeOK'
  <2>1. lastTime' \in [Cookies -> Int] /\ interval' \in [Cookies -> Nat]
    BY <1>1 DEF TypeOK
  <2>2. pc' \in [Threads -> Places] BY PlacesAreTyped DEF TypeOK, Places
  <2>3. callable' \subseteq Cookies /\ nextCookie' \in 1..(MaxCookie + 1)
    BY <1>1 DEF TypeOK
  <2>4. nextCookie' - 1 = nextCookie /\ 1..(nextCookie - 1) \subseteq 1..nextCookie
        /\ 0..(nextCookie - 1) \subseteq 0..nextCookie /\ nextCookie \in 1..nextCookie
    BY <1>1
  <2>5. entries' \subseteq 1..(nextCookie' - 1) /\ due' \subseteq entries'
        /\ removed' \subseteq 1..(nextCookie' - 1) /\ executing' \in 0..(nextCookie' - 1)
    BY <2>4 DEF TypeOK
  <2> QED BY <2>1, <2>2, <2>3, <2>5 DEF TypeOK
<1>3. CancelInv'
  <2>1. nextCookie \notin removed BY <1>1 DEF TypeOK
  <2>2. \A s \in Threads : pc'[s] \in {"wait", "notified"} => pc[s] = pc'[s]
    BY DEF TypeOK
  <2> QED BY <2>1, <2>2 DEF CancelInv
<1>4. NeverAhead'
  <2>1. \A c \in entries : c # nextCookie /\ c \in Cookies BY <1>1 DEF TypeOK
  <2>2. lastTime \in [Cookies -> Int] /\ now \in Nat BY DEF TypeOK
  <2> QED BY <1>1, <2>1, <2>2 DEF NeverAhead
<1> QED BY <1>2, <1>3, <1>4

LEMMA ChangeInv ==
    ASSUME EveryInv, NEW t \in Threads, NEW c \in Cookies, NEW d \in Intervals,
           Change(t, c, d)
    PROVE  EveryInv'
<1> USE DEF Change, CallWakeup, Return, executingVars, EveryInv
<1>1. \E place \in {"idle", "wakeup"} : pc' = [pc EXCEPT ![t] = place] OBVIOUS
<1>2. TypeOK'
  <2>1. pc' \in [Threads -> Places] BY <1>1, PlacesAreTyped DEF TypeOK, Places
  <2>2. interval' \in [Cookies -> Nat] BY DEF TypeOK
  <2> QED BY <2>1, <2>2 DEF TypeOK
<1>3. CancelInv'
  <2>1. \A s \in Threads : pc'[s] \in {"wait", "notified"} => pc[s] = pc'[s]
    BY <1>1 DEF TypeOK
  <2> QED BY <2>1 DEF CancelInv
<1> QED BY <1>2, <1>3 DEF NeverAhead

LEMMA ResetAndCallSoonInv ==
    ASSUME EveryInv, NEW t \in Threads, NEW c \in Cookies,
           Reset(t, c) \/ CallSoon(t, c)
    PROVE  EveryInv'
<1> USE DEF EveryInv
<1>0. lastTime \in [Cookies -> Int] /\ interval \in [Cookies -> Nat] /\ now \in Nat
      /\ entries \subseteq Cookies
  BY DEF TypeOK
<1>1. PICK time \in Int : time <= now /\ lastTime' = [lastTime EXCEPT ![c] = time]
  <2>1. JustDue(interval[c]) \in Int /\ JustDue(interval[c]) <= now
    BY <1>0 DEF JustDue
  <2> QED BY <1>0, <2>1 DEF Reset, CallSoon
<1>2. /\ UNCHANGED <<now, entries, due, interval, callable, nextCookie, executing,
                     executingThread, target, removed, released>>
      /\ pc' = pc \/ pc' = [pc EXCEPT ![t] = "wakeup"]
  BY DEF Reset, CallSoon, CallWakeup, executingVars, callVars
<1>3. TypeOK'
  <2>1. pc' \in [Threads -> Places] BY <1>2, PlacesAreTyped DEF TypeOK, Places
  <2>2. lastTime' \in [Cookies -> Int] BY <1>0, <1>1
  <2> QED BY <1>2, <2>1, <2>2 DEF TypeOK
<1>4. CancelInv'
  <2>1. \A s \in Threads : pc'[s] \in {"wait", "notified"} => pc[s] = pc'[s]
    BY <1>2 DEF TypeOK
  <2> QED BY <1>2, <2>1 DEF CancelInv
<1>5. NeverAhead' BY <1>0, <1>1, <1>2 DEF NeverAhead
<1> QED BY <1>3, <1>4, <1>5

LEMMA RemoveInv ==
    ASSUME EveryInv, NEW t \in Threads, NEW c \in Cookies, NEW b \in BOOLEAN,
           Remove(t, c, b)
    PROVE  EveryInv'
<1> USE DEF EveryInv
<1>1. /\ c \in 1..(nextCookie - 1) /\ entries' = entries \ {c} /\ due' = due \ {c}
      /\ removed' = removed \cup {c}
      /\ UNCHANGED <<now, lastTime, interval, callable, nextCookie, executing, executingThread>>
      /\ pc[t] = "idle"
  BY DEF Remove, executingVars
<1>2. \/ /\ pc' = [pc EXCEPT ![t] = "wait"] /\ target' = [target EXCEPT ![t] = c]
         /\ released' = released
      \/ /\ pc' = [pc EXCEPT ![t] = "idle"] /\ target' = target
         /\ released' \subseteq released \cup {c}
         /\ c \in released' => c \in released \/ executing # c
  BY DEF Remove, Return, Release, MayReturn
<1>3. TypeOK'
  <2>1. pc' \in [Threads -> Places] BY <1>2, PlacesAreTyped DEF TypeOK, Places
  <2>2. target' \in [Threads -> Cookies \cup {0}] BY <1>2 DEF TypeOK
  <2>3. released' \subseteq removed' BY <1>1, <1>2 DEF TypeOK
  <2> QED BY <1>1, <2>1, <2>2, <2>3 DEF TypeOK
<1>4. CancelInv'
  <2>1. executing' \notin released' BY <1>1, <1>2 DEF CancelInv
  <2>2. \A s \in Threads : pc'[s] \in {"wait", "notified"} => target'[s] \in removed'
    BY <1>1, <1>2 DEF CancelInv, TypeOK
  <2> QED BY <1>1, <2>1, <2>2 DEF CancelInv
<1>5. NeverAhead' BY <1>1 DEF NeverAhead
<1> QED BY <1>3, <1>4, <1>5

LEMMA WaiterInv ==
    ASSUME EveryInv, NEW t \in Threads,
           Wakeup(t) \/ SpuriousWakeup(t) \/ Recheck(t)
    PROVE  EveryInv'
<1> USE DEF EveryInv
<1>1. /\ UNCHANGED <<now, entries, due, lastTime, interval, callable, nextCookie,
                     executing, executingThread, removed>>
  BY DEF Wakeup, SpuriousWakeup, Recheck, entryVars, executingVars
<1>2. \/ /\ pc' = [pc EXCEPT ![t] = "idle"] /\ UNCHANGED <<target, released>>
      \/ /\ pc[t] \in {"wait", "notified"}
         /\ \E place \in {"wait", "notified"} : pc' = [pc EXCEPT ![t] = place]
         /\ UNCHANGED <<target, released>>
      \/ /\ pc[t] = "notified" /\ MayReturn(t, target[t])
         /\ pc' = [pc EXCEPT ![t] = "idle"] /\ target' = [target EXCEPT ![t] = 0]
         /\ Release(t, target[t])
  BY DEF Wakeup, SpuriousWakeup, Recheck, Return
<1>3. pc' \in [Threads -> Places] BY <1>2, PlacesAreTyped DEF TypeOK, Places
<1>4. target' \in [Threads -> Cookies \cup {0}] BY <1>2 DEF TypeOK
<1>5. released' \subseteq removed' /\ executing' \notin released'
  BY <1>1, <1>2 DEF TypeOK, CancelInv, Release, MayReturn
<1>6. \A s \in Threads : pc'[s] \in {"wait", "notified"} => target'[s] \in removed'
  BY <1>1, <1>2 DEF TypeOK, CancelInv
<1>7. TypeOK' BY <1>1, <1>3, <1>4, <1>5 DEF TypeOK
<1>8. CancelInv' BY <1>1, <1>5, <1>6 DEF CancelInv
<1> QED BY <1>1, <1>7, <1>8 DEF NeverAhead

\* What InvokeNext does to any queue of entries.
LEMMA InvokeNextInv ==
    ASSUME EveryInv, NEW queue \in SUBSET entries, InvokeNext(queue)
    PROVE  /\ due' \subseteq entries
           /\ \/ executing' = 0
              \/ executing' \in entries
           /\ executing' \in 0..(nextCookie - 1)
           /\ executingThread' \in Threads \cup {NoThread}
           /\ executing' \notin released
<1> USE DEF EveryInv
<1>1. entries \subseteq 1..(nextCookie - 1) /\ nextCookie \in 1..(MaxCookie + 1)
      /\ released \subseteq removed /\ entries \cap removed = {}
      /\ removed \subseteq 1..(nextCookie - 1)
  BY DEF TypeOK, CancelInv
<1>2. CASE queue = {} BY <1>1, <1>2 DEF InvokeNext
<1>3. CASE queue # {}
  <2>1. PICK c \in queue : due' = queue \ {c} /\ executing' = c /\ executingThread' = IoThread
    BY <1>3 DEF InvokeNext
  <2> QED BY <1>1, <2>1
<1> QED BY <1>2, <1>3

LEMMA IoInv ==
    ASSUME EveryInv, RunOnce \/ CallbackReturns
    PROVE  EveryInv'
<1> USE DEF EveryInv
<1>1. PICK queue \in SUBSET entries : InvokeNext(queue)
  BY DEF RunOnce, CallbackReturns, TypeOK, Elapsed
<1>2. UNCHANGED <<now, entries, interval, callable, nextCookie, target, removed, released>>
  BY DEF RunOnce, CallbackReturns, callVars
<1>3. \A s \in Threads : pc'[s] \in {"wait", "notified"} => pc[s] \in {"wait", "notified"}
  BY DEF RunOnce, CallbackReturns, callVars, TypeOK
<1>4. pc' \in [Threads -> Places]
  BY DEF RunOnce, CallbackReturns, callVars, TypeOK, Places
<1>5. lastTime' \in [Cookies -> Int] /\ NeverAhead'
  <2>1. lastTime \in [Cookies -> Int] /\ interval \in [Cookies -> Nat] /\ now \in Nat
        /\ entries \subseteq Cookies
    BY DEF TypeOK
  <2>2. CASE CallbackReturns BY <1>2, <2>1, <2>2 DEF CallbackReturns, NeverAhead
  <2>3. CASE RunOnce
    <3>1. lastTime' = [c \in Cookies |-> IF c \in Elapsed THEN Deadline(c) ELSE lastTime[c]]
      BY <2>3 DEF RunOnce
    <3>2. \A c \in Elapsed : Deadline(c) \in Int /\ Deadline(c) <= now
      BY <2>1 DEF Elapsed, Deadline
    <3> HIDE DEF EveryInv
    <3>3. lastTime' \in [Cookies -> Int] BY <2>1, <3>1, <3>2
    <3>4. \A c \in entries : lastTime'[c] <= now
      BY <2>1, <3>1, <3>2 DEF EveryInv, NeverAhead
    <3> QED BY <1>2, <3>3, <3>4 DEF NeverAhead
  <2> QED BY <2>2, <2>3
<1>6. TypeOK' BY <1>1, <1>2, <1>4, <1>5, InvokeNextInv DEF TypeOK
<1>7. CancelInv' BY <1>1, <1>2, <1>3, InvokeNextInv DEF CancelInv
<1> QED BY <1>5, <1>6, <1>7

LEMMA TickInv == ASSUME EveryInv, Tick PROVE EveryInv'
<1> USE DEF Tick, entryVars, executingVars, callVars, EveryInv
<1>1. TypeOK' BY DEF TypeOK
<1>2. CancelInv' BY DEF CancelInv
<1>3. NeverAhead'
  <2>1. \A c \in entries : lastTime[c] \in Int /\ now \in Nat BY DEF TypeOK
  <2> QED BY <2>1 DEF NeverAhead
<1> QED BY <1>1, <1>2, <1>3

THEOREM EveryInvariance == Spec => []EveryInv
<1>1. EveryInv /\ [Next]_vars => EveryInv'
  <2> SUFFICES ASSUME EveryInv, [Next]_vars PROVE EveryInv' OBVIOUS
  <2>1. ASSUME NEW t \in Threads, Call(t) PROVE EveryInv'
    BY <2>1, AddInv, ChangeInv, ResetAndCallSoonInv, RemoveInv, WaiterInv DEF Call
  <2>2. CASE UNCHANGED vars
    <3> USE <2>2 DEF vars, entryVars, executingVars, callVars, EveryInv
    <3>1. TypeOK' BY DEF TypeOK
    <3>2. CancelInv' BY DEF CancelInv
    <3> QED BY <3>1, <3>2 DEF NeverAhead
  <2> QED BY <2>1, <2>2, IoInv, TickInv DEF Next
<1> QED BY <1>1, InitEveryInv, PTL DEF Spec

\* The types of the variables.
THEOREM EveryTypeCorrect == Spec => []TypeOK
<1>1. EveryInv => TypeOK BY DEF EveryInv
<1> QED BY <1>1, EveryInvariance, PTL

\* No entry is pushed further into the future than one interval from now.
THEOREM NoneFallsSilent == Spec => []NeverAhead
<1>1. EveryInv => NeverAhead BY DEF EveryInv
<1> QED BY <1>1, EveryInvariance, PTL

\* call_every_handler.hpp:71 - who moves the earliest deadline to an earlier
\* time wakes up the timer.
THEOREM EarlierDeadlinesWakeUp == Spec => EarlierDeadlineWakesUp
<1> DEFINE WakesUp == (\E c \in entries' : MovedEarlier(Deadline(c)'))
                         => \E t \in Threads : pc[t] = "idle" /\ pc'[t] = "wakeup"
<1>1. EveryInv /\ [Next]_vars => [WakesUp]_vars
  <2> SUFFICES ASSUME EveryInv, Next, NEW c \in entries', MovedEarlier(Deadline(c)')
               PROVE  \E t \in Threads : pc[t] = "idle" /\ pc'[t] = "wakeup"
    OBVIOUS
  <2>0. /\ lastTime \in [Cookies -> Int] /\ interval \in [Cookies -> Nat] /\ now \in Nat
        /\ entries \subseteq Cookies /\ pc \in [Threads -> Places]
        /\ Intervals \subseteq Nat
        /\ \A e \in entries : lastTime[e] <= now
    BY DEF EveryInv, TypeOK, NeverAhead
  <2>1. c \in entries => Deadline(c)' < Deadline(c) BY DEF MovedEarlier
  <2>2. ASSUME NEW t \in Threads, CallWakeup(t), pc[t] = "idle"
        PROVE  pc'[t] = "wakeup"
    BY <2>0, <2>2 DEF CallWakeup
  <2>3. ASSUME NEW t \in Threads, NEW d \in Intervals, NEW b \in BOOLEAN, Add(t, d, b)
        PROVE  pc[t] = "idle" /\ pc'[t] = "wakeup"
    BY <2>2, <2>3 DEF Add
  <2>4. ASSUME NEW t \in Threads, NEW e \in Cookies, NEW d \in Intervals, Change(t, e, d)
        PROVE  pc[t] = "idle" /\ pc'[t] = "wakeup"
    <3>1. c \in entries /\ interval' = [interval EXCEPT ![e] = d] /\ lastTime' = lastTime
          /\ pc[t] = "idle"
      BY <2>4 DEF Change
    <3>2. c = e BY <2>0, <2>1, <3>1 DEF Deadline
    <3>3. MovedEarlier(lastTime[e] + d) BY <2>0, <3>1, <3>2 DEF Deadline
    <3> QED BY <2>2, <2>4, <3>1, <3>3 DEF Change
  <2>5. ASSUME NEW t \in Threads, NEW e \in Cookies, Reset(t, e) PROVE FALSE
    <3>1. c \in entries /\ lastTime' = [lastTime EXCEPT ![e] = now] /\ interval' = interval
      BY <2>5 DEF Reset
    <3> QED BY <2>0, <2>1, <3>1 DEF Deadline
  <2>6. ASSUME NEW t \in Threads, NEW e \in Cookies, CallSoon(t, e)
        PROVE  pc[t] = "idle" /\ pc'[t] = "wakeup"
    BY <2>2, <2>6 DEF CallSoon
  <2>7. ASSUME UNCHANGED <<lastTime, interval>>, entries' \subseteq entries PROVE FALSE
    BY <2>0, <2>1, <2>7 DEF Deadline
  <2>8. ASSUME NEW t \in Threads, \/ Wakeup(t) \/ SpuriousWakeup(t) \/ Recheck(t)
                                  \/ \E e \in Cookies, b \in BOOLEAN : Remove(t, e, b)
        PROVE  FALSE
    BY <2>7, <2>8 DEF Wakeup, SpuriousWakeup, Recheck, Remove, entryVars
  <2>9. CASE RunOnce
    <3>1. c \in entries /\ interval' = interval
          /\ lastTime' = [e \in Cookies |-> IF e \in Elapsed THEN Deadline(e) ELSE lastTime[e]]
      BY <2>9 DEF RunOnce
    <3>2. lastTime'[c] >= lastTime[c] BY <2>0, <3>1 DEF Deadline
    <3>3. lastTime'[c] \in Int BY <2>0, <3>1 DEF Deadline
    <3> QED BY <2>0, <2>1, <3>1, <3>2, <3>3 DEF Deadline
  <2>10. CASE CallbackReturns \/ Tick BY <2>7, <2>10 DEF CallbackReturns, Tick, entryVars
  <2> QED BY <2>3, <2>4, <2>5, <2>6, <2>8, <2>9, <2>10 DEF Next, Call
<1> HIDE DEF WakesUp
<1>2. EveryInv /\ [Next]_vars => [WakesUp]_vars BY <1>1
<1>3. Spec => [][WakesUp]_vars BY <1>2, EveryInvariance, PTL DEF Spec
<1> QED BY <1>3 DEF EarlierDeadlineWakesUp, WakesUp

-----------------------------------------------------------------------------
(***************************************************************************)
(* The refinement                                                          *)
(***************************************************************************)

LEMMA Stutter ==
    ASSUME UNCHANGED <<entries, executing, removed, released>>
    PROVE  UNCHANGED Contract!vars
BY DEF Contract!vars

LEMMA CallRefines ==
    ASSUME EveryInv, NEW t \in Threads, Call(t)
    PROVE  Contract!Next \/ UNCHANGED Contract!vars
<1> USE DEF EveryInv, executingVars
<1>1. ASSUME NEW d \in Intervals, NEW b \in BOOLEAN, Add(t, d, b) PROVE Contract!Next
  <2>1. nextCookie \in Cookies /\ nextCookie \notin entries \cup removed
    BY <1>1 DEF Add, TypeOK
  <2>2. Contract!Register(nextCookie) BY <1>1, <2>1 DEF Add, Contract!Register
  <2> QED BY <2>1, <2>2 DEF Contract!Next
<1>2. ASSUME NEW c \in Cookies, NEW b \in BOOLEAN, Remove(t, c, b) PROVE Contract!Next
  <2>1. /\ entries' = entries \ {c} /\ removed' = removed \cup {c} /\ UNCHANGED executing
        /\ c \in 1..(nextCookie - 1)
    BY <1>2 DEF Remove
  <2>2. CASE UNCHANGED released
    <3>1. Contract!Remove(c) BY <2>1, <2>2 DEF Contract!Remove
    <3> QED BY <3>1 DEF Contract!Next
  <2>3. CASE released' = released \cup {c} /\ executing # c
    <3>1. Contract!Release(c) BY <2>1, <2>3 DEF Contract!Release
    <3> QED BY <3>1 DEF Contract!Next
  <2> QED BY <1>2, <2>2, <2>3 DEF Remove, Release, MayReturn
<1>3. ASSUME Recheck(t) PROVE Contract!Next \/ UNCHANGED Contract!vars
  <2> DEFINE c == target[t]
  <2>1. UNCHANGED <<entries, executing, removed>> BY <1>3 DEF Recheck, entryVars
  <2>2. c \in removed /\ removed \subseteq Cookies /\ entries \cap removed = {}
    BY <1>3 DEF Recheck, CancelInv, TypeOK
  <2>3. CASE UNCHANGED released BY <2>1, <2>3, Stutter
  <2>4. CASE released' = released \cup {c} /\ executing # c
    <3>1. Contract!Release(c) BY <2>1, <2>2, <2>4 DEF Contract!Release
    <3> QED BY <2>2, <3>1 DEF Contract!Next
  <2> QED BY <1>3, <2>3, <2>4 DEF Recheck, Release, MayReturn
<1>4. ASSUME \/ \E c \in Cookies, d \in Intervals : Change(t, c, d)
             \/ \E c \in Cookies : Reset(t, c) \/ CallSoon(t, c)
             \/ Wakeup(t) \/ SpuriousWakeup(t)
      PROVE  UNCHANGED Contract!vars
  BY <1>4, Stutter DEF Change, Reset, CallSoon, Wakeup, SpuriousWakeup, entryVars, callVars
<1> QED BY <1>1, <1>2, <1>3, <1>4 DEF Call

LEMMA IoRefines ==
    ASSUME EveryInv, RunOnce \/ CallbackReturns
    PROVE  Contract!Next
<1> USE DEF EveryInv
<1>1. PICK queue \in SUBSET entries : InvokeNext(queue)
  BY DEF RunOnce, CallbackReturns, TypeOK, Elapsed
<1>2. UNCHANGED <<entries, removed, released>> BY DEF RunOnce, CallbackReturns, callVars
<1>3. CASE queue = {}
  <2>1. executing' = 0 BY <1>1, <1>3 DEF InvokeNext
  <2>2. Contract!Finish BY <1>2, <2>1 DEF Contract!Finish
  <2> QED BY <2>2 DEF Contract!Next
<1>4. CASE queue # {}
  <2>1. PICK c \in queue : executing' = c BY <1>1, <1>4 DEF InvokeNext
  <2>2. c \in entries /\ c \in Cookies /\ c # 0 BY <2>1 DEF TypeOK
  <2>3. Contract!Start(c) BY <1>2, <2>1, <2>2 DEF Contract!Start
  <2> QED BY <2>2, <2>3 DEF Contract!Next
<1> QED BY <1>3, <1>4

\* call_every_handler.hpp:40-54 - an owner that removed its entry with
\* remove_blocking can be destroyed.
THEOREM EveryImplementsCancellation == Spec => ImplementsCancellation
<1>1. Init => Contract!Init BY DEF Init, Contract!Init
<1>2. EveryInv /\ [Next]_vars => [Contract!Next]_(Contract!vars)
  <2> SUFFICES ASSUME EveryInv, [Next]_vars PROVE Contract!Next \/ UNCHANGED Contract!vars
    OBVIOUS
  <2>1. CASE UNCHANGED vars
    BY <2>1, Stutter DEF vars, entryVars, executingVars, callVars
  <2>2. CASE Tick
    BY <2>2, Stutter DEF Tick, entryVars, executingVars, callVars
  <2> QED BY <2>1, <2>2, CallRefines, IoRefines DEF Next
<1> QED BY <1>1, <1>2, EveryInvariance, PTL DEF Spec, ImplementsCancellation, Contract!Spec

\* What the contract amounts to: a released callback neither runs nor will.
THEOREM OwnersSafe == Spec => []Contract!OwnersAreSafe
<1>1. EveryInv => Contract!OwnersAreSafe
  BY DEF EveryInv, CancelInv, TypeOK, Contract!OwnersAreSafe
<1> QED BY <1>1, EveryInvariance, PTL
=============================================================================
