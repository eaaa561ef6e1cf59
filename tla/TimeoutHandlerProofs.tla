------------------------ MODULE TimeoutHandlerProofs ------------------------
(***************************************************************************)
(* Proofs about TimeoutHandler: type correctness and the three promises of *)
(* timeout_handler.hpp, for every set of threads, every set of durations   *)
(* and every number of timeouts.                                           *)
(*                                                                         *)
(* None of the promises is inductive: that a removed timeout is not        *)
(* started needs that it is in neither list, which needs that run_once     *)
(* only ever moves cookies between the lists, that add hands out a cookie  *)
(* nobody has seen before, and that a waiter is waiting for a cookie it    *)
(* has already taken out.  HandlerInv collects those facts.                *)
(***************************************************************************)
EXTENDS TimeoutHandler, TLAPS

\* Every cookie in use was handed out by add().
CookiesAreOld ==
    \A c \in timeouts \cup due \cup started \cup removed \cup callable :
        c < nextCookie

\* A cookie is in at most one of _timeouts, _due, started callbacks.
OnePlace ==
    /\ timeouts \cap due = {}
    /\ started \cap (timeouts \cup due) = {}
    /\ executing # 0 => executing \in started

\* What a remove call took out stays out, and only that is released.
RemovedIsOut ==
    /\ removed \cap (timeouts \cup due) = {}
    /\ released \subseteq removed
    /\ executing \notin released
    /\ \A t \in Threads : pc[t] \in {"wait", "notified"} => target[t] \in removed

\* What run_once picked up was expired, and still is.
DueIsExpired ==
    /\ \A c \in due : deadline[c] < now
    /\ executing # 0 => deadline[executing] < now

HandlerInv ==
    /\ TypeOK
    /\ CookiesAreOld
    /\ OnePlace
    /\ RemovedIsOut
    /\ DueIsExpired

\* Nothing is registered, due or running at first.
LEMMA InitHandlerInv == Init => HandlerInv
<1> SUFFICES ASSUME Init PROVE HandlerInv
  OBVIOUS
<1>1. nextCookie \in 1..(MaxCookie + 1)
  BY NumberAssumption DEF Init
<1>2. TypeOK
  BY <1>1 DEF Init, TypeOK, Places
<1>3. CookiesAreOld /\ OnePlace /\ RemovedIsOut /\ DueIsExpired
  BY DEF Init, CookiesAreOld, OnePlace, RemovedIsOut, DueIsExpired
<1> QED
  BY <1>2, <1>3 DEF HandlerInv

\* What one iteration of the while loop of run_once does with the list it
\* finds: it runs at most one of its timeouts and keeps only others of it.
LEMMA InvokeNextFacts ==
    ASSUME NEW queue \in SUBSET Cookies, InvokeNext(queue)
    PROVE  /\ due' \subseteq queue
           /\ \/ executing' = 0 /\ started' = started
              \/ /\ executing' \in queue
                 /\ started' = started \cup {executing'}
                 /\ executing' \notin due'
           /\ executingThread' \in Threads \cup {NoThread}
<1>1. CASE queue \cap callable = {}
  BY <1>1 DEF InvokeNext
<1>2. CASE queue \cap callable # {}
  <2>1. PICK c \in queue \cap callable :
            /\ due' = {other \in queue : c < other}
            /\ executing' = c
            /\ executingThread' = IoThread
            /\ started' = started \cup {c}
    BY <1>2 DEF InvokeNext
  <2>2. c \in Int
    BY DEF Cookies
  <2>3. c \notin due'
    BY <2>1, <2>2
  <2> QED
    BY <2>1, <2>3 DEF Threads
<1> QED
  BY <1>1, <1>2

\* The invariant after an iteration: the part common to the start of run_once
\* (`queue' holds the expired timeouts) and to the return of a callback
\* (`queue' is _due).
LEMMA InvokeNextKeepsInv ==
    ASSUME HandlerInv,
           NEW queue \in SUBSET Cookies,
           queue \subseteq timeouts \cup due,
           \A c \in queue : deadline[c] < now,
           timeouts' \subseteq timeouts,
           timeouts' \cap queue = {},
           InvokeNext(queue),
           pc' \in [Threads -> Places],
           \A t \in Threads :
               pc'[t] \in {"wait", "notified"} => pc[t] \in {"wait", "notified"},
           UNCHANGED <<now, deadline, duration, callable, nextCookie, target,
                       removed, released>>
    PROVE  HandlerInv'
<1>1. /\ due' \subseteq queue
      /\ \/ executing' = 0 /\ started' = started
         \/ /\ executing' \in queue
            /\ started' = started \cup {executing'}
            /\ executing' \notin due'
      /\ executingThread' \in Threads \cup {NoThread}
  BY InvokeNextFacts
<1>2. TypeOK'
  BY <1>1 DEF HandlerInv, TypeOK
<1>3. CookiesAreOld'
  BY <1>1 DEF HandlerInv, CookiesAreOld
<1>4. OnePlace'
  BY <1>1 DEF HandlerInv, OnePlace
<1>5. RemovedIsOut'
  <2>1. 0 \notin released
    BY DEF HandlerInv, TypeOK, Cookies
  <2>2. executing' \notin released
    BY <1>1, <2>1 DEF HandlerInv, RemovedIsOut
  <2> QED
    BY <1>1, <2>2 DEF HandlerInv, RemovedIsOut
<1>6. DueIsExpired'
  BY <1>1 DEF HandlerInv, DueIsExpired
<1> QED
  BY <1>2, <1>3, <1>4, <1>5, <1>6 DEF HandlerInv

\* add() hands out a cookie nothing was ever said about.
LEMMA AddKeepsInv ==
    ASSUME HandlerInv, NEW t \in Threads, NEW d \in Durations,
           NEW hasCallback \in BOOLEAN, Add(t, d, hasCallback)
    PROVE  HandlerInv'
<1>0. /\ d \in Nat
      /\ MaxCookie \in Nat
  BY NumberAssumption
<1>1. nextCookie \in Cookies
  BY <1>0 DEF HandlerInv, TypeOK, Add, Cookies
<1>2. /\ nextCookie \notin timeouts \cup due \cup started \cup removed
      /\ nextCookie # executing
  BY <1>0, <1>1 DEF HandlerInv, TypeOK, CookiesAreOld, OnePlace, Cookies
<1>3. TypeOK'
  <2>1. pc' \in [Threads -> Places]
    BY DEF HandlerInv, TypeOK, Add, Return, Places
  <2>2. deadline' \in [Cookies -> Nat] /\ duration' \in [Cookies -> Nat]
    BY <1>0, <1>1 DEF HandlerInv, TypeOK, Add
  <2>3. nextCookie' \in 1..(MaxCookie + 1)
    BY <1>0 DEF HandlerInv, TypeOK, Add
  <2> QED
    BY <1>1, <2>1, <2>2, <2>3 DEF HandlerInv, TypeOK, Add
<1>4. CookiesAreOld'
  <2>1. \A c \in Cookies : c < nextCookie => c < nextCookie'
    BY <1>0 DEF HandlerInv, TypeOK, Add, Cookies
  <2>2. nextCookie < nextCookie'
    BY <1>0 DEF HandlerInv, TypeOK, Add, Cookies
  <2> QED
    BY <2>1, <2>2 DEF HandlerInv, TypeOK, CookiesAreOld, Add
<1>5. OnePlace'
  BY <1>2 DEF HandlerInv, OnePlace, Add
<1>6. RemovedIsOut'
  BY <1>2 DEF HandlerInv, TypeOK, RemovedIsOut, Add, Return
<1>7. DueIsExpired'
  BY <1>2 DEF HandlerInv, TypeOK, DueIsExpired, Add
<1> QED
  BY <1>3, <1>4, <1>5, <1>6, <1>7 DEF HandlerInv

\* refresh() only touches timeouts that still wait, never one that is due.
LEMMA RefreshKeepsInv ==
    ASSUME HandlerInv, NEW t \in Threads, NEW c \in Cookies, Refresh(t, c)
    PROVE  HandlerInv'
<1>1. TypeOK'
  <2>1. pc' \in [Threads -> Places]
    BY DEF HandlerInv, TypeOK, Refresh, Return, Places
  <2>2. deadline' \in [Cookies -> Nat]
    BY DEF HandlerInv, TypeOK, Refresh
  <2> QED
    BY <2>1, <2>2 DEF HandlerInv, TypeOK, Refresh
<1>2. c \notin due /\ c # executing
  BY DEF HandlerInv, OnePlace, Refresh, Cookies
<1>3. CookiesAreOld' /\ OnePlace'
  BY DEF HandlerInv, CookiesAreOld, OnePlace, Refresh
<1>4. RemovedIsOut'
  BY DEF HandlerInv, TypeOK, RemovedIsOut, Refresh, Return
<1>5. DueIsExpired'
  BY <1>2 DEF HandlerInv, TypeOK, DueIsExpired, Refresh
<1> QED
  BY <1>1, <1>3, <1>4, <1>5 DEF HandlerInv

\* remove() and remove_blocking() take the timeout out of both lists, and the
\* latter releases it only when it is not running.
LEMMA RemoveKeepsInv ==
    ASSUME HandlerInv, NEW t \in Threads, NEW c \in Cookies \cup {0},
           NEW blocking \in BOOLEAN, Remove(t, c, blocking)
    PROVE  HandlerInv'
<1>1. CASE c = 0
  BY <1>1 DEF Remove, Return, HandlerInv, TypeOK, Places, CookiesAreOld,
              OnePlace, RemovedIsOut, DueIsExpired
<1>2. CASE c # 0
  <2>1. /\ c \in Cookies
        /\ timeouts' = timeouts \ {c}
        /\ due' = due \ {c}
        /\ removed' = removed \cup {c}
        /\ c < nextCookie
        /\ UNCHANGED <<now, deadline, duration, callable, executing,
                       executingThread, nextCookie, started>>
    BY <1>2 DEF Remove
  <2>2. \/ /\ pc' = [pc EXCEPT ![t] = "wait"]
           /\ target' = [target EXCEPT ![t] = c]
           /\ released' = released
        \/ /\ pc' = [pc EXCEPT ![t] = "idle"]
           /\ target' = target
           /\ \/ released' = released
              \/ executing # c /\ released' = released \cup {c}
    BY <1>2 DEF Remove, Return, Release, MayReturn
  <2>3. TypeOK'
    BY <2>1, <2>2 DEF HandlerInv, TypeOK, Places
  <2>4. CookiesAreOld' /\ OnePlace' /\ DueIsExpired'
    BY <2>1 DEF HandlerInv, CookiesAreOld, OnePlace, DueIsExpired
  <2>5. RemovedIsOut'
    BY <2>1, <2>2 DEF HandlerInv, TypeOK, RemovedIsOut
  <2> QED
    BY <2>3, <2>4, <2>5 DEF HandlerInv
<1> QED
  BY <1>1, <1>2

\* A woken remove_blocking() returns only when the callback is not running.
LEMMA RecheckKeepsInv ==
    ASSUME HandlerInv, NEW t \in Threads, Recheck(t)
    PROVE  HandlerInv'
<1>1. UNCHANGED <<now, handlerVars, started, removed>>
  BY DEF Recheck
<1>2. target[t] \in removed
  BY DEF HandlerInv, RemovedIsOut, Recheck
<1>3. \/ /\ pc' = [pc EXCEPT ![t] = "wait"]
         /\ target' = target
         /\ released' = released
      \/ /\ pc' = [pc EXCEPT ![t] = "idle"]
         /\ target' = [target EXCEPT ![t] = 0]
         /\ \/ released' = released
            \/ executing # target[t] /\ released' = released \cup {target[t]}
  BY DEF Recheck, Return, Release, MayReturn
<1>4. TypeOK'
  BY <1>1, <1>2, <1>3 DEF HandlerInv, TypeOK, Places, handlerVars
<1>5. CookiesAreOld' /\ OnePlace' /\ DueIsExpired'
  BY <1>1 DEF HandlerInv, CookiesAreOld, OnePlace, DueIsExpired, handlerVars
<1>6. RemovedIsOut'
  BY <1>1, <1>2, <1>3 DEF HandlerInv, TypeOK, RemovedIsOut, Recheck, handlerVars
<1> QED
  BY <1>4, <1>5, <1>6 DEF HandlerInv

\* Every step keeps the invariant, one action at a time.
LEMMA NextKeepsInv == HandlerInv /\ [Next]_vars => HandlerInv'
<1> SUFFICES ASSUME HandlerInv, [Next]_vars PROVE HandlerInv'
  OBVIOUS
<1>1. ASSUME NEW t \in Threads, Wakeup(t) PROVE HandlerInv'
  BY <1>1 DEF Wakeup, Return, handlerVars, HandlerInv, TypeOK, Places,
              CookiesAreOld, OnePlace, RemovedIsOut, DueIsExpired
<1>2. ASSUME NEW t \in Threads, SpuriousWakeup(t) PROVE HandlerInv'
  BY <1>2 DEF SpuriousWakeup, handlerVars, HandlerInv, TypeOK, Places,
              CookiesAreOld, OnePlace, RemovedIsOut, DueIsExpired
<1>3. ASSUME NEW t \in Threads, Call(t) PROVE HandlerInv'
  BY <1>1, <1>2, <1>3, AddKeepsInv, RefreshKeepsInv, RemoveKeepsInv,
     RecheckKeepsInv DEF Call
<1>4. CASE RunOnce
  <2>1. /\ due \cup Expired \in SUBSET Cookies
        /\ due \cup Expired \subseteq timeouts \cup due
        /\ \A c \in due \cup Expired : deadline[c] < now
        /\ timeouts' \cap (due \cup Expired) = {}
    BY <1>4 DEF RunOnce, Expired, HandlerInv, TypeOK, OnePlace, DueIsExpired
  <2>2. pc' \in [Threads -> Places]
    BY <1>4 DEF RunOnce, HandlerInv, TypeOK
  <2> QED
    BY <1>4, <2>1, <2>2, InvokeNextKeepsInv DEF RunOnce
<1>5. CASE CallbackReturns
  <2>1. /\ due \in SUBSET Cookies
        /\ \A c \in due : deadline[c] < now
        /\ timeouts' \cap due = {}
    BY <1>5 DEF CallbackReturns, HandlerInv, TypeOK, OnePlace, DueIsExpired
  <2>2. /\ pc' \in [Threads -> Places]
        /\ \A t \in Threads :
             pc'[t] \in {"wait", "notified"} => pc[t] \in {"wait", "notified"}
    BY <1>5 DEF CallbackReturns, HandlerInv, TypeOK, Places
  <2> QED
    BY <1>5, <2>1, <2>2, InvokeNextKeepsInv DEF CallbackReturns
<1>6. CASE Tick
  BY <1>6 DEF Tick, handlerVars, HandlerInv, TypeOK, CookiesAreOld, OnePlace,
              RemovedIsOut, DueIsExpired, Cookies
<1>7. CASE UNCHANGED vars
  BY <1>7 DEF vars, handlerVars, HandlerInv, TypeOK, CookiesAreOld, OnePlace,
              RemovedIsOut, DueIsExpired
<1> QED
  BY <1>3, <1>4, <1>5, <1>6, <1>7 DEF Next

\* The facts the promises rest on hold in every reachable state.
THEOREM HandlerInvariance == Spec => []HandlerInv
BY InitHandlerInv, NextKeepsInv, PTL DEF Spec

\* Every variable of the handler keeps its type.
THEOREM TypeCorrect == Spec => []TypeOK
<1>1. HandlerInv => TypeOK
  BY DEF HandlerInv
<1> QED
  BY <1>1, HandlerInvariance, PTL

\* Promise of remove_blocking(): after it has returned the callback is not
\* running, so its owner may be destroyed.
THEOREM BlockingRemoveIsSafe == Spec => []ReleasedIsNotRunning
<1>1. HandlerInv => ReleasedIsNotRunning
  BY DEF HandlerInv, RemovedIsOut, ReleasedIsNotRunning
<1> QED
  BY <1>1, HandlerInvariance, PTL

\* run_once() only invokes a callback strictly after its deadline.
THEOREM NoEarlyTimeout == Spec => []NeverEarly
<1>1. HandlerInv => NeverEarly
  BY DEF HandlerInv, DueIsExpired, NeverEarly
<1> QED
  BY <1>1, HandlerInvariance, PTL

\* Promise of remove(): the callback is not started any more; and no callback
\* is started twice.
THEOREM RemovedNeverStarts == Spec => StartsAtMostOnceAndNeverAfterRemove
<1> DEFINE Fresh == \A c \in Cookies :
             (executing' = c /\ executing # c) => c \notin removed \cup started
<1>1. HandlerInv /\ [Next]_vars => [Fresh]_vars
  <2> SUFFICES ASSUME HandlerInv, [Next]_vars, NEW c \in Cookies,
                      executing' = c, executing # c
               PROVE  c \notin removed \cup started
    OBVIOUS
  <2>0. 0 \notin Cookies
    BY DEF Cookies
  <2>1. CASE RunOnce
    <3>1. due \cup Expired \in SUBSET Cookies /\ Expired \subseteq timeouts
      BY DEF HandlerInv, TypeOK, Expired
    <3>2. executing' \in due \cup Expired
      BY <2>0, <2>1, <3>1, InvokeNextFacts DEF RunOnce
    <3> QED
      BY <3>1, <3>2 DEF HandlerInv, OnePlace, RemovedIsOut
  <2>2. CASE CallbackReturns
    <3>1. executing' \in due
      BY <2>0, <2>2, InvokeNextFacts DEF CallbackReturns, HandlerInv, TypeOK
    <3> QED
      BY <3>1 DEF HandlerInv, OnePlace, RemovedIsOut
  <2>3. CASE \E t \in Threads : Call(t)
    BY <2>3 DEF Call, Add, Refresh, Wakeup, Remove, SpuriousWakeup, Recheck,
                handlerVars
  <2>4. CASE Tick \/ UNCHANGED vars
    BY <2>4 DEF Tick, vars, handlerVars
  <2> QED
    BY <2>1, <2>2, <2>3, <2>4 DEF Next
<1> QED
  BY <1>1, HandlerInvariance, PTL DEF Spec, StartsAtMostOnceAndNeverAfterRemove

-----------------------------------------------------------------------------
(***************************************************************************)
(* The refinement: what the handler promises the owners of callbacks.      *)
(***************************************************************************)

\* At first nothing is registered.
LEMMA InitRefines == Init => Contract!Init
BY DEF Init, Contract!Init

\* What touches neither list, nor the running callback, nor what was removed
\* and released, is invisible.
LEMMA HandlerStutter ==
    ASSUME UNCHANGED <<timeouts, due, executing, removed, released>>
    PROVE  UNCHANGED Contract!vars
BY DEF Contract!vars

\* A call registers, removes or releases one timeout, or is invisible: a
\* blocking removal that waits has removed already, and releases as it returns.
LEMMA CallRefines ==
    ASSUME HandlerInv, NEW t \in Threads, Call(t)
    PROVE  Contract!Next \/ UNCHANGED Contract!vars
<1>1. ASSUME NEW d \in Durations, NEW hasCallback \in BOOLEAN, Add(t, d, hasCallback)
      PROVE  Contract!Next
  <2>1. nextCookie \in Cookies
    BY <1>1, NumberAssumption DEF HandlerInv, TypeOK, Add, Cookies
  <2>2. nextCookie \notin timeouts \cup due \cup removed
    BY <2>1 DEF HandlerInv, CookiesAreOld, Cookies
  <2>3. Contract!Register(nextCookie)
    BY <1>1, <2>2 DEF Add, Contract!Register
  <2> QED
    BY <2>1, <2>3 DEF Contract!Next
<1>2. ASSUME NEW c \in Cookies \cup {0}, NEW blocking \in BOOLEAN, Remove(t, c, blocking)
      PROVE  Contract!Next \/ UNCHANGED Contract!vars
  <2>1. CASE c = 0
    BY <1>2, <2>1, HandlerStutter DEF Remove
  <2>2. CASE c # 0
    <3>1. /\ c \in Cookies
          /\ timeouts' = timeouts \ {c} /\ due' = due \ {c}
          /\ removed' = removed \cup {c} /\ UNCHANGED executing
      BY <1>2, <2>2 DEF Remove
    <3>2. CASE UNCHANGED released
      <4>1. Contract!Remove(c)
        BY <3>1, <3>2 DEF Contract!Remove
      <4> QED
        BY <3>1, <4>1 DEF Contract!Next
    <3>3. CASE executing # c /\ released' = released \cup {c}
      <4>1. Contract!Release(c)
        BY <3>1, <3>3 DEF Contract!Release
      <4> QED
        BY <3>1, <4>1 DEF Contract!Next
    <3> QED
      BY <1>2, <2>2, <3>2, <3>3 DEF Remove, Release, MayReturn
  <2> QED
    BY <2>1, <2>2
<1>3. ASSUME Recheck(t) PROVE Contract!Next \/ UNCHANGED Contract!vars
  <2> DEFINE c == target[t]
  <2>1. UNCHANGED <<timeouts, due, executing, removed>>
    BY <1>3 DEF Recheck, handlerVars
  <2>2. c \in removed /\ c \in Cookies /\ c \notin timeouts \cup due
    BY <1>3 DEF Recheck, HandlerInv, TypeOK, RemovedIsOut
  <2>3. CASE UNCHANGED released
    BY <2>1, <2>3, HandlerStutter
  <2>4. CASE executing # c /\ released' = released \cup {c}
    <3>1. Contract!Release(c)
      BY <2>1, <2>2, <2>4 DEF Contract!Release
    <3> QED
      BY <2>2, <3>1 DEF Contract!Next
  <2> QED
    BY <1>3, <2>3, <2>4 DEF Recheck, Release, MayReturn
<1>4. ASSUME \/ \E c \in Cookies : Refresh(t, c)
             \/ Wakeup(t) \/ SpuriousWakeup(t)
      PROVE  UNCHANGED Contract!vars
  BY <1>4, HandlerStutter DEF Refresh, Wakeup, SpuriousWakeup, handlerVars
<1> QED
  BY <1>1, <1>2, <1>3, <1>4 DEF Call

\* run_once starts one of the callbacks it has found due, or none is left.
LEMMA IoRefines ==
    ASSUME HandlerInv, RunOnce \/ CallbackReturns
    PROVE  Contract!Next
<1>1. PICK queue \in SUBSET (timeouts \cup due) :
          InvokeNext(queue) /\ timeouts' \subseteq timeouts
  <2>1. Expired \subseteq timeouts
    BY DEF Expired
  <2>2. CASE RunOnce
    BY <2>1, <2>2 DEF RunOnce
  <2>3. CASE CallbackReturns
    BY <2>3 DEF CallbackReturns
  <2> QED
    BY <2>2, <2>3
<1>2. UNCHANGED <<removed, released>>
  BY DEF RunOnce, CallbackReturns
<1>3. queue \in SUBSET Cookies /\ 0 \notin Cookies
  BY DEF HandlerInv, TypeOK, Cookies
<1>4. /\ due' \subseteq queue
      /\ executing' = 0 \/ executing' \in queue
  BY <1>1, <1>3, InvokeNextFacts
<1>5. CASE executing' = 0
  <2>1. Contract!Finish
    BY <1>1, <1>2, <1>4, <1>5 DEF Contract!Finish
  <2> QED
    BY <2>1 DEF Contract!Next
<1>6. CASE executing' \in queue
  <2>1. PICK c \in queue : c = executing'
    BY <1>6
  <2>2. c \in Cookies /\ c # 0
    BY <1>3
  <2>3. Contract!Start(c)
    BY <1>1, <1>2, <1>4, <2>1, <2>2 DEF Contract!Start
  <2> QED
    BY <2>2, <2>3 DEF Contract!Next
<1> QED
  BY <1>4, <1>5, <1>6

\* timeout_handler.hpp:39-51 - a removed timeout is not called any more, and
\* after remove_blocking it is not running either.
THEOREM TimeoutsImplementCancellation == Spec => ImplementsCancellation
<1>1. HandlerInv /\ [Next]_vars => [Contract!Next]_(Contract!vars)
  <2> SUFFICES ASSUME HandlerInv, [Next]_vars
               PROVE  Contract!Next \/ UNCHANGED Contract!vars
    OBVIOUS
  <2>1. CASE UNCHANGED vars
    BY <2>1, HandlerStutter DEF vars, handlerVars
  <2>2. CASE Tick
    BY <2>2, HandlerStutter DEF Tick, handlerVars
  <2> QED
    BY <2>1, <2>2, CallRefines, IoRefines DEF Next
<1> QED
  BY InitRefines, <1>1, HandlerInvariance, PTL
     DEF Spec, ImplementsCancellation, Contract!Spec
=============================================================================
