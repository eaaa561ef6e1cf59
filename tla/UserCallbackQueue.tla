------------------------- MODULE UserCallbackQueue --------------------------
(***************************************************************************)
(* The way of a user callback from the thread that has a result to the     *)
(* user: enqueue_user_callback, process_user_callbacks_thread and          *)
(* set_callback_executor of MavsdkImpl over the LockedQueue they share     *)
(* (core/mavsdk_impl.cpp, core/locked_queue.hpp).                          *)
(*                                                                         *)
(* The queue is the set of the callbacks in it; its order is that of the   *)
(* places at which they were pushed.  A critical section is one action.    *)
(* Handing a callback to the executor of the user counts as delivering it. *)
(***************************************************************************)
EXTENDS Integers, FiniteSets

CONSTANTS
    Results,       \* callbacks of call_user_callback, by number
    Updates,       \* callbacks of call_user_callback_droppable
    Producers,     \* threads that submit callbacks
    MaxDroppable,  \* MAX_DROPPABLE_USER_CALLBACKS
    MaxChanges,    \* bound: calls of set_callback_executor
    NoCallback     \* no callback in the hands of a thread

Callbacks == Results \cup Updates

ASSUME CallbackAssumption == /\ Results \cap Updates = {}
                             /\ Callbacks \subseteq Int
                             /\ NoCallback \notin Callbacks
ASSUME NumberAssumption == MaxDroppable \in Nat \ {0} /\ MaxChanges \in Nat

VARIABLES
    queue,      \* _user_callback_queue: what is in it
    place,      \* place in the queue of what was pushed, 0 before
    nextPlace,  \* the place of the next push
    stopped,    \* LockedQueue::_should_exit
    executor,   \* whether _callback_executor is set
    thread,     \* _process_user_callbacks_thread: where it is
    current,    \* the callback the thread has taken
    pc,         \* where each producer is in enqueue_user_callback
    item,       \* the callback each producer is about to pass on
    change,     \* where set_callback_executor or the destructor is
    changes,    \* number of set_callback_executor calls
    exiting,    \* MavsdkImpl::_should_exit
    submitted,  \* history: callbacks that passed the test of _should_exit
    delivered,  \* history: callbacks that were handed to the user
    dropped,    \* history: callbacks that were given up
    late        \* history: callbacks pushed after the executor was replaced

queueVars == <<queue, place, nextPlace>>
threadVars == <<thread, current>>
producerVars == <<pc, item>>
history == <<submitted, delivered, dropped, late>>
vars == <<queueVars, stopped, executor, threadVars, producerVars, change,
          changes, exiting, history>>

\* Of the thread: joined, about to lock the queue, in the wait of the condition
\* variable, with a callback taken out, in the callback, returned.
ThreadStates == {"none", "loop", "waiting", "taken", "running", "returned"}

\* Of set_callback_executor: about to stop the thread, to join it, to drain the
\* queue, or to start the thread; and the same steps of the destructor.
ChangeStates == {"idle", "stop", "join", "drain", "start",
                 "exit stop", "exit join", "gone"}

\* The types of the variables.
TypeOK ==
    /\ queue \subseteq Callbacks
    /\ nextPlace \in Nat \ {0}
    /\ place \in [Callbacks -> 0..(nextPlace - 1)]
    /\ stopped \in BOOLEAN
    /\ executor \in BOOLEAN
    /\ thread \in ThreadStates
    /\ current \in Callbacks \cup {NoCallback}
    /\ pc \in [Producers -> {"idle", "push", "hand over"}]
    /\ item \in [Producers -> Callbacks \cup {NoCallback}]
    /\ change \in ChangeStates
    /\ changes \in 0..MaxChanges
    /\ exiting \in BOOLEAN
    /\ submitted \subseteq Callbacks
    /\ delivered \subseteq Callbacks
    /\ dropped \subseteq Callbacks
    /\ late \subseteq Callbacks

Init ==
    /\ queue = {}
    /\ place = [c \in Callbacks |-> 0]
    /\ nextPlace = 1
    /\ stopped = FALSE
    /\ executor = FALSE
    /\ thread = "loop"
    /\ current = NoCallback
    /\ pc = [p \in Producers |-> "idle"]
    /\ item = [p \in Producers |-> NoCallback]
    /\ change = "idle"
    /\ changes = 0
    /\ exiting = FALSE
    /\ submitted = {}
    /\ delivered = {}
    /\ dropped = {}
    /\ late = {}

(***************************************************************************)
(* The producers: enqueue_user_callback.                                   *)
(***************************************************************************)

\* A callback that is not in use; of its kind, the one with the lowest number.
IsNext(c) ==
    /\ c \notin submitted
    /\ \A other \in IF c \in Results THEN Results ELSE Updates :
          other < c => other \in submitted

\* _should_exit and the executor are read; what follows is decided by this
\* copy of the executor.
Enqueue(p, c) ==
    /\ pc[p] = "idle"
    /\ ~exiting
    /\ IsNext(c)
    /\ submitted' = submitted \cup {c}
    /\ pc' = [pc EXCEPT ![p] = IF executor THEN "hand over" ELSE "push"]
    /\ item' = [item EXCEPT ![p] = c]
    /\ UNCHANGED <<queueVars, stopped, executor, threadVars, change, changes,
                   exiting, delivered, dropped, late>>

Return(p) ==
    /\ pc' = [pc EXCEPT ![p] = "idle"]
    /\ item' = [item EXCEPT ![p] = NoCallback]

\* (*executor)(func), with no lock held.
HandOver(p) ==
    /\ pc[p] = "hand over"
    /\ delivered' = delivered \cup {item[p]}
    /\ Return(p)
    /\ UNCHANGED <<queueVars, stopped, executor, threadVars, change, changes,
                   exiting, submitted, dropped, late>>

\* Mutant: pushing does not notify the condition variable.
NoNotify == UNCHANGED thread

\* _condition_var.notify_one(); the thread is the only one that waits.
Notify == thread' = IF thread = "waiting" THEN "loop" ELSE thread

\* Mutant: the newest update gives way.
Newest(S) == {c \in S : \A other \in S : place[other] <= place[c]}

\* The first one of S in the queue, if there is one.
Oldest(S) == {c \in S : \A other \in S : place[c] <= place[other]}

\* Mutant: any entry may be evicted.
AnyDroppable == queue

\* What push_back_bounded may evict.
Droppable == queue \cap Updates

\* Mutant: the bound is off by one.
FullAboveBound == Cardinality(queue) > MaxDroppable

\* _queue.size() >= max_size.
Full == Cardinality(queue) >= MaxDroppable

\* push_back(item), and the history that goes with it.
PushBack(c, others) ==
    /\ queue' = others \cup {c}
    /\ place' = [place EXCEPT ![c] = nextPlace]
    /\ nextPlace' = nextPlace + 1
    /\ Notify
    /\ late' = IF executor THEN late \cup {c} ELSE late

\* A result goes in regardless of how long the queue is.
PushResult(p) ==
    /\ pc[p] = "push"
    /\ item[p] \in Results
    /\ PushBack(item[p], queue)
    /\ Return(p)
    /\ UNCHANGED <<stopped, executor, current, change, changes, exiting,
                   submitted, delivered, dropped>>

\* push_back_bounded: Pushed, PushedAfterDropping or Rejected.
PushUpdate(p) ==
    /\ pc[p] = "push"
    /\ item[p] \in Updates
    /\ \/ /\ ~Full
          /\ PushBack(item[p], queue)
          /\ UNCHANGED dropped
       \/ /\ Full
          /\ \E oldest \in Oldest(Droppable) :
                /\ PushBack(item[p], queue \ {oldest})
                /\ dropped' = dropped \cup {oldest}
       \/ /\ Full
          /\ Droppable = {}
          /\ dropped' = dropped \cup {item[p]}
          /\ UNCHANGED <<queueVars, thread, late>>
    /\ Return(p)
    /\ UNCHANGED <<stopped, executor, current, change, changes, exiting,
                   submitted, delivered>>

(***************************************************************************)
(* process_user_callbacks_thread.                                          *)
(***************************************************************************)

\* wait_and_pop_front() with something in the queue.  _should_exit was tested
\* before the queue was locked and may have changed since.
Take ==
    /\ thread = "loop"
    /\ ~stopped
    /\ \E c \in Oldest(queue) : queue' = queue \ {c} /\ current' = c
    /\ thread' = "taken"
    /\ UNCHANGED <<place, nextPlace, stopped, executor, producerVars, change,
                   changes, exiting, history>>

\* wait_and_pop_front() with nothing in it.
Wait ==
    /\ thread = "loop"
    /\ ~stopped
    /\ queue = {}
    /\ thread' = "waiting"
    /\ UNCHANGED <<queueVars, stopped, executor, current, producerVars, change,
                   changes, exiting, history>>

\* The condition variable may also wake the thread for no reason.
SpuriousWakeup ==
    /\ thread = "waiting"
    /\ thread' = "loop"
    /\ UNCHANGED <<queueVars, stopped, executor, current, producerVars, change,
                   changes, exiting, history>>

\* The loop ends: _should_exit, or the empty pointer of a stopped queue.
Leave ==
    /\ thread = "loop"
    /\ exiting \/ stopped
    /\ thread' = "returned"
    /\ UNCHANGED <<queueVars, stopped, executor, current, producerVars, change,
                   changes, exiting, history>>

\* callback.func(), unless the instance is being destroyed.
Invoke ==
    /\ thread = "taken"
    /\ current' = NoCallback
    /\ IF exiting
       THEN /\ thread' = "loop"
            /\ dropped' = dropped \cup {current}
            /\ UNCHANGED delivered
       ELSE /\ thread' = "running"
            /\ delivered' = delivered \cup {current}
            /\ UNCHANGED dropped
    /\ UNCHANGED <<queueVars, stopped, executor, producerVars, change, changes,
                   exiting, submitted, late>>

CallbackReturns ==
    /\ thread = "running"
    /\ thread' = "loop"
    /\ UNCHANGED <<queueVars, stopped, executor, current, producerVars, change,
                   changes, exiting, history>>

(***************************************************************************)
(* set_callback_executor, one call at a time (_callback_executor_change_   *)
(* mutex), and the destructor.                                             *)
(***************************************************************************)

SetExecutor(new) ==
    /\ change = "idle"
    /\ changes < MaxChanges
    /\ changes' = changes + 1
    /\ executor' = new
    /\ change' = CASE new /\ thread # "none" -> "stop"
                   [] new /\ thread = "none" -> "drain"
                   [] ~new /\ thread = "none" -> "start"
                   [] ~new /\ thread # "none" -> "idle"
    /\ UNCHANGED <<queueVars, stopped, threadVars, producerVars, exiting,
                   history>>

\* Mutant: stop() forgets to notify.
StopSilently(from, to) ==
    /\ change = from
    /\ change' = to
    /\ stopped' = TRUE
    /\ UNCHANGED <<queueVars, executor, threadVars, producerVars, changes,
                   exiting, history>>

\* LockedQueue::stop().
Stop(from, to) ==
    /\ change = from
    /\ change' = to
    /\ stopped' = TRUE
    /\ Notify
    /\ UNCHANGED <<queueVars, executor, current, producerVars, changes,
                   exiting, history>>

StopThread == Stop("stop", "join")

JoinThread ==
    /\ change = "join"
    /\ thread = "returned"
    /\ thread' = "none"
    /\ change' = "drain"
    /\ UNCHANGED <<queueVars, stopped, executor, current, producerVars,
                   changes, exiting, history>>

\* The rest of the queue goes through the new executor, under the queue's lock.
Drain ==
    /\ change = "drain"
    /\ delivered' = delivered \cup queue
    /\ queue' = {}
    /\ change' = "idle"
    /\ UNCHANGED <<place, nextPlace, stopped, executor, threadVars,
                   producerVars, changes, exiting, submitted, dropped, late>>

\* restart() and a new thread.
StartThread ==
    /\ change = "start"
    /\ stopped' = FALSE
    /\ thread' = "loop"
    /\ change' = "idle"
    /\ UNCHANGED <<queueVars, executor, current, producerVars, changes,
                   exiting, history>>

\* ~MavsdkImpl: _should_exit first.  Nobody else calls into the instance.
Exit ==
    /\ change = "idle"
    /\ ~exiting
    /\ exiting' = TRUE
    /\ change' = "exit stop"
    /\ UNCHANGED <<queueVars, stopped, executor, threadVars, producerVars,
                   changes, history>>

\* The io thread is joined before the queue is stopped, if there is a thread.
ExitStop ==
    /\ \A p \in Producers : pc[p] = "idle"
    /\ thread # "none"
    /\ Stop("exit stop", "exit join")

\* What is left in the queue goes with it.
ExitDone ==
    /\ \/ change = "exit join" /\ thread = "returned"
       \/ /\ change = "exit stop" /\ thread = "none"
          /\ \A p \in Producers : pc[p] = "idle"
    /\ change' = "gone"
    /\ thread' = "none"
    /\ dropped' = dropped \cup queue
    /\ queue' = {}
    /\ UNCHANGED <<place, nextPlace, stopped, executor, current, producerVars,
                   changes, exiting, submitted, delivered, late>>

ProducerStep(p) == HandOver(p) \/ PushResult(p) \/ PushUpdate(p)
ThreadStep == Take \/ Wait \/ Leave \/ Invoke \/ CallbackReturns
ChangeStep == StopThread \/ JoinThread \/ Drain \/ StartThread
ExitStep == ExitStop \/ ExitDone

Next ==
    \/ \E p \in Producers : (\E c \in Callbacks : Enqueue(p, c)) \/ ProducerStep(p)
    \/ ThreadStep
    \/ SpuriousWakeup
    \/ \E new \in BOOLEAN : SetExecutor(new)
    \/ ChangeStep
    \/ Exit
    \/ ExitStep

\* Threads that are inside a call or a callback go on.  Nobody has to call.
Fairness ==
    /\ \A p \in Producers : WF_vars(ProducerStep(p))
    /\ WF_vars(ThreadStep)
    /\ WF_vars(ChangeStep)
    /\ WF_vars(ExitStep)

Spec == Init /\ [][Next]_vars
FairSpec == Spec /\ Fairness

-----------------------------------------------------------------------------
(***************************************************************************)
(* Properties                                                              *)
(***************************************************************************)

\* locked_queue.hpp:30 - the queue holds at most max_size droppable entries,
\* however many results are pushed between them.
UpdatesAreBounded == Cardinality(Droppable) <= MaxDroppable

\* locked_queue.hpp:31 - what gets through stays current: when an update was
\* given up, the updates still queued are newer ones.
StreamStaysCurrent ==
    ~exiting => \A old \in dropped, c \in Droppable : place[old] < place[c]

InHand == {current} \cup {item[p] : p \in Producers}

\* The contract of THREADING.md:152: at most one call of each callback, and no
\* result is given up while the instance lives, whoever swaps the executor.
Delivery == INSTANCE CallbackDelivery WITH
    pending <- queue \cup (InHand \ {NoCallback}),
    closed <- exiting

ImplementsDelivery == Delivery!Spec

\* troubleshooting.md:13 - results of requests are never dropped: a result that
\* is queued reaches the user, if the instance is not destroyed, and if it was
\* not pushed late, by a thread that read the executor before it was replaced.
EveryResultIsDelivered ==
    \A c \in Results : c \in queue ~> c \in delivered \cup late \/ exiting

\* set_callback_executor and the destructor return: the thread is woken up and
\* sees that it has to stop.
ChangeEnds == change # "idle" ~> change \in {"idle", "gone"}
=============================================================================
