---------------------- MODULE UserCallbackQueueProofs -----------------------
(***************************************************************************)
(* UserCallbackQueue implements CallbackDelivery, keeps its updates        *)
(* bounded and current, for any callbacks, threads and sizes.              *)
(***************************************************************************)
EXTENDS UserCallbackQueue, FiniteSetTheorems, TLAPS

\* A callback is in the hands of at most one thread.
HandsInv ==
    /\ current # NoCallback <=> thread = "taken"
    /\ \A p \in Producers : item[p] # NoCallback <=> pc[p] # "idle"
    /\ \A p, q \in Producers :
          p # q /\ item[p] # NoCallback => item[p] # item[q]
    /\ \A p \in Producers : item[p] # NoCallback => item[p] # current

\* What is in a hand, in the queue, with the user and given up are different
\* callbacks, and all of them were submitted.
FateInv ==
    /\ \A p \in Producers : item[p] \notin queue \cup delivered \cup dropped
    /\ \A p \in Producers : item[p] \in submitted \cup {NoCallback}
    /\ current \notin queue \cup delivered \cup dropped
    /\ current \in submitted \cup {NoCallback}
    /\ queue \cap (delivered \cup dropped) = {}
    /\ delivered \cap dropped = {}
    /\ queue \cup delivered \cup dropped \subseteq submitted
    /\ exiting \/ dropped \subseteq Updates

\* The places of the callbacks in the queue differ; a callback that was not
\* pushed has none.
PlaceInv ==
    /\ \A c \in Callbacks : c \notin submitted => place[c] = 0
    /\ \A p \in Producers : item[p] # NoCallback => place[item[p]] = 0
    /\ \A c \in queue : place[c] > 0
    /\ \A c, d \in queue : place[c] = place[d] => c = d

SizeInv == IsFiniteSet(queue) /\ UpdatesAreBounded

\* set_callback_executor starts a thread, or drains the queue, when there is no
\* thread; the destructor begins with _should_exit.
StepInv ==
    /\ change \in {"start", "drain"} => thread = "none"
    /\ exiting <=> change \in {"exit stop", "exit join", "gone"}

QueueInv == TypeOK /\ HandsInv /\ FateInv /\ PlaceInv /\ SizeInv /\ StreamStaysCurrent

-----------------------------------------------------------------------------

LEMMA InitQueueInv == Init => QueueInv
<1> SUFFICES ASSUME Init PROVE QueueInv OBVIOUS
<1> USE CallbackAssumption, NumberAssumption DEF Init
<1>1. TypeOK
  <2>1. place \in [Callbacks -> 0..(nextPlace - 1)] /\ nextPlace \in Nat \ {0} OBVIOUS
  <2>2. changes \in 0..MaxChanges OBVIOUS
  <2> QED BY <2>1, <2>2 DEF TypeOK, ThreadStates, ChangeStates
<1>2. HandsInv /\ FateInv /\ PlaceInv
  BY DEF HandsInv, FateInv, PlaceInv, Callbacks
<1>3. SizeInv
  <2>1. Droppable = {} BY DEF Droppable
  <2> QED BY <2>1, FS_EmptySet DEF SizeInv, UpdatesAreBounded
<1>4. StreamStaysCurrent BY DEF StreamStaysCurrent
<1> QED BY <1>1, <1>2, <1>3, <1>4 DEF QueueInv

LEMMA StepInvariance == Spec => []StepInv
<1>1. Init => StepInv BY DEF Init, StepInv
<1>2. StepInv /\ [Next]_vars => StepInv'
  <2> SUFFICES ASSUME StepInv, [Next]_vars PROVE StepInv' OBVIOUS
  <2> USE DEF StepInv
  <2>1. ASSUME NEW p \in Producers, \/ \E c \in Callbacks : Enqueue(p, c)
                                    \/ HandOver(p) \/ PushResult(p) \/ PushUpdate(p)
        PROVE  StepInv'
    <3>1. UNCHANGED <<change, exiting>> /\ (thread = "none" => thread' = "none")
      BY <2>1 DEF Enqueue, HandOver, PushResult, PushUpdate, PushBack, Notify, threadVars
    <3> QED BY <3>1
  <2>2. CASE ThreadStep \/ SpuriousWakeup
    <3>1. UNCHANGED <<change, exiting>> /\ thread # "none"
      BY <2>2 DEF ThreadStep, Take, Wait, Leave, Invoke, CallbackReturns, SpuriousWakeup
    <3> QED BY <3>1
  <2>3. ASSUME NEW new \in BOOLEAN, SetExecutor(new) PROVE StepInv'
    <3>1. UNCHANGED <<thread, exiting>> /\ change = "idle" BY <2>3 DEF SetExecutor, threadVars
    <3>2. CASE new /\ thread # "none" BY <2>3, <3>1, <3>2 DEF SetExecutor
    <3>3. CASE new /\ thread = "none" BY <2>3, <3>1, <3>3 DEF SetExecutor
    <3>4. CASE ~new /\ thread = "none" BY <2>3, <3>1, <3>4 DEF SetExecutor
    <3>5. CASE ~new /\ thread # "none" BY <2>3, <3>1, <3>5 DEF SetExecutor
    <3> QED BY <3>2, <3>3, <3>4, <3>5
  <2>4. CASE ChangeStep
    <3>0. CASE StopThread
      BY <3>0 DEF StopThread, Stop
    <3>1. CASE JoinThread
      BY <3>1 DEF JoinThread
    <3>2. CASE Drain BY <3>2 DEF Drain, threadVars
    <3>3. CASE StartThread BY <3>3 DEF StartThread
    <3> QED BY <2>4, <3>0, <3>1, <3>2, <3>3 DEF ChangeStep
  <2>5. CASE Exit \/ ExitStep
    BY <2>5 DEF Exit, ExitStep, ExitStop, ExitDone, Stop, Notify, threadVars
  <2>6. CASE UNCHANGED vars BY <2>6 DEF vars, threadVars
  <2> QED BY <2>1, <2>2, <2>3, <2>4, <2>5, <2>6 DEF Next, ProducerStep
<1> QED BY <1>1, <1>2, PTL DEF Spec

\* The producers' steps that leave the queue alone.
LEMMA EnqueueInv ==
    ASSUME QueueInv, NEW p \in Producers, NEW c \in Callbacks, Enqueue(p, c)
    PROVE  QueueInv'
<1> USE CallbackAssumption, NumberAssumption DEF Enqueue, IsNext, queueVars, threadVars, QueueInv, TypeOK
<1>1. TypeOK' OBVIOUS
<1>2. HandsInv'
  <2>1. \A q \in Producers : item'[q] = IF q = p THEN c ELSE item[q] OBVIOUS
  <2>2. \A q \in Producers : pc'[q] = "idle" <=> q # p /\ pc[q] = "idle" OBVIOUS
  <2>3. c # NoCallback /\ c # current /\ \A q \in Producers : item[q] # c
    BY DEF FateInv
  <2> QED BY <2>1, <2>2, <2>3 DEF HandsInv
<1>3. FateInv' BY DEF FateInv
<1>4. PlaceInv' BY DEF PlaceInv
<1>5. SizeInv' /\ StreamStaysCurrent'
  BY DEF SizeInv, StreamStaysCurrent, UpdatesAreBounded, Droppable
<1> QED BY <1>1, <1>2, <1>3, <1>4, <1>5

LEMMA HandOverInv ==
    ASSUME QueueInv, NEW p \in Producers, HandOver(p)
    PROVE  QueueInv'
<1> USE CallbackAssumption, NumberAssumption DEF HandOver, Return, queueVars, threadVars, QueueInv, TypeOK
<1>1. item[p] \in Callbacks BY DEF HandsInv
<1>2. TypeOK' BY <1>1
<1>3. HandsInv'
  <2>1. \A q \in Producers : item'[q] = IF q = p THEN NoCallback ELSE item[q] OBVIOUS
  <2>2. \A q \in Producers : pc'[q] = "idle" <=> q = p \/ pc[q] = "idle" OBVIOUS
  <2> QED BY <2>1, <2>2 DEF HandsInv
<1>4. FateInv' BY ZenonT(60), <1>1 DEF FateInv, HandsInv
<1>5. PlaceInv' BY DEF PlaceInv
<1>6. SizeInv' /\ StreamStaysCurrent'
  BY DEF SizeInv, StreamStaysCurrent, UpdatesAreBounded, Droppable
<1> QED BY <1>2, <1>3, <1>4, <1>5, <1>6

\* What a push does to the hands, the places and the fates: the callback of p
\* goes behind what is left of the queue.
LEMMA PushInv ==
    ASSUME QueueInv, NEW p \in Producers, pc[p] = "push",
           NEW others \in SUBSET queue, NEW evicted,
           evicted = queue \ others,
           evicted \subseteq Updates,
           \A old \in evicted, c \in others \cap Updates : place[old] < place[c],
           PushBack(item[p], others), Return(p),
           dropped' = dropped \cup evicted,
           UNCHANGED <<stopped, executor, current, change, changes, exiting,
                       submitted, delivered>>
    PROVE  TypeOK' /\ HandsInv' /\ FateInv' /\ PlaceInv' /\ IsFiniteSet(queue') /\ StreamStaysCurrent'
<1> USE DEF QueueInv
<1>1. /\ item[p] \in Callbacks
      /\ item[p] \notin queue \cup delivered \cup dropped
      /\ item[p] \in submitted
  BY CallbackAssumption DEF HandsInv, TypeOK, FateInv
<1>t. /\ place \in [Callbacks -> 0..(nextPlace - 1)]
      /\ nextPlace \in Nat \ {0}
      /\ pc \in [Producers -> {"idle", "push", "hand over"}]
      /\ item \in [Producers -> Callbacks \cup {NoCallback}]
      /\ queue \subseteq Callbacks
  BY DEF TypeOK
<1>n. nextPlace \in Nat /\ nextPlace > 0
  <2>1. nextPlace \in Nat \ {0} BY <1>t
  <2> QED BY <2>1
<1>b. /\ queue' = others \cup {item[p]}
      /\ place' = [place EXCEPT ![item[p]] = nextPlace]
      /\ nextPlace' = nextPlace + 1
      /\ thread' = IF thread = "waiting" THEN "loop" ELSE thread
      /\ late' = IF executor THEN late \cup {item[p]} ELSE late
  BY DEF PushBack, Notify
<1>r. /\ pc' = [pc EXCEPT ![p] = "idle"]
      /\ item' = [item EXCEPT ![p] = NoCallback]
  BY DEF Return
<1>i. \A q \in Producers : item'[q] = IF q = p THEN NoCallback ELSE item[q]
  BY <1>t, <1>r
<1>p. \A q \in Producers : pc'[q] = "idle" <=> q = p \/ pc[q] = "idle"
  BY <1>t, <1>r
<1>2. TypeOK'
  <2>1. place' \in [Callbacks -> 0..(nextPlace' - 1)] /\ nextPlace' \in Nat \ {0}
    <3>0. nextPlace' = nextPlace + 1 BY <1>b
    <3>1. nextPlace' \in Nat \ {0} BY <1>n, <3>0
    <3>2. 0..(nextPlace - 1) \subseteq 0..(nextPlace' - 1) /\ nextPlace \in 0..(nextPlace' - 1)
      BY <1>n, <3>0
    <3>3. place \in [Callbacks -> 0..(nextPlace' - 1)] BY <1>t, <3>2
    <3> QED BY <1>1, <1>b, <3>1, <3>2, <3>3
  <2>2. thread' \in ThreadStates BY <1>b DEF TypeOK, ThreadStates
  <2>3. queue' \subseteq Callbacks /\ dropped' \subseteq Callbacks /\ late' \subseteq Callbacks
    BY <1>1, <1>t, <1>b DEF TypeOK
  <2>4. pc' \in [Producers -> {"idle", "push", "hand over"}]
        /\ item' \in [Producers -> Callbacks \cup {NoCallback}]
    BY <1>t, <1>r
  <2> QED BY <2>1, <2>2, <2>3, <2>4 DEF TypeOK
<1>3. HandsInv'
  <2>1. thread' = "taken" <=> thread = "taken" BY <1>b
  <2> QED BY <1>i, <1>p, <2>1 DEF HandsInv
<1>4. FateInv'
  <2>1. \A q \in Producers : q # p => item[q] # item[p]
    BY <1>1, CallbackAssumption DEF HandsInv
  <2>2. current # item[p] BY <1>1, CallbackAssumption DEF HandsInv
  <2>3. NoCallback \notin queue' \cup delivered \cup dropped'
    BY <1>1, <1>t, <1>b, CallbackAssumption DEF TypeOK
  <2>4. \A q \in Producers : item'[q] \notin queue' \cup delivered' \cup dropped'
    BY <1>i, <1>b, <2>1, <2>3 DEF FateInv
  <2>5. \A q \in Producers : item'[q] \in submitted' \cup {NoCallback}
    BY <1>i DEF FateInv
  <2>6. current' \notin queue' \cup delivered' \cup dropped'
    BY <1>b, <2>2 DEF FateInv
  <2>7. queue' \cap (delivered' \cup dropped') = {}
    BY <1>1, <1>b DEF FateInv
  <2>8. delivered' \cap dropped' = {} /\ queue' \cup delivered' \cup dropped' \subseteq submitted'
    BY <1>1, <1>b DEF FateInv
  <2> QED BY <2>4, <2>5, <2>6, <2>7, <2>8 DEF FateInv
<1>5. \A c \in Callbacks : place'[c] = IF c = item[p] THEN nextPlace ELSE place[c]
  BY <1>1, <1>t, <1>b
<1>6. \A c \in Callbacks : place[c] < nextPlace /\ place[c] \in Nat
  <2>1. \A c \in Callbacks : place[c] \in 0..(nextPlace - 1) BY <1>t
  <2> QED BY <1>n, <2>1
<1>7. PlaceInv'
  <2>1. \A c \in Callbacks : c \notin submitted' => place'[c] = 0
    BY <1>1, <1>5 DEF PlaceInv
  <2>2. \A q \in Producers : item'[q] # NoCallback => place'[item'[q]] = 0
    <3> SUFFICES ASSUME NEW q \in Producers, item'[q] # NoCallback PROVE place'[item'[q]] = 0
      OBVIOUS
    <3>1. q # p /\ item'[q] = item[q] BY <1>i
    <3>2. item[q] \in Callbacks /\ item[q] # item[p]
      BY <3>1, <1>t, <1>1, CallbackAssumption DEF HandsInv
    <3> QED BY <3>1, <3>2, <1>5 DEF PlaceInv
  <2>3. \A c \in queue' : c \in Callbacks /\ (c = item[p] \/ (c \in queue /\ c # item[p]))
    BY <1>1, <1>t, <1>b
  <2>4. \A c \in queue' : place'[c] > 0
    BY <1>5, <1>n, <2>3 DEF PlaceInv
  <2>5. \A c, d \in queue' : place'[c] = place'[d] => c = d
    BY <1>5, <1>6, <2>3 DEF PlaceInv
  <2> QED BY <2>1, <2>2, <2>4, <2>5 DEF PlaceInv
<1>8. IsFiniteSet(queue')
  BY <1>b, FS_Subset, FS_AddElement DEF SizeInv
<1>9. StreamStaysCurrent'
  <2> SUFFICES ASSUME ~exiting, NEW old \in dropped', NEW c \in Droppable'
               PROVE  place'[old] < place'[c]
    BY DEF StreamStaysCurrent
  <2>1. c \in Callbacks /\ old \in Callbacks BY <1>2 DEF Droppable, Callbacks, TypeOK
  <2>2. old # item[p]
    BY <1>1, <1>b, <2>1 DEF FateInv
  <2>3. CASE c = item[p] BY <2>1, <2>2, <2>3, <1>5, <1>6
  <2>4. CASE c # item[p]
    <3>1. c \in others /\ c \in Updates BY <2>4, <1>b DEF Droppable
    <3>2. c \in Droppable BY <3>1 DEF Droppable
    <3>3. place[old] < place[c] BY <3>1, <3>2 DEF StreamStaysCurrent
    <3> QED BY <3>3, <2>1, <2>2, <2>4, <1>5
  <2> QED BY <2>3, <2>4
<1> QED BY <1>2, <1>3, <1>4, <1>7, <1>8, <1>9

LEMMA PushResultInv ==
    ASSUME QueueInv, NEW p \in Producers, PushResult(p)
    PROVE  QueueInv'
<1>1. TypeOK' /\ HandsInv' /\ FateInv' /\ PlaceInv' /\ IsFiniteSet(queue') /\ StreamStaysCurrent'
  <2> DEFINE others == queue
             evicted == queue \ others
  <2>1. evicted = {} OBVIOUS
  <2>2. dropped' = dropped \cup evicted BY <2>1 DEF PushResult
  <2>3. /\ pc[p] = "push" /\ PushBack(item[p], others) /\ Return(p)
        /\ UNCHANGED <<stopped, executor, current, change, changes, exiting,
                       submitted, delivered>>
    BY DEF PushResult
  <2>4. evicted \subseteq Updates /\ others \in SUBSET queue BY <2>1
  <2>5. \A old \in evicted, c \in others \cap Updates : place[old] < place[c] BY <2>1
  <2>6. evicted = queue \ others OBVIOUS
  <2> HIDE DEF others, evicted
  <2> QED BY <2>2, <2>3, <2>4, <2>5, <2>6, PushInv
<1>2. Droppable' = Droppable
  BY CallbackAssumption DEF PushResult, PushBack, Droppable
<1>3. SizeInv' BY <1>1, <1>2 DEF QueueInv, SizeInv, UpdatesAreBounded
<1> QED BY <1>1, <1>3 DEF QueueInv

LEMMA PushUpdateInv ==
    ASSUME QueueInv, NEW p \in Producers, PushUpdate(p)
    PROVE  QueueInv'
<1> USE CallbackAssumption, NumberAssumption
<1>0. item[p] \in Updates /\ pc[p] = "push" /\ item[p] \notin queue /\ IsFiniteSet(queue)
      /\ item[p] \in Callbacks /\ queue \subseteq Callbacks
  BY DEF PushUpdate, QueueInv, FateInv, SizeInv, Callbacks, TypeOK
<1>1. CASE ~Full /\ PushBack(item[p], queue) /\ UNCHANGED dropped
  <2>1. TypeOK' /\ HandsInv' /\ FateInv' /\ PlaceInv' /\ IsFiniteSet(queue') /\ StreamStaysCurrent'
    <3> DEFINE others == queue
               evicted == queue \ others
    <3>1. evicted = {} OBVIOUS
    <3>2. dropped' = dropped \cup evicted BY <3>1, <1>1
    <3>3. /\ pc[p] = "push" /\ PushBack(item[p], others) /\ Return(p)
          /\ UNCHANGED <<stopped, executor, current, change, changes, exiting,
                         submitted, delivered>>
      BY <1>1 DEF PushUpdate
    <3>4. evicted \subseteq Updates /\ others \in SUBSET queue BY <3>1
    <3>5. \A old \in evicted, c \in others \cap Updates : place[old] < place[c] BY <3>1
    <3>6. evicted = queue \ others OBVIOUS
    <3> HIDE DEF others, evicted
    <3> QED BY <3>2, <3>3, <3>4, <3>5, <3>6, PushInv
  <2>2. Droppable' = Droppable \cup {item[p]} BY <1>0, <1>1 DEF Droppable, PushBack
  <2>3. IsFiniteSet(Droppable) /\ Cardinality(Droppable) <= Cardinality(queue)
    BY <1>0, FS_Subset DEF Droppable
  <2>4. Cardinality(queue) \in Nat /\ Cardinality(Droppable) \in Nat
    BY <1>0, <2>3, FS_CardinalityType
  <2>5. Cardinality(Droppable') = Cardinality(Droppable) + 1
    <3>1. item[p] \notin Droppable BY <1>0 DEF Droppable
    <3> QED BY <2>2, <2>3, <3>1, FS_AddElement
  <2>6. UpdatesAreBounded' BY <1>1, <2>3, <2>4, <2>5 DEF UpdatesAreBounded, Full
  <2> QED BY <2>1, <2>6 DEF QueueInv, SizeInv
<1>2. ASSUME NEW oldest \in Oldest(Droppable),
             PushBack(item[p], queue \ {oldest}),
             dropped' = dropped \cup {oldest}
      PROVE  QueueInv'
  <2>0. oldest \in queue /\ oldest \in Updates /\ oldest \in Droppable
        /\ \A c \in Droppable : place[oldest] <= place[c]
    BY <1>2 DEF Oldest, Droppable
  <2>1. TypeOK' /\ HandsInv' /\ FateInv' /\ PlaceInv' /\ IsFiniteSet(queue') /\ StreamStaysCurrent'
    <3> DEFINE others == queue \ {oldest}
               evicted == queue \ others
    <3>1. evicted = {oldest} BY <2>0
    <3>2. dropped' = dropped \cup evicted BY <3>1, <1>2
    <3>3. /\ pc[p] = "push" /\ PushBack(item[p], others) /\ Return(p)
          /\ UNCHANGED <<stopped, executor, current, change, changes, exiting,
                         submitted, delivered>>
      BY <1>2 DEF PushUpdate
    <3>4. evicted \subseteq Updates /\ others \in SUBSET queue BY <3>1, <2>0
    <3>5. \A old \in evicted, c \in others \cap Updates : place[old] < place[c]
      <4> SUFFICES ASSUME NEW c \in others \cap Updates PROVE place[oldest] < place[c]
        BY <3>1
      <4>1. c \in queue /\ c # oldest /\ c \in Droppable BY DEF Droppable
      <4>2. place[oldest] <= place[c] BY <4>1, <2>0
      <4>3. place[oldest] # place[c] BY <4>1, <2>0 DEF QueueInv, PlaceInv
      <4>4. place[oldest] \in Nat /\ place[c] \in Nat
        <5>1. place \in [Callbacks -> 0..(nextPlace - 1)] /\ nextPlace \in Nat \ {0}
          BY DEF QueueInv, TypeOK
        <5>2. oldest \in Callbacks /\ c \in Callbacks BY <4>1, <2>0, <1>0
        <5> QED BY <5>1, <5>2
      <4> QED BY <4>2, <4>3, <4>4
    <3>6. evicted = queue \ others OBVIOUS
    <3> HIDE DEF others, evicted
    <3> QED BY <3>2, <3>3, <3>4, <3>5, <3>6, PushInv
  <2>2. Droppable' = (Droppable \ {oldest}) \cup {item[p]}
    BY <1>0, <1>2 DEF Droppable, PushBack
  <2>3. IsFiniteSet(Droppable) BY <1>0, FS_Subset DEF Droppable
  <2>4. /\ IsFiniteSet(Droppable \ {oldest})
        /\ Cardinality(Droppable \ {oldest}) = Cardinality(Droppable) - 1
    BY <2>0, <2>3, FS_RemoveElement
  <2>5. Cardinality(Droppable') = Cardinality(Droppable \ {oldest}) + 1
    <3>1. item[p] \notin Droppable \ {oldest} BY <1>0 DEF Droppable
    <3> QED BY <2>2, <2>4, <3>1, FS_AddElement
  <2>6. UpdatesAreBounded'
    BY <2>3, <2>4, <2>5, FS_CardinalityType DEF UpdatesAreBounded, QueueInv, SizeInv
  <2> QED BY <2>1, <2>6 DEF QueueInv, SizeInv
<1>3. CASE Droppable = {} /\ dropped' = dropped \cup {item[p]} /\ UNCHANGED <<queueVars, thread, late>>
  <2> USE <1>3 DEF PushUpdate, Return, queueVars, QueueInv
  <2>1. TypeOK' BY <1>0 DEF TypeOK
  <2>2. \A q \in Producers : item'[q] = IF q = p THEN NoCallback ELSE item[q] BY DEF TypeOK
  <2>3. \A q \in Producers : pc'[q] = "idle" <=> q = p \/ pc[q] = "idle" BY DEF TypeOK
  <2>4. HandsInv' BY <2>2, <2>3 DEF HandsInv
  <2>5. FateInv'
    <3>1. \A q \in Producers : q # p => item[q] # item[p] \/ item[q] = NoCallback
      BY DEF HandsInv
    <3>2. current # item[p] BY <1>0 DEF HandsInv
    <3>3. \A q \in Producers : item'[q] \notin queue' \cup delivered' \cup dropped'
      BY <1>0, <2>2, <3>1 DEF FateInv, TypeOK
    <3>4. /\ current' \notin queue' \cup delivered' \cup dropped'
          /\ current' \in submitted' \cup {NoCallback}
          /\ \A q \in Producers : item'[q] \in submitted' \cup {NoCallback}
      BY <1>0, <2>2, <3>2 DEF FateInv
    <3>5. item[p] \in submitted /\ item[p] \notin queue \cup delivered \cup dropped
      BY <1>0 DEF FateInv
    <3> QED BY <1>0, <3>3, <3>4, <3>5 DEF FateInv
  <2>6. PlaceInv' BY <2>2 DEF PlaceInv
  <2>7. Droppable' = {} BY DEF Droppable
  <2>8. SizeInv' /\ StreamStaysCurrent'
    BY <2>7, FS_EmptySet DEF SizeInv, UpdatesAreBounded, StreamStaysCurrent
  <2> QED BY <2>1, <2>4, <2>5, <2>6, <2>8
<1> QED BY <1>1, <1>2, <1>3 DEF PushUpdate

\* The steps of the callback thread and of the changes never add to the queue.
LEMMA SmallerQueue ==
    ASSUME QueueInv, queue' \subseteq queue, UNCHANGED <<place, nextPlace, submitted>>,
           item' = item, exiting \/ dropped' = dropped, exiting => exiting'
    PROVE  PlaceInv' /\ SizeInv' /\ StreamStaysCurrent'
<1> USE CallbackAssumption, NumberAssumption DEF QueueInv
<1>1. PlaceInv' BY DEF PlaceInv
<1>2. Droppable' \subseteq Droppable BY DEF Droppable
<1>3. IsFiniteSet(queue) /\ IsFiniteSet(queue') /\ IsFiniteSet(Droppable)
  BY FS_Subset DEF SizeInv, Droppable
<1>4. Cardinality(Droppable') <= Cardinality(Droppable) BY <1>2, <1>3, FS_Subset
<1>5. IsFiniteSet(Droppable') BY <1>2, <1>3, FS_Subset
<1>6. SizeInv'
  BY <1>3, <1>4, <1>5, FS_CardinalityType DEF SizeInv, UpdatesAreBounded
<1>7. StreamStaysCurrent' BY <1>2 DEF StreamStaysCurrent
<1> QED BY <1>1, <1>6, <1>7

LEMMA ThreadInv ==
    ASSUME QueueInv, ThreadStep \/ SpuriousWakeup
    PROVE  QueueInv'
<1> USE CallbackAssumption, NumberAssumption
        DEF ThreadStep, queueVars, producerVars, threadVars, history
<1>1. CASE Take
  <2>1. PICK c \in Oldest(queue) : queue' = queue \ {c} /\ current' = c BY <1>1 DEF Take
  <2>2. c \in queue /\ c \in Callbacks BY <2>1 DEF Oldest, QueueInv, TypeOK
  <2>3. TypeOK' BY <1>1, <2>1, <2>2 DEF Take, QueueInv, TypeOK, ThreadStates
  <2>4. HandsInv' BY <1>1, <2>1, <2>2 DEF Take, QueueInv, HandsInv, FateInv
  <2>5. FateInv' BY <1>1, <2>1, <2>2 DEF Take, QueueInv, FateInv
  <2>6. PlaceInv' /\ SizeInv' /\ StreamStaysCurrent' BY <1>1, <2>1, SmallerQueue DEF Take
  <2> QED BY <2>3, <2>4, <2>5, <2>6 DEF QueueInv
<1>2. CASE Wait \/ Leave \/ CallbackReturns \/ SpuriousWakeup
  <2> USE <1>2 DEF Wait, Leave, CallbackReturns, SpuriousWakeup
  <2>1. TypeOK' BY DEF QueueInv, TypeOK, ThreadStates
  <2>2. HandsInv' BY DEF QueueInv, HandsInv
  <2>3. FateInv' BY DEF QueueInv, FateInv
  <2>4. PlaceInv' /\ SizeInv' /\ StreamStaysCurrent'
    <3>1. /\ UNCHANGED <<queue, place, nextPlace, submitted>>
          /\ item' = item /\ dropped' = dropped /\ exiting' = exiting
      OBVIOUS
    <3>2. queue' \subseteq queue /\ (exiting => exiting') BY <3>1
    <3> HIDE DEF StopThread, ExitStop, Stop, Notify
    <3> QED BY <3>1, <3>2, SmallerQueue
  <2> QED BY <2>1, <2>2, <2>3, <2>4 DEF QueueInv
<1>3. CASE Invoke
  <2>0. current \in Callbacks /\ current # NoCallback
    BY <1>3 DEF Invoke, QueueInv, HandsInv, TypeOK
  <2>1. TypeOK' BY <1>3, <2>0 DEF Invoke, QueueInv, TypeOK, ThreadStates
  <2>2. HandsInv' BY <1>3 DEF Invoke, QueueInv, HandsInv
  <2>3. \A p \in Producers : item[p] # current BY <2>0 DEF QueueInv, HandsInv
  <2>4. FateInv'
    <3>1. current \in submitted /\ current \notin queue \cup delivered \cup dropped
      BY <2>0 DEF QueueInv, FateInv
    <3>2. NoCallback \notin queue \cup delivered \cup dropped \cup {current}
      BY <2>0 DEF QueueInv, TypeOK
    <3>3. CASE exiting
      <4>1. dropped' = dropped \cup {current} /\ UNCHANGED <<delivered, queue, item, submitted, exiting>>
            /\ current' = NoCallback
        BY <1>3, <3>3 DEF Invoke
      <4> QED BY <2>3, <3>1, <3>2, <3>3, <4>1 DEF QueueInv, FateInv
    <3>4. CASE ~exiting
      <4>1. delivered' = delivered \cup {current} /\ UNCHANGED <<dropped, queue, item, submitted, exiting>>
            /\ current' = NoCallback
        BY <1>3, <3>4 DEF Invoke
      <4> QED BY <2>3, <3>1, <3>2, <4>1 DEF QueueInv, FateInv
    <3> QED BY <3>3, <3>4
  <2>5. PlaceInv' /\ SizeInv' /\ StreamStaysCurrent' BY <1>3, SmallerQueue DEF Invoke
  <2> QED BY <2>1, <2>2, <2>4, <2>5 DEF QueueInv
<1> QED BY <1>1, <1>2, <1>3

LEMMA ChangeInv ==
    ASSUME QueueInv, StepInv, ChangeStep \/ (\E new \in BOOLEAN : SetExecutor(new)) \/ Exit \/ ExitStop
    PROVE  QueueInv'
<1> USE CallbackAssumption, NumberAssumption
        DEF ChangeStep, queueVars, producerVars, threadVars, history
<1>1. CASE Drain
  <2>1. TypeOK' BY <1>1 DEF Drain, QueueInv, TypeOK, ChangeStates
  <2>2. HandsInv' BY <1>1 DEF Drain, QueueInv, HandsInv
  <2>3. FateInv' BY <1>1 DEF Drain, QueueInv, FateInv
  <2>4. PlaceInv' /\ SizeInv' /\ StreamStaysCurrent' BY <1>1, SmallerQueue DEF Drain
  <2> QED BY <2>1, <2>2, <2>3, <2>4 DEF QueueInv
<1>2. CASE StopThread \/ ExitStop
  <2> USE <1>2 DEF StopThread, ExitStop, Stop, Notify
  <2>1. TypeOK' BY DEF QueueInv, TypeOK, ChangeStates, ThreadStates
  <2>2. HandsInv' BY DEF QueueInv, HandsInv
  <2>3. FateInv' BY DEF QueueInv, FateInv
  <2>4. PlaceInv' /\ SizeInv' /\ StreamStaysCurrent'
    <3>1. /\ queue' \subseteq queue /\ UNCHANGED <<place, nextPlace, submitted>>
          /\ item' = item /\ dropped' = dropped /\ exiting' = exiting
      OBVIOUS
    <3>2. queue' \subseteq queue /\ (exiting => exiting') BY <3>1
    <3> HIDE DEF StopThread, ExitStop, Stop, Notify
    <3> QED BY <3>1, <3>2, SmallerQueue
  <2> QED BY <2>1, <2>2, <2>3, <2>4 DEF QueueInv
<1>3. CASE JoinThread
  <2> USE <1>3 DEF JoinThread
  <2>1. TypeOK' BY DEF QueueInv, TypeOK, ChangeStates, ThreadStates
  <2>2. HandsInv' BY DEF QueueInv, HandsInv
  <2>3. FateInv' BY DEF QueueInv, FateInv
  <2>4. PlaceInv' /\ SizeInv' /\ StreamStaysCurrent' BY SmallerQueue
  <2> QED BY <2>1, <2>2, <2>3, <2>4 DEF QueueInv
<1>4. CASE StartThread
  <2>u. UNCHANGED <<queueVars, executor, current, producerVars, changes, exiting, history>>
    BY <1>4 DEF StartThread
  <2>1. TypeOK' BY <1>4 DEF StartThread, QueueInv, TypeOK, ChangeStates, ThreadStates
  <2>2. HandsInv'
    <3>1. thread # "taken" /\ thread' = "loop" BY <1>4 DEF StartThread, StepInv
    <3> QED BY <2>u, <3>1 DEF QueueInv, HandsInv
  <2>3. FateInv' BY <2>u DEF QueueInv, FateInv
  <2>4. PlaceInv' /\ SizeInv' /\ StreamStaysCurrent'
    <3>1. /\ queue' \subseteq queue /\ UNCHANGED <<place, nextPlace, submitted>>
          /\ item' = item /\ dropped' = dropped /\ (exiting => exiting')
      BY <2>u
    <3> QED BY <3>1, SmallerQueue
  <2> QED BY <2>1, <2>2, <2>3, <2>4 DEF QueueInv
<1>5. ASSUME NEW new \in BOOLEAN, SetExecutor(new) PROVE QueueInv'
  <2>u. /\ UNCHANGED <<queueVars, stopped, threadVars, producerVars, exiting, history>>
        /\ executor' = new /\ changes' = changes + 1 /\ changes < MaxChanges
    BY <1>5 DEF SetExecutor
  <2>0. change' \in ChangeStates BY <1>5 DEF SetExecutor, ChangeStates
  <2>1. changes' \in 0..MaxChanges
    <3>1. changes \in 0..MaxChanges BY DEF QueueInv, TypeOK
    <3> QED BY <2>u, <3>1
  <2>2. TypeOK' BY <2>u, <2>0, <2>1 DEF QueueInv, TypeOK
  <2>3. HandsInv' BY <2>u DEF QueueInv, HandsInv
  <2>4. FateInv' BY <2>u DEF QueueInv, FateInv
  <2>5. PlaceInv' /\ SizeInv' /\ StreamStaysCurrent' BY <2>u, SmallerQueue
  <2> QED BY <2>2, <2>3, <2>4, <2>5 DEF QueueInv
<1>6. CASE Exit
  <2> USE <1>6 DEF Exit
  <2>1. TypeOK' BY DEF QueueInv, TypeOK, ChangeStates
  <2>2. HandsInv' BY DEF QueueInv, HandsInv
  <2>3. FateInv' BY DEF QueueInv, FateInv
  <2>4. PlaceInv' /\ SizeInv' /\ StreamStaysCurrent' BY SmallerQueue
  <2> QED BY <2>1, <2>2, <2>3, <2>4 DEF QueueInv
<1> QED BY <1>1, <1>2, <1>3, <1>4, <1>5, <1>6
LEMMA ExitDoneInv ==
    ASSUME QueueInv, StepInv, ExitDone
    PROVE  QueueInv'
<1> USE CallbackAssumption, NumberAssumption DEF ExitDone, producerVars
<1>0. exiting BY DEF StepInv
<1>1. TypeOK' BY DEF QueueInv, TypeOK, ChangeStates, ThreadStates
<1>2. HandsInv'
  <2>1. thread # "taken" /\ thread' # "taken" /\ UNCHANGED <<current, pc, item>>
    OBVIOUS
  <2> QED BY <2>1 DEF QueueInv, HandsInv
<1>3. FateInv' BY <1>0 DEF QueueInv, FateInv
<1>4. PlaceInv' /\ SizeInv' /\ StreamStaysCurrent' BY <1>0, SmallerQueue
<1> QED BY <1>1, <1>2, <1>3, <1>4 DEF QueueInv

THEOREM QueueInvariance == Spec => []QueueInv
<1>1. QueueInv /\ StepInv /\ [Next]_vars => QueueInv'
  <2> SUFFICES ASSUME QueueInv, StepInv, [Next]_vars PROVE QueueInv' OBVIOUS
  <2>1. ASSUME NEW p \in Producers, \/ \E c \in Callbacks : Enqueue(p, c)
                                    \/ ProducerStep(p)
        PROVE  QueueInv'
    BY <2>1, EnqueueInv, HandOverInv, PushResultInv, PushUpdateInv DEF ProducerStep
  <2>2. CASE ThreadStep \/ SpuriousWakeup BY <2>2, ThreadInv
  <2>3. CASE ChangeStep \/ (\E new \in BOOLEAN : SetExecutor(new)) \/ Exit \/ ExitStop
    BY <2>3, ChangeInv
  <2>4. CASE ExitDone BY <2>4, ExitDoneInv
  <2>5. CASE UNCHANGED vars
    <3> USE <2>5 DEF vars, queueVars, threadVars, producerVars, history
    <3>1. TypeOK' BY DEF QueueInv, TypeOK
    <3>2. HandsInv' BY DEF QueueInv, HandsInv
    <3>3. FateInv' BY DEF QueueInv, FateInv
    <3>4. PlaceInv' /\ SizeInv' /\ StreamStaysCurrent' BY SmallerQueue
    <3> QED BY <3>1, <3>2, <3>3, <3>4 DEF QueueInv
  <2> QED BY <2>1, <2>2, <2>3, <2>4, <2>5 DEF Next, ExitStep
<1> QED BY <1>1, InitQueueInv, StepInvariance, PTL DEF Spec

\* The types of the variables.
THEOREM QueueTypeCorrect == Spec => []TypeOK
<1>1. QueueInv => TypeOK BY DEF QueueInv
<1> QED BY <1>1, QueueInvariance, PTL

\* locked_queue.hpp:30 - at most max_size droppable entries.
THEOREM UpdatesBounded == Spec => []UpdatesAreBounded
<1>1. QueueInv => UpdatesAreBounded BY DEF QueueInv, SizeInv
<1> QED BY <1>1, QueueInvariance, PTL

\* locked_queue.hpp:31 - what gets through stays current.
THEOREM StreamCurrent == Spec => []StreamStaysCurrent
<1>1. QueueInv => StreamStaysCurrent BY DEF QueueInv
<1> QED BY <1>1, QueueInvariance, PTL

-----------------------------------------------------------------------------
(***************************************************************************)
(* The refinement                                                          *)
(***************************************************************************)

Pending == queue \cup (InHand \ {NoCallback})

\* A step that leaves the hands and the fates alone is a stutter.
LEMMA Stutter ==
    ASSUME Pending' = Pending, UNCHANGED <<delivered, dropped, exiting>>
    PROVE  UNCHANGED Delivery!vars
BY DEF Delivery!vars, Pending

LEMMA InitRefines == Init => Delivery!Init
<1> SUFFICES ASSUME Init PROVE Delivery!Init OBVIOUS
<1>1. Pending = {} BY DEF Init, Pending, InHand
<1> QED BY <1>1 DEF Init, Delivery!Init, Pending

LEMMA ProducerRefines ==
    ASSUME QueueInv, NEW p \in Producers,
           (\E c \in Callbacks : Enqueue(p, c)) \/ ProducerStep(p)
    PROVE  Delivery!Next \/ UNCHANGED Delivery!vars
<1> USE CallbackAssumption DEF threadVars, queueVars
<1>t. /\ item \in [Producers -> Callbacks \cup {NoCallback}]
      /\ pc \in [Producers -> {"idle", "push", "hand over"}]
  BY DEF QueueInv, TypeOK
<1>1. ASSUME NEW c \in Callbacks, Enqueue(p, c) PROVE Delivery!Next
  <2>1. /\ pc[p] = "idle" /\ item' = [item EXCEPT ![p] = c] /\ c \notin submitted /\ ~exiting
        /\ UNCHANGED <<queue, current, delivered, dropped, exiting>>
    BY <1>1 DEF Enqueue, IsNext
  <2>2. item[p] = NoCallback BY <2>1 DEF QueueInv, HandsInv
  <2>3. \A q \in Producers : item'[q] = IF q = p THEN c ELSE item[q] BY <1>t, <2>1
  <2>4. InHand' \ {NoCallback} = (InHand \ {NoCallback}) \cup {c}
    BY <2>1, <2>2, <2>3 DEF InHand
  <2>5. Pending' = Pending \cup {c} BY <2>1, <2>4 DEF Pending
  <2>6. c \notin Pending \cup delivered \cup dropped
    BY <2>1 DEF Pending, InHand, QueueInv, FateInv
  <2>7. Delivery!Submit(c) BY <2>1, <2>5, <2>6 DEF Delivery!Submit, Pending
  <2> QED BY <2>7 DEF Delivery!Next, Delivery!Callbacks, Callbacks
<1>2. ASSUME NEW c \in Callbacks, c = item[p], item' = [item EXCEPT ![p] = NoCallback],
             UNCHANGED current
      PROVE  InHand' \ {NoCallback} = (InHand \ {NoCallback}) \ {c} /\ c \in Pending
  <2>1. \A q \in Producers : item'[q] = IF q = p THEN NoCallback ELSE item[q] BY <1>t, <1>2
  <2>2. \A q \in Producers : q # p => item[q] # c
    BY <1>2 DEF QueueInv, HandsInv
  <2>3. current # c BY <1>2 DEF QueueInv, HandsInv
  <2> QED BY <1>2, <2>1, <2>2, <2>3 DEF InHand, Pending
<1>3. pc[p] # "idle" => item[p] \in Callbacks BY <1>t DEF QueueInv, HandsInv
<1>4. CASE HandOver(p)
  <2>1. /\ item[p] \in Callbacks /\ item' = [item EXCEPT ![p] = NoCallback]
        /\ delivered' = delivered \cup {item[p]}
        /\ UNCHANGED <<queue, current, dropped, exiting>>
    BY <1>3, <1>4 DEF HandOver, Return
  <2>2. item[p] \notin queue BY DEF QueueInv, FateInv
  <2>3. Pending' = Pending \ {item[p]} /\ item[p] \in Pending
    BY <1>2, <2>1, <2>2 DEF Pending
  <2>4. Delivery!Deliver({item[p]}) BY <2>1, <2>3 DEF Delivery!Deliver, Pending
  <2> QED BY <2>3, <2>4 DEF Delivery!Next, Pending
<1>5. CASE PushResult(p)
  <2>1. /\ item[p] \in Callbacks /\ item' = [item EXCEPT ![p] = NoCallback]
        /\ queue' = queue \cup {item[p]}
        /\ UNCHANGED <<current, delivered, dropped, exiting>>
    BY <1>3, <1>5 DEF PushResult, PushBack, Return
  <2>2. Pending' = Pending BY <1>2, <2>1 DEF Pending
  <2> QED BY <2>1, <2>2, Stutter
<1>6. CASE PushUpdate(p)
  <2>1. /\ item[p] \in Callbacks /\ item' = [item EXCEPT ![p] = NoCallback]
        /\ item[p] \in Updates /\ item[p] \notin queue
        /\ UNCHANGED <<current, delivered, exiting>>
    BY <1>3, <1>6 DEF PushUpdate, Return, QueueInv, FateInv
  <2>2. InHand' \ {NoCallback} = (InHand \ {NoCallback}) \ {item[p]} /\ item[p] \in Pending
    BY <1>2, <2>1
  <2>3. CASE queue' = queue \cup {item[p]} /\ UNCHANGED dropped
    <3>1. Pending' = Pending BY <2>2, <2>3 DEF Pending
    <3> QED BY <2>1, <2>3, <3>1, Stutter
  <2>4. ASSUME NEW oldest \in queue \cap Updates,
               queue' = (queue \ {oldest}) \cup {item[p]}, dropped' = dropped \cup {oldest}
        PROVE  Delivery!Next
    <3>1. oldest \notin InHand
      BY <2>4 DEF InHand, QueueInv, FateInv
    <3>2. Pending' = Pending \ {oldest} /\ oldest \in Pending
      BY <2>1, <2>2, <2>4, <3>1 DEF Pending
    <3>3. Delivery!Drop({oldest}) BY <2>1, <2>4, <3>2 DEF Delivery!Drop, Pending
    <3> QED BY <3>2, <3>3 DEF Delivery!Next, Pending
  <2>5. CASE UNCHANGED queue /\ dropped' = dropped \cup {item[p]}
    <3>1. Pending' = Pending \ {item[p]} BY <2>1, <2>2, <2>5 DEF Pending
    <3>2. Delivery!Drop({item[p]}) BY <2>1, <2>2, <2>5, <3>1 DEF Delivery!Drop, Pending
    <3> QED BY <2>2, <3>2 DEF Delivery!Next, Pending
  <2> QED BY <1>6, <2>3, <2>4, <2>5 DEF PushUpdate, PushBack, Oldest, Droppable
<1> QED BY <1>1, <1>4, <1>5, <1>6 DEF ProducerStep

LEMMA OtherRefines ==
    ASSUME QueueInv, StepInv,
           \/ ThreadStep \/ SpuriousWakeup
           \/ \E new \in BOOLEAN : SetExecutor(new)
           \/ ChangeStep \/ Exit \/ ExitStep
    PROVE  Delivery!Next \/ UNCHANGED Delivery!vars
<1> USE CallbackAssumption DEF threadVars, queueVars, producerVars, history
<1>1. CASE Take
  <2>1. PICK c \in queue : queue' = queue \ {c} /\ current' = c
    BY <1>1 DEF Take, Oldest
  <2>2. UNCHANGED <<item, delivered, dropped, exiting>> BY <1>1 DEF Take
  <2>3. current = NoCallback BY <1>1 DEF Take, QueueInv, HandsInv
  <2>4. c # NoCallback BY DEF QueueInv, TypeOK
  <2>5. Pending' = Pending BY <2>1, <2>2, <2>3, <2>4 DEF Pending, InHand
  <2> QED BY <2>2, <2>5, Stutter
<1>2. CASE Invoke
  <2>1. current # NoCallback /\ current \notin queue
    BY <1>2 DEF Invoke, QueueInv, HandsInv, FateInv
  <2>2. \A p \in Producers : item[p] # current
    BY <2>1 DEF QueueInv, HandsInv
  <2>3. current' = NoCallback /\ UNCHANGED <<queue, item, exiting>> BY <1>2 DEF Invoke
  <2>4. Pending' = Pending \ {current} /\ current \in Pending
    BY <2>1, <2>2, <2>3 DEF Pending, InHand
  <2>5. CASE exiting
    <3>1. Delivery!Drop({current})
      BY <1>2, <2>3, <2>4, <2>5 DEF Invoke, Delivery!Drop, Pending
    <3> QED BY <2>4, <3>1 DEF Delivery!Next, Pending
  <2>6. CASE ~exiting
    <3>1. Delivery!Deliver({current})
      BY <1>2, <2>3, <2>4, <2>6 DEF Invoke, Delivery!Deliver, Pending
    <3> QED BY <2>4, <3>1 DEF Delivery!Next, Pending
  <2> QED BY <2>5, <2>6
<1>3. CASE Drain
  <2>1. /\ queue' = {} /\ delivered' = delivered \cup queue
        /\ UNCHANGED <<current, item, dropped, exiting>>
    BY <1>3 DEF Drain
  <2>2. InHand' = InHand /\ InHand \cap queue = {} BY <2>1 DEF InHand, QueueInv, FateInv
  <2>3. Pending' = Pending \ queue /\ queue \in SUBSET Pending BY <2>1, <2>2 DEF Pending
  <2>4. Delivery!Deliver(queue) BY <2>1, <2>3 DEF Delivery!Deliver, Pending
  <2> QED BY <2>3, <2>4 DEF Delivery!Next, Pending
<1>4. CASE ExitDone
  <2>1. /\ queue' = {} /\ dropped' = dropped \cup queue
        /\ UNCHANGED <<current, item, delivered, exiting>>
    BY <1>4 DEF ExitDone
  <2>2. InHand' = InHand /\ InHand \cap queue = {} BY <2>1 DEF InHand, QueueInv, FateInv
  <2>3. Pending' = Pending \ queue /\ queue \in SUBSET Pending BY <2>1, <2>2 DEF Pending
  <2>4. exiting BY <1>4 DEF ExitDone, StepInv
  <2>5. Delivery!Drop(queue) BY <2>1, <2>3, <2>4 DEF Delivery!Drop, Pending
  <2> QED BY <2>3, <2>5 DEF Delivery!Next, Pending
<1>5. CASE Exit
  <2>1. ~exiting /\ exiting' = TRUE /\ UNCHANGED <<queue, current, item, delivered, dropped>>
    BY <1>5 DEF Exit
  <2>2. Pending' = Pending BY <2>1 DEF Pending, InHand
  <2>3. Delivery!Close BY <2>1, <2>2 DEF Delivery!Close, Pending
  <2> QED BY <2>3 DEF Delivery!Next
<1>6. CASE \/ Wait \/ Leave \/ CallbackReturns \/ SpuriousWakeup
           \/ StopThread \/ JoinThread \/ StartThread \/ ExitStop
           \/ \E new \in BOOLEAN : SetExecutor(new)
  <2>1. UNCHANGED <<queue, current, item, delivered, dropped, exiting>>
    BY <1>6 DEF Wait, Leave, CallbackReturns, SpuriousWakeup, StopThread, JoinThread,
                StartThread, ExitStop, SetExecutor, Stop
  <2>2. Pending' = Pending BY <2>1 DEF Pending, InHand
  <2> QED BY <2>1, <2>2, Stutter
<1> QED BY <1>1, <1>2, <1>3, <1>4, <1>5, <1>6 DEF ThreadStep, ChangeStep, ExitStep

\* THREADING.md:152 - each callback is called at most once, and results are not
\* given up, whatever queue, thread and executors do.
THEOREM QueueImplementsDelivery == Spec => ImplementsDelivery
<1>1. QueueInv /\ StepInv /\ [Next]_vars => [Delivery!Next]_(Delivery!vars)
  <2> SUFFICES ASSUME QueueInv, StepInv, [Next]_vars
               PROVE  Delivery!Next \/ UNCHANGED Delivery!vars
    OBVIOUS
  <2>1. CASE UNCHANGED vars
    <3>1. UNCHANGED <<queue, current, item, delivered, dropped, exiting>>
      BY <2>1 DEF vars, queueVars, threadVars, producerVars, history
    <3>2. Pending' = Pending BY <3>1 DEF Pending, InHand
    <3> QED BY <3>1, <3>2, Stutter
  <2> QED BY <2>1, ProducerRefines, OtherRefines DEF Next
<1> QED BY <1>1, InitRefines, QueueInvariance, StepInvariance, PTL
        DEF Spec, ImplementsDelivery, Delivery!Spec

\* What the contract amounts to: a callback is called or given up, never both
\* and never twice, and a result is not given up while the instance lives.
THEOREM OneFateOnly == Spec => []Delivery!OneFate
<1>1. QueueInv => Delivery!OneFate
  <2> SUFFICES ASSUME QueueInv PROVE Delivery!OneFate OBVIOUS
  <2>1. Pending \cap (delivered \cup dropped) = {}
    BY DEF QueueInv, FateInv, Pending, InHand
  <2> QED BY <2>1 DEF QueueInv, FateInv, Delivery!OneFate, Pending
<1> QED BY <1>1, QueueInvariance, PTL
=============================================================================
