------------------------- MODULE CommandSenderProofs -------------------------
(***************************************************************************)
(* Proofs about CommandSender: for any calls, identifications, retries and *)
(* acks, a command that was sent and is still queued has a timeout, and of *)
(* each command id at most one queued command was sent by do_work.         *)
(*                                                                         *)
(* The first is not inductive.  receive_timeout removes the timeout that   *)
(* fired and walks over the queue, but stops at the first command it gives *)
(* up: the command whose timeout it was must not be behind that one.  It   *)
(* is not, as do_work only sends the first command of an id (SentIsFirst), *)
(* and what is pushed later gets a later place (PlacesAreOld).  And a call *)
(* must not enter the queue as sent already, which needs that each call is *)
(* posted once (PostedIsNew).                                              *)
(***************************************************************************)
EXTENDS CommandSender, SequenceTheorems, TLAPS

\* do_work sends the first queued command of an id, and only that.
SentIsFirst ==
    \A w \in queue \cap sent : \A v \in queue \ {w} :
        Command(v) = Command(w) => v \notin sent /\ Before(w, v)

\* What is pushed later gets a later place.
PlacesAreOld == \A w \in queue : position[w] <= pushed

\* A call whose enqueue task is pending is new, and has only that task.
PostedIsNew ==
    /\ queue \cup sent \subseteq called
    /\ \A i \in DOMAIN tasks :
          tasks[i] \in Works => tasks[i] \in called \ (queue \cup sent)
    /\ \A i, j \in DOMAIN tasks :
          tasks[i] \in Works /\ tasks[i] = tasks[j] => i = j

SenderInv ==
    /\ TypeOK
    /\ SentHasTimeout
    /\ SentIsFirst
    /\ PlacesAreOld
    /\ PostedIsNew

-----------------------------------------------------------------------------

\* Nothing is queued at first.
LEMMA InitSenderInv == Init => SenderInv
<1> SUFFICES ASSUME Init PROVE SenderInv
  OBVIOUS
<1>1. TypeOK
  BY NumberAssumption DEF Init, TypeOK
<1>2. SentHasTimeout /\ SentIsFirst /\ PlacesAreOld /\ PostedIsNew
  BY DEF Init, SentHasTimeout, SentIsFirst, PlacesAreOld, PostedIsNew
<1> QED
  BY <1>1, <1>2 DEF SenderInv

\* What a new timeout for each of `works' does to the cookies and timers.
LEMMA RegisterTimeoutsFacts ==
    ASSUME TypeOK,
           NEW works \in SUBSET Works,
           NEW keep \in SUBSET timers,
           RegisterTimeouts(works, keep)
    PROVE  /\ cookie' \in [Works -> Nat]
           /\ timers' \subseteq Works \X (Nat \ {0})
           /\ \A w \in works : <<w, cookie'[w]>> \in timers'
           /\ \A w \in Works \ works : cookie'[w] = cookie[w]
           /\ keep \subseteq timers'
  BY DEF RegisterTimeouts, TypeOK

\* Counting transmissions keeps their type.
LEMMA TransmitFacts ==
    ASSUME TypeOK, NEW works \in SUBSET Works, Transmit(works)
    PROVE  attempts' \in [Works -> Nat]
  BY DEF Transmit, TypeOK

\* Queueing a result keeps the type of the results.
LEMMA CallCallbackFacts ==
    ASSUME TypeOK, NEW w \in Works, NEW result \in Results, CallCallback(w, result)
    PROVE  results' \in [Works -> Seq(Results)]
<1>1. results[w] \in Seq(Results)
  BY DEF TypeOK
<1>2. Append(results[w], result) \in Seq(Results)
  BY <1>1, AppendProperties
<1> QED
  BY <1>2 DEF CallCallback, TypeOK

\* Posting do_work adds no call to the tasks.
LEMMA PostDoWorkFacts ==
    ASSUME TypeOK, PostedIsNew, PostDoWork,
           queue' \subseteq queue, UNCHANGED <<sent, called>>
    PROVE  /\ tasks' \in Seq(Works \cup {"do_work"})
           /\ PostedIsNew'
<1>1. tasks \in Seq(Works \cup {"do_work"}) /\ tasks' = Append(tasks, "do_work")
  BY DEF TypeOK, PostDoWork
<1>2. /\ tasks' \in Seq(Works \cup {"do_work"})
      /\ Len(tasks') = Len(tasks) + 1
      /\ \A i \in 1..Len(tasks) : tasks'[i] = tasks[i]
      /\ tasks'[Len(tasks) + 1] = "do_work"
  BY <1>1, AppendProperties
<1>3. DOMAIN tasks = 1..Len(tasks) /\ DOMAIN tasks' = 1..Len(tasks')
  BY <1>1, <1>2, LenProperties
<1>4. Len(tasks) \in Nat
  BY <1>1, LenProperties
<1>5. \A i \in DOMAIN tasks' :
         tasks'[i] \in Works => i \in DOMAIN tasks /\ tasks'[i] = tasks[i]
  BY <1>2, <1>3, <1>4, CallAssumption
<1>6. PostedIsNew'
  BY <1>5 DEF PostedIsNew
<1> QED
  BY <1>2, <1>6

\* Taking the first task leaves the others.
LEMMA TakeTaskFacts ==
    ASSUME TypeOK, tasks # <<>>, tasks' = Tail(tasks)
    PROVE  /\ tasks' \in Seq(Works \cup {"do_work"})
           /\ Head(tasks) \in Works \cup {"do_work"}
           /\ Head(tasks) = tasks[1] /\ 1 \in DOMAIN tasks
           /\ \A i \in DOMAIN tasks' : /\ i + 1 \in DOMAIN tasks
                                       /\ i + 1 # 1
                                       /\ i \in Int
                                       /\ tasks'[i] = tasks[i + 1]
<1>1. tasks \in Seq(Works \cup {"do_work"})
  BY DEF TypeOK
<1>2. /\ Head(tasks) \in Works \cup {"do_work"}
      /\ Tail(tasks) \in Seq(Works \cup {"do_work"})
      /\ Len(Tail(tasks)) = Len(tasks) - 1
      /\ \A i \in 1..Len(Tail(tasks)) : Tail(tasks)[i] = tasks[i + 1]
  BY <1>1, HeadTailProperties
<1>3. DOMAIN tasks = 1..Len(tasks) /\ DOMAIN tasks' = 1..Len(tasks')
  BY <1>1, <1>2, LenProperties
<1>4. Len(tasks) \in Nat /\ Len(tasks) # 0
  BY <1>1, EmptySeq, LenProperties
<1>5. Head(tasks) = tasks[1]
  BY <1>1
<1> QED
  BY <1>2, <1>3, <1>4, <1>5

\* One pass of do_work over the queue q: what it sends gets a timeout and is
\* the first, and the only one sent, of its command id.
LEMMA DoWorkKeeps ==
    ASSUME TypeOK,
           NEW q \in SUBSET Works,
           NEW pos \in [Works -> Nat],
           \A w \in q \cap sent : <<w, cookie[w]>> \in timers,
           \A w \in q \cap sent : \A v \in q \ {w} :
               Command(v) = Command(w) => v \notin sent /\ pos[w] < pos[v],
           DoWork(q, pos)
    PROVE  /\ queue' = q /\ position' = pos
           /\ sent \subseteq sent' /\ sent' \subseteq sent \cup q
           /\ cookie' \in [Works -> Nat]
           /\ timers' \subseteq Works \X (Nat \ {0})
           /\ attempts' \in [Works -> Nat]
           /\ SentHasTimeout'
           /\ SentIsFirst'
<1> DEFINE S == ToSend(q, pos)
<1>1. /\ queue' = q /\ position' = pos /\ sent' = sent \cup S
      /\ Transmit(S) /\ RegisterTimeouts(S, timers)
  BY DEF DoWork
<1>2. S \subseteq q /\ S \subseteq Works /\ S \cap sent = {}
  BY DEF ToSend
<1>3. attempts' \in [Works -> Nat]
  BY <1>1, <1>2, TransmitFacts
<1>4. /\ cookie' \in [Works -> Nat]
      /\ timers' \subseteq Works \X (Nat \ {0})
      /\ \A w \in S : <<w, cookie'[w]>> \in timers'
      /\ \A w \in Works \ S : cookie'[w] = cookie[w]
      /\ timers \subseteq timers'
  BY <1>1, <1>2, RegisterTimeoutsFacts
<1>5. SentHasTimeout'
  <2> SUFFICES ASSUME NEW w \in q \cap (sent \cup S)
               PROVE  <<w, cookie'[w]>> \in timers'
    BY <1>1 DEF SentHasTimeout
  <2>1. CASE w \in S
    BY <2>1, <1>4
  <2>2. CASE w \notin S
    <3>1. cookie'[w] = cookie[w] /\ <<w, cookie[w]>> \in timers
      BY <2>2, <1>4
    <3> QED
      BY <3>1, <1>4
  <2> QED
    BY <2>1, <2>2
<1>6. SentIsFirst'
  <2> SUFFICES ASSUME NEW w \in q \cap (sent \cup S), NEW v \in q \ {w},
                      Command(v) = Command(w)
               PROVE  v \notin sent \cup S /\ pos[w] < pos[v]
    BY <1>1 DEF SentIsFirst, Before
  <2>1. \A x \in S : \A y \in q \ {x} :
           Command(y) = Command(x) => y \notin sent /\ pos[x] < pos[y]
    BY DEF ToSend
  <2>2. pos[v] \in Nat /\ pos[w] \in Nat
    OBVIOUS
  <2>3. v \notin sent /\ pos[w] < pos[v]
    BY <2>1
  <2>4. v \notin S
    <3> SUFFICES ASSUME v \in S PROVE FALSE
      OBVIOUS
    <3>1. pos[v] < pos[w]
      BY <2>1
    <3> QED
      BY <3>1, <2>2, <2>3
  <2> QED
    BY <2>3, <2>4
<1> QED
  BY <1>1, <1>2, <1>3, <1>4, <1>5, <1>6

-----------------------------------------------------------------------------

\* A posted do_work keeps the invariant.
LEMMA DoWorkPostedKeepsInv == SenderInv /\ DoWorkPosted => SenderInv'
<1> SUFFICES ASSUME SenderInv, DoWorkPosted PROVE SenderInv'
  OBVIOUS
<1>1. /\ TypeOK /\ tasks # <<>> /\ tasks' = Tail(tasks)
      /\ DoWork(queue, position)
      /\ UNCHANGED <<pushed, retries, called, results, acks>>
  BY DEF SenderInv, DoWorkPosted
<1>2. queue \in SUBSET Works /\ position \in [Works -> Nat]
  BY <1>1 DEF TypeOK
<1>3. /\ \A w \in queue \cap sent : <<w, cookie[w]>> \in timers
      /\ \A w \in queue \cap sent : \A v \in queue \ {w} :
            Command(v) = Command(w) => v \notin sent /\ position[w] < position[v]
  BY DEF SenderInv, SentHasTimeout, SentIsFirst, Before
<1>4. /\ queue' = queue /\ position' = position
      /\ sent \subseteq sent' /\ sent' \subseteq sent \cup queue
      /\ cookie' \in [Works -> Nat]
      /\ timers' \subseteq Works \X (Nat \ {0})
      /\ attempts' \in [Works -> Nat]
      /\ SentHasTimeout'
      /\ SentIsFirst'
  BY <1>1, <1>2, <1>3, DoWorkKeeps
<1>5. /\ tasks' \in Seq(Works \cup {"do_work"})
      /\ \A i \in DOMAIN tasks' : i + 1 \in DOMAIN tasks /\ i \in Int
                                  /\ tasks'[i] = tasks[i + 1]
  BY <1>1, TakeTaskFacts
<1>6. TypeOK'
  BY <1>1, <1>2, <1>4, <1>5 DEF TypeOK
<1>7. PlacesAreOld'
  BY <1>1, <1>4 DEF SenderInv, PlacesAreOld
<1>8. PostedIsNew'
  <2>1. /\ queue \cup sent \subseteq called
        /\ \A i \in DOMAIN tasks :
              tasks[i] \in Works => tasks[i] \in called \ (queue \cup sent)
        /\ \A i, j \in DOMAIN tasks :
              tasks[i] \in Works /\ tasks[i] = tasks[j] => i = j
    BY DEF SenderInv, PostedIsNew
  <2>2. queue' \cup sent' = queue \cup sent /\ called' = called
    BY <1>1, <1>4
  <2>3. \A i \in DOMAIN tasks' :
           tasks'[i] \in Works => tasks'[i] \in called \ (queue \cup sent)
    BY <1>5, <2>1
  <2>4. ASSUME NEW i \in DOMAIN tasks', NEW j \in DOMAIN tasks',
               tasks'[i] \in Works, tasks'[i] = tasks'[j]
        PROVE  i = j
    <3>1. i + 1 = j + 1
      BY <1>5, <2>1, <2>4
    <3> QED
      BY <1>5, <3>1
  <2> QED
    BY <2>1, <2>2, <2>3, <2>4 DEF PostedIsNew
<1> QED
  BY <1>4, <1>6, <1>7, <1>8 DEF SenderInv

\* The call of a user thread only posts a task.
LEMMA QueueCommandAsyncKeepsInv ==
    ASSUME SenderInv, NEW w \in Works, QueueCommandAsync(w)
    PROVE  SenderInv'
<1>1. /\ TypeOK /\ w \notin called /\ called' = called \cup {w}
      /\ tasks' = Append(tasks, w)
      /\ UNCHANGED <<queue, position, pushed, sent, retries, cookie, timers,
                     results, attempts, acks>>
  BY DEF SenderInv, QueueCommandAsync
<1>2. tasks \in Seq(Works \cup {"do_work"})
  BY <1>1 DEF TypeOK
<1>3. /\ tasks' \in Seq(Works \cup {"do_work"})
      /\ Len(tasks') = Len(tasks) + 1
      /\ \A i \in 1..Len(tasks) : tasks'[i] = tasks[i]
      /\ tasks'[Len(tasks) + 1] = w
  BY <1>1, <1>2, AppendProperties
<1>4. /\ DOMAIN tasks = 1..Len(tasks) /\ DOMAIN tasks' = 1..Len(tasks')
      /\ Len(tasks) \in Nat
  BY <1>2, <1>3, LenProperties
<1>5. TypeOK'
  BY <1>1, <1>3 DEF TypeOK
<1>6. SentHasTimeout' /\ SentIsFirst' /\ PlacesAreOld'
  BY <1>1 DEF SenderInv, SentHasTimeout, SentIsFirst, PlacesAreOld, Before
<1>7. PostedIsNew'
  <2>1. \A i \in DOMAIN tasks' : \/ i \in DOMAIN tasks /\ tasks'[i] = tasks[i]
                                 \/ i = Len(tasks) + 1 /\ tasks'[i] = w
    BY <1>3, <1>4
  <2>2. \A i \in DOMAIN tasks : tasks[i] # w
    BY <1>1 DEF SenderInv, PostedIsNew
  <2> QED
    BY <1>1, <2>1, <2>2 DEF SenderInv, PostedIsNew
<1> QED
  BY <1>5, <1>6, <1>7 DEF SenderInv

\* The posted task pushes a call that is new to the back of the queue.
LEMMA EnqueueKeepsInv == SenderInv /\ Enqueue => SenderInv'
<1> SUFFICES ASSUME SenderInv, Enqueue PROVE SenderInv'
  OBVIOUS
<1> DEFINE w == Head(tasks)
<1>1. /\ TypeOK /\ tasks # <<>> /\ tasks' = Tail(tasks) /\ w \in Works
      /\ UNCHANGED <<retries, called, results, acks>>
  BY DEF SenderInv, Enqueue
<1>2. /\ tasks' \in Seq(Works \cup {"do_work"})
      /\ w = tasks[1] /\ 1 \in DOMAIN tasks
      /\ \A i \in DOMAIN tasks' : i + 1 \in DOMAIN tasks /\ i + 1 # 1 /\ i \in Int
                                  /\ tasks'[i] = tasks[i + 1]
  BY <1>1, TakeTaskFacts
<1>3. /\ queue \cup sent \subseteq called
      /\ \A i \in DOMAIN tasks :
            tasks[i] \in Works => tasks[i] \in called \ (queue \cup sent)
      /\ \A i, j \in DOMAIN tasks :
            tasks[i] \in Works /\ tasks[i] = tasks[j] => i = j
  BY DEF SenderInv, PostedIsNew
<1>4. w \in called \ (queue \cup sent)
  BY <1>1, <1>2, <1>3
<1>5. /\ \A i \in DOMAIN tasks' :
            tasks'[i] \in Works => tasks'[i] \in called \ (queue \cup sent \cup {w})
      /\ \A i, j \in DOMAIN tasks' :
            tasks'[i] \in Works /\ tasks'[i] = tasks'[j] => i = j
  <2>1. ASSUME NEW i \in DOMAIN tasks', tasks'[i] \in Works
        PROVE  tasks'[i] \in called \ (queue \cup sent \cup {w})
    <3>1. tasks[i + 1] # tasks[1]
      BY <1>2, <1>3, <2>1
    <3> QED
      BY <1>2, <1>3, <2>1, <3>1
  <2>2. ASSUME NEW i \in DOMAIN tasks', NEW j \in DOMAIN tasks',
               tasks'[i] \in Works, tasks'[i] = tasks'[j]
        PROVE  i = j
    <3>1. i + 1 = j + 1
      BY <1>2, <1>3, <2>2
    <3> QED
      BY <1>2, <3>1
  <2> QED
    BY <2>1, <2>2
<1>6. CASE Dropped(w)
  <2>1. UNCHANGED <<queue, position, pushed, sent, cookie, timers, attempts>>
    BY <1>6 DEF Enqueue
  <2>2. TypeOK'
    BY <1>1, <1>2, <2>1 DEF TypeOK
  <2>3. SentHasTimeout' /\ SentIsFirst' /\ PlacesAreOld'
    BY <2>1 DEF SenderInv, SentHasTimeout, SentIsFirst, PlacesAreOld, Before
  <2>4. PostedIsNew'
    BY <1>1, <1>3, <1>5, <2>1 DEF PostedIsNew
  <2> QED
    BY <2>2, <2>3, <2>4 DEF SenderInv
<1>7. CASE ~Dropped(w)
  <2> DEFINE q == queue \cup {w}
             pos == [position EXCEPT ![w] = pushed + 1]
  <2>1. pushed' = pushed + 1 /\ DoWork(q, pos)
    BY <1>7 DEF Enqueue
  <2>2. /\ queue \subseteq Works /\ position \in [Works -> Nat]
        /\ pushed \in Nat
    BY <1>1 DEF TypeOK
  <2>3. /\ q \in SUBSET Works /\ pos \in [Works -> Nat]
        /\ pos[w] = pushed + 1
        /\ \A v \in queue : pos[v] = position[v] /\ pos[v] <= pushed
    BY <1>1, <1>4, <2>2 DEF SenderInv, PlacesAreOld
  <2>4. \A v \in q \cap sent : <<v, cookie[v]>> \in timers
    BY <1>4 DEF SenderInv, SentHasTimeout
  <2>5. ASSUME NEW x \in q \cap sent, NEW v \in q \ {x}, Command(v) = Command(x)
        PROVE  v \notin sent /\ pos[x] < pos[v]
    <3>1. x \in queue
      BY <1>4, <2>5
    <3>2. CASE v = w
      <4>1. pos[x] \in Nat
        BY <2>2, <2>3, <3>1
      <4> QED
        BY <1>4, <2>2, <2>3, <3>1, <3>2, <4>1
    <3>3. CASE v \in queue
      BY <2>3, <2>5, <3>1, <3>3 DEF SenderInv, SentIsFirst, Before
    <3> QED
      BY <2>5, <3>2, <3>3
  <2> HIDE DEF q, pos
  <2>6. /\ queue' = q /\ position' = pos
        /\ sent \subseteq sent' /\ sent' \subseteq sent \cup q
        /\ cookie' \in [Works -> Nat]
        /\ timers' \subseteq Works \X (Nat \ {0})
        /\ attempts' \in [Works -> Nat]
        /\ SentHasTimeout'
        /\ SentIsFirst'
    BY <1>1, <2>1, <2>3, <2>4, <2>5, DoWorkKeeps
  <2>7. sent' \subseteq Works /\ pushed' \in Nat
    BY <1>1, <2>1, <2>2, <2>3, <2>6 DEF TypeOK
  <2>8. TypeOK'
    <3>1. /\ retries \in [Works -> Nat] /\ called \subseteq Works
          /\ results \in [Works -> Seq(Results)] /\ acks \in Nat
      BY <1>1 DEF TypeOK
    <3>2. UNCHANGED <<retries, called, results, acks>>
      BY <1>1
    <3> HIDE DEF w
    <3> QED
      BY <1>2, <2>3, <2>6, <2>7, <3>1, <3>2 DEF TypeOK
  <2>9. PlacesAreOld'
    BY <2>1, <2>2, <2>3, <2>6 DEF PlacesAreOld, q
  <2>10. PostedIsNew'
    BY <1>1, <1>3, <1>4, <1>5, <2>6 DEF PostedIsNew, q
  <2> QED
    BY <2>6, <2>8, <2>9, <2>10 DEF SenderInv
<1> QED
  BY <1>6, <1>7

\* Taking commands out of the queue disturbs neither the order nor the places.
LEMMA SmallerQueue ==
    ASSUME SenderInv, queue' \subseteq queue, UNCHANGED <<position, pushed, sent>>
    PROVE  SentIsFirst' /\ PlacesAreOld'
  BY DEF SenderInv, SentIsFirst, PlacesAreOld, Before

\* An ack, whatever it says and however late it is.
LEMMA ReceiveCommandAckKeepsInv ==
    ASSUME SenderInv, NEW command, NEW from, NEW ack \in Acks,
           ReceiveCommandAck(command, from, ack)
    PROVE  SenderInv'
<1> DEFINE matching == {v \in queue : Command(v) = command /\ AddressedTo(v, from)}
<1>1. /\ TypeOK /\ SentHasTimeout /\ PostedIsNew
      /\ acks' = acks + 1
      /\ UNCHANGED <<position, pushed, sent, retries, called, attempts>>
  BY DEF SenderInv, ReceiveCommandAck
<1>2. CASE matching = {} /\ UNCHANGED <<queue, cookie, timers, results, tasks>>
  <2>1. TypeOK'
    BY <1>1, <1>2 DEF TypeOK
  <2>2. SentHasTimeout' /\ SentIsFirst' /\ PlacesAreOld' /\ PostedIsNew'
    BY <1>1, <1>2 DEF SenderInv, SentHasTimeout, SentIsFirst, PlacesAreOld,
                      PostedIsNew, Before
  <2> QED
    BY <2>1, <2>2 DEF SenderInv
<1>3. ASSUME NEW w \in Works, IsFirst(w, matching), PostDoWork,
             AckFinal(w, ack) \/ AckInProgress(w, ack) \/ AckOther(w, ack)
      PROVE  SenderInv'
  <2>1. w \in queue
    BY <1>3 DEF IsFirst
  <2>2. /\ queue' \subseteq queue
        /\ cookie' \in [Works -> Nat]
        /\ timers' \subseteq Works \X (Nat \ {0})
        /\ results' \in [Works -> Seq(Results)]
        /\ SentHasTimeout'
    <3>1. CASE AckFinal(w, ack)
      <4>1. PICK result \in Results : CallCallback(w, result)
        BY <3>1 DEF AckFinal, Results
      <4>2. results' \in [Works -> Seq(Results)]
        BY <1>1, <4>1, CallCallbackFacts
      <4> QED
        BY <1>1, <3>1, <4>2 DEF AckFinal, TypeOK, SentHasTimeout
    <3>2. CASE AckInProgress(w, ack)
      <4> DEFINE keep == timers \ {<<w, cookie[w]>>}
      <4>1. /\ RegisterTimeouts({w}, keep) /\ CallCallback(w, "InProgress")
            /\ queue' = queue
        BY <3>2 DEF AckInProgress
      <4>2. results' \in [Works -> Seq(Results)]
        BY <1>1, <4>1, CallCallbackFacts DEF Results
      <4>3. /\ cookie' \in [Works -> Nat]
            /\ timers' \subseteq Works \X (Nat \ {0})
            /\ <<w, cookie'[w]>> \in timers'
            /\ \A v \in Works \ {w} : cookie'[v] = cookie[v]
            /\ keep \subseteq timers'
        BY <1>1, <4>1, RegisterTimeoutsFacts
      <4>4. \A v \in Works \ {w} : <<v, cookie[v]>> \in timers => <<v, cookie[v]>> \in keep
        OBVIOUS
      <4>5. queue \subseteq Works
        BY <1>1 DEF TypeOK
      <4>6. SentHasTimeout'
        BY <1>1, <4>1, <4>3, <4>4, <4>5 DEF SentHasTimeout
      <4> QED
        BY <4>1, <4>2, <4>3, <4>6
    <3>3. CASE AckOther(w, ack)
      <4>1. results' \in [Works -> Seq(Results)]
        BY <1>1, <3>3, CallCallbackFacts DEF AckOther, Results
      <4> QED
        BY <1>1, <3>3, <4>1 DEF AckOther, TypeOK, SentHasTimeout
    <3> QED
      BY <1>3, <3>1, <3>2, <3>3
  <2>3. tasks' \in Seq(Works \cup {"do_work"}) /\ PostedIsNew'
    BY <1>1, <1>3, <2>2, PostDoWorkFacts
  <2>4. SentIsFirst' /\ PlacesAreOld'
    BY <1>1, <2>2, SmallerQueue
  <2>5. TypeOK'
    <3>1. /\ queue' \subseteq Works /\ acks' \in Nat
          /\ position \in [Works -> Nat] /\ pushed \in Nat /\ sent \subseteq Works
          /\ retries \in [Works -> Nat] /\ called \subseteq Works
          /\ attempts \in [Works -> Nat]
      BY <1>1, <2>2 DEF TypeOK
    <3>2. UNCHANGED <<position, pushed, sent, retries, called, attempts>>
      BY <1>1
    <3> QED
      BY <2>2, <2>3, <3>1, <3>2 DEF TypeOK
  <2> QED
    BY <2>2, <2>3, <2>4, <2>5 DEF SenderInv
<1> QED
  BY <1>2, <1>3 DEF ReceiveCommandAck

\* A timeout.  The command it was registered for, if it is still queued and
\* was sent, gets a new one or is dropped: no command of its identification is
\* before it, so the loop reaches it.
LEMMA ReceiveTimeoutKeepsInv ==
    ASSUME SenderInv, NEW timer \in timers, NEW refused \in SUBSET queue,
           ReceiveTimeout(timer, refused)
    PROVE  SenderInv'
<1> DEFINE same == {w \in queue : Ident[w] = Ident[timer[1]]}
           stops == {w \in same : retries[w] = 0 \/ w \in refused}
           again == {w \in same : \A v \in stops : Before(w, v)}
           keep == timers \ {timer}
<1>1. /\ TypeOK /\ SentHasTimeout /\ SentIsFirst /\ PostedIsNew
      /\ RegisterTimeouts(again, keep)
      /\ PostDoWork
      /\ UNCHANGED <<position, pushed, sent, called, acks>>
  BY DEF SenderInv, ReceiveTimeout
<1>2. /\ queue \subseteq Works /\ again \in SUBSET Works /\ keep \in SUBSET timers
      /\ position \in [Works -> Nat] /\ retries \in [Works -> Nat]
  BY <1>1 DEF TypeOK
<1>3. again \cap stops = {}
  BY <1>2 DEF Before
<1>4. retries' \in [Works -> Nat]
  <2>1. \A w \in again : retries[w] # 0
    BY <1>3
  <2>2. retries' = [w \in Works |-> IF w \in again THEN retries[w] - 1 ELSE retries[w]]
    BY DEF ReceiveTimeout
  <2> HIDE DEF again
  <2> QED
    BY <1>2, <2>1, <2>2
<1>5. /\ cookie' \in [Works -> Nat]
      /\ timers' \subseteq Works \X (Nat \ {0})
      /\ \A w \in again : <<w, cookie'[w]>> \in timers'
      /\ \A w \in Works \ again : cookie'[w] = cookie[w]
      /\ keep \subseteq timers'
  <2> HIDE DEF again, keep
  <2> QED
    BY <1>1, <1>2, RegisterTimeoutsFacts
<1>6. \/ stops = {} /\ queue' = queue
      \/ \E last \in Works : IsFirst(last, stops) /\ queue' = queue \ {last}
  BY DEF ReceiveTimeout
<1>7. attempts' \in [Works -> Nat] /\ results' \in [Works -> Seq(Results)]
  <2>1. CASE stops = {} /\ Transmit(again) /\ UNCHANGED <<queue, results>>
    BY <1>1, <1>2, <2>1, TransmitFacts DEF TypeOK
  <2>2. ASSUME NEW last \in Works,
               IF retries[last] = 0
               THEN Transmit(again) /\ CallCallback(last, "Timeout")
               ELSE Transmit(again \cup {last}) /\ CallCallback(last, "ConnectionError")
        PROVE  attempts' \in [Works -> Nat] /\ results' \in [Works -> Seq(Results)]
    <3>1. PICK works \in {again, again \cup {last}}, result \in Results :
              Transmit(works) /\ CallCallback(last, result)
      BY <2>2 DEF Results
    <3>2. works \in SUBSET Works
      BY <1>2, <3>1
    <3> QED
      BY <1>1, <3>1, <3>2, TransmitFacts, CallCallbackFacts
  <2> QED
    BY <2>1, <2>2 DEF ReceiveTimeout
<1>8. SentHasTimeout'
  <2> SUFFICES ASSUME NEW w \in queue' \cap sent PROVE <<w, cookie'[w]>> \in timers'
    BY <1>1 DEF SentHasTimeout
  <2>1. w \in queue /\ <<w, cookie[w]>> \in timers
    BY <1>1, <1>6 DEF SentHasTimeout
  <2>2. CASE w \in again
    BY <1>5, <2>2
  <2>3. CASE w \notin again /\ timer # <<w, cookie[w]>>
    BY <1>2, <1>5, <2>1, <2>3
  <2>4. CASE w \notin again /\ timer = <<w, cookie[w]>>
    <3>1. w \in same
      BY <2>1, <2>4
    <3>2. \A v \in same \ {w} : Before(w, v)
      BY <1>1, <2>1, <3>1 DEF SentIsFirst, Command
    <3>3. w \in stops
      BY <2>4, <3>1, <3>2
    <3>4. PICK last \in Works : IsFirst(last, stops) /\ queue' = queue \ {last}
      BY <1>6, <3>3
    <3>5. last = w
      <4> SUFFICES ASSUME last # w PROVE FALSE
        OBVIOUS
      <4>1. Before(last, w) /\ last \in stops
        BY <3>3, <3>4 DEF IsFirst
      <4>2. Before(w, last)
        BY <3>2, <4>1
      <4> QED
        BY <1>2, <2>1, <3>4, <4>1, <4>2 DEF Before
    <3> QED
      BY <3>4, <3>5
  <2> QED
    BY <2>2, <2>3, <2>4
<1>9. queue' \subseteq queue
  BY <1>6
<1>10. tasks' \in Seq(Works \cup {"do_work"}) /\ PostedIsNew'
  BY <1>1, <1>9, PostDoWorkFacts
<1>11. SentIsFirst' /\ PlacesAreOld'
  BY <1>1, <1>9, SmallerQueue
<1>12. TypeOK'
  <2> HIDE DEF again, keep, stops, same
  <2> QED
    BY <1>1, <1>2, <1>4, <1>5, <1>7, <1>9, <1>10 DEF TypeOK
<1> QED
  BY <1>8, <1>10, <1>11, <1>12 DEF SenderInv

\* Every step keeps the invariant, one action at a time.
LEMMA NextKeepsSenderInv == SenderInv /\ [Next]_vars => SenderInv'
<1> SUFFICES ASSUME SenderInv, [Next]_vars PROVE SenderInv'
  OBVIOUS
<1>1. CASE \E w \in Works : QueueCommandAsync(w)
  BY <1>1, QueueCommandAsyncKeepsInv
<1>2. CASE Enqueue
  BY <1>2, EnqueueKeepsInv
<1>3. CASE DoWorkPosted
  BY <1>3, DoWorkPostedKeepsInv
<1>4. CASE \E command \in Commands, from \in Components, ack \in Acks :
              ReceiveCommandAck(command, from, ack)
  BY <1>4, ReceiveCommandAckKeepsInv
<1>5. CASE Timeout
  BY <1>5, ReceiveTimeoutKeepsInv DEF Timeout
<1>6. CASE UNCHANGED vars
  <2>1. TypeOK'
    BY <1>6 DEF SenderInv, TypeOK, vars
  <2>2. SentHasTimeout' /\ SentIsFirst' /\ PlacesAreOld' /\ PostedIsNew'
    BY <1>6 DEF SenderInv, vars, SentHasTimeout, SentIsFirst, PlacesAreOld,
                PostedIsNew, Before
  <2> QED
    BY <2>1, <2>2 DEF SenderInv
<1> QED
  BY <1>1, <1>2, <1>3, <1>4, <1>5, <1>6 DEF Next

-----------------------------------------------------------------------------

\* The inductive invariant of the command sender.
THEOREM SenderInvariance == Spec => []SenderInv
  BY InitSenderInv, NextKeepsSenderInv, PTL DEF Spec

\* The variables of the command sender keep their types.
THEOREM SenderTypeCorrect == Spec => []TypeOK
<1>1. SenderInv => TypeOK
  BY DEF SenderInv
<1> QED
  BY <1>1, SenderInvariance, PTL

\* A queued command that was sent always has its own timeout: whatever is lost,
\* it is answered, sent again or given up.
THEOREM SentCommandsTimeOut == Spec => []SentHasTimeout
<1>1. SenderInv => SentHasTimeout
  BY DEF SenderInv
<1> QED
  BY <1>1, SenderInvariance, PTL

\* do_work sends the commands of one id one after the other.
THEOREM OneAtATime == Spec => []OneSentPerCommand
<1>1. SenderInv => OneSentPerCommand
  BY DEF SenderInv, SentIsFirst, OneSentPerCommand
<1> QED
  BY <1>1, SenderInvariance, PTL

-----------------------------------------------------------------------------
(***************************************************************************)
(* Retries and results.  A call is open until it leaves the queue; an open *)
(* call was transmitted once per retry used up, and once by do_work if it  *)
(* is marked as sent (a timeout of an identical command may transmit it    *)
(* earlier).  The refused transmission that closes a call is one more,     *)
(* which the retry it did not use makes up for.                            *)
(***************************************************************************)

Open == {w \in Works : \/ w \in queue
                       \/ w \notin called
                       \/ \E i \in DOMAIN tasks : tasks[i] = w}

TimedOut(w) == \E i \in DOMAIN results[w] : results[w][i] = "Timeout"

\* The attempts of each call, in terms of the retries it has used.
AttemptsCounted ==
    \A w \in Works :
        /\ retries[w] <= Retries[w]
        /\ attempts[w] >= Retries[w] - retries[w]
        /\ attempts[w] <= Retries[w] + 1
        /\ w \in Open => attempts[w] <= Retries[w] - retries[w]
                                          + (IF w \in sent THEN 1 ELSE 0)

\* What was answered is closed, and what timed out has no retry left.
AnsweredIsClosed ==
    \A w \in Works :
        /\ HasFinalResult(w) => w \notin Open
        /\ TimedOut(w) => retries[w] = 0

RetryInv == AttemptsCounted /\ AnsweredIsClosed

\* Nothing was sent or answered at first.
LEMMA InitRetryInv == Init => RetryInv
<1> SUFFICES ASSUME Init PROVE RetryInv
  OBVIOUS
<1>1. \A w \in Works :
         /\ Retries[w] \in Nat /\ retries[w] = Retries[w]
         /\ attempts[w] = 0 /\ w \notin sent
         /\ results[w] = <<>>
  BY NumberAssumption DEF Init
<1>2. AttemptsCounted
  <2> SUFFICES ASSUME NEW w \in Works
               PROVE  /\ retries[w] <= Retries[w]
                      /\ attempts[w] >= Retries[w] - retries[w]
                      /\ attempts[w] <= Retries[w] + 1
                      /\ attempts[w] <= Retries[w] - retries[w]
                                          + (IF w \in sent THEN 1 ELSE 0)
    BY DEF AttemptsCounted
  <2>1. Retries[w] \in Nat /\ retries[w] = Retries[w]
    BY <1>1
  <2>2. attempts[w] = 0 /\ (IF w \in sent THEN 1 ELSE 0) = 0
    BY <1>1
  <2> QED
    BY <2>1, <2>2
<1>3. AnsweredIsClosed
  <2>1. DOMAIN <<>> = {}
    OBVIOUS
  <2>2. \A w \in Works : DOMAIN results[w] = {}
    BY <1>1, <2>1
  <2>3. \A w \in Works : ~HasFinalResult(w) /\ ~TimedOut(w)
    BY <2>2 DEF HasFinalResult, TimedOut
  <2> QED
    BY <2>3 DEF AnsweredIsClosed
<1> QED
  BY <1>2, <1>3 DEF RetryInv

\* A pass of do_work transmits what is open and not sent, and marks it sent.
LEMMA DoWorkKeepsRetryInv ==
    ASSUME TypeOK, RetryInv, NEW q, NEW pos, DoWork(q, pos),
           q \subseteq Open, Open' \subseteq Open, UNCHANGED <<retries, results>>
    PROVE  RetryInv'
<1> DEFINE S == ToSend(q, pos)
<1>1. /\ sent' = sent \cup S
      /\ attempts' = [w \in Works |-> IF w \in S THEN attempts[w] + 1 ELSE attempts[w]]
  BY DEF DoWork, Transmit
<1>2. S \subseteq Open /\ S \cap sent = {}
  BY DEF ToSend
<1>3. AttemptsCounted'
  <2> SUFFICES ASSUME NEW w \in Works
               PROVE  /\ retries[w] <= Retries[w]
                      /\ attempts'[w] >= Retries[w] - retries[w]
                      /\ attempts'[w] <= Retries[w] + 1
                      /\ w \in Open' => attempts'[w] <= Retries[w] - retries[w]
                                            + (IF w \in sent' THEN 1 ELSE 0)
    BY DEF AttemptsCounted
  <2>1. /\ retries[w] \in Nat /\ attempts[w] \in Nat /\ Retries[w] \in Nat
        /\ retries[w] <= Retries[w]
        /\ attempts[w] >= Retries[w] - retries[w]
        /\ attempts[w] <= Retries[w] + 1
        /\ w \in Open => attempts[w] <= Retries[w] - retries[w]
                                          + (IF w \in sent THEN 1 ELSE 0)
    BY NumberAssumption DEF TypeOK, RetryInv, AttemptsCounted
  <2> HIDE DEF S
  <2>2. CASE w \in S
    BY <1>1, <1>2, <2>1, <2>2
  <2>3. CASE w \notin S
    BY <1>1, <2>1, <2>3
  <2> QED
    BY <2>2, <2>3
<1>4. AnsweredIsClosed'
  BY DEF RetryInv, AnsweredIsClosed, HasFinalResult, TimedOut
<1> QED
  BY <1>3, <1>4 DEF RetryInv

\* What queueing a result says of the results.
LEMMA CallCallbackResults ==
    ASSUME TypeOK, NEW w \in Works, NEW result \in Results, CallCallback(w, result),
           NEW x \in Works
    PROVE  /\ HasFinalResult(x)' => HasFinalResult(x) \/ (x = w /\ Final(result))
           /\ TimedOut(x)' => TimedOut(x) \/ (x = w /\ result = "Timeout")
<1>1. results[w] \in Seq(Results) /\ results \in [Works -> Seq(Results)]
  BY DEF TypeOK
<1>2. /\ \A i \in 1..Len(results[w]) : Append(results[w], result)[i] = results[w][i]
      /\ Append(results[w], result)[Len(results[w]) + 1] = result
      /\ Len(Append(results[w], result)) = Len(results[w]) + 1
      /\ Append(results[w], result) \in Seq(Results)
  BY <1>1, AppendProperties
<1>3. /\ DOMAIN results[w] = 1..Len(results[w])
      /\ DOMAIN Append(results[w], result) = 1..(Len(results[w]) + 1)
      /\ Len(results[w]) \in Nat
  BY <1>1, <1>2, LenProperties
<1>4. CASE results'[x] = results[x]
  BY <1>4 DEF HasFinalResult, TimedOut
<1>5. CASE x = w /\ results'[x] = Append(results[w], result)
  <2>1. \A i \in DOMAIN results'[x] :
           \/ i \in DOMAIN results[x] /\ results'[x][i] = results[x][i]
           \/ results'[x][i] = result
    BY <1>2, <1>3, <1>5
  <2> QED
    BY <1>5, <2>1 DEF HasFinalResult, TimedOut
<1> QED
  BY <1>1, <1>4, <1>5 DEF CallCallback

\* While do_work is posted, what is taken out of the queue is closed.
LEMMA PostDoWorkCloses ==
    ASSUME SenderInv, PostDoWork, queue' \subseteq queue, UNCHANGED called
    PROVE  Open' \subseteq Open /\ (queue \ queue') \cap Open' = {}
<1>1. tasks \in Seq(Works \cup {"do_work"}) /\ tasks' = Append(tasks, "do_work")
  BY DEF SenderInv, TypeOK, PostDoWork
<1>2. /\ Len(tasks') = Len(tasks) + 1
      /\ \A i \in 1..Len(tasks) : tasks'[i] = tasks[i]
      /\ tasks'[Len(tasks) + 1] = "do_work"
      /\ DOMAIN tasks = 1..Len(tasks) /\ DOMAIN tasks' = 1..Len(tasks')
      /\ Len(tasks) \in Nat
  BY <1>1, AppendProperties, LenProperties
<1>3. \A i \in DOMAIN tasks' :
         tasks'[i] \in Works => i \in DOMAIN tasks /\ tasks'[i] = tasks[i]
  BY <1>2, CallAssumption
<1>4. queue \subseteq Works /\ queue \subseteq called
  BY DEF SenderInv, TypeOK, PostedIsNew
<1>5. \A w \in queue, i \in DOMAIN tasks : tasks[i] # w
  BY <1>4 DEF SenderInv, PostedIsNew
<1> QED
  BY <1>3, <1>4, <1>5 DEF Open

\* An ack queues one result, and closes the call if it is final.
LEMMA ReceiveCommandAckKeepsRetryInv ==
    ASSUME SenderInv, RetryInv, NEW command, NEW from, NEW ack \in Acks,
           ReceiveCommandAck(command, from, ack)
    PROVE  /\ RetryInv'
           /\ \A x \in Works : HasFinalResult(x) => results'[x] = results[x]
<1> DEFINE matching == {v \in queue : Command(v) = command /\ AddressedTo(v, from)}
<1>1. TypeOK /\ UNCHANGED <<position, pushed, sent, retries, called, attempts>>
  BY DEF SenderInv, ReceiveCommandAck
<1>2. CASE matching = {} /\ UNCHANGED <<queue, cookie, timers, results, tasks>>
  BY <1>1, <1>2 DEF RetryInv, AttemptsCounted, AnsweredIsClosed, HasFinalResult,
                    TimedOut, Open
<1>3. ASSUME NEW w \in Works, IsFirst(w, matching), PostDoWork,
             AckFinal(w, ack) \/ AckInProgress(w, ack) \/ AckOther(w, ack)
      PROVE  /\ RetryInv'
             /\ \A x \in Works : HasFinalResult(x) => results'[x] = results[x]
  <2>1. w \in queue /\ w \in Open
    BY <1>3 DEF IsFirst, Open
  <2>2. PICK result \in Results \ {"Timeout"} :
            /\ CallCallback(w, result)
            /\ queue' = IF Final(result) THEN queue \ {w} ELSE queue
    <3>1. CASE AckFinal(w, ack)
      BY <3>1 DEF AckFinal, Results, Final
    <3>2. CASE AckInProgress(w, ack)
      BY <3>2 DEF AckInProgress, Results, Final
    <3>3. CASE AckOther(w, ack)
      BY <3>3 DEF AckOther, Results, Final
    <3> QED
      BY <1>3, <3>1, <3>2, <3>3
  <2>3. Open' \subseteq Open /\ (queue \ queue') \cap Open' = {}
    BY <1>1, <1>3, <2>2, PostDoWorkCloses
  <2>4. AttemptsCounted'
    BY <1>1, <2>3 DEF RetryInv, AttemptsCounted
  <2>5. AnsweredIsClosed'
    <3> SUFFICES ASSUME NEW x \in Works
                 PROVE  /\ HasFinalResult(x)' => x \notin Open'
                        /\ TimedOut(x)' => retries'[x] = 0
      BY DEF AnsweredIsClosed
    <3>1. /\ HasFinalResult(x)' => HasFinalResult(x) \/ (x = w /\ Final(result))
          /\ TimedOut(x)' => TimedOut(x)
      BY <1>1, <2>2, CallCallbackResults
    <3>2. /\ HasFinalResult(x) => x \notin Open
          /\ TimedOut(x) => retries[x] = 0
      BY DEF RetryInv, AnsweredIsClosed
    <3> QED
      BY <1>1, <2>1, <2>2, <2>3, <3>1, <3>2
  <2>6. \A x \in Works : HasFinalResult(x) => results'[x] = results[x]
    <3>1. ~HasFinalResult(w)
      BY <2>1 DEF RetryInv, AnsweredIsClosed
    <3>2. \A x \in Works \ {w} : results'[x] = results[x]
      BY <1>1, <2>2 DEF CallCallback, TypeOK
    <3> QED
      BY <3>1, <3>2
  <2> QED
    BY <2>4, <2>5, <2>6 DEF RetryInv
<1> QED
  BY <1>2, <1>3 DEF ReceiveCommandAck

\* A timeout uses one retry of each call it transmits again, and closes the
\* one it gives up.
LEMMA ReceiveTimeoutKeepsRetryInv ==
    ASSUME SenderInv, RetryInv, NEW timer \in timers, NEW refused \in SUBSET queue,
           ReceiveTimeout(timer, refused)
    PROVE  /\ RetryInv'
           /\ \A x \in Works : HasFinalResult(x) => results'[x] = results[x]
<1> DEFINE same == {w \in queue : Ident[w] = Ident[timer[1]]}
           stops == {w \in same : retries[w] = 0 \/ w \in refused}
           again == {w \in same : \A v \in stops : Before(w, v)}
<1>1. /\ TypeOK /\ PostDoWork
      /\ UNCHANGED <<position, pushed, sent, called, acks>>
      /\ retries' = [w \in Works |-> IF w \in again THEN retries[w] - 1 ELSE retries[w]]
  BY DEF SenderInv, ReceiveTimeout
<1>2. /\ queue \subseteq Works /\ again \subseteq queue /\ queue \subseteq Open
      /\ again \cap stops = {} /\ stops \subseteq queue
      /\ \A w \in again : retries[w] # 0
  BY <1>1 DEF TypeOK, Open, Before
<1>3. ASSUME NEW w \in Works
      PROVE  /\ retries[w] \in Nat /\ attempts[w] \in Nat /\ Retries[w] \in Nat
             /\ retries[w] <= Retries[w]
             /\ attempts[w] >= Retries[w] - retries[w]
             /\ attempts[w] <= Retries[w] + 1
             /\ w \in Open => attempts[w] <= Retries[w] - retries[w]
                                               + (IF w \in sent THEN 1 ELSE 0)
             /\ HasFinalResult(w) => w \notin Open
             /\ TimedOut(w) => retries[w] = 0
  BY <1>1, NumberAssumption DEF TypeOK, RetryInv, AttemptsCounted, AnsweredIsClosed
<1>4. \A x \in Works : TimedOut(x) => retries'[x] = 0
  <2> HIDE DEF again
  <2> QED
    BY <1>1, <1>2, <1>3
<1>5. CASE stops = {} /\ Transmit(again) /\ UNCHANGED <<queue, results>>
  <2> HIDE DEF again, stops
  <2>1. Open' \subseteq Open
    BY <1>1, <1>5, PostDoWorkCloses
  <2>2. attempts' = [w \in Works |-> IF w \in again THEN attempts[w] + 1 ELSE attempts[w]]
    BY <1>5 DEF Transmit
  <2>3. AttemptsCounted'
    <3> SUFFICES ASSUME NEW w \in Works
                 PROVE  /\ retries'[w] <= Retries[w]
                        /\ attempts'[w] >= Retries[w] - retries'[w]
                        /\ attempts'[w] <= Retries[w] + 1
                        /\ w \in Open' => attempts'[w] <= Retries[w] - retries'[w]
                                              + (IF w \in sent THEN 1 ELSE 0)
      BY <1>1 DEF AttemptsCounted
    <3>1. CASE w \in again
      BY <1>1, <1>2, <1>3, <2>2, <3>1
    <3>2. CASE w \notin again
      BY <1>1, <1>3, <2>1, <2>2, <3>2
    <3> QED
      BY <3>1, <3>2
  <2>4. AnsweredIsClosed'
    BY <1>3, <1>4, <1>5, <2>1 DEF AnsweredIsClosed, HasFinalResult, TimedOut
  <2> QED
    BY <1>5, <2>3, <2>4 DEF RetryInv
<1>6. ASSUME NEW last \in Works, IsFirst(last, stops), queue' = queue \ {last},
             IF retries[last] = 0
             THEN Transmit(again) /\ CallCallback(last, "Timeout")
             ELSE Transmit(again \cup {last}) /\ CallCallback(last, "ConnectionError")
      PROVE  /\ RetryInv'
             /\ \A x \in Works : HasFinalResult(x) => results'[x] = results[x]
  <2>1. last \in stops /\ last \notin again /\ last \in Open
    BY <1>2, <1>6 DEF IsFirst
  <2> HIDE DEF again, stops
  <2>2. Open' \subseteq Open /\ last \notin Open'
    <3>1. Open' \subseteq Open /\ (queue \ queue') \cap Open' = {}
      BY <1>1, <1>6, PostDoWorkCloses
    <3> QED
      BY <1>2, <1>6, <2>1, <3>1
  <2>3. PICK result \in {"Timeout", "ConnectionError"} :
            /\ CallCallback(last, result)
            /\ result = "Timeout" => retries[last] = 0
    BY <1>6
  <2>4. \A w \in Works :
           \/ w \in again /\ attempts'[w] = attempts[w] + 1
           \/ w \notin again /\ attempts'[w] = attempts[w]
           \/ w = last /\ retries[w] # 0 /\ attempts'[w] = attempts[w] + 1
    BY <1>6 DEF Transmit
  <2>5. AttemptsCounted'
    <3> SUFFICES ASSUME NEW w \in Works
                 PROVE  /\ retries'[w] <= Retries[w]
                        /\ attempts'[w] >= Retries[w] - retries'[w]
                        /\ attempts'[w] <= Retries[w] + 1
                        /\ w \in Open' => attempts'[w] <= Retries[w] - retries'[w]
                                              + (IF w \in sent THEN 1 ELSE 0)
      BY <1>1 DEF AttemptsCounted
    <3>1. CASE w \in again /\ attempts'[w] = attempts[w] + 1
      BY <1>1, <1>2, <1>3, <3>1
    <3>2. CASE w \notin again /\ attempts'[w] = attempts[w]
      BY <1>1, <1>3, <2>2, <3>2
    <3>3. CASE w = last /\ retries[w] # 0 /\ attempts'[w] = attempts[w] + 1
      BY <1>1, <1>3, <2>1, <2>2, <3>3
    <3> QED
      BY <2>4, <3>1, <3>2, <3>3
  <2>6. AnsweredIsClosed'
    <3> SUFFICES ASSUME NEW x \in Works
                 PROVE  /\ HasFinalResult(x)' => x \notin Open'
                        /\ TimedOut(x)' => retries'[x] = 0
      BY DEF AnsweredIsClosed
    <3>1. /\ HasFinalResult(x)' => HasFinalResult(x) \/ x = last
          /\ TimedOut(x)' => TimedOut(x) \/ (x = last /\ result = "Timeout")
      BY <1>1, <2>3, CallCallbackResults DEF Results
    <3>2. result = "Timeout" => retries'[last] = 0
      BY <1>1, <2>1, <2>3
    <3> QED
      BY <1>3, <1>4, <2>2, <3>1, <3>2
  <2>7. \A x \in Works : HasFinalResult(x) => results'[x] = results[x]
    <3>1. ~HasFinalResult(last)
      BY <1>3, <2>1
    <3>2. \A x \in Works \ {last} : results'[x] = results[x]
      BY <1>1, <2>3 DEF CallCallback, TypeOK
    <3> QED
      BY <3>1, <3>2
  <2> QED
    BY <2>5, <2>6, <2>7 DEF RetryInv
<1> QED
  BY <1>5, <1>6 DEF ReceiveTimeout

\* The tasks of the users' calls close nothing and open nothing.
LEMMA TasksKeepRetryInv ==
    ASSUME SenderInv, RetryInv,
           \/ \E w \in Works : QueueCommandAsync(w)
           \/ Enqueue
           \/ DoWorkPosted
    PROVE  RetryInv' /\ UNCHANGED results
<1>1. TypeOK
  BY DEF SenderInv
<1>2. ASSUME NEW w \in Works, QueueCommandAsync(w)
      PROVE  RetryInv' /\ UNCHANGED results
  <2>1. /\ w \notin called /\ called' = called \cup {w} /\ tasks' = Append(tasks, w)
        /\ UNCHANGED <<queue, sent, retries, results, attempts>>
    BY <1>2 DEF QueueCommandAsync
  <2>2. tasks \in Seq(Works \cup {"do_work"})
    BY <1>1 DEF TypeOK
  <2>3. \A i \in DOMAIN tasks' : \/ i \in DOMAIN tasks /\ tasks'[i] = tasks[i]
                                 \/ tasks'[i] = w
    BY <2>1, <2>2, AppendProperties, LenProperties
  <2>4. Open' \subseteq Open
    BY <2>1, <2>3 DEF Open
  <2> QED
    BY <2>1, <2>4 DEF RetryInv, AttemptsCounted, AnsweredIsClosed, HasFinalResult,
                      TimedOut
<1>3. ASSUME tasks # <<>>, tasks' = Tail(tasks), UNCHANGED <<called, retries, results>>
      PROVE  /\ Head(tasks) \in Works => Head(tasks) \in Open
             /\ queue \subseteq Open
             /\ queue' \subseteq queue \cup {Head(tasks)} => Open' \subseteq Open
  <2>1. /\ Head(tasks) = tasks[1] /\ 1 \in DOMAIN tasks
        /\ \A i \in DOMAIN tasks' : i + 1 \in DOMAIN tasks /\ tasks'[i] = tasks[i + 1]
    BY <1>1, <1>3, TakeTaskFacts
  <2>2. queue \subseteq Works
    BY <1>1 DEF TypeOK
  <2> QED
    BY <1>3, <2>1, <2>2 DEF Open
<1>4. CASE DoWorkPosted
  <2>1. /\ tasks # <<>> /\ tasks' = Tail(tasks) /\ DoWork(queue, position)
        /\ UNCHANGED <<called, retries, results>>
    BY <1>4 DEF DoWorkPosted
  <2>2. queue' = queue
    BY <2>1 DEF DoWork
  <2> QED
    BY <1>1, <1>3, <2>1, <2>2, DoWorkKeepsRetryInv
<1>5. CASE Enqueue
  <2> DEFINE w == Head(tasks)
  <2>1. /\ tasks # <<>> /\ tasks' = Tail(tasks) /\ w \in Works
        /\ UNCHANGED <<called, retries, results>>
    BY <1>5 DEF Enqueue
  <2>2. CASE UNCHANGED <<queue, position, pushed, sent, cookie, timers, attempts>>
    <3>1. Open' \subseteq Open
      BY <1>3, <2>1, <2>2
    <3> QED
      BY <2>1, <2>2, <3>1 DEF RetryInv, AttemptsCounted, AnsweredIsClosed,
                              HasFinalResult, TimedOut
  <2>3. CASE DoWork(queue \cup {w}, [position EXCEPT ![w] = pushed + 1])
    <3>1. queue' = queue \cup {w}
      BY <2>3 DEF DoWork
    <3>2. queue \cup {w} \subseteq Open /\ Open' \subseteq Open
      BY <1>3, <2>1, <3>1
    <3> QED
      BY <1>1, <2>1, <2>3, <3>2, DoWorkKeepsRetryInv
  <2> QED
    BY <1>5, <2>2, <2>3 DEF Enqueue
<1> QED
  BY <1>2, <1>4, <1>5

\* A step keeps the count, and tells nobody anything after the final result.
LEMMA NextKeepsRetryInv ==
    ASSUME SenderInv, RetryInv, [Next]_vars
    PROVE  /\ RetryInv'
           /\ \A x \in Works : HasFinalResult(x) => results'[x] = results[x]
<1>1. CASE \/ \E w \in Works : QueueCommandAsync(w)
           \/ Enqueue
           \/ DoWorkPosted
  BY <1>1, TasksKeepRetryInv
<1>2. CASE \E command \in Commands, from \in Components, ack \in Acks :
              ReceiveCommandAck(command, from, ack)
  BY <1>2, ReceiveCommandAckKeepsRetryInv
<1>3. CASE Timeout
  BY <1>3, ReceiveTimeoutKeepsRetryInv DEF Timeout
<1>4. CASE UNCHANGED vars
  BY <1>4 DEF RetryInv, AttemptsCounted, AnsweredIsClosed, HasFinalResult, TimedOut,
              Open, vars
<1> QED
  BY <1>1, <1>2, <1>3, <1>4 DEF Next

\* The attempts are counted in every reachable state.
THEOREM RetryInvariance == Spec => []RetryInv
<1>1. SenderInv /\ RetryInv /\ [Next]_vars => RetryInv'
  BY NextKeepsRetryInv
<1> QED
  BY <1>1, InitRetryInv, SenderInvariance, PTL DEF Spec

\* No call is transmitted more often than the caller asked for, and none times
\* out before all its retries are used.
THEOREM RetriesRespected == Spec => []RetriesAreRespected
<1>1. SenderInv /\ RetryInv => RetriesAreRespected
  <2> SUFFICES ASSUME SenderInv, RetryInv, NEW w \in Works
               PROVE  /\ attempts[w] <= Retries[w] + 1
                      /\ TimedOut(w) => attempts[w] >= Retries[w]
    BY DEF RetriesAreRespected, TimedOut
  <2>1. Retries[w] \in Nat /\ attempts[w] \in Nat
    BY NumberAssumption DEF SenderInv, TypeOK
  <2> QED
    BY <2>1 DEF RetryInv, AttemptsCounted, AnsweredIsClosed
<1> QED
  BY <1>1, SenderInvariance, RetryInvariance, PTL

\* The final result is the last thing a caller hears of its command, whatever
\* acks and timeouts are still to come.
THEOREM FinalResultIsFinal == Spec => NothingAfterFinalResult
<1>1. SenderInv /\ RetryInv /\ [Next]_vars =>
          [\A w \in Works : HasFinalResult(w) => results'[w] = results[w]]_vars
  BY NextKeepsRetryInv
<1> QED
  BY <1>1, SenderInvariance, RetryInvariance, PTL DEF Spec, NothingAfterFinalResult
=============================================================================
