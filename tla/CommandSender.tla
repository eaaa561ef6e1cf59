---------------------------- MODULE CommandSender ----------------------------
(***************************************************************************)
(* MavlinkCommandSender (core/mavlink_command_sender.{hpp,cpp}): sends     *)
(* COMMAND_INT / COMMAND_LONG, retransmits on timeout and reports the      *)
(* acknowledgement to the caller.                                          *)
(*                                                                         *)
(* _work_queue is touched on the io thread only, so each message handler,  *)
(* timeout callback and posted task is one action; user threads only post  *)
(* tasks.  A command is abstracted to its CommandIdentification: the       *)
(* command id, the parameters that tell two requests of one id apart, and  *)
(* the component it is addressed to.                                       *)
(*                                                                         *)
(* The timeouts are those of TimeoutHandler seen from a client: one that   *)
(* is registered fires once or is removed.  timeout_s is read from the     *)
(* configuration for each command, so the timeouts of two commands may     *)
(* fire in any order.                                                      *)
(***************************************************************************)
EXTENDS Integers, Sequences

CONSTANTS
    Works,         \* the calls of send_command / queue_command_async
    Ident,         \* identification of the command of each call
    HasCallback,   \* the calls that pass a callback
    Retries,       \* the number of retries of each call
    Components,    \* the components of the other systems
    AnyComponent,  \* target id 0: addressed to every component
    MaxAcks        \* bound: number of COMMAND_ACK messages received

ASSUME CallAssumption == HasCallback \subseteq Works /\ "do_work" \notin Works
ASSUME NumberAssumption == Retries \in [Works -> Nat] /\ MaxAcks \in Nat

Command(w) == Ident[w].command
AddressedTo(w, component) == Ident[w].target \in {component, AnyComponent}
Commands == {Command(w) : w \in Works}

\* The results of MAV_RESULT: two that end a command (the others only differ in
\* the Result they map to), progress, and a value the switch has no case for.
FinalAcks == {"ACCEPTED", "DENIED"}
Acks == FinalAcks \cup {"IN_PROGRESS", "OTHER"}
Results == {"Success", "Denied", "InProgress", "UnknownError", "Timeout",
            "ConnectionError"}

VARIABLES
    queue,      \* _work_queue, with ...
    position,   \* ... the place at which each call was pushed back, and
    pushed,     \* the number of calls pushed back so far
    sent,       \* the calls with Work::already_sent
    retries,    \* Work::retries_to_do
    cookie,     \* Work::timeout_cookie: cookie n of call w stands for the
                \* n-th timeout registered for w, 0 for none
    timers,     \* the registered timeouts, pairs <<call, cookie>>
    tasks,      \* the tasks posted to the io_context, in order
    called,     \* the calls that were made
    results,    \* the results queued for the callback of each call, in order
    attempts,   \* how often each call was handed to the connection
    acks        \* number of COMMAND_ACKs received

vars == <<queue, position, pushed, sent, retries, cookie, timers, tasks, called,
          results, attempts, acks>>

\* The types of the variables.
TypeOK ==
    /\ queue \subseteq Works
    /\ position \in [Works -> Nat]
    /\ pushed \in Nat
    /\ sent \subseteq Works
    /\ retries \in [Works -> Nat]
    /\ cookie \in [Works -> Nat]
    /\ timers \subseteq Works \X (Nat \ {0})
    /\ tasks \in Seq(Works \cup {"do_work"})
    /\ called \subseteq Works
    /\ results \in [Works -> Seq(Results)]
    /\ attempts \in [Works -> Nat]
    /\ acks \in Nat

Init ==
    /\ queue = {}
    /\ position = [w \in Works |-> 0]
    /\ pushed = 0
    /\ sent = {}
    /\ retries = Retries
    /\ cookie = [w \in Works |-> 0]
    /\ timers = {}
    /\ tasks = <<>>
    /\ called = {}
    /\ results = [w \in Works |-> <<>>]
    /\ attempts = [w \in Works |-> 0]
    /\ acks = 0

-----------------------------------------------------------------------------

Before(v, w) == position[v] < position[w]
IsFirst(w, works) == w \in works /\ \A v \in works \ {w} : Before(w, v)

\* Registers a timeout for each call of `works'; `keep' stay registered.  The
\* callback of the timeout of w captures Ident[w].
RegisterTimeouts(works, keep) ==
    /\ cookie' = [w \in Works |-> IF w \in works THEN cookie[w] + 1 ELSE cookie[w]]
    /\ timers' = keep \cup {<<w, cookie[w] + 1>> : w \in works}

\* send_mavlink_message for each call of `works'.
Transmit(works) ==
    attempts' = [w \in Works |->
                    IF w \in works THEN attempts[w] + 1 ELSE attempts[w]]

\* call_callback: queues the result for the user callback thread.
CallCallback(w, result) ==
    results' = IF w \in HasCallback
               THEN [results EXCEPT ![w] = Append(@, result)]
               ELSE results

\* Mutant: nothing re-runs do_work when a command has ended.
NoPost == tasks' = tasks

PostDoWork == tasks' = Append(tasks, "do_work")

(***************************************************************************)
(* do_work, on the io thread.                                              *)
(***************************************************************************)

\* Mutant: do_work does not skip what was sent already.
ToSendAgain(q, pos) ==
    {w \in q : \A v \in q \ {w} : Command(v) = Command(w) => pos[w] < pos[v]}

\* What one pass over the queue sends: the calls not sent yet, unless a call
\* with the same command id was sent before, or is earlier in the queue and
\* sent by this pass.
ToSend(q, pos) ==
    {w \in q \ sent :
        \A v \in q \ {w} :
            Command(v) = Command(w) => v \notin sent /\ pos[w] < pos[v]}

\* already_sent is set even if the connection refuses the message: the timeout
\* then tries again.
DoWork(q, pos) ==
    /\ queue' = q
    /\ position' = pos
    /\ sent' = sent \cup ToSend(q, pos)
    /\ Transmit(ToSend(q, pos))
    /\ RegisterTimeouts(ToSend(q, pos), timers)

DoWorkPosted ==
    /\ tasks # <<>>
    /\ Head(tasks) = "do_work"
    /\ tasks' = Tail(tasks)
    /\ DoWork(queue, position)
    /\ UNCHANGED <<pushed, retries, called, results, acks>>

(***************************************************************************)
(* The calls of the users.                                                 *)
(***************************************************************************)

\* send_command and queue_command_async, for COMMAND_INT and COMMAND_LONG.
\* (send_command then waits for the first result that is not InProgress.)
QueueCommandAsync(w) ==
    /\ w \notin called
    /\ called' = called \cup {w}
    /\ tasks' = Append(tasks, w)
    /\ UNCHANGED <<queue, position, pushed, sent, retries, cookie, timers, results,
                   attempts, acks>>

\* A call without a callback is dropped while an identical one is queued.
Dropped(w) == w \notin HasCallback /\ \E v \in queue : Ident[v] = Ident[w]

\* The task queue_command_async posts: push_back and do_work.
Enqueue ==
    /\ tasks # <<>>
    /\ Head(tasks) \in Works
    /\ tasks' = Tail(tasks)
    /\ LET w == Head(tasks) IN
       IF Dropped(w)
       THEN UNCHANGED <<queue, position, pushed, sent, cookie, timers, attempts>>
       ELSE /\ pushed' = pushed + 1
            /\ DoWork(queue \cup {w}, [position EXCEPT ![w] = pushed + 1])
    /\ UNCHANGED <<retries, called, results, acks>>

(***************************************************************************)
(* receive_command_ack.                                                    *)
(***************************************************************************)

\* Mutant: the answered command stays in the queue.
AckFinalKeeps(w, ack) ==
    /\ ack \in FinalAcks
    /\ timers' = timers \ {<<w, cookie[w]>>}
    /\ CallCallback(w, IF ack = "ACCEPTED" THEN "Success" ELSE "Denied")
    /\ UNCHANGED <<queue, cookie>>

\* An ack that ends the command.
AckFinal(w, ack) ==
    /\ ack \in FinalAcks
    /\ timers' = timers \ {<<w, cookie[w]>>}
    /\ queue' = queue \ {w}
    /\ CallCallback(w, IF ack = "ACCEPTED" THEN "Success" ELSE "Denied")
    /\ UNCHANGED cookie

\* Mutant: a progress report stops the timeout for good.
AckInProgressStops(w, ack) ==
    /\ ack = "IN_PROGRESS"
    /\ timers' = timers \ {<<w, cookie[w]>>}
    /\ CallCallback(w, "InProgress")
    /\ UNCHANGED <<queue, cookie>>

\* A progress report: the timeout starts again.
AckInProgress(w, ack) ==
    /\ ack = "IN_PROGRESS"
    /\ RegisterTimeouts({w}, timers \ {<<w, cookie[w]>>})
    /\ CallCallback(w, "InProgress")
    /\ UNCHANGED queue

\* The default case of the switch.
AckOther(w, ack) ==
    /\ ack = "OTHER"
    /\ CallCallback(w, "UnknownError")
    /\ UNCHANGED <<queue, cookie, timers>>

\* The ack is taken for the first queued command with that id addressed to its
\* sender or to everybody, whether it was sent yet or not.
ReceiveCommandAck(command, from, ack) ==
    LET matching == {w \in queue : Command(w) = command /\ AddressedTo(w, from)}
    IN
    /\ acks < MaxAcks
    /\ acks' = acks + 1
    /\ \/ /\ matching = {}
          /\ UNCHANGED <<queue, cookie, timers, results, tasks>>
       \/ /\ \E w \in Works :
                /\ IsFirst(w, matching)
                /\ AckFinal(w, ack) \/ AckInProgress(w, ack) \/ AckOther(w, ack)
          /\ PostDoWork
    /\ UNCHANGED <<position, pushed, sent, retries, called, attempts>>

(***************************************************************************)
(* receive_timeout.                                                        *)
(***************************************************************************)

\* The loop over _work_queue.  Every command with the identification of the
\* timeout, whether it was sent yet or not, is sent again and gets a new
\* timeout, up to the first one that has no retry left or that the connection
\* refuses (`refused'): that one is dropped and ends the loop.
ReceiveTimeout(timer, refused) ==
    LET same  == {w \in queue : Ident[w] = Ident[timer[1]]}
        stops == {w \in same : retries[w] = 0 \/ w \in refused}
        again == {w \in same : \A v \in stops : Before(w, v)}
    IN
    /\ timer \in timers
    /\ RegisterTimeouts(again, timers \ {timer})
    /\ retries' = [w \in Works |->
                     IF w \in again THEN retries[w] - 1 ELSE retries[w]]
    /\ \/ /\ stops = {}
          /\ Transmit(again)
          /\ UNCHANGED <<queue, results>>
       \/ \E last \in Works :
             /\ IsFirst(last, stops)
             /\ queue' = queue \ {last}
             /\ IF retries[last] = 0
                THEN /\ Transmit(again)
                     /\ CallCallback(last, "Timeout")
                ELSE /\ Transmit(again \cup {last})
                     /\ CallCallback(last, "ConnectionError")
    /\ PostDoWork
    /\ UNCHANGED <<position, pushed, sent, called, acks>>

-----------------------------------------------------------------------------

Timeout ==
    \E timer \in timers, refused \in SUBSET queue : ReceiveTimeout(timer, refused)

Next ==
    \/ \E w \in Works : QueueCommandAsync(w)
    \/ Enqueue
    \/ DoWorkPosted
    \/ \E command \in Commands, from \in Components, ack \in Acks :
          ReceiveCommandAck(command, from, ack)
    \/ Timeout

\* The io thread runs what is posted, and a registered timeout fires unless it
\* is removed.  No ack has to arrive.
Fairness == WF_vars(Enqueue) /\ WF_vars(DoWorkPosted) /\ WF_vars(Timeout)

Spec == Init /\ [][Next]_vars
FairSpec == Spec /\ Fairness

-----------------------------------------------------------------------------
(***************************************************************************)
(* Properties                                                              *)
(***************************************************************************)

Final(result) == result \notin {"InProgress", "UnknownError"}
HasFinalResult(w) == \E i \in DOMAIN results[w] : Final(results[w][i])

\* No queued command is left without a way to end: the one that was sent has
\* its own timeout registered, whatever acks, timeouts of identical commands
\* and progress reports came in between.
SentHasTimeout == \A w \in queue \cap sent : <<w, cookie[w]>> \in timers

\* do_work has marked at most one queued command of each command id as sent.
OneSentPerCommand ==
    \A v, w \in queue \cap sent : Command(v) = Command(w) => v = w

\* The number of transmissions is bounded by the retries the caller asked for,
\* even though the timeouts of identical commands count for each other, and
\* Timeout is only reported when the retries are used up.
RetriesAreRespected ==
    \A w \in Works :
        /\ attempts[w] <= Retries[w] + 1
        /\ (\E i \in DOMAIN results[w] : results[w][i] = "Timeout")
               => attempts[w] >= Retries[w]

\* Once a caller has got the final result of its command it hears nothing more
\* of it: no late ack, duplicated ack or left-over timeout reaches it.
NothingAfterFinalResult ==
    [][\A w \in Works : HasFinalResult(w) => results'[w] = results[w]]_vars

\* Every call gets a final result, with no ack at all if need be, so that
\* send_command returns: nothing is left in the queue behind a command that
\* was answered or given up (THREADING.md:111-117).
EveryCallIsAnswered ==
    \A w \in HasCallback : w \in called ~> HasFinalResult(w)

\* mavlink_command_sender.cpp:52 - the promise of send_command is fulfilled at
\* most once: at most one result is not InProgress.
PromiseFulfilledOnce ==
    \A w \in Works :
        \A i, j \in DOMAIN results[w] :
            results[w][i] # "InProgress" /\ results[w][j] # "InProgress" => i = j
=============================================================================
