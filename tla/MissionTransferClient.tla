------------------------ MODULE MissionTransferClient ------------------------
(***************************************************************************)
(* MavlinkMissionTransferClient (core/mavlink_mission_transfer_client.{hpp,cpp}):  *)
(* uploads, downloads and clears plans and sets the current item, one      *)
(* transfer after the other.                                               *)
(*                                                                         *)
(* The queue is touched on the io thread only.  A transfer (a WorkItem) is *)
(* reached by the io thread, through the messages it registered for, its   *)
(* timeout and do_work, and by the user threads that cancel it; its state  *)
(* is protected by its mutex, so a handler, a timeout and cancel() are one *)
(* action each.  A timeout that run_once has started but that still waits  *)
(* for the mutex is a state of its own (`running'): cancel() gets between. *)
(*                                                                         *)
(* The handlers are operators from the state of a transfer to its new      *)
(* state; `ok' tells whether Sender::queue_message accepts the message.    *)
(* The other end is any system that answers what it was asked, as often    *)
(* and as late as it likes.  Progress callbacks are left out.              *)
(***************************************************************************)
EXTENDS Integers, Sequences, FiniteSets

CONSTANTS
    Transfers,    \* the calls of the *_async functions
    Kind,         \* "upload", "download", "clear" or "set_current"
    Type,         \* _type: "mission" or "fence"
    Plan,         \* the items of each upload, a sequence
    Current,      \* the item each set_current asks for
    Retries,      \* MavlinkMissionTransferClient::retries
    ArduPilot,    \* whether the autopilot is an ArduPilot
    AckTypes,     \* the types of the acks received, whatever they are
    Stored,       \* the number of items the other end stores of each type
    MaxSeq,       \* bound: largest sequence number in a request
    MaxMessages,  \* bound: number of messages received
    NoTransfer

ASSUME TransferAssumption ==
    /\ NoTransfer \notin Transfers
    /\ \A w \in Transfers :
          /\ Kind[w] \in {"upload", "download", "clear", "set_current"}
          /\ Kind[w] = "set_current" => Current[w] \in Int
          /\ Type[w] \in {"mission", "fence"}
          /\ Stored[Type[w]] \in Nat
    /\ IsFiniteSet(Transfers)
ASSUME NumberAssumption ==
    /\ Retries \in Nat \ {0}
    /\ MaxSeq \in Nat
    /\ MaxMessages \in Nat

VARIABLES
    item,        \* the state of each WorkItem
    queue,       \* _work_queue
    tasks,       \* the tasks posted to the io_context, in order
    running,     \* the transfer whose timeout was started and waits for _mutex
    held,        \* what the user thread that may cancel each transfer is doing
    intMessages, \* _int_messages_supported
    messages,    \* number of messages received
    silenced     \* history: clears under way that got an ack of another type

vars == <<item, queue, tasks, running, held, intMessages, messages, silenced>>

\* What the handlers tell apart of MAV_MISSION_RESULT: success, the errors, and
\* the other end's cancellation.  The field on the wire may hold other values.
ListedAcks == {"ACCEPTED", "ERROR", "CANCELLED"}

DoWorkTask == [op |-> "do_work", of |-> NoTransfer]
Task(op, w) == [op |-> op, of |-> w]

\* A WorkItem before it is constructed; `results' are the results its callback
\* was called with, `sent' the items an upload has sent, `received' those a
\* download has got (_items), `notify' whether _done_callback is set.
NewItem ==
    [registered |-> FALSE, started |-> FALSE, done |-> FALSE, notify |-> FALSE,
     callback |-> TRUE, freed |-> FALSE, timer |-> FALSE, step |-> "first",
     next |-> 0, retries |-> 0, expected |-> 0, received |-> <<>>,
     sent |-> {}, results |-> <<>>]

Init ==
    /\ item = [w \in Transfers |-> NewItem]
    /\ queue = <<>>
    /\ tasks = <<>>
    /\ running = NoTransfer
    /\ held = [w \in Transfers |-> "no call"]
    /\ intMessages = TRUE
    /\ messages = 0
    /\ silenced = {}

-----------------------------------------------------------------------------
(***************************************************************************)
(* What all transfers share.                                               *)
(***************************************************************************)

AddTimeout(it) == [it EXCEPT !.timer = TRUE]
RemoveTimeout(it) == [it EXCEPT !.timer = FALSE]
\* refresh() restarts the wait of a registered timeout, and only that.
RefreshTimeout(it) == it

\* Mutant: the callback is not reset.
CallbackOnly(it, result) ==
    [it EXCEPT !.results = IF it.callback
                           THEN Append(@, [result |-> result,
                                           items |-> it.received])
                           ELSE @,
               !.done = TRUE]

\* callback_and_reset: the callback is called once, with the items; set_done.
CallbackAndReset(it, result) ==
    [it EXCEPT !.results = IF it.callback
                           THEN Append(@, [result |-> result,
                                           items |-> it.received])
                           ELSE @,
               !.callback = FALSE,
               !.done = TRUE]

\* A message that counts as an attempt.
SendOrFail(it, ok) ==
    IF ok THEN [it EXCEPT !.retries = @ + 1]
          ELSE CallbackAndReset(RemoveTimeout(it), "ConnectionError")

SendCancelAndFinish(it, ok) ==
    CallbackAndReset(it, IF ok THEN "Cancelled" ELSE "ConnectionError")

(***************************************************************************)
(* UploadWorkItem.  Its steps are "first", SendCount, and "items".         *)
(***************************************************************************)

SendCount(it, ok) == SendOrFail(it, ok)

NumCurrents(plan) == Cardinality({i \in DOMAIN plan : plan[i].current = 1})

\* The checks start() makes before it sends anything.
PlanError(w) ==
    LET plan == Plan[w] IN
    CASE plan = <<>> -> "NoMissionAvailable"
      [] plan # <<>> /\ \E i \in DOMAIN plan : plan[i].seq # i - 1 ->
            "InvalidSequence"
      [] plan # <<>> /\ (\A i \in DOMAIN plan : plan[i].seq = i - 1)
                     /\ Type[w] = "mission" /\ NumCurrents(plan) # 1 ->
            "CurrentInvalid"
      [] OTHER -> IF \E i \in DOMAIN plan : plan[i].type # Type[w]
                  THEN "MissionTypeNotConsistent"
                  ELSE "none"

UploadStart(w, it, ok) ==
    LET started == [it EXCEPT !.started = TRUE] IN
    IF PlanError(w) # "none"
    THEN CallbackAndReset(started, PlanError(w))
    ELSE SendCount(AddTimeout([started EXCEPT !.retries = 0, !.step = "first",
                                              !.next = 0]),
                   ok)

SendMissionItem(w, it, ok) ==
    IF it.next >= Len(Plan[w])
    THEN it
    ELSE IF ok
         THEN [it EXCEPT !.sent = @ \cup {it.next}, !.next = @ + 1,
                         !.retries = @ + 1]
         ELSE CallbackAndReset(RemoveTimeout(it), "ConnectionError")

\* Mutant: a request is served wherever it is in the plan.
ProcessAnyRequestInt(w, it, seq, ok) ==
    SendMissionItem(w, [RefreshTimeout(it) EXCEPT !.step = "items",
                                                  !.next = seq],
                    ok)

ProcessMissionRequestInt(w, it, seq, ok) ==
    LET stepped == [it EXCEPT !.step = "items"]
        asIs == [RefreshTimeout(stepped) EXCEPT !.next = seq]
    IN
    IF it.next < seq
    THEN stepped
    ELSE IF it.next > seq
         THEN IF it.retries >= Retries
              THEN CallbackAndReset(RemoveTimeout(stepped), "Timeout")
              ELSE SendMissionItem(w, asIs, ok)
         ELSE SendMissionItem(w, [asIs EXCEPT !.retries = 0], ok)

\* MISSION_REQUEST is refused, except that it is taken for MISSION_REQUEST_INT
\* if it comes from an ArduPilot.
ProcessMissionRequest(w, it, seq, ok) ==
    IF ArduPilot
    THEN ProcessMissionRequestInt(w, it, seq, ok)
    ELSE IF ok THEN RefreshTimeout(it)
               ELSE CallbackAndReset(RemoveTimeout(it), "ConnectionError")

\* ACCEPTED, and any value without a case, is success if all was sent.
UploadProcessMissionAck(w, it, type) ==
    CallbackAndReset(RemoveTimeout(it),
        IF type \in {"ERROR", "CANCELLED"}
        THEN (IF type = "ERROR" THEN "ProtocolError" ELSE "Cancelled")
        ELSE IF it.next = Len(Plan[w]) THEN "Success" ELSE "ProtocolError")

\* Mutant: an upload that waits for a request does not wait with a timeout.
UploadTimesOutOnce(it, ok) ==
    IF it.retries >= Retries
    THEN CallbackAndReset(it, "Timeout")
    ELSE IF it.step = "first"
         THEN SendCount(AddTimeout(it), ok)
         ELSE [it EXCEPT !.retries = @ + 1]

UploadProcessTimeout(it, ok) ==
    IF it.retries >= Retries
    THEN CallbackAndReset(it, "Timeout")
    ELSE IF it.step = "first"
         THEN SendCount(AddTimeout(it), ok)
         ELSE AddTimeout([it EXCEPT !.retries = @ + 1])

(***************************************************************************)
(* DownloadWorkItem.  Its steps are "first", RequestList, and "items".     *)
(***************************************************************************)

RequestList(it, ok) == SendOrFail(it, ok)
RequestItem(it, ok) == SendOrFail(it, ok)

SendAckAndFinish(it, ok) ==
    CallbackAndReset(it, IF ok THEN "Success" ELSE "ConnectionError")

\* start() forgets the items but neither the step nor the count.
DownloadStart(it, ok) ==
    RequestList(AddTimeout([it EXCEPT !.received = <<>>, !.started = TRUE,
                                      !.retries = 0]),
                ok)

ProcessMissionCount(it, count, ok) ==
    IF count = 0
    THEN RemoveTimeout(SendAckAndFinish(it, ok))
    ELSE RequestItem([RefreshTimeout(it) EXCEPT
                        !.next = 0, !.step = "items", !.retries = 0,
                        !.expected = count],
                     ok)

\* Mutant: every item that arrives is taken for the one asked for.
ProcessAnyItemInt(it, seq, type, ok) ==
    LET got == [RefreshTimeout(it) EXCEPT
                  !.received = Append(@, [seq |-> seq, type |-> type])]
    IN
    IF seq + 1 = it.expected
    THEN SendAckAndFinish(RemoveTimeout(got), ok)
    ELSE RequestItem([got EXCEPT !.next = seq + 1, !.retries = 0], ok)

ProcessMissionItemInt(it, seq, type, ok) ==
    LET got == [RefreshTimeout(it) EXCEPT
                  !.received = Append(@, [seq |-> seq, type |-> type])]
    IN
    IF it.next # seq
    THEN RefreshTimeout(it)
    ELSE IF it.next + 1 = it.expected
         THEN SendAckAndFinish(RemoveTimeout(got), ok)
         ELSE RequestItem([got EXCEPT !.next = seq + 1, !.retries = 0], ok)

\* Mutant: a request that is repeated has no timeout.
DownloadTimesOutOnce(it, ok) ==
    IF it.retries >= Retries
    THEN CallbackAndReset(it, "Timeout")
    ELSE IF it.step = "first" THEN RequestList(it, ok) ELSE RequestItem(it, ok)

DownloadProcessTimeout(it, ok) ==
    IF it.retries >= Retries
    THEN CallbackAndReset(it, "Timeout")
    ELSE IF it.step = "first" THEN RequestList(AddTimeout(it), ok)
                              ELSE RequestItem(AddTimeout(it), ok)

(***************************************************************************)
(* ClearWorkItem and SetCurrentWorkItem.                                   *)
(***************************************************************************)

SendClear(it, ok) == SendOrFail(it, ok)

ClearStart(it, ok) ==
    SendClear(AddTimeout([it EXCEPT !.started = TRUE, !.retries = 0]), ok)

\* The switch has no default: an ack of another type only stops the timeout.
ClearProcessMissionAck(it, type) ==
    LET stopped == RemoveTimeout(it) IN
    CASE type = "ACCEPTED" -> CallbackAndReset(stopped, "Success")
      [] type = "ERROR" -> CallbackAndReset(stopped, "ProtocolError")
      [] type = "CANCELLED" -> CallbackAndReset(stopped, "Cancelled")
      [] OTHER -> stopped

\* Mutant: a clear that is sent again has no timeout.
ClearTimesOutOnce(it, ok) ==
    IF it.retries >= Retries THEN CallbackAndReset(it, "Timeout")
                             ELSE SendClear(it, ok)

ClearProcessTimeout(it, ok) ==
    IF it.retries >= Retries THEN CallbackAndReset(it, "Timeout")
                             ELSE SendClear(AddTimeout(it), ok)

SendCurrentMissionItem(it, ok) == SendOrFail(it, ok)

SetCurrentStart(w, it, ok) ==
    LET started == [it EXCEPT !.started = TRUE] IN
    IF Current[w] < 0
    THEN CallbackAndReset(started, "CurrentInvalid")
    ELSE SendCurrentMissionItem(AddTimeout([started EXCEPT !.retries = 0]), ok)

ProcessMissionCurrent(w, it, seq, ok) ==
    LET stopped == RemoveTimeout(it) IN
    IF Current[w] = seq
    THEN CallbackAndReset(stopped, "Success")
    ELSE SendCurrentMissionItem(RefreshTimeout(stopped), ok)

SetCurrentProcessTimeout(it, ok) ==
    IF it.retries >= Retries THEN CallbackAndReset(it, "Timeout")
                             ELSE SendCurrentMissionItem(AddTimeout(it), ok)

-----------------------------------------------------------------------------
(***************************************************************************)
(* The queue.                                                              *)
(***************************************************************************)

Start(w, it, ok) ==
    CASE Kind[w] = "upload" -> UploadStart(w, it, ok)
      [] Kind[w] = "download" -> DownloadStart(it, ok)
      [] Kind[w] = "clear" -> ClearStart(it, ok)
      [] Kind[w] = "set_current" -> SetCurrentStart(w, it, ok)

ProcessTimeout(w, it, ok) ==
    CASE Kind[w] = "upload" -> UploadProcessTimeout(it, ok)
      [] Kind[w] = "download" -> DownloadProcessTimeout(it, ok)
      [] Kind[w] = "clear" -> ClearProcessTimeout(it, ok)
      [] Kind[w] = "set_current" -> SetCurrentProcessTimeout(it, ok)

\* The destructor; the removal does not wait for a timeout that is running.
Destroy(it) == [RemoveTimeout(it) EXCEPT !.registered = FALSE, !.freed = TRUE]

\* Mutant: only the destructor takes a transfer out of the message table.
RetireRegistered(w, it) == IF held[w] = "locked" THEN it ELSE Destroy(it)

\* unregister_messages and pop_front: without a user's reference it is the end.
Retire(w, it) ==
    IF held[w] = "locked" THEN [it EXCEPT !.registered = FALSE] ELSE Destroy(it)

\* Mutant: nobody tells the queue that a transfer has ended.
NonePosted(before, after) == <<>>

\* set_done posts do_work, once for each transfer it ends.
Posted(before, after) ==
    LET ended == {w \in Transfers :
                    after[w].done /\ ~before[w].done /\ before[w].notify}
    IN [i \in 1..Cardinality(ended) |-> DoWorkTask]

\* do_work from a state of the transfers, the queue and the tasks.
DoWork(items, q, ts, ok) ==
    IF q = <<>>
    THEN /\ item' = items
         /\ queue' = q
         /\ tasks' = ts
    ELSE LET w == Head(q)
             it == IF items[w].started THEN items[w] ELSE Start(w, items[w], ok)
             posted == Posted(items, [items EXCEPT ![w] = it])
         IN IF it.done
            THEN /\ item' = [items EXCEPT ![w] = Retire(w, it)]
                 /\ queue' = Tail(q)
                 /\ tasks' = ts \o posted
                                \o IF Tail(q) = <<>> THEN <<>> ELSE <<DoWorkTask>>
            ELSE /\ item' = [items EXCEPT ![w] = it]
                 /\ queue' = q
                 /\ tasks' = ts

-----------------------------------------------------------------------------
(***************************************************************************)
(* User threads.                                                           *)
(***************************************************************************)

\* upload_items_async and download_items_async hand out a handle, or refuse.
TransferItemsAsync(w) ==
    /\ held[w] = "no call"
    /\ Kind[w] \in {"upload", "download"}
    /\ IF intMessages
       THEN /\ held' = [held EXCEPT ![w] = "handle"]
            /\ tasks' = tasks \o <<Task("register", w), Task("enqueue", w)>>
            /\ UNCHANGED item
       ELSE /\ held' = [held EXCEPT ![w] = "no handle"]
            /\ item' = [item EXCEPT ![w].callback = FALSE,
                                    ![w].results =
                          <<[result |-> "IntMessagesNotSupported",
                             items |-> <<>>]>>]
            /\ UNCHANGED tasks
    /\ UNCHANGED <<queue, running, intMessages, messages, silenced>>

\* clear_items_async and set_current_item_async hand out no handle.
OtherAsync(w) ==
    /\ held[w] = "no call"
    /\ Kind[w] \in {"clear", "set_current"}
    /\ held' = [held EXCEPT ![w] = "no handle"]
    /\ tasks' = tasks \o <<Task("register", w), Task("enqueue", w)>>
    /\ UNCHANGED <<item, queue, running, intMessages, messages, silenced>>

\* The owner of a handle locks the weak_ptr, to cancel or to see if it is busy.
Lock(w) ==
    /\ held[w] = "handle"
    /\ ~item[w].freed
    /\ held' = [held EXCEPT ![w] = "locked"]
    /\ UNCHANGED <<item, queue, tasks, running, intMessages, messages, silenced>>

Cancel(w) ==
    /\ held[w] = "locked"
    /\ \E ok \in BOOLEAN :
          LET after == [item EXCEPT ![w] =
                          SendCancelAndFinish(RemoveTimeout(@), ok)]
          IN /\ item' = after
             /\ tasks' = tasks \o Posted(item, after)
    /\ UNCHANGED <<queue, running, held, intMessages, messages, silenced>>

\* It lets go of its reference, which can be the last one.
Unlock(w) ==
    LET referenced == \/ \E i \in DOMAIN queue : queue[i] = w
                      \/ \E i \in DOMAIN tasks : tasks[i] = Task("enqueue", w)
    IN
    /\ held[w] = "locked"
    /\ held' = [held EXCEPT ![w] = "handle"]
    /\ item' = [item EXCEPT ![w] = IF referenced THEN @ ELSE Destroy(@)]
    /\ UNCHANGED <<queue, tasks, running, intMessages, messages, silenced>>

(***************************************************************************)
(* The io thread.  It does one thing at a time, so nothing else while a    *)
(* timeout waits for the mutex of its transfer.                            *)
(***************************************************************************)

\* Bound: not once every transfer has been asked for, as nobody reads it then.
SetIntMessagesSupported ==
    /\ running = NoTransfer
    /\ \E w \in Transfers : held[w] = "no call"
    /\ intMessages' \in BOOLEAN \ {intMessages}
    /\ UNCHANGED <<item, queue, tasks, running, held, messages, silenced>>

\* The next task: add a transfer to the message table, put it into the queue,
\* or do_work.
RunTask ==
    /\ running = NoTransfer
    /\ tasks # <<>>
    /\ LET w == Head(tasks).of IN
          \/ /\ Head(tasks).op = "register"
             /\ item' = [item EXCEPT ![w].registered = TRUE]
             /\ tasks' = Tail(tasks)
             /\ UNCHANGED queue
          \/ /\ Head(tasks).op = "enqueue"
             /\ LET items == [item EXCEPT ![w].notify = TRUE] IN
                IF queue = <<>>
                THEN \E ok \in BOOLEAN : DoWork(items, <<w>>, Tail(tasks), ok)
                ELSE /\ item' = items
                     /\ queue' = Append(queue, w)
                     /\ tasks' = Tail(tasks)
          \/ /\ Head(tasks).op = "do_work"
             /\ \E ok \in BOOLEAN : DoWork(item, queue, Tail(tasks), ok)
    /\ UNCHANGED <<running, held, intMessages, messages, silenced>>

Handles(w, id) ==
    CASE Kind[w] = "upload" -> id \in {"request", "request_int", "ack"}
      [] Kind[w] = "download" -> id \in {"count", "item_int"}
      [] Kind[w] = "clear" -> id = "ack"
      [] Kind[w] = "set_current" -> id = "current"

ProcessMessage(w, it, m, ok) ==
    CASE m.id = "request" -> ProcessMissionRequest(w, it, m.seq, ok)
      [] m.id = "request_int" -> ProcessMissionRequestInt(w, it, m.seq, ok)
      [] m.id = "ack" /\ Kind[w] = "upload" ->
            UploadProcessMissionAck(w, it, m.result)
      [] m.id = "ack" /\ Kind[w] = "clear" -> ClearProcessMissionAck(it, m.result)
      [] m.id = "count" -> ProcessMissionCount(it, m.count, ok)
      [] m.id = "item_int" -> ProcessMissionItemInt(it, m.seq, m.type, ok)
      [] m.id = "current" -> ProcessMissionCurrent(w, it, m.seq, ok)

\* The messages the other end may send: requests for the items of an upload
\* under way, acks once there is something to acknowledge, the count and the
\* items of a type that was downloaded, and the current item at any time.
Begun(kind) == {w \in Transfers : Kind[w] = kind /\ item[w].started}
Answers ==
    LET types == {Type[w] : w \in Begun("download")} IN
    [id : {"request", "request_int"},
     seq : {s \in 0..MaxSeq : Begun("upload") # {}}]
      \cup [id : {"ack"},
            result : {r \in AckTypes : Begun("upload") \cup Begun("clear") # {}}]
      \cup {[id |-> "count", count |-> Stored[t]] : t \in types}
      \cup (UNION {[id : {"item_int"}, type : {t}, seq : 0..(Stored[t] - 1)] :
                     t \in types})
      \cup [id : {"current"},
            seq : {s \in 0..MaxSeq :
                     \E w \in Transfers : Kind[w] = "set_current"}]

\* An ack whose type no case of the switch names.
Unlisted(m) == m.id = "ack" /\ m.result \notin ListedAcks

\* MavlinkMessageHandler::process_message calls every transfer that registered
\* for the message, whether it is its turn or not.
ReceiveMessage(m) ==
    /\ running = NoTransfer
    /\ messages < MaxMessages
    /\ messages' = messages + 1
    /\ \E ok \in BOOLEAN :
          LET after == [w \in Transfers |->
                          IF item[w].registered /\ Handles(w, m.id)
                          THEN ProcessMessage(w, item[w], m, ok)
                          ELSE item[w]]
          IN /\ item' = after
             /\ tasks' = tasks \o Posted(item, after)
    /\ silenced' = silenced \cup
          {w \in Transfers : /\ Kind[w] = "clear" /\ item[w].registered
                            /\ item[w].started /\ Unlisted(m)}
    /\ UNCHANGED <<queue, running, held, intMessages>>

\* run_once takes the timeout out and calls process_timeout.
TimeoutStarts(w) ==
    /\ running = NoTransfer
    /\ item[w].timer
    /\ item' = [item EXCEPT ![w] = RemoveTimeout(@)]
    /\ running' = w
    /\ UNCHANGED <<queue, tasks, held, intMessages, messages, silenced>>

\* process_timeout has the mutex.  What it does to a transfer that was freed
\* meanwhile is not modelled.
TimeoutBody(w) ==
    /\ running = w
    /\ running' = NoTransfer
    /\ \E ok \in BOOLEAN :
          LET after == [item EXCEPT ![w] = IF @.freed THEN @
                                           ELSE ProcessTimeout(w, @, ok)]
          IN /\ item' = after
             /\ tasks' = tasks \o Posted(item, after)
    /\ UNCHANGED <<queue, held, intMessages, messages, silenced>>

-----------------------------------------------------------------------------
User(w) ==
    \/ TransferItemsAsync(w)
    \/ OtherAsync(w)
    \/ Lock(w)
    \/ Cancel(w)
    \/ Unlock(w)

Next ==
    \/ \E w \in Transfers : User(w) \/ TimeoutStarts(w) \/ TimeoutBody(w)
    \/ SetIntMessagesSupported
    \/ RunTask
    \/ \E m \in Answers : ReceiveMessage(m)

Spec == Init /\ [][Next]_vars

\* The io thread runs what is posted and what is due.  No message is sure to
\* arrive, and no user thread to do anything.
Fairness ==
    /\ WF_vars(RunTask)
    /\ \A w \in Transfers : WF_vars(TimeoutStarts(w)) /\ WF_vars(TimeoutBody(w))

FairSpec == Spec /\ Fairness
-----------------------------------------------------------------------------
(***************************************************************************)
(* Properties.                                                             *)
(***************************************************************************)

Results ==
    {"Success", "Timeout", "ConnectionError", "Cancelled", "ProtocolError",
     "IntMessagesNotSupported", "NoMissionAvailable", "InvalidSequence",
     "CurrentInvalid", "MissionTypeNotConsistent"}
ItemInts == [seq : Nat, type : {"mission", "fence"}]

Items ==
    [registered : BOOLEAN, started : BOOLEAN, done : BOOLEAN, notify : BOOLEAN,
     callback : BOOLEAN, freed : BOOLEAN, timer : BOOLEAN,
     step : {"first", "items"}, next : Nat, retries : Nat, expected : Nat,
     received : Seq(ItemInts), sent : SUBSET Nat,
     results : Seq([result : Results, items : Seq(ItemInts)])]

\* The types of the variables.
TypeOK ==
    /\ item \in [Transfers -> Items]
    /\ queue \in Seq(Transfers)
    /\ tasks \in Seq([op : {"register", "enqueue"}, of : Transfers]
                       \cup {DoWorkTask})
    /\ running \in Transfers \cup {NoTransfer}
    /\ held \in [Transfers -> {"no call", "handle", "locked", "no handle"}]
    /\ intMessages \in BOOLEAN
    /\ messages \in 0..MaxMessages
    /\ silenced \subseteq {w \in Transfers : Kind[w] = "clear"}

InQueue(w) == \E i \in DOMAIN queue : queue[i] = w
Pending(task) == \E i \in DOMAIN tasks : tasks[i] = task

\* However acks, timeouts and cancel() race, the callback of a transfer is
\* called at most once.
OneResult == \A w \in Transfers : Len(item[w].results) <= 1

\* A transfer that is under way has a timeout that will retry it or give it
\* up, except for a clear that got an ack the switch at line 995 has no case for:
\* that takes its timeout and leaves it (for set_current see SetCurrentEnds).
TransferHasTimeout ==
    \A w \in Transfers :
        /\ Kind[w] # "set_current"
        /\ item[w].started
        /\ ~item[w].done
        => item[w].timer \/ running = w \/ w \in silenced

\* No work sits in the queue forever: when the front has not started or is
\* done, a do_work has been posted (THREADING.md: "it has to kick do_work()
\* itself").
QueueIsKicked ==
    queue # <<>> /\ (item[Head(queue)].started => item[Head(queue)].done)
        => Pending(DoWorkTask)

\* The message table holds a bare pointer to a transfer only while the queue,
\* or the task that puts it there, keeps the transfer alive.
RegisteredIsAlive ==
    \A w \in Transfers :
        item[w].registered \/ Pending(Task("register", w))
            => InQueue(w) \/ Pending(Task("enqueue", w))

\* An upload that ended with success has sent every item of its plan.
UploadSuccessMeansSent ==
    \A w \in Transfers :
        /\ Kind[w] = "upload"
        /\ \E i \in DOMAIN item[w].results : item[w].results[i].result = "Success"
        => 0..(Len(Plan[w]) - 1) \subseteq item[w].sent

\* A download that ended with success hands over items that end in a run
\* without gaps, from item 0 to the last one: a late or repeated item is never
\* taken for the one that was asked for.
DownloadInOrder ==
    \A w \in Transfers : \A i \in DOMAIN item[w].results :
        LET items == item[w].results[i].items
            last == items[Len(items)].seq
        IN  /\ Kind[w] = "download"
            /\ item[w].results[i].result = "Success"
            /\ items # <<>>
            => \A s \in 0..last : /\ last - s < Len(items)
                                  /\ items[Len(items) - (last - s)].seq = s

\* A silenced clear blocks the queue.
Stuck == queue # <<>> /\ Head(queue) \in silenced /\ ~item[Head(queue)].done

\* Every upload, download and clear ends with a result, whatever is lost, unless
\* it is a clear that such an ack has silenced, or waits behind one.
EveryTransferEnds ==
    \A w \in Transfers :
        Kind[w] # "set_current" /\ held[w] # "no call"
            ~> item[w].results # <<>> \/ Stuck

\* Setting the current item ends with a result, at last with a timeout: the
\* test SetCurrentWithRetransmissionAndTimeout, which the code does not keep.
SetCurrentEnds ==
    \A w \in Transfers :
        Kind[w] = "set_current" /\ held[w] # "no call"
            ~> item[w].results # <<>>
=============================================================================
