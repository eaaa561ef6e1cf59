# TLA+ specifications of the MAVSDK core

MAVSDK is a C++ library that talks MAVLink to drones. What is hard to get right
in it is not in the fifty plugins of the API (thin layers of conversions) but in
`src/cpp/src/mavsdk/core`: one io thread that runs every protocol state machine,
user threads that call into it, timers that can be removed from any thread, and
protocols over links that lose, repeat and reorder messages. These modules model
that core, TLC checks them on small instances, and TLAPS proves the safety of
all of them for every value of their constants, and that four of them implement
abstract specifications of what they promise.

Paths below are relative to `src/cpp/src/mavsdk/core` unless they start with
`src/`.

## 1. The system

### Threads

`THREADING.md` states the rules. The **io thread** runs
`asio::io_context::run()`: socket completions, message dispatch, posted tasks in
the order they were posted, and the handler of `_timers_poll_timer`. **User
threads** call the public API and mostly post onto the io thread; some calls
wait for it. The **user callback thread** drains one bounded queue of callbacks.
The **HTTP loader thread** downloads component metadata.

### Components

For each component: its state, its operations, how it interacts, what is hard,
and what makes it correct. Status `M` is modelled, `P` partly, `-` not (yet).

| Component | State | Operations | Interacts with | Status |
|---|---|---|---|---|
| `TimeoutHandler` | lists `_timeouts` and `_due`, the executing cookie and thread | `add`, `refresh`, `remove`, `remove_blocking`, `run_once`, `next_deadline` | every protocol; any thread | M |
| Timers poll (`MavsdkImpl::schedule_timers_poll`, `wake_timers_poll`) | one asio timer | read both deadlines, arm; posted wake-ups | `TimeoutHandler`, `CallEveryHandler` | P |
| `CallEveryHandler` | periodic entries, `_due` | `add`, `change`, `reset`, `call_soon`, `remove(_blocking)`, `run_once` | as above | M |
| `MavlinkCommandSender` | `_work_queue` with `already_sent`, retries, timeout cookie | `send_command`, `queue_command_async`, ack, timeout, `do_work` | message handler, timeouts, user callbacks | P |
| `MavlinkMissionTransferClient` | `_work_queue` of uploads, downloads, clears, set-currents; each with a mutex | `*_async`, `cancel`, five message handlers, `process_timeout`, `do_work` | message handler, timeouts, user threads | M |
| `MavlinkMessageHandler` | table of callbacks, io thread only | posted register / unregister, dispatch, blocking removal | all protocols, plugins | P |
| User callback queue | bounded queue, two classes of entries, a thread or an executor | `call_user_callback(_droppable)`, `set_callback_executor`, teardown | every result a user waits for | M |
| Plugin and connection lifetime (`SystemImpl`) | `_plugin_impls`, `_connected`, heartbeat timeout | (un)register, (dis)connect, heartbeat | plugins owned by user threads | P |
| `CallbackList` | posted lists of subscriptions | subscribe, unsubscribe (blocking), queue, drain | io thread, user callbacks | P |
| `HeartbeatWatchdog`, heartbeat sending | three states under a mutex | start, stop, feed | `MavsdkImpl` | - |
| Mission transfer server | work queue, items | the other end of an upload or download | timeouts | - |
| Parameter client and cache | work queue, cache, one timeout cookie | get, set, get-all with retries, `cancel_all_param` | timeouts, plugins | P |
| Parameter server | work queue | answers requests | timeouts | - |
| FTP client and server | sessions, sequence numbers | burst and plain transfers | timeouts, files | - |
| Request-message, command receiver | tables | command, then message | command sender | - |
| `MavsdkImpl` connections, systems, teardown | maps under mutexes | add, remove, forward, destroy | everything | - |
| Connections, `TxQueue`, timesync, ping, statustext, metadata, plugins, server | | I/O and conversions | | - |

What makes each correct, in one line:

- **TimeoutHandler**: after a removal the callback is not started; after a
  blocking removal it is not running either; nobody waits for ever; nothing
  fires early; everything that is not removed fires.
- **Timers poll**: no wake-up is lost, so that timers do not depend on the cap
  of the wait.
- **Command sender**: every call ends with one final result, commands with one
  id are sent one at a time, the retries asked for are respected, no late ack
  reaches a call that has ended.
- **Mission transfers**: one result per call; a transfer under way can always
  time out; the queue is kicked after each; the io thread's bare pointers are
  alive; a successful upload has sent the whole plan, a successful download is
  in order.
- **Call-every handler**: the cancellation of the timeout handler; an earlier
  deadline wakes up the timer; what is due is called, whatever other callbacks
  remove.
- **User callback queue**: a callback is called at most once, a result is never
  dropped, updates are bounded and current, and changing the executor ends.
- **Plugin lifetime**: each plugin is enabled and disabled in turn, exactly while
  its system is connected, by one thread at a time, and never touched after its
  destruction.
- **Parameters**: one result per request and none after its owner is gone; a
  request under way can always time out; the queue is kicked; a get-all is
  complete.
- **FTP, mission server** (planned): none taken for another.

The hazards the properties are for are listed in `PROJECT.json`, each at its
line.

## 2. The modules

| Module | What it is |
|---|---|
| `TimeoutHandler` | one-shot timeouts, as the code's critical sections; implements `Cancellation` |
| `TimeoutHandlerProofs` | its theorems |
| `TimersPoll` | extends `TimeoutHandler` with what drives it; implements its fair specification |
| `TimersPollProofs` | its theorems |
| `CommandSender` | commands, retries and acks |
| `CommandSenderProofs` | its theorems |
| `MissionTransferClient` | mission transfers |
| `MissionTransferClientProofs` | its theorems about results, timeouts and the queue, what callers are told, and who is alive |
| `Cancellation` | abstract: what `remove` and `remove_blocking` promise the owner of a callback |
| `CallEveryHandler` | repeated callbacks; implements `Cancellation` |
| `CallEveryHandlerProofs` | its theorems |
| `CallbackDelivery` | abstract: what becomes of a user callback |
| `UserCallbackQueue` | the queue, its thread and the executors; implements `CallbackDelivery` |
| `UserCallbackQueueProofs` | its theorems |
| `PluginContract` | abstract: the calls a plugin gets, in which order |
| `PluginLifetime` | owners of plugins and the io thread; implements `PluginContract` |
| `PluginLifetimeProofs` | its theorems |
| `ParameterClient` | requests for parameters, the cache, cancellation |
| `ParameterClientProofs` | its theorems |
| `MC...` | instances for TLC; the `.cfg` files give the constants their values |

Operators marked `Mutant:` in a comment are wrong variants of the definition
below them, which stand for a plausible bug: with one of them in its place the
property it is meant for is violated. They are used by no specification.

### TimeoutHandler

One action per stretch of code under `_timeouts_mutex`; what happens between
two of them is a place of the calling thread (`pc`): about to call
`_wakeup_callback`, in the wait set of `_callback_done`, notified and about to
test the predicate again. A condition variable may wake up by itself
(`SpuriousWakeup`). Any thread, the io thread during a callback included, may
make any call at any time. `_timeouts` and `_due` are sets of cookies: the lists
are always ordered by cookie, because `add` hands out increasing cookies and
`refresh` leaves the position alone. `started`, `removed` and `released` are
history variables.

Time passes in ticks; a duration is a number of ticks, so `<` and `<=` differ.
The clock ticks at any moment (the io thread may be late by any amount) up to
`MaxTime`; calls whose deadline would lie beyond that are not made, so that
every timeout can become due.

### TimersPoll

`_timers_poll_timer` is its expiry time (`armed`) or not waiting; a wait that
has completed but whose handler has not run (`ready`) cannot be cancelled any
more, as with asio. `schedule_timers_poll` is three steps (`ReadTimeouts`,
`ReadCallEvery`, `Arm`), with user threads in between. `Arm` reads the clock once
where the code does twice (`mavsdk_impl.cpp:1520` and, in `expires_after`, 1532): the
timer of the code is later by what passes between these two statements. `run_once` calls callbacks, which may call the
handlers. The io_context runs the handlers it has collected before it looks for
expired timers again, so that a stream of wake-ups does not starve a timer.
Of `CallEveryHandler` there is one entry, which is enough for its deadline to
be earlier or later than that of the timeouts and to move in both directions
(`call_soon`, `reset`). The cap `MaxWait` is larger than `MaxTime`: what is
shown holds without its help. `_should_exit` is left out.

### CommandSender

The queue is only touched on the io thread, so each handler is one action, and
user threads only post. A command is its identification (id, the parameters that
distinguish requests of one id, target component). `queue` is a set with the
place at which each call was pushed, which makes erasure in the middle, and the
rule "first in the queue", one-liners. Timeouts are pairs of a call and the number of
its timeout, because the callback carries the *identification* and runs over the
whole queue. The connection may refuse any retransmission; the first
transmission is not checked by the code and not by the model. Acks are any of:
accepted, denied (all other final results are alike), in progress, and a value
the switch has no case for; they arrive in any order and as often as `MaxAcks`
permits. The destructor is left out.

### MissionTransferClient

A handler is an operator from the state of a transfer to its new state; the
actions apply them. `cancel()` runs on user threads, which first lock the
`weak_ptr` (`Lock`), and let go of it later (`Unlock`), possibly as the last
owner. Everything under the transfer's `_mutex` is one action; a timeout that
`run_once` has started and that has not got the mutex yet is the variable
`running`. The queue's tasks (`register`, `enqueue`, `do_work`) are run in the
order they are posted. The other end answers what it was asked: it may send any
request, ack, count or item that belongs to a transfer that was begun, any
number of times and as late as it likes, up to `MaxMessages`. It stores fixed
plans of `Stored` items. The type of an ack is whatever `AckTypes` has, listed by
the code's switches or not. All messages sent during one dispatch are accepted by
the connection or all refused (`ok`). Progress callbacks are left out, as is
what `process_timeout` does to a transfer that was destroyed under it.

### CallEveryHandler

Built like `TimeoutHandler`: a critical section is an action, callers that wait
are in a place. What is different is what is modelled anew: entries stay
registered when they are invoked, `run_once` moves their `last_time` by one
interval before it calls anything, looks each one up again before the call, and
an entry without a callback is never pushed to `_due`. The millisecond by which
`add` and `call_soon` shift a deadline into the past is the tick of the clock.
`_due` holds each cookie at most once, because `run_once` fills it once and
empties it before it returns, and in the order of the cookies, so it is a set.

`Cancellation` has no lists, no clock and no waiting: a callback is registered,
running, removed, released. The refinement maps `_entries` (of the timeout
handler: `_timeouts` and `_due` together) to `registered` and the executing
cookie to `running`; its `Release` may only happen when the callback is not
running. The two handlers, one-shot and repeated, implement the same contract.

### UserCallbackQueue

A producer is in one of three places of `enqueue_user_callback`: outside, about
to push, about to hand over to the executor it has read. The thread is in
`wait_and_pop_front`, has a callback, runs it, has left its loop. A change of
the executor and the destructor are steps of one more actor (`change`), since
`_callback_executor_change_mutex` lets in one at a time and nobody may call into
an instance that is being destroyed. The order of the queue is that of the
places at which callbacks were pushed. `late` records results that were pushed
after the executor was replaced (see section 4).

`CallbackDelivery` knows what is pending, delivered and dropped. The queue and
what threads have in their hands is what is pending.

### PluginLifetime

Each plugin has an owner thread which constructs it, uses it and destroys it;
`phase` is where it is. The io thread runs tasks, the two ways a system connects
and times out, messages and the repeated call, and is inside one plugin at a
time: the start and the end of each call are steps, so that the owner runs in
between. The plugin is `InfoImpl`, which has one of everything that a plugin can
register: a message handler (posted, removed by `unregister_all_blocking`), a
repeated call (added in `enable`, removed in `disable` by `remove_blocking`,
removed by the answer to the request), and a list of subscriptions whose
destructor drains the io thread. A call out of the repeated-call handler is
taken from the contract that `CallEveryHandler` implements.

For a list that a plugin owns, the drain of the list and the wait of
`unregister_all_blocking` are each enough: what is posted first runs first, and
either of them waits for it. It is `unregister_plugin` and the blocking removal
of the repeated call that nothing else stands in for.

`PluginContract` is what a plugin may rely on: `init`, `enable` and `disable` in
turn, at last `disable` and `deinit`. `stage` is the refinement mapping; a call
from the io thread shows whatever the owner is doing, so that a call that comes
at a wrong time is a step the contract does not have.

### ParameterClient

All handlers run on the io thread and are one action each; user threads post
(`Request`) or dispatch and wait (`Cancel`). After it has cancelled an owner asks
for nothing more, but its callbacks on the io thread do not know of that: while
they run (`calling`) they may still make requests, as the callback of
`set_param_int_async` does, and these come behind the cancellation (`late`). A parameter is its index at the
server. Of a value only its comparison with the one that is set matters: the
same, another, another type. `_timeout_cookie` is one variable for all requests,
so the model has the timeout it refers to (`timer`) and the number of those that
lost their cookie and are still registered (`stale`); either may fire, for
whatever is at the front. The cache is the label each parameter is stored with,
which is its index or, for a message without one, the size of the cache. A
history variable knows what the server has sent since the last get-all began.
The plain and the extended protocol are told apart by `extended`; their values have
handlers of their own. The `param_count` of every value is `NumParams`: a server
that changes it while it answers is left out, and so are subscriptions
to changed parameters and getting a parameter by index. There is one client; a
`SystemImpl` has one per component and protocol, and its `cancel_all_param`
reaches only that of component 1 (section 4).

`Without`, the `erase(remove_if)` of a cancellation, puts at each place the
request that as many kept ones come before as before the place (`Rank`). A
filter by recursion could not be reasoned about; `MCParameterClient` assumes, and
TLC finds, that it is `SelectSeq` on all short queues.

## 3. The runs

| Run | States | What it shows |
|---|---|---|
| `timeout_handler` | 47 k | the promises of `timeout_handler.hpp`, safety (also as a refinement, `ImplementsCancellation`) and liveness, no deadlock |
| `timers_poll` | 135 k | no lost wake-up; the poll implements the fair `TimeoutHandler` (refinement, `ImplementsTimeoutHandler`) |
| `command_sender` | 199 k | safety and liveness of commands, with lost, late and repeated acks |
| `mission_uploads` | 320 k | safety and liveness of two uploads that are cancelled at any time |
| `mission_download` | 118 k | order of a download, timeouts and ends, next to a clear whose acks carry any type |
| `call_every` | 155 k | cancellation (refinement, `ImplementsCancellation`), wake-ups, what is due is called, no deadlock |
| `user_callbacks` | 246 k | delivery (refinement, `ImplementsDelivery`), bound and freshness of updates, executors that change |
| `plugin_lifetime` | 81 k | what a plugin sees (refinement, `ImplementsContract`), what refers to it, that its destructor returns |
| `parameter_client` | 316 k | one result, timeouts, kicks, completeness of a get-all, gets and sets end |
| `command_promise`, `mission_set_current`, `parameter_cancel` | | violations: see Findings |

**Bounds and why they are enough.** `timeout_handler`: two user threads (one in
a blocking removal, one that interferes), two timeouts of durations 0 and 1 in
three ticks (both in one `run_once`, or one after the other, refreshed in
between). `timers_poll`: one timeout and one repeated call, whose deadlines pass
each other in both directions while the timer is armed, and wake-ups of both
handlers at a time. `call_every`: two entries and two intervals, so that each
may be due alone, both at once, or one may be removed by the other's callback;
three ticks, so that an entry falls behind by more than one interval.
`user_callbacks`: three updates and one result for a queue of two, so that an
update is evicted, twice, with and without the result in between, and may be
refused; three changes of the executor, so that one is set, unset and set again
around a late producer. `plugin_lifetime`: two plugins, so that one registers
while the loops over the plugins are in the other; the users' subscriptions are
posted while fewer than two tasks are, the teardown's tasks always.
`parameter_client`: one retry, two parameters and a chunk of one give first and
last missing index, lost list and lost value; three requests of two owners, so
that one is cancelled in front of, behind and between others, and so that a set may
come from the callback of a get of the same owner.
`command_sender`: three calls of one id, two of them identical, one of them
addressed to every component; two acks, one retry each; that has a late ack that
ends the wrong call, a progress report followed by a timeout, and a timeout that
serves two calls. Missions: two transfers of different types, a plan of two
items and one of one, two retries (the code has five: two give "retry" and
"retries exceeded" each a state of its own), three messages for the uploads (two
requests and an ack, or one that is lost, late or repeated), four for the
download (count, two items and one more), sequence numbers one beyond the plan.
Whether MISSION_INT is supported changes only while a transfer is still to be
asked for: nothing reads it afterwards.
That an ArduPilot's `MISSION_REQUEST` is answered is covered by the proofs, which
hold for either autopilot.

`CHECK_DEADLOCK FALSE` is said for commands, missions, parameters, user callbacks
and plugins, where a bounded number of calls ends and the system rests. The handlers are checked for
deadlock: the io thread can always poll once more, so a deadlock would be the io
thread stuck in a call.

**Fairness.** The io thread takes its next handler if there is one (weak
fairness of each step; strong fairness where a handler is only ready between
other handlers, as asio runs handlers in order), a thread inside a call goes on,
time passes, a registered timeout fires unless it is removed
(that is what `timers_poll` shows of the code below). No user has to call
or cancel anything, no message has to arrive, and a wait may wake up for no
reason but does not have to. No send has to fail: fairness of timeouts is stated
of the variant in which the connection accepts the message.

### What the properties say

- `ReleasedIsNotRunning`, `StartsAtMostOnceAndNeverAfterRemove`, `NeverEarly`,
  `BlockedRemoveReturns`, `EveryTimeoutFiresOrIsRemoved`: the contract of the
  timeout handler, the first three proved.
- `TypeOK`: the type invariant of a module. A theorem proves it for every value
  of the constants (section 5), and no run repeats it.
- `NoLostWakeup`: for every deadline something is under way that will look at it
  in time: the armed timer, a completed wait, a posted wake-up, a caller about
  to post one, or a pass of the io thread that has not read past it.
- `SentHasTimeout`, `RetriesAreRespected`, `NothingAfterFinalResult`,
  `EveryCallIsAnswered`: commands. `OneSentPerCommand`, of the flag
  `already_sent` only (section 4), is proved and not checked again.
- `OneResult`, `TransferHasTimeout`, `QueueIsKicked`, `RegisteredIsAlive`,
  `UploadSuccessMeansSent`, `DownloadInOrder`, `EveryTransferEnds`: missions.
- `ImplementsCancellation` (also of the timeout handler),
  `EarlierDeadlineWakesUp`, `DueIsCalled`: repeated calls. `NeverAhead`, which keeps an entry from falling silent when `run_once`
  catches up, is proved and not checked again.
- `ImplementsDelivery`, `UpdatesAreBounded`, `StreamStaysCurrent`,
  `EveryResultIsDelivered`, `ChangeEnds`: user callbacks.
- `ImplementsContract`, `EnabledWhileConnected`, `RemovedIsNotRunning`,
  `GoneIsForgotten`, `DestructorReturns`: plugins.
- `RequestHasTimeout`, `QueueIsKicked`, `MissingIndexExists`, `HearsOnce`,
  `GetAllIsComplete`, `GetAndSetEnd`: parameters. `QueueIsKicked` is stated as
  long as nothing was cancelled, `RequestHasTimeout` until a get-all has
  reported its timeout, and `GetAndSetEnd` unless a get-all is in front, for the
  reasons section 4 gives. `HearsOnce` excepts requests that callbacks have made
  while their owner was cancelling, which section 4 describes.

`DownloadInOrder` is checked with one download in the queue. With two, the
second one handles the messages of the first before it is started, and keeps the
`_next_sequence` it got from them (section 4).
`EveryTransferEnds` leaves out `set_current` for the reason the second finding gives.
It and `TransferHasTimeout` except a clear that got an ack of a type its switch
does not list (`silenced`), and the former what waits behind such a clear: section 4.

## 4. Findings

Each is a run that TLC finds violated; `PROJECT.json` has the lines.

1. `command_promise` — an ack with a result that `receive_command_ack` has no
   case for calls the callback and keeps the command: a second result follows,
   and `send_command`'s promise is set twice.
2. `mission_set_current` — after a `MISSION_CURRENT` with another item the
   set-current has no timeout: `refresh()` comes after `remove()`. It may never
   end, and blocks the queue.
3. `parameter_cancel` — `cancel_all_param` takes the request under way out of the
   queue and kicks nothing: the request behind it is never sent, and neither is
   any that comes after it, since an enqueue only starts work in an empty queue.

Seen on the way, without a run (in part with one while the modules were
written):

- Commands: a timeout transmits an identical queued command that `do_work` has
  held back, so that two with one id are in flight (`mavlink_command_sender.cpp:339`,
  contrary to `THREADING.md:111`).
- Missions: a repeated `MISSION_COUNT` restarts a download but keeps the items it
  has, which are then handed over twice (`mavlink_mission_transfer_client.cpp:820`;
  line 837 and the test `DownloadMissionDoesntHaveDuplicates` expect otherwise).
  Transfers handle messages before it is their turn and do not look at the
  mission type, so that a geofence download behind a mission download returns
  mission items. The destructors of the transfers use the non-blocking
  `remove()` although the last reference may be a user thread's (`TimeoutBody` of
  a freed transfer is reachable). `do_work` starts a transfer that was cancelled
  before its turn, which sends a superfluous message. A clear stops its timeout
  before it looks at the type of an ack (`mavlink_mission_transfer_client.cpp:993`);
  for a type without a case it then waits for ever, and the queue with it. Nothing
  in the sources promises otherwise, so that no run asserts it: the properties name
  the exception, and the theorems hold for acks of any type.
- Parameters: `SystemImpl::cancel_all_param` cancels on the client of component 1
  without the extended protocol only (`system_impl.cpp:894`); the requests
  `CameraImpl` makes, also from its callbacks
  (`src/cpp/src/mavsdk/plugins/camera/camera_impl.cpp:2043`, 2372), are on the
  client of its camera with that protocol, and its `deinit` cancels none of them.
  On one client, too, a callback may come after `cancel_all_param` has returned:
  it waits until what is in the queue was erased, but a callback that runs on the io
  thread when the cancellation is already posted may post a request with the same
  cookie behind it, as the callback of `set_param_int_async`'s get does
  (`mavlink_parameter_client.cpp:165-186`). `HearsOnce` without its exception for
  such requests (`late`) is violated by a get, the cancellation, the get's answer
  and the set that follows it. No plugin of this commit makes such requests on a
  client that its `deinit` cancels. A get-all that got no answer reports `Timeout` without leaving the
  queue (`mavlink_parameter_client.cpp:1331`): what is behind it waits for ever,
  and a late list ends it with a second result. Asking for missing parameters
  again never uses up a retry, although the comment at line 1301 says so. The
  comment at line 876 says a value that exists is overwritten; `add_new_param`
  leaves it as it is. A set that is given up on a wrong value (line 838), or
  whose repetition cannot be sent (line 823), leaves its timeout registered,
  which costs the next request one retry.
- User callbacks: a producer that has read "no executor" before one was set pushes
  its callback into a queue that nobody reads; a result in it is delivered when
  the executor is changed again, or never. `EveryResultIsDelivered` excepts it.
  The bound counts all entries and not the droppable ones only, as
  `mavsdk_impl.hpp:382` has it: when results fill the queue, updates are refused.

## 5. Proofs

`TimeoutHandlerProofs` proves, for every set of user threads, every set of
durations and every `MaxCookie` and `MaxTime` (assumptions `ThreadAssumption`,
`NumberAssumption`, `NoThreadAssumption`):

| Theorem | Property |
|---|---|
| `HandlerInvariance` | `HandlerInv` is an invariant |
| `TypeCorrect` | `TypeOK` |
| `BlockingRemoveIsSafe` | `ReleasedIsNotRunning` |
| `NoEarlyTimeout` | `NeverEarly` |
| `RemovedNeverStarts` | `StartsAtMostOnceAndNeverAfterRemove` |
| `TimeoutsImplementCancellation` | `ImplementsCancellation` |

None of the properties is inductive. That a removed timeout never starts needs
that it is in neither `_timeouts` nor `_due` (`RemovedIsOut`), which needs that a
cookie is in at most one of them and of the started ones (`OnePlace`), that
`add` hands out cookies nobody has seen (`CookiesAreOld`), and that a thread in
a blocking wait has already taken its cookie out. That nothing fires early needs
that what `run_once` moved to `_due` was expired and stays so, because
`refresh` does not reach `_due` (`DueIsExpired`). `HandlerInv` is their
conjunction with `TypeOK`. The loop of `run_once` appears twice in the model, at
its start and after each callback; the lemmas `InvokeNextFacts` and
`InvokeNextKeepsInv` prove it once. The action property follows from the
invariant before and after each step. The refinement uses the invariant where
the contract has a condition: a cookie that `add` hands out is neither
registered nor removed, a waiting removal has taken out what it then releases,
and what `run_once` starts was registered.

`TimersPollProofs` proves, for every set of threads, every interval and every
cap of the wait (the assumptions above and `PollAssumption`):

| Theorem | Property |
|---|---|
| `PollImplementsHandler` | `PollSpec` implies `TimeoutHandler`'s `Spec` |
| `PollInvariance` | `PollInv` is an invariant |
| `NoWakeupIsLost` | `NoLostWakeup` |

Each step of the poll is one of the handler or leaves the handler alone, so that
`HandlerInv` and the theorems above hold of it. `NoLostWakeup` is not inductive:
an armed timer that is early enough does not help once a pass of the io thread
is about to arm it again with what it has read. `Served` therefore lets the timer
count only while the io thread is idle, and later only what was read. Who adds,
refreshes or moves a deadline keeps it, because a deadline that is not the
earliest is looked after by what looks after the earliest, and one that is gets a
wake-up. The proof needs that no deadline is taken for "none" (`Never`) and that
the repeated call's entry is never more than an interval ahead, so that its
reset only makes it later. That `run_once` is called when something is due, the
other half of `ImplementsTimeoutHandler`, is fairness and is checked by TLC.

`CommandSenderProofs` proves, for every set of calls, every identification,
target, number of retries and number of acks (assumptions `CallAssumption`,
`NumberAssumption`: no call is named like a task, retries are natural numbers):

| Theorem | Property |
|---|---|
| `SenderInvariance` | `SenderInv` is an invariant |
| `SenderTypeCorrect` | `TypeOK` |
| `SentCommandsTimeOut` | `SentHasTimeout` |
| `OneAtATime` | `OneSentPerCommand` |
| `RetryInvariance` | `RetryInv` is an invariant |
| `RetriesRespected` | `RetriesAreRespected` |
| `FinalResultIsFinal` | `NothingAfterFinalResult` |

`SenderInv` adds three facts to the types and to `SentHasTimeout`. The sent
command is the first one of its id in the queue (`SentIsFirst`), which gives
`OneSentPerCommand` and is kept because `do_work` sends only the first one and
new calls are pushed at the back; for that the places handed out have to be old
(`PlacesAreOld`) and a posted call must not be in the queue already
(`PostedIsNew`). The step that needs care is `receive_timeout`: it runs over all
commands with an identification, gives each a new timeout and removes the one
that ends the loop; the proof shows that a sent command with the identification
of the timeout is either repeated or the one removed.

`RetryInv` counts: an open call (queued, posted or not yet made) was transmitted
once per retry it has used and once by `do_work` if it is marked as sent
(`AttemptsCounted`), and what has a final result is closed (`AnsweredIsClosed`).
The last refused transmission is one more than that, and closes the call.
`NothingAfterFinalResult` follows since results only go to queued calls.

`MissionTransferClientProofs` proves, for every finite set of transfers of any
kinds, plans, retries, types of acks and messages (assumptions
`TransferAssumption`, `NumberAssumption`):

| Theorem | Property |
|---|---|
| `MissionInvariance` | `MissionInv` is an invariant |
| `MissionTypeCorrect` | `TypeOK` |
| `CallersHearOnce` | `OneResult` |
| `TransfersTimeOut` | `TransferHasTimeout` |
| `QueueGoesOn` | `QueueIsKicked` |

The proof has the two layers of the module. Each handler, an operator on the
state of one transfer, is shown to keep what matters to the others (`Kept`):
types, references, and that a callback that is still there was not called
(`Once`). A message leaves the timeout alone unless it ends the transfer
(`KeptByMessage`); a timeout and the start leave one behind unless they end it
(`KeptByTimeout`, `KeptByStart`). The invariant of the queue (`Sound`) adds
that what is queued has its `_done_callback`, so that ending it posts `do_work`,
and that a transfer is freed only when it is done: a timeout that finds its
transfer freed has nothing left to do. For the latter it has to say where a
transfer is that its owner may lock: on its way into the queue, in it, or done.
`Sound` and `Kicked` are stated of any queue and tasks, because `do_work` runs
in the middle of the task that enqueues a transfer. Of the types of acks nothing
is assumed. `TransfersTimeOut` names the one case in which a transfer under way is
without a timeout: a clear whose switch, which has no default, had no case for
the type of an ack (`silenced`).

The second half of the module proves, from the same assumptions:

| Theorem | Property |
|---|---|
| `OutcomeInvariance` | `AllHonest` is an invariant |
| `UploadsAreComplete` | `UploadSuccessMeansSent` |
| `DownloadsAreInOrder` | `DownloadInOrder`, if there is one download (`OneDownload`) |
| `RegisteredAreAlive` | `RegisteredIsAlive` |

An upload is `UploadHonest` when what precedes `_next_sequence` was sent: a
request moves it back, never forward past what it has. A download is
`DownloadHonest` when the item before the next one is the last one received; that
holds until its caller was told only, since a transfer that is done and not yet
retired handles messages as before and appends a late item again. Each handler
is shown to keep both, tells nothing (`Silent`) or tells one result (`Tells`).
`OneDownload` is needed: messages of another download reach one that has not
started, and `start()` forgets the items but not `_next_sequence` (section 4).
`RegisteredIsAlive` rests on the order of the tasks (`Ordered`): a transfer is
registered before it is queued, so that when it leaves the queue, and the table,
nothing registers it again (`Placed`).

`CallEveryHandlerProofs` proves, for every set of threads, every set of
intervals, every number of entries (assumptions `ThreadAssumption`,
`NumberAssumption`, `NoThreadAssumption`):

| Theorem | Property |
|---|---|
| `EveryInvariance` | `EveryInv` is an invariant |
| `EveryTypeCorrect` | `TypeOK` |
| `NoneFallsSilent` | `NeverAhead` |
| `EarlierDeadlinesWakeUp` | `EarlierDeadlineWakesUp` |
| `EveryImplementsCancellation` | `ImplementsCancellation` |

The invariant is smaller than that of `TimeoutHandler`, because `_due` is a part
of `_entries` and the contract is the abstract specification: what is removed is
not registered, what is released is not executing, and whoever waits has removed
what it waits for. The last one is what the step of `Recheck` needs: it maps to
`Release`, also when the entry was removed long before. For the wake-ups, the proof goes over every action that may change a deadline
and shows that an earliest deadline that moves forward is either the caller's
(`add`, `change`, `call_soon`) or none (`reset` and `run_once` put a deadline
further out by `NeverAhead`). `OwnersSafe`
proves of the abstract specification that a released callback is neither
registered nor running, so that it holds of whatever implements it.

`UserCallbackQueueProofs` proves, for any callbacks, producers, bound and number
of changes (assumptions `CallbackAssumption`, `NumberAssumption`):

| Theorem | Property |
|---|---|
| `StepInvariance` | where the thread is when the executor is changed |
| `QueueInvariance` | `QueueInv` is an invariant |
| `QueueTypeCorrect` | `TypeOK` |
| `UpdatesBounded` | `UpdatesAreBounded` |
| `StreamCurrent` | `StreamStaysCurrent` |
| `QueueImplementsDelivery` | `ImplementsDelivery` |
| `OneFateOnly` | `CallbackDelivery`'s `OneFate`: called or given up, once |

That no callback is delivered twice needs that it is in one place at a time:
in a hand, in the queue, with the user, given up (`HandsInv`, `FateInv`). That
updates stay current needs that the one evicted is the oldest *update* in the
queue while results may be older, and that what is pushed gets a place behind
all others (`PlaceInv`). Evicting one and pushing one keeps the bound, by the
cardinality of finite sets (`SizeInv`). The step invariant says that the queue
is only drained, and the thread only started, when there is no thread.

`PluginLifetimeProofs` proves, for any plugins (assumption `PluginAssumption`):

| Theorem | Property |
|---|---|
| `PluginInvariance` | `Inv` is an invariant |
| `PluginTypeCorrect` | `TypeOK` |
| `EnabledWhenConnected` | `EnabledWhileConnected` |
| `RemovalsAreBarriers` | `RemovedIsNotRunning` |
| `GoneForGood` | `GoneIsForgotten` |
| `SystemImplementsContract` | `ImplementsContract` |

Everything rests on the order in which the io thread runs what is posted
(`TaskInv`): what may be posted for a plugin depends on how far its owner is, a
task its owner waits for is the last one of that plugin, and its insertion is
posted once. With that, the task that lets an owner go on finds that nothing
else of the plugin is left, which gives where it may still be referred to
(`ReferenceInv`) and called from (`HandlerInv`). `EnabledInv` says who is enabled
in the middle of a loop over the plugins: those that were called, or those that
were not, depending on its direction. The refinement then takes each step of the
io thread and of an owner to a step of the contract or to none.

`ParameterClientProofs` proves, for any requests, kinds, names and owners, any
number of parameters and retries and any size of a chunk (assumptions
`RequestAssumption`, `NumberAssumption`):

| Theorem | Property |
|---|---|
| `ClientInvariance` | `ClientInv` is an invariant |
| `ClientTypeCorrect` | `TypeOK` |
| `RequestsTimeOut` | `RequestHasTimeout` |
| `WaitingRequestsAreKicked` | `QueueIsKicked` |
| `IndexIsAlwaysMissing` | `MissingIndexExists` |
| `CallersHearOnce` | `HearsOnce` |
| `SuccessIsComplete` | `GetAllIsComplete` |

None of them is inductive. `ClientInv` has two layers. The first is the line of
requests (`LineInv`): a request is in the queue once and only the one at the
front was sent (`QueueInv`), one whose task is posted is new (`TaskInv`), a get
or set that has heard is in neither place (`SilenceInv`), and a cancellation
comes behind all its owner has asked for, but for what its callbacks have asked
for since it was posted, so that only these are left
once it was executed (`OwnerInv`). `HearsOnce` is read off these, because the
request whose callback a step calls is in the queue or at the front of the tasks
(`WhoHears`). Most steps let nobody in and keep the
order; `Shrinks` says what they have in common, and each is shown to be such a
step instead of being shown to keep every part. The second layer is the request
under way (`WayInv`). That it has a timeout needs the first layer: who ends takes
its place in the line along, and the next one was not sent, so it is no matter
that the cookie is shared and that timeouts of earlier requests are left over.
That a get-all is complete needs that the cache is what was received since it was
sent (`CacheInv`), which only holds because every get and get-all clears it; and
that it is not full while the get-all is under way.

`MissingIndexExists` is a pigeonhole: with fewer labels than parameters a label
is missing, also when some labels are positions that are the index of another
parameter (`IndexIsMissing`). For `Without`, `RankIsABijection` shows that in a
finite set of numbers the ranks are the numbers below the cardinality, from
which follows that the shorter queue has the others' requests, all of them, in
their order (`WithoutIsTheOthers`).

Only model-checked: all liveness (`BlockedRemoveReturns`,
`EveryTimeoutFiresOrIsRemoved`, `EveryCallIsAnswered`, `EveryTransferEnds`,
`DueIsCalled`, `EveryResultIsDelivered`, `ChangeEnds`, `DestructorReturns`,
`GetAndSetEnd`, the fairness half of `ImplementsTimeoutHandler`), which is out of
the prover's reach. Every safety property that a passing run checks is a theorem.

## 6. Plan

Done in this order: `TimeoutHandler` and its proofs, `TimersPoll` on top of it,
`CommandSender` and its proofs, `MissionTransferClient` and its proofs,
`UserCallbackQueue`, `CallEveryHandler`, `ParameterClient` and `PluginLifetime`,
with their proofs and the refinements. Next:

1. `MissionTransferServer`, and an upload end to end over a lossy link that
   implements "the plan arrives whole or the caller is told".
2. `FtpClient`: sessions and sequence numbers of burst reads.
3. `TimersPoll` with `CallEveryHandler` in place of its single entry.
4. `send_command` composed with `UserCallbackQueue`: the promise that a blocking
   call waits for.
5. The parameter server, the heartbeat watchdog, the teardown of an instance and
   its lock order.

Theorems planned: that `CommandSender`, `MissionTransferClient` and
`ParameterClient` implement one abstract work queue (`THREADING.md:115`), in which
an item waits, is under way with a timeout, and ends once.

## 7. Not modelled, and why

Sockets, serial ports and files are I/O. MAVLink parsing and forwarding and the
plugins' conversions are data. The server and its protocol buffers, which are
nine tenths of the lines of the repository, are generated. Of the core, the
mission server, FTP, the parameter server and the request-message handler are
planned. `_should_exit` of the timers poll, a stopped `io_context`, and plugins
that outlive their instance are left out: the code aborts for the latter
(`abort_if_references_outlive_us`). What a freed transfer's timeout does is
undefined. The progress reports of transfers and commands change nothing but
what the user is shown.
