---------------------- MODULE MissionTransferClientProofs ----------------------
(***************************************************************************)
(* Theorems about MissionTransferClient, for any finite number of          *)
(* transfers of any kinds.  The handlers are looked at one by one, as      *)
(* operators on the state of a transfer; then come the actions.            *)
(***************************************************************************)
EXTENDS MissionTransferClient, SequenceTheorems, FiniteSetTheorems, TLAPS

\* A callback that was not called yet has no results, and it is called once.
Once(it) == Len(it.results) <= 1 /\ (it.callback => it.results = <<>>)

\* What no handler disturbs.
Kept(it, new) ==
    /\ new \in Items
    /\ new.registered = it.registered
    /\ new.notify = it.notify
    /\ new.freed = it.freed
    /\ it.done => new.done
    /\ Once(it) => Once(new)

\* The fields that matter to the queue and to the caller.
Same(it, new) ==
    /\ new.registered = it.registered
    /\ new.started = it.started
    /\ new.done = it.done
    /\ new.notify = it.notify
    /\ new.callback = it.callback
    /\ new.freed = it.freed
    /\ new.results = it.results

\* A message leaves the timeout alone unless it ends the transfer.
KeptByMessage(it, new) ==
    /\ Kept(it, new)
    /\ new.started = it.started
    /\ new.done \/ new.timer = it.timer

\* After a timeout, or the start, there is a timeout unless it is the end.
KeptByTimeout(it, new) ==
    /\ Kept(it, new)
    /\ new.started = it.started
    /\ new.done \/ new.timer

KeptByStart(it, new) == Kept(it, new) /\ new.started /\ (new.done \/ new.timer)

-----------------------------------------------------------------------------
(***************************************************************************)
(* The handlers.                                                           *)
(***************************************************************************)

\* A change of the other fields keeps everything.
LEMMA SameIsKept ==
    ASSUME NEW it, NEW new \in Items, Same(it, new)
    PROVE  /\ Kept(it, new)
           /\ new.timer = it.timer => KeptByMessage(it, new)
  BY DEF Same, Once, Kept, KeptByMessage

\* Handlers call each other.
LEMMA KeptTransitive ==
    ASSUME NEW a, NEW b, NEW c
    PROVE  /\ Kept(a, b) /\ Kept(b, c) => Kept(a, c)
           /\ KeptByMessage(a, b) /\ KeptByMessage(b, c) => KeptByMessage(a, c)
  BY DEF Kept, KeptByMessage

\* Adding and removing a timeout change nothing else.
LEMMA TimerFacts ==
    ASSUME NEW it \in Items
    PROVE  /\ AddTimeout(it) \in Items
           /\ Same(it, AddTimeout(it))
           /\ AddTimeout(it).timer
           /\ RemoveTimeout(it) \in Items
           /\ Same(it, RemoveTimeout(it))
           /\ ~RemoveTimeout(it).timer
<1>1. AddTimeout(it) \in Items /\ RemoveTimeout(it) \in Items
  BY DEF AddTimeout, RemoveTimeout, Items
<1>2. Same(it, AddTimeout(it)) /\ Same(it, RemoveTimeout(it))
  BY DEF AddTimeout, RemoveTimeout, Items, Same
<1>3. AddTimeout(it).timer /\ ~RemoveTimeout(it).timer
  BY DEF AddTimeout, RemoveTimeout, Items
<1> QED
  BY <1>1, <1>2, <1>3

\* callback_and_reset ends a transfer, and calls its callback at most once.
LEMMA CallbackAndResetFacts ==
    ASSUME NEW it \in Items, NEW result \in Results
    PROVE  /\ KeptByMessage(it, CallbackAndReset(it, result))
           /\ CallbackAndReset(it, result).done
<1> DEFINE entry == [result |-> result, items |-> it.received]
           results == IF it.callback THEN Append(it.results, entry) ELSE it.results
           new == [it EXCEPT !.results = results, !.callback = FALSE, !.done = TRUE]
<1>1. /\ entry \in [result : Results, items : Seq(ItemInts)]
      /\ it.results \in Seq([result : Results, items : Seq(ItemInts)])
  BY DEF Items
<1>2. results \in Seq([result : Results, items : Seq(ItemInts)])
  <2> HIDE DEF entry
  <2> QED
    BY <1>1, AppendProperties
<1>3. Once(it) => Len(results) <= 1
  <2> HIDE DEF entry
  <2>1. Once(it) /\ it.callback => Len(Append(it.results, entry)) = 1
    BY <1>1, AppendProperties DEF Once
  <2> QED
    BY <2>1 DEF Once
<1>4. CallbackAndReset(it, result) = new
  BY DEF CallbackAndReset
<1>5. new \in Items
  <2> HIDE DEF results
  <2> QED
    BY <1>2 DEF Items
<1>6. /\ new.results = results /\ ~new.callback /\ new.done
      /\ new.registered = it.registered /\ new.notify = it.notify
      /\ new.freed = it.freed /\ new.started = it.started
  <2> HIDE DEF results
  <2> QED
    BY DEF Items
<1> HIDE DEF new
<1> QED
  BY <1>3, <1>4, <1>5, <1>6 DEF Kept, KeptByMessage, Once

\* callback_and_reset, after the timeout was removed.
LEMMA FinishFacts ==
    ASSUME NEW it \in Items, NEW result \in Results
    PROVE  /\ KeptByMessage(it, CallbackAndReset(RemoveTimeout(it), result))
           /\ CallbackAndReset(RemoveTimeout(it), result).done
<1> DEFINE stopped == RemoveTimeout(it)
<1>1. stopped \in Items /\ Same(it, stopped)
  BY TimerFacts
<1> HIDE DEF stopped
<1>2. Kept(it, stopped) /\ stopped.started = it.started
  BY <1>1, SameIsKept DEF Same
<1>3. /\ KeptByMessage(stopped, CallbackAndReset(stopped, result))
      /\ CallbackAndReset(stopped, result).done
  BY <1>1, CallbackAndResetFacts
<1>4. Kept(it, CallbackAndReset(stopped, result))
  BY <1>2, <1>3, KeptTransitive DEF KeptByMessage
<1>5. KeptByMessage(it, CallbackAndReset(stopped, result))
  BY <1>2, <1>3, <1>4 DEF KeptByMessage
<1> QED
  BY <1>3, <1>5 DEF stopped

\* Setting the step keeps everything.
LEMMA SetStep ==
    ASSUME NEW it \in Items
    PROVE  KeptByMessage(it, [it EXCEPT !.step = "items"])
<1> DEFINE new == [it EXCEPT !.step = "items"]
<1>1. new \in Items
  BY DEF Items
<1>2. Same(it, new) /\ new.timer = it.timer
  BY DEF Items, Same
<1> HIDE DEF new
<1>3. KeptByMessage(it, new)
  BY <1>1, <1>2, SameIsKept
<1> QED
  BY <1>3 DEF new

\* So does setting the item that comes next, ...
LEMMA SetNext ==
    ASSUME NEW it \in Items, NEW seq \in Nat
    PROVE  KeptByMessage(it, [it EXCEPT !.next = seq])
<1> DEFINE new == [it EXCEPT !.next = seq]
<1>1. new \in Items
  BY DEF Items
<1>2. Same(it, new) /\ new.timer = it.timer
  BY DEF Items, Same
<1> HIDE DEF new
<1>3. KeptByMessage(it, new)
  BY <1>1, <1>2, SameIsKept
<1> QED
  BY <1>3 DEF new

\* ... the number of attempts, ...
LEMMA SetRetries ==
    ASSUME NEW it \in Items, NEW n \in Nat
    PROVE  KeptByMessage(it, [it EXCEPT !.retries = n])
<1> DEFINE new == [it EXCEPT !.retries = n]
<1>1. new \in Items
  BY DEF Items
<1>2. Same(it, new) /\ new.timer = it.timer
  BY DEF Items, Same
<1> HIDE DEF new
<1>3. KeptByMessage(it, new)
  BY <1>1, <1>2, SameIsKept
<1> QED
  BY <1>3 DEF new

\* ... and the items of a download.
LEMMA SetReceived ==
    ASSUME NEW it \in Items, NEW items \in Seq(ItemInts)
    PROVE  KeptByMessage(it, [it EXCEPT !.received = items])
<1> DEFINE new == [it EXCEPT !.received = items]
<1>1. new \in Items
  BY DEF Items
<1>2. Same(it, new) /\ new.timer = it.timer
  BY DEF Items, Same
<1> HIDE DEF new
<1>3. KeptByMessage(it, new)
  BY <1>1, <1>2, SameIsKept
<1> QED
  BY <1>3 DEF new

\* A message that counts as an attempt.
LEMMA SendOrFailFacts ==
    ASSUME NEW it \in Items, NEW ok \in BOOLEAN
    PROVE  KeptByMessage(it, SendOrFail(it, ok))
<1>1. CASE ok
  <2>1. it.retries + 1 \in Nat
    BY DEF Items
  <2>2. KeptByMessage(it, [it EXCEPT !.retries = it.retries + 1])
    BY <2>1, SetRetries
  <2> QED
    BY <1>1, <2>2 DEF SendOrFail
<1>2. CASE ~ok
  BY <1>2, FinishFacts DEF SendOrFail, Results
<1> QED
  BY <1>1, <1>2

-----------------------------------------------------------------------------

\* UploadWorkItem: an item is sent, unless it is beyond the plan.
LEMMA SendMissionItemFacts ==
    ASSUME NEW w \in Transfers, NEW it \in Items, NEW ok \in BOOLEAN
    PROVE  KeptByMessage(it, SendMissionItem(w, it, ok))
<1>1. CASE it.next >= Len(Plan[w])
  <2>1. Same(it, it)
    BY DEF Same
  <2> QED
    BY <1>1, <2>1, SameIsKept DEF SendMissionItem
<1>2. CASE ~(it.next >= Len(Plan[w])) /\ ok
  <2> DEFINE sent == it.sent \cup {it.next}
             next == it.next + 1
             retries == it.retries + 1
             new == [it EXCEPT !.sent = sent, !.next = next, !.retries = retries]
  <2>1. sent \in SUBSET Nat /\ next \in Nat /\ retries \in Nat
    BY DEF Items
  <2> HIDE DEF sent, next, retries
  <2>2. new \in Items
    BY <2>1 DEF Items
  <2>3. Same(it, new) /\ new.timer = it.timer
    BY DEF Items, Same
  <2>4. KeptByMessage(it, new)
    <3> HIDE DEF new
    <3> QED
      BY <2>2, <2>3, SameIsKept
  <2> QED
    BY <1>2, <2>4 DEF SendMissionItem, sent, next, retries
<1>3. CASE ~(it.next >= Len(Plan[w])) /\ ~ok
  BY <1>3, FinishFacts DEF SendMissionItem, Results
<1> QED
  BY <1>1, <1>2, <1>3

\* UploadWorkItem, the messages.
LEMMA UploadMessagesFacts ==
    ASSUME NEW w \in Transfers, NEW it \in Items, NEW seq \in Nat,
           NEW ok \in BOOLEAN, NEW type
    PROVE  /\ KeptByMessage(it, ProcessMissionRequestInt(w, it, seq, ok))
           /\ KeptByMessage(it, ProcessMissionRequest(w, it, seq, ok))
           /\ KeptByMessage(it, UploadProcessMissionAck(w, it, type))
<1>1. KeptByMessage(it, ProcessMissionRequestInt(w, it, seq, ok))
  <2> DEFINE stepped == [it EXCEPT !.step = "items"]
             asIs == [stepped EXCEPT !.next = seq]
             fresh == [asIs EXCEPT !.retries = 0]
  <2>1. stepped \in Items /\ KeptByMessage(it, stepped)
    <3>1. KeptByMessage(it, stepped)
      BY SetStep
    <3> QED
      BY <3>1 DEF KeptByMessage, Kept
  <2>2. asIs \in Items /\ KeptByMessage(it, asIs)
    <3> HIDE DEF stepped
    <3>1. KeptByMessage(stepped, asIs)
      BY <2>1, SetNext
    <3> HIDE DEF asIs
    <3> QED
      BY <2>1, <3>1, KeptTransitive DEF KeptByMessage, Kept
  <2>3. fresh \in Items /\ KeptByMessage(it, fresh)
    <3> HIDE DEF asIs
    <3>1. KeptByMessage(asIs, fresh)
      BY <2>2, SetRetries
    <3> HIDE DEF fresh
    <3> QED
      BY <2>2, <3>1, KeptTransitive DEF KeptByMessage, Kept
  <2>4. ProcessMissionRequestInt(w, it, seq, ok) \in
          {stepped, CallbackAndReset(RemoveTimeout(stepped), "Timeout"),
           SendMissionItem(w, asIs, ok), SendMissionItem(w, fresh, ok)}
    BY DEF ProcessMissionRequestInt, RefreshTimeout
  <2> HIDE DEF stepped, asIs, fresh
  <2>5. KeptByMessage(it, CallbackAndReset(RemoveTimeout(stepped), "Timeout"))
    <3>1. KeptByMessage(stepped, CallbackAndReset(RemoveTimeout(stepped), "Timeout"))
      BY <2>1, FinishFacts DEF Results
    <3> QED
      BY <2>1, <3>1, KeptTransitive
  <2>6. /\ KeptByMessage(it, SendMissionItem(w, asIs, ok))
        /\ KeptByMessage(it, SendMissionItem(w, fresh, ok))
    BY <2>2, <2>3, SendMissionItemFacts, KeptTransitive
  <2> QED
    BY <2>1, <2>4, <2>5, <2>6
<1>2. KeptByMessage(it, ProcessMissionRequest(w, it, seq, ok))
  <2>1. KeptByMessage(it, it)
    BY SameIsKept DEF Same
  <2>2. KeptByMessage(it, CallbackAndReset(RemoveTimeout(it), "ConnectionError"))
    BY FinishFacts DEF Results
  <2> QED
    BY <1>1, <2>1, <2>2 DEF ProcessMissionRequest, RefreshTimeout
<1>3. KeptByMessage(it, UploadProcessMissionAck(w, it, type))
  BY FinishFacts DEF UploadProcessMissionAck, Results
<1> QED
  BY <1>1, <1>2, <1>3

\* DownloadWorkItem: MISSION_COUNT.
LEMMA ProcessMissionCountFacts ==
    ASSUME NEW it \in Items, NEW count \in Nat, NEW ok \in BOOLEAN
    PROVE  KeptByMessage(it, ProcessMissionCount(it, count, ok))
<1>1. CASE count = 0
  <2> DEFINE finished == SendAckAndFinish(it, ok)
  <2>1. finished.done /\ KeptByMessage(it, finished)
    BY CallbackAndResetFacts DEF SendAckAndFinish, Results
  <2>2. finished \in Items
    BY <2>1 DEF KeptByMessage, Kept
  <2>3. ProcessMissionCount(it, count, ok) = RemoveTimeout(finished)
    BY <1>1 DEF ProcessMissionCount
  <2> HIDE DEF finished
  <2>4. RemoveTimeout(finished) \in Items /\ Same(finished, RemoveTimeout(finished))
    BY <2>2, TimerFacts
  <2>5. KeptByMessage(finished, RemoveTimeout(finished))
    BY <2>1, <2>4, SameIsKept DEF KeptByMessage, Same
  <2> QED
    BY <2>1, <2>3, <2>5, KeptTransitive
<1>2. CASE count # 0
  <2> DEFINE counted == [it EXCEPT !.next = 0, !.step = "items",
                                   !.retries = 0, !.expected = count]
  <2>1. counted \in Items
    BY DEF Items
  <2>2. Same(it, counted) /\ counted.timer = it.timer
    BY DEF Items, Same
  <2>3. ProcessMissionCount(it, count, ok) = SendOrFail(counted, ok)
    BY <1>2 DEF ProcessMissionCount, RequestItem, RefreshTimeout
  <2> HIDE DEF counted
  <2>4. KeptByMessage(it, counted)
    BY <2>1, <2>2, SameIsKept
  <2> QED
    BY <2>1, <2>3, <2>4, SendOrFailFacts, KeptTransitive
<1> QED
  BY <1>1, <1>2

\* DownloadWorkItem: MISSION_ITEM_INT.
LEMMA ProcessMissionItemIntFacts ==
    ASSUME NEW it \in Items, NEW seq \in Nat, NEW type \in {"mission", "fence"},
           NEW ok \in BOOLEAN
    PROVE  KeptByMessage(it, ProcessMissionItemInt(it, seq, type, ok))
<1> DEFINE entry == [seq |-> seq, type |-> type]
           items == Append(it.received, entry)
           got == [it EXCEPT !.received = items]
           next == seq + 1
           moved == [got EXCEPT !.next = next, !.retries = 0]
<1>1. items \in Seq(ItemInts)
  <2>1. entry \in ItemInts /\ it.received \in Seq(ItemInts)
    BY DEF ItemInts, Items
  <2> HIDE DEF entry
  <2> QED
    BY <2>1, AppendProperties
<1>2. ProcessMissionItemInt(it, seq, type, ok) \in
        {it, SendAckAndFinish(RemoveTimeout(got), ok), SendOrFail(moved, ok)}
  BY DEF ProcessMissionItemInt, RequestItem, RefreshTimeout
<1>3. got \in Items /\ KeptByMessage(it, got)
  <2> HIDE DEF items
  <2>1. KeptByMessage(it, got)
    BY <1>1, SetReceived
  <2> QED
    BY <2>1 DEF KeptByMessage, Kept
<1> HIDE DEF items, got
<1>4. moved \in Items /\ Same(got, moved) /\ moved.timer = got.timer
  <2> next \in Nat
    OBVIOUS
  <2> HIDE DEF next
  <2>1. moved \in Items
    BY <1>3 DEF Items
  <2>2. Same(got, moved) /\ moved.timer = got.timer
    BY <1>3 DEF Items, Same
  <2> QED
    BY <2>1, <2>2
<1> HIDE DEF moved
<1>5. KeptByMessage(it, moved)
  BY <1>3, <1>4, SameIsKept, KeptTransitive
<1>6. KeptByMessage(it, SendOrFail(moved, ok))
  BY <1>4, <1>5, SendOrFailFacts, KeptTransitive
<1>7. KeptByMessage(it, SendAckAndFinish(RemoveTimeout(got), ok))
  <2>1. KeptByMessage(got, SendAckAndFinish(RemoveTimeout(got), ok))
    BY <1>3, FinishFacts DEF SendAckAndFinish, Results
  <2> QED
    BY <1>3, <2>1, KeptTransitive
<1>8. KeptByMessage(it, it)
  BY SameIsKept DEF Same
<1> QED
  BY <1>2, <1>6, <1>7, <1>8

\* ClearWorkItem, MISSION_ACK: a type that is not listed takes its timeout.
LEMMA ClearAckFacts ==
    ASSUME NEW it \in Items, NEW type
    PROVE  LET new == ClearProcessMissionAck(it, type) IN
           /\ Kept(it, new)
           /\ new.started = it.started
           /\ type \in ListedAcks => KeptByMessage(it, new)
<1> DEFINE new == ClearProcessMissionAck(it, type)
<1>1. CASE type \in ListedAcks
  <2>1. new \in {CallbackAndReset(RemoveTimeout(it), result) : result \in Results}
    BY <1>1 DEF ClearProcessMissionAck, ListedAcks, Results
  <2> QED
    BY <2>1, FinishFacts DEF KeptByMessage
<1>2. CASE type \notin ListedAcks
  <2>1. new = RemoveTimeout(it)
    BY <1>2 DEF ClearProcessMissionAck, ListedAcks
  <2> QED
    BY <1>2, <2>1, TimerFacts, SameIsKept DEF Same
<1> QED
  BY <1>1, <1>2

\* SetCurrentWorkItem, MISSION_CURRENT: it may lose its timeout without ending.
LEMMA ProcessMissionCurrentFacts ==
    ASSUME NEW w \in Transfers, NEW it \in Items, NEW seq \in Nat,
           NEW ok \in BOOLEAN
    PROVE  /\ Kept(it, ProcessMissionCurrent(w, it, seq, ok))
           /\ ProcessMissionCurrent(w, it, seq, ok).started = it.started
<1>1. CASE Current[w] = seq
  <2>1. KeptByMessage(it, CallbackAndReset(RemoveTimeout(it), "Success"))
    BY FinishFacts DEF Results
  <2> QED
    BY <1>1, <2>1 DEF ProcessMissionCurrent, KeptByMessage
<1>2. CASE Current[w] # seq
  <2> DEFINE stopped == RemoveTimeout(it)
             new == SendOrFail(stopped, ok)
  <2>1. stopped \in Items /\ Same(it, stopped)
    BY TimerFacts
  <2>2. ProcessMissionCurrent(w, it, seq, ok) = new
    BY <1>2 DEF ProcessMissionCurrent, SendCurrentMissionItem, RefreshTimeout
  <2> HIDE DEF stopped
  <2>3. KeptByMessage(stopped, new)
    BY <2>1, SendOrFailFacts
  <2> HIDE DEF new
  <2>4. Kept(it, new) /\ new.started = it.started
    BY <2>1, <2>3, SameIsKept, KeptTransitive DEF KeptByMessage, Same
  <2> QED
    BY <2>2, <2>4
<1> QED
  BY <1>1, <1>2

-----------------------------------------------------------------------------

\* A message that is sent with a new timeout.
LEMMA SendWithTimeoutFacts ==
    ASSUME NEW it \in Items, NEW ok \in BOOLEAN
    PROVE  KeptByTimeout(it, SendOrFail(AddTimeout(it), ok))
<1> DEFINE waits == AddTimeout(it)
<1>1. waits \in Items /\ Same(it, waits) /\ waits.timer
  BY TimerFacts
<1> HIDE DEF waits
<1>2. KeptByMessage(waits, SendOrFail(waits, ok))
  BY <1>1, SendOrFailFacts
<1>3. Kept(it, SendOrFail(waits, ok))
  BY <1>1, <1>2, SameIsKept, KeptTransitive DEF KeptByMessage
<1>4. KeptByTimeout(it, SendOrFail(waits, ok))
  BY <1>1, <1>2, <1>3 DEF KeptByMessage, KeptByTimeout, Same
<1> QED
  BY <1>4 DEF waits

\* process_timeout adds a timeout again, or ends the transfer.
LEMMA ProcessTimeoutFacts ==
    ASSUME NEW w \in Transfers, NEW it \in Items, NEW ok \in BOOLEAN
    PROVE  KeptByTimeout(it, ProcessTimeout(w, it, ok))
<1> DEFINE counted == [it EXCEPT !.retries = it.retries + 1]
<1>1. KeptByTimeout(it, CallbackAndReset(it, "Timeout"))
  BY CallbackAndResetFacts DEF KeptByMessage, KeptByTimeout, Results
<1>2. KeptByTimeout(it, SendOrFail(AddTimeout(it), ok))
  BY SendWithTimeoutFacts
<1>3. KeptByTimeout(it, AddTimeout(counted))
  <2>1. it.retries + 1 \in Nat
    BY DEF Items
  <2>2. counted \in Items /\ KeptByMessage(it, counted)
    <3>1. KeptByMessage(it, counted)
      BY <2>1, SetRetries
    <3> QED
      BY <3>1 DEF KeptByMessage, Kept
  <2> HIDE DEF counted
  <2>3. /\ AddTimeout(counted) \in Items
        /\ Same(counted, AddTimeout(counted))
        /\ AddTimeout(counted).timer
    BY <2>2, TimerFacts
  <2>4. Kept(it, AddTimeout(counted))
    BY <2>2, <2>3, SameIsKept, KeptTransitive DEF KeptByMessage
  <2> QED
    BY <2>2, <2>3, <2>4 DEF KeptByMessage, KeptByTimeout, Same
<1>4. ProcessTimeout(w, it, ok) \in
        {CallbackAndReset(it, "Timeout"), SendOrFail(AddTimeout(it), ok),
         AddTimeout(counted)}
  BY TransferAssumption
     DEF ProcessTimeout, UploadProcessTimeout, DownloadProcessTimeout,
         ClearProcessTimeout, SetCurrentProcessTimeout, SendCount, RequestList,
         RequestItem, SendClear, SendCurrentMissionItem
<1> HIDE DEF counted
<1> QED
  BY <1>1, <1>2, <1>3, <1>4

\* What a start makes of a transfer that is marked as started.
LEMMA StartedFacts ==
    ASSUME NEW it, NEW started \in Items, Kept(it, started), started.started,
           NEW ok \in BOOLEAN
    PROVE  /\ KeptByStart(it, SendOrFail(AddTimeout(started), ok))
           /\ \A result \in Results :
                 KeptByStart(it, CallbackAndReset(started, result))
<1>1. KeptByTimeout(started, SendOrFail(AddTimeout(started), ok))
  BY SendWithTimeoutFacts
<1>2. KeptByStart(it, SendOrFail(AddTimeout(started), ok))
  BY <1>1, KeptTransitive DEF KeptByTimeout, KeptByStart
<1>3. ASSUME NEW result \in Results
      PROVE  KeptByStart(it, CallbackAndReset(started, result))
  <2>1. /\ KeptByMessage(started, CallbackAndReset(started, result))
        /\ CallbackAndReset(started, result).done
    BY CallbackAndResetFacts
  <2> QED
    BY <2>1, KeptTransitive DEF KeptByMessage, KeptByStart
<1> QED
  BY <1>2, <1>3

\* start() marks the transfer, and adds a timeout or ends it.
LEMMA StartFacts ==
    ASSUME NEW w \in Transfers, NEW it \in Items, NEW ok \in BOOLEAN
    PROVE  KeptByStart(it, Start(w, it, ok))
<1> DEFINE started == [it EXCEPT !.started = TRUE]
           upload == [started EXCEPT !.retries = 0, !.step = "first", !.next = 0]
           download == [it EXCEPT !.received = <<>>, !.started = TRUE, !.retries = 0]
           other == [it EXCEPT !.started = TRUE, !.retries = 0]
<1>1. /\ started \in Items /\ upload \in Items /\ other \in Items
      /\ download \in Items
  <2>1. <<>> \in Seq(ItemInts)
    BY EmptySeq
  <2>2. started \in Items
    BY DEF Items
  <2>3. upload \in Items
    BY DEF Items
  <2>4. other \in Items
    BY DEF Items
  <2>5. download \in Items
    BY <2>1 DEF Items
  <2> QED
    BY <2>2, <2>3, <2>4, <2>5
<1>2. /\ Kept(it, started) /\ started.started
      /\ Kept(it, upload) /\ upload.started
  <2>1. /\ started.started /\ started.registered = it.registered
        /\ started.notify = it.notify /\ started.freed = it.freed
        /\ started.done = it.done /\ started.callback = it.callback
        /\ started.results = it.results
    BY DEF Items
  <2>2. /\ upload.started /\ upload.registered = it.registered
        /\ upload.notify = it.notify /\ upload.freed = it.freed
        /\ upload.done = it.done /\ upload.callback = it.callback
        /\ upload.results = it.results
    BY DEF Items
  <2> HIDE DEF started, upload
  <2> QED
    BY <1>1, <2>1, <2>2 DEF Kept, Once
<1>3. /\ Kept(it, download) /\ download.started
      /\ Kept(it, other) /\ other.started
  <2>1. /\ download.started /\ download.registered = it.registered
        /\ download.notify = it.notify /\ download.freed = it.freed
        /\ download.done = it.done /\ download.callback = it.callback
        /\ download.results = it.results
    BY DEF Items
  <2>2. /\ other.started /\ other.registered = it.registered
        /\ other.notify = it.notify /\ other.freed = it.freed
        /\ other.done = it.done /\ other.callback = it.callback
        /\ other.results = it.results
    BY DEF Items
  <2> HIDE DEF download, other
  <2> QED
    BY <1>1, <2>1, <2>2 DEF Kept, Once
<1>4. PlanError(w) # "none" => PlanError(w) \in Results
  BY DEF PlanError, Results
<1>5. \/ Start(w, it, ok) \in {SendOrFail(AddTimeout(upload), ok),
                               SendOrFail(AddTimeout(download), ok),
                               SendOrFail(AddTimeout(other), ok)}
      \/ \E result \in Results : Start(w, it, ok) = CallbackAndReset(started, result)
  <2>1. CASE Kind[w] = "upload"
    <3>1. Start(w, it, ok) = UploadStart(w, it, ok)
      BY <2>1 DEF Start
    <3>2. UploadStart(w, it, ok) = IF PlanError(w) # "none"
                                   THEN CallbackAndReset(started, PlanError(w))
                                   ELSE SendOrFail(AddTimeout(upload), ok)
      BY DEF UploadStart, SendCount
    <3> HIDE DEF started, upload
    <3> QED
      BY <1>4, <3>1, <3>2
  <2>2. CASE Kind[w] = "download"
    BY <2>2 DEF Start, DownloadStart, RequestList
  <2>3. CASE Kind[w] = "clear"
    BY <2>3 DEF Start, ClearStart, SendClear
  <2>4. CASE Kind[w] = "set_current"
    <3>1. Start(w, it, ok) = SetCurrentStart(w, it, ok)
      BY <2>4 DEF Start
    <3>2. SetCurrentStart(w, it, ok) = IF Current[w] < 0
                                       THEN CallbackAndReset(started, "CurrentInvalid")
                                       ELSE SendOrFail(AddTimeout(other), ok)
      BY DEF SetCurrentStart, SendCurrentMissionItem
    <3>3. "CurrentInvalid" \in Results
      BY DEF Results
    <3> HIDE DEF started, other
    <3> QED
      BY <3>1, <3>2, <3>3
  <2> QED
    BY <2>1, <2>2, <2>3, <2>4, TransferAssumption
<1> HIDE DEF started, upload, download, other
<1> QED
  BY <1>1, <1>2, <1>3, <1>5, StartedFacts

\* The messages the other end may send.
Messages ==
    [id : {"request", "request_int"}, seq : Nat]
      \cup [id : {"ack"}, result : AckTypes]
      \cup [id : {"count"}, count : Nat]
      \cup [id : {"item_int"}, type : {"mission", "fence"}, seq : Nat]
      \cup [id : {"current"}, seq : Nat]

\* All that the other end sends is such a message.
LEMMA AnswersAreMessages == Answers \subseteq Messages
<1>1. \A w \in Transfers : Type[w] \in {"mission", "fence"} /\ Stored[Type[w]] \in Nat
  BY TransferAssumption
<1> SUFFICES ASSUME NEW m \in Answers PROVE m \in Messages
  OBVIOUS
<1>2. \A t \in {Type[w] : w \in Begun("download")} :
         t \in {"mission", "fence"} /\ Stored[t] \in Nat
  BY <1>1 DEF Begun
<1>3. 0..MaxSeq \subseteq Nat
  BY NumberAssumption
<1>4. CASE \E t \in {Type[w] : w \in Begun("download")} :
              m = [id |-> "count", count |-> Stored[t]]
  BY <1>2, <1>4 DEF Messages
<1>5. CASE \E t \in {Type[w] : w \in Begun("download")} :
              m \in [id : {"item_int"}, type : {t}, seq : 0..(Stored[t] - 1)]
  <2>1. PICK t \in {Type[w] : w \in Begun("download")} :
              m \in [id : {"item_int"}, type : {t}, seq : 0..(Stored[t] - 1)]
    BY <1>5
  <2>2. 0..(Stored[t] - 1) \subseteq Nat
    BY <1>2
  <2> QED
    BY <1>2, <2>1, <2>2 DEF Messages
<1>6. CASE \/ m \in [id : {"request", "request_int"}, seq : 0..MaxSeq]
           \/ m \in [id : {"current"}, seq : 0..MaxSeq]
  BY <1>3, <1>6 DEF Messages
<1>7. CASE m \in [id : {"ack"}, result : AckTypes]
  BY <1>7 DEF Messages
<1>8. \/ \E t \in {Type[w] : w \in Begun("download")} :
              m = [id |-> "count", count |-> Stored[t]]
      \/ \E t \in {Type[w] : w \in Begun("download")} :
              m \in [id : {"item_int"}, type : {t}, seq : 0..(Stored[t] - 1)]
      \/ m \in [id : {"request", "request_int"}, seq : 0..MaxSeq]
      \/ m \in [id : {"current"}, seq : 0..MaxSeq]
      \/ m \in [id : {"ack"}, result : AckTypes]
  BY DEF Answers
<1> QED
  BY <1>4, <1>5, <1>6, <1>7, <1>8

\* The handlers of the messages, taken together.
LEMMA ProcessMessageFacts ==
    ASSUME NEW w \in Transfers, NEW it \in Items, NEW m \in Messages,
           Handles(w, m.id), NEW ok \in BOOLEAN
    PROVE  LET new == ProcessMessage(w, it, m, ok) IN
           /\ Kept(it, new)
           /\ new.started = it.started
           /\ \/ Kind[w] = "set_current"
              \/ Kind[w] = "clear" /\ Unlisted(m)
              \/ KeptByMessage(it, new)
<1> DEFINE new == ProcessMessage(w, it, m, ok)
<1> SUFFICES \/ KeptByMessage(it, new)
             \/ /\ Kind[w] = "set_current" \/ (Kind[w] = "clear" /\ Unlisted(m))
                /\ Kept(it, new)
                /\ new.started = it.started
  BY DEF KeptByMessage
<1>1. CASE m.id = "request"
  <2>1. m.seq \in Nat
    BY <1>1 DEF Messages
  <2> QED
    BY <1>1, <2>1, UploadMessagesFacts DEF ProcessMessage
<1>2. CASE m.id = "request_int"
  <2>1. m.seq \in Nat
    BY <1>2 DEF Messages
  <2> QED
    BY <1>2, <2>1, UploadMessagesFacts DEF ProcessMessage
<1>3. CASE m.id = "ack"
  <2>2. Kind[w] = "upload" \/ Kind[w] = "clear"
    BY <1>3, TransferAssumption DEF Handles
  <2>3. new = IF Kind[w] = "upload" THEN UploadProcessMissionAck(w, it, m.result)
                                    ELSE ClearProcessMissionAck(it, m.result)
    BY <1>3, <2>2 DEF ProcessMessage
  <2>4. KeptByMessage(it, UploadProcessMissionAck(w, it, m.result))
    BY UploadMessagesFacts, 0 \in Nat
  <2> DEFINE cleared == ClearProcessMissionAck(it, m.result)
  <2>5. /\ Kept(it, cleared) /\ cleared.started = it.started
        /\ m.result \in ListedAcks => KeptByMessage(it, cleared)
    BY ClearAckFacts
  <2> HIDE DEF cleared
  <2>6. CASE Kind[w] = "upload"
    BY <2>3, <2>4, <2>6
  <2>7. CASE Kind[w] = "clear"
    <3>1. new = cleared
      BY <2>3, <2>7 DEF cleared
    <3> QED
      BY <1>3, <2>5, <2>7, <3>1 DEF Unlisted
  <2> QED
    BY <2>2, <2>6, <2>7
<1>4. CASE m.id = "count"
  <2>1. m.count \in Nat
    BY <1>4 DEF Messages
  <2> QED
    BY <1>4, <2>1, ProcessMissionCountFacts DEF ProcessMessage
<1>5. CASE m.id = "item_int"
  <2>1. m.seq \in Nat /\ m.type \in {"mission", "fence"}
    BY <1>5 DEF Messages
  <2> QED
    BY <1>5, <2>1, ProcessMissionItemIntFacts DEF ProcessMessage
<1>6. CASE m.id = "current"
  <2>1. m.seq \in Nat
    BY <1>6 DEF Messages
  <2>2. Kind[w] = "set_current"
    BY <1>6, TransferAssumption DEF Handles
  <2>3. new = ProcessMissionCurrent(w, it, m.seq, ok)
    BY <1>6 DEF ProcessMessage
  <2>4. Kept(it, ProcessMissionCurrent(w, it, m.seq, ok))
        /\ ProcessMissionCurrent(w, it, m.seq, ok).started = it.started
    BY <2>1, ProcessMissionCurrentFacts
  <2> QED
    BY <2>2, <2>3, <2>4
<1> QED
  BY <1>1, <1>2, <1>3, <1>4, <1>5, <1>6 DEF Messages

-----------------------------------------------------------------------------
(***************************************************************************)
(* Sequences.                                                              *)
(***************************************************************************)

Has(s, x) == \E i \in DOMAIN s : s[i] = x

\* The elements of a concatenation.
LEMMA HasConcat ==
    ASSUME NEW S, NEW s \in Seq(S), NEW t \in Seq(S), NEW x
    PROVE  /\ s \o t \in Seq(S)
           /\ Has(s \o t, x) <=> Has(s, x) \/ Has(t, x)
<1>1. s \o t \in Seq(S)
  BY ConcatProperties
<1>2. Range(s \o t) = Range(s) \cup Range(t)
  BY RangeConcatenation
<1>3. \A u : x \in Range(u) <=> Has(u, x)
  BY DEF Range, Has
<1> QED
  BY <1>1, <1>2, <1>3

\* The elements of a sequence are its head and those of its tail.
LEMMA HasTail ==
    ASSUME NEW S, NEW s \in Seq(S), s # <<>>, NEW x
    PROVE  /\ Head(s) \in S
           /\ Tail(s) \in Seq(S)
           /\ Has(s, x) <=> x = Head(s) \/ Has(Tail(s), x)
<1>1. /\ Head(s) \in S /\ Tail(s) \in Seq(S)
      /\ Len(Tail(s)) = Len(s) - 1
      /\ \A i \in 1..Len(Tail(s)) : Tail(s)[i] = s[i + 1]
      /\ Head(s) = s[1]
  BY HeadTailProperties
<1>2. /\ Len(s) \in Nat /\ Len(s) # 0
      /\ DOMAIN s = 1..Len(s) /\ DOMAIN Tail(s) = 1..Len(Tail(s))
  BY <1>1, LenProperties, EmptySeq
<1>3. ASSUME NEW i \in DOMAIN s, s[i] = x PROVE x = Head(s) \/ Has(Tail(s), x)
  <2>1. CASE i = 1
    BY <1>1, <1>3, <2>1
  <2>2. CASE i # 1
    <3>1. i - 1 \in DOMAIN Tail(s) /\ Tail(s)[i - 1] = s[(i - 1) + 1]
      BY <1>1, <1>2, <2>2
    <3>2. (i - 1) + 1 = i
      BY <1>2
    <3> QED
      BY <1>3, <3>1, <3>2 DEF Has
  <2> QED
    BY <2>1, <2>2
<1>4. Has(Tail(s), x) => Has(s, x)
  BY <1>1, <1>2 DEF Has
<1>5. x = Head(s) => Has(s, x)
  BY <1>1, <1>2 DEF Has
<1> QED
  BY <1>1, <1>3, <1>4, <1>5 DEF Has

\* Short sequences.
LEMMA HasShort ==
    ASSUME NEW S, NEW x \in S, NEW y \in S, NEW z
    PROVE  /\ <<>> \in Seq(S) /\ <<x>> \in Seq(S) /\ <<x, y>> \in Seq(S)
           /\ ~Has(<<>>, z)
           /\ Has(<<x>>, z) <=> z = x
           /\ Has(<<x, y>>, z) <=> z \in {x, y}
<1>1. <<>> \in Seq(S) /\ <<x>> \in Seq(S) /\ <<x, y>> \in Seq(S)
  OBVIOUS
<1>2. ~Has(<<>>, z)
  BY DEF Has
<1>3. Has(<<x>>, z) <=> z = x
  BY DEF Has
<1>4. Has(<<x, y>>, z) <=> z \in {x, y}
  <2>1. DOMAIN <<x, y>> = {1, 2}
    OBVIOUS
  <2>2. <<x, y>>[1] = x /\ <<x, y>>[2] = y
    OBVIOUS
  <2> QED
    BY <2>1, <2>2 DEF Has
<1> QED
  BY <1>1, <1>2, <1>3, <1>4

-----------------------------------------------------------------------------
(***************************************************************************)
(* The invariant.                                                          *)
(***************************************************************************)

TaskSet == [op : {"register", "enqueue"}, of : Transfers] \cup {DoWorkTask}

\* What do_work relies on and keeps, of any state of the transfers, the queue
\* and the tasks: a transfer has called its callback at most once; what is
\* queued kicks the queue when it ends; a transfer is freed when it is done; and
\* one whose owner may still lock it is on its way into the queue, in it or
\* done; what is under way has a timeout.
Sound(items, q, ts) ==
    /\ items \in [Transfers -> Items]
    /\ q \in Seq(Transfers)
    /\ ts \in Seq(TaskSet)
    /\ \A w \in Transfers :
          /\ Once(items[w])
          /\ Has(q, w) => items[w].notify
          /\ items[w].freed => items[w].done
          /\ held[w] \in {"handle", "locked"}
                => Has(q, w) \/ Has(ts, Task("enqueue", w)) \/ items[w].done
          /\ Kind[w] # "set_current" /\ items[w].started /\ ~items[w].done
                => items[w].timer \/ running = w \/ w \in silenced

\* QueueIsKicked, of any state.
Kicked(items, q, ts) ==
    q # <<>> /\ (items[Head(q)].started => items[Head(q)].done)
        => Has(ts, DoWorkTask)

MissionInv ==
    /\ Sound(item, queue, tasks)
    /\ Kicked(item, queue, tasks)
    /\ running \in Transfers \cup {NoTransfer}
    /\ held \in [Transfers -> {"no call", "handle", "locked", "no handle"}]
    /\ intMessages \in BOOLEAN
    /\ messages \in 0..MaxMessages
    /\ silenced \subseteq {w \in Transfers : Kind[w] = "clear"}

\* The properties follow from the invariant.
LEMMA MissionInvImplies ==
    MissionInv => TypeOK /\ OneResult /\ TransferHasTimeout /\ QueueIsKicked
<1> SUFFICES ASSUME MissionInv
             PROVE  TypeOK /\ OneResult /\ TransferHasTimeout /\ QueueIsKicked
  OBVIOUS
<1>1. TypeOK
  BY DEF MissionInv, Sound, TaskSet, TypeOK
<1>2. OneResult
  BY DEF MissionInv, Sound, Once, OneResult
<1>3. TransferHasTimeout
  BY DEF MissionInv, Sound, TransferHasTimeout
<1>4. QueueIsKicked
  BY DEF MissionInv, Kicked, QueueIsKicked, Pending, Has
<1> QED
  BY <1>1, <1>2, <1>3, <1>4

\* Nothing was asked for at first.
LEMMA InitMissionInv == Init => MissionInv
<1> SUFFICES ASSUME Init PROVE MissionInv
  OBVIOUS
<1>1. NewItem \in Items /\ Once(NewItem) /\ ~NewItem.freed /\ ~NewItem.started
  <2>1. /\ <<>> \in Seq(ItemInts) /\ Len(<<>>) = 0
        /\ <<>> \in Seq([result : Results, items : Seq(ItemInts)])
    BY EmptySeq
  <2> QED
    BY <2>1 DEF NewItem, Items, Once
<1>2. queue \in Seq(Transfers) /\ tasks \in Seq(TaskSet)
  BY EmptySeq DEF Init
<1>3. \A w \in Transfers : ~Has(queue, w)
  <2>1. DOMAIN <<>> = {}
    OBVIOUS
  <2> QED
    BY <2>1 DEF Init, Has
<1>4. Sound(item, queue, tasks)
  <2> HIDE DEF NewItem
  <2>1. item \in [Transfers -> Items] /\ \A w \in Transfers : item[w] = NewItem
    BY <1>1 DEF Init
  <2>2. \A w \in Transfers : held[w] = "no call"
    BY DEF Init
  <2> QED
    BY <1>1, <1>2, <1>3, <2>1, <2>2 DEF Sound
<1>5. Kicked(item, queue, tasks)
  BY DEF Init, Kicked
<1>6. /\ running \in Transfers \cup {NoTransfer} /\ intMessages \in BOOLEAN
      /\ held \in [Transfers -> {"no call", "handle", "locked", "no handle"}]
  BY DEF Init
<1>7. messages \in 0..MaxMessages
  <2>1. MaxMessages \in Nat
    BY NumberAssumption
  <2>2. messages = 0
    BY DEF Init
  <2> QED
    BY <2>1, <2>2
<1>8. silenced = {}
  BY DEF Init
<1> QED
  BY <1>4, <1>5, <1>6, <1>7, <1>8 DEF MissionInv

\* set_done: do_work is posted when a transfer that notifies has ended.
LEMMA PostedFacts ==
    ASSUME NEW before, NEW after
    PROVE  /\ Posted(before, after) \in Seq(TaskSet)
           /\ \A w \in Transfers :
                 after[w].done /\ ~before[w].done /\ before[w].notify
                    => Has(Posted(before, after), DoWorkTask)
<1> DEFINE ended == {w \in Transfers :
                       after[w].done /\ ~before[w].done /\ before[w].notify}
           n == Cardinality(ended)
           posted == [i \in 1..n |-> DoWorkTask]
<1>1. IsFiniteSet(ended)
  BY FS_Subset, TransferAssumption
<1>2. n \in Nat /\ (ended # {} => n # 0)
  BY <1>1, FS_CardinalityType, FS_EmptySet
<1>3. Posted(before, after) = posted
  BY DEF Posted
<1>4. \A w \in Transfers :
         after[w].done /\ ~before[w].done /\ before[w].notify => ended # {}
  OBVIOUS
<1> HIDE DEF n, ended
<1>5. DoWorkTask \in TaskSet
  BY DEF TaskSet
<1>6. posted \in Seq(TaskSet)
  BY <1>2, <1>5, IsASeq
<1>7. n # 0 => Has(posted, DoWorkTask)
  <2>1. n # 0 => 1 \in DOMAIN posted /\ posted[1] = DoWorkTask
    BY <1>2
  <2> QED
    BY <2>1 DEF Has
<1> QED
  BY <1>2, <1>3, <1>4, <1>6, <1>7

\* do_work.
LEMMA DoWorkFacts ==
    ASSUME NEW items, NEW q, NEW ts, NEW ok \in BOOLEAN,
           Sound(items, q, ts), DoWork(items, q, ts, ok), UNCHANGED <<held, running, silenced>>
    PROVE  Sound(item, queue, tasks)' /\ Kicked(item, queue, tasks)'
<1> SUFFICES Sound(item', queue', tasks') /\ Kicked(item', queue', tasks')
  BY DEF Sound, Kicked
<1>1. CASE q = <<>>
  BY <1>1 DEF DoWork, Kicked
<1>2. CASE q # <<>>
  <2> DEFINE w == Head(q)
             it == IF items[w].started THEN items[w] ELSE Start(w, items[w], ok)
             posted == Posted(items, [items EXCEPT ![w] = it])
             kick == IF Tail(q) = <<>> THEN <<>> ELSE <<DoWorkTask>>
  <2>1. /\ items \in [Transfers -> Items] /\ q \in Seq(Transfers) /\ ts \in Seq(TaskSet)
        /\ w \in Transfers /\ items[w] \in Items /\ Tail(q) \in Seq(Transfers)
        /\ \A x : Has(q, x) <=> x = w \/ Has(Tail(q), x)
    BY <1>2, HasTail DEF Sound
  <2> HIDE DEF w
  <2>2. /\ Kept(items[w], it) /\ it.started
        /\ Kind[w] # "set_current" /\ ~it.done => it.timer \/ running = w \/ w \in silenced
    <3>1. CASE items[w].started
      <4>1. Kept(items[w], items[w])
        BY <2>1, SameIsKept DEF Same
      <4> QED
        BY <2>1, <3>1, <4>1 DEF Sound
    <3>2. CASE ~items[w].started
      <4>1. KeptByStart(items[w], Start(w, items[w], ok))
        BY <2>1, StartFacts
      <4> QED
        BY <3>2, <4>1 DEF KeptByStart
    <3> QED
      BY <3>1, <3>2
  <2>3. /\ it \in Items /\ Once(it) /\ it.notify = items[w].notify
        /\ it.freed => it.done
    BY <2>1, <2>2 DEF Kept, Sound
  <2>4. CASE it.done
    <3>1. /\ item' = [items EXCEPT ![w] = Retire(w, it)]
          /\ queue' = Tail(q)
          /\ tasks' = ts \o posted \o kick
      BY <1>2, <2>4 DEF DoWork, w
    <3> HIDE DEF it
    <3>2. /\ Retire(w, it) \in Items /\ Once(Retire(w, it))
          /\ Retire(w, it).notify = it.notify /\ Retire(w, it).done
      <4> DEFINE stopped == RemoveTimeout(it)
                 out == [it EXCEPT !.registered = FALSE]
                 gone == [stopped EXCEPT !.registered = FALSE, !.freed = TRUE]
      <4>1. stopped \in Items /\ Same(it, stopped)
        BY <2>3, TimerFacts
      <4>2. out \in Items /\ out.notify = it.notify /\ out.done = it.done
            /\ out.callback = it.callback /\ out.results = it.results
        BY <2>3 DEF Items
      <4>3. gone \in Items /\ gone.notify = it.notify /\ gone.done = it.done
            /\ gone.callback = it.callback /\ gone.results = it.results
        <5> HIDE DEF stopped
        <5>1. gone \in Items
          BY <4>1 DEF Items
        <5>2. /\ gone.notify = stopped.notify /\ gone.done = stopped.done
              /\ gone.callback = stopped.callback /\ gone.results = stopped.results
          BY <4>1 DEF Items
        <5> QED
          BY <4>1, <5>1, <5>2 DEF Same
      <4>4. Retire(w, it) \in {out, gone}
        BY DEF Retire, Destroy
      <4> HIDE DEF out, gone
      <4> QED
        BY <2>3, <2>4, <4>2, <4>3, <4>4 DEF Once
    <3>3. /\ tasks' \in Seq(TaskSet)
          /\ \A x : Has(ts, x) => Has(tasks', x)
          /\ Tail(q) # <<>> => Has(tasks', DoWorkTask)
      <4>1. DoWorkTask \in TaskSet
        BY DEF TaskSet
      <4>2. posted \in Seq(TaskSet)
        BY PostedFacts
      <4>3. kick \in Seq(TaskSet) /\ (Tail(q) # <<>> => Has(kick, DoWorkTask))
        BY <4>1, HasShort
      <4> HIDE DEF posted, kick
      <4>4. /\ ts \o posted \in Seq(TaskSet)
            /\ \A x : Has(ts, x) => Has(ts \o posted, x)
        BY <2>1, <4>2, HasConcat
      <4>5. /\ (ts \o posted) \o kick \in Seq(TaskSet)
            /\ \A x : Has(ts \o posted, x) \/ Has(kick, x)
                         => Has((ts \o posted) \o kick, x)
        BY <4>3, <4>4, HasConcat
      <4> QED
        BY <3>1, <4>3, <4>4, <4>5
    <3>4. Sound(item', queue', tasks')
      <4>1. item' \in [Transfers -> Items]
        BY <2>1, <3>1, <3>2
      <4>2. ASSUME NEW v \in Transfers
            PROVE  /\ Once(item'[v])
                   /\ Has(queue', v) => item'[v].notify
                   /\ item'[v].freed => item'[v].done
                   /\ held[v] \in {"handle", "locked"}
                         => \/ Has(queue', v) \/ Has(tasks', Task("enqueue", v))
                            \/ item'[v].done
                   /\ Kind[v] # "set_current" /\ item'[v].started /\ ~item'[v].done
                         => item'[v].timer \/ running = v \/ v \in silenced
        <5>1. CASE v = w
          <6>1. item'[v] = Retire(w, it)
            BY <2>1, <3>1, <5>1
          <6>2. Has(queue', v) => items[w].notify
            BY <2>1, <3>1, <5>1 DEF Sound
          <6> QED
            BY <2>3, <3>2, <6>1, <6>2
        <5>2. CASE v # w
          <6>1. item'[v] = items[v]
            BY <2>1, <3>1, <5>2
          <6>2. Has(queue', v) <=> Has(q, v)
            BY <2>1, <3>1, <5>2
          <6> QED
            BY <3>3, <6>1, <6>2 DEF Sound
        <5> QED
          BY <5>1, <5>2
      <4> QED
        BY <2>1, <3>1, <3>3, <4>1, <4>2 DEF Sound
    <3> QED
      BY <3>1, <3>3, <3>4 DEF Kicked
  <2>5. CASE ~it.done
    <3>1. item' = [items EXCEPT ![w] = it] /\ queue' = q /\ tasks' = ts
      BY <1>2, <2>5 DEF DoWork, w
    <3> HIDE DEF it
    <3>2. /\ item' \in [Transfers -> Items]
          /\ item'[w] = it /\ \A v \in Transfers \ {w} : item'[v] = items[v]
      BY <2>1, <2>3, <3>1
    <3>3. Kept(items[w], it)
      BY <2>2
    <3>4. Sound(item', queue', tasks')
      <4>1. ASSUME NEW v \in Transfers
            PROVE  /\ Once(item'[v])
                   /\ Has(q, v) => item'[v].notify
                   /\ item'[v].freed => item'[v].done
                   /\ held[v] \in {"handle", "locked"}
                         => \/ Has(q, v) \/ Has(ts, Task("enqueue", v))
                            \/ item'[v].done
                   /\ Kind[v] # "set_current" /\ item'[v].started /\ ~item'[v].done
                         => item'[v].timer \/ running = v \/ v \in silenced
        <5>1. CASE v = w
          BY <2>2, <2>3, <3>2, <3>3, <5>1 DEF Sound, Kept
        <5>2. CASE v # w
          BY <3>2, <5>2 DEF Sound
        <5> QED
          BY <5>1, <5>2
      <4> QED
        BY <2>1, <3>1, <3>2, <4>1 DEF Sound
    <3>5. Kicked(item', queue', tasks')
      BY <2>2, <2>5, <3>1, <3>2 DEF Kicked, w
    <3> QED
      BY <3>4, <3>5
  <2> QED
    BY <2>4, <2>5
<1> QED
  BY <1>1, <1>2

-----------------------------------------------------------------------------
(***************************************************************************)
(* The actions.                                                            *)
(***************************************************************************)

\* Handlers, timeouts and cancel(): transfers change, what has ended is posted.
LEMMA HandlersFacts ==
    ASSUME MissionInv, NEW after \in [Transfers -> Items],
           \A w \in Transfers : /\ Kept(item[w], after[w])
                                /\ after[w].started = item[w].started
                                /\ Kind[w] # "set_current" /\ ~after[w].done
                                      /\ after[w].started
                                      => after[w].timer \/ running' = w \/ w \in silenced',
           item' = after, tasks' = tasks \o Posted(item, after),
           UNCHANGED <<queue, held>>
    PROVE  Sound(item, queue, tasks)' /\ Kicked(item, queue, tasks)'
<1>1. /\ Sound(item, queue, tasks) /\ Kicked(item, queue, tasks)
      /\ queue \in Seq(Transfers) /\ tasks \in Seq(TaskSet)
  BY DEF MissionInv, Sound
<1>2. Posted(item, after) \in Seq(TaskSet)
  BY PostedFacts
<1>3. /\ tasks' \in Seq(TaskSet)
      /\ \A x : Has(tasks', x) <=> Has(tasks, x) \/ Has(Posted(item, after), x)
  BY <1>1, <1>2, HasConcat
<1>4. Sound(item, queue, tasks)'
  <2>1. ASSUME NEW w \in Transfers
        PROVE  /\ Once(after[w])
               /\ Has(queue, w) => after[w].notify
               /\ after[w].freed => after[w].done
               /\ held[w] \in {"handle", "locked"}
                     => \/ Has(queue, w) \/ Has(tasks', Task("enqueue", w))
                        \/ after[w].done
    BY <1>1, <1>3 DEF Sound, Kept
  <2> QED
    BY <1>1, <1>3, <2>1 DEF Sound
<1>5. Kicked(item, queue, tasks)'
  <2> SUFFICES ASSUME queue # <<>>,
                      after[Head(queue)].started => after[Head(queue)].done
               PROVE  Has(tasks', DoWorkTask)
    BY DEF Kicked
  <2> DEFINE w == Head(queue)
  <2>1. w \in Transfers /\ Has(queue, w)
    BY <1>1, HasTail
  <2> HIDE DEF w
  <2>2. item[w].notify /\ after[w].started = item[w].started
    BY <1>1, <2>1 DEF Sound
  <2>3. CASE item[w].started => item[w].done
    BY <1>1, <1>3, <2>3 DEF Kicked, w
  <2>4. CASE item[w].started /\ ~item[w].done
    <3>1. after[w].done
      BY <2>2, <2>4 DEF w
    <3> QED
      BY <1>3, <2>1, <2>2, <2>4, <3>1, PostedFacts
  <2> QED
    BY <2>3, <2>4
<1> QED
  BY <1>4, <1>5

\* What is not touched is kept.
LEMMA UntouchedIsKept == ASSUME NEW it \in Items PROVE Kept(it, it)
  BY SameIsKept DEF Same

\* A call adds its tasks; a call that is refused gets its result at once.
LEMMA AsyncKeepsInv ==
    ASSUME MissionInv, NEW w \in Transfers, TransferItemsAsync(w) \/ OtherAsync(w)
    PROVE  MissionInv'
<1>1. /\ Sound(item, queue, tasks) /\ Kicked(item, queue, tasks)
      /\ item \in [Transfers -> Items] /\ item[w] \in Items
      /\ queue \in Seq(Transfers) /\ tasks \in Seq(TaskSet)
      /\ held \in [Transfers -> {"no call", "handle", "locked", "no handle"}]
  BY DEF MissionInv, Sound
<1>2. UNCHANGED <<queue, running, intMessages, messages, silenced>>
  BY DEF TransferItemsAsync, OtherAsync
<1>3. CASE /\ held' \in {[held EXCEPT ![w] = "handle"], [held EXCEPT ![w] = "no handle"]}
           /\ tasks' = tasks \o <<Task("register", w), Task("enqueue", w)>>
           /\ UNCHANGED item
  <2>1. Task("register", w) \in TaskSet /\ Task("enqueue", w) \in TaskSet
    BY DEF Task, TaskSet
  <2>2. /\ tasks' \in Seq(TaskSet)
        /\ \A x : Has(tasks, x) => Has(tasks', x)
        /\ Has(tasks', Task("enqueue", w))
    <3> DEFINE first == Task("register", w)
               second == Task("enqueue", w)
               two == <<first, second>>
    <3>1. two \in Seq(TaskSet) /\ Has(two, second)
      <4> first \in TaskSet /\ second \in TaskSet
        BY <2>1
      <4> HIDE DEF first, second
      <4> QED
        BY HasShort
    <3> HIDE DEF two
    <3>2. /\ tasks \o two \in Seq(TaskSet)
          /\ \A x : Has(tasks \o two, x) <=> Has(tasks, x) \/ Has(two, x)
      BY <1>1, <3>1, HasConcat
    <3> QED
      BY <1>3, <3>1, <3>2 DEF two
  <2>3. /\ held' \in [Transfers -> {"no call", "handle", "locked", "no handle"}]
        /\ \A v \in Transfers \ {w} : held'[v] = held[v]
    BY <1>1, <1>3
  <2>4. Sound(item, queue, tasks)'
    BY <1>1, <1>2, <1>3, <2>2, <2>3 DEF Sound
  <2>5. Kicked(item, queue, tasks)'
    BY <1>1, <1>2, <1>3, <2>2 DEF Kicked
  <2> QED
    BY <1>2, <2>3, <2>4, <2>5 DEF MissionInv
<1>4. CASE /\ held' = [held EXCEPT ![w] = "no handle"]
           /\ item' = [item EXCEPT ![w].callback = FALSE,
                                   ![w].results =
                         <<[result |-> "IntMessagesNotSupported", items |-> <<>>]>>]
           /\ UNCHANGED tasks
  <2> DEFINE entry == [result |-> "IntMessagesNotSupported", items |-> <<>>]
             results == <<entry>>
             new == [item[w] EXCEPT !.callback = FALSE, !.results = results]
  <2>1. results \in Seq([result : Results, items : Seq(ItemInts)]) /\ Len(results) = 1
    <3>1. entry \in [result : Results, items : Seq(ItemInts)]
      BY EmptySeq DEF Results
    <3> HIDE DEF entry
    <3> QED
      BY <3>1
  <2>2. item' = [item EXCEPT ![w] = new]
    <3> HIDE DEF entry
    <3> QED
      BY <1>1, <1>4 DEF entry
  <2> HIDE DEF results
  <2>3. new \in Items
    BY <1>1, <2>1 DEF Items
  <2>4. /\ ~new.callback /\ new.results = results /\ new.notify = item[w].notify
        /\ new.freed = item[w].freed /\ new.done = item[w].done
        /\ new.started = item[w].started /\ new.timer = item[w].timer
    BY <1>1 DEF Items
  <2> HIDE DEF new
  <2>5. /\ item' \in [Transfers -> Items] /\ item'[w] = new
        /\ \A v \in Transfers \ {w} : item'[v] = item[v]
    BY <1>1, <2>2, <2>3
  <2>6. /\ held' \in [Transfers -> {"no call", "handle", "locked", "no handle"}]
        /\ held'[w] = "no handle" /\ \A v \in Transfers \ {w} : held'[v] = held[v]
    BY <1>1, <1>4
  <2>7. Sound(item, queue, tasks)'
    <3>1. ASSUME NEW v \in Transfers
          PROVE  /\ Once(item'[v])
                 /\ Has(queue, v) => item'[v].notify
                 /\ item'[v].freed => item'[v].done
                 /\ held'[v] \in {"handle", "locked"}
                       => \/ Has(queue, v) \/ Has(tasks, Task("enqueue", v))
                          \/ item'[v].done
                 /\ Kind[v] # "set_current" /\ item'[v].started /\ ~item'[v].done
                       => item'[v].timer \/ running = v \/ v \in silenced
      <4>1. CASE v = w
        <5>1. Once(new)
          <6>1. Len(new.results) = 1
            BY <2>1, <2>4, Zenon
          <6> QED
            BY <2>4, <6>1 DEF Once
        <5>2. /\ Has(queue, w) => item[w].notify
              /\ item[w].freed => item[w].done
              /\ Kind[w] # "set_current" /\ item[w].started /\ ~item[w].done
                    => item[w].timer \/ running = w \/ w \in silenced
          BY <1>1 DEF Sound
        <5> QED
          BY <2>4, <2>5, <2>6, <4>1, <5>1, <5>2
      <4>2. CASE v # w
        BY <1>1, <2>5, <2>6, <4>2 DEF Sound
      <4> QED
        BY <4>1, <4>2
    <3> QED
      BY <1>1, <1>2, <1>4, <2>5, <3>1 DEF Sound
  <2>8. Kicked(item, queue, tasks)'
    <3>1. queue # <<>> => Head(queue) \in Transfers
      BY <1>1, HasTail
    <3>2. \A v \in Transfers : /\ item'[v].started = item[v].started
                               /\ item'[v].done = item[v].done
      BY <2>4, <2>5
    <3> QED
      BY <1>1, <1>2, <1>4, <3>1, <3>2 DEF Kicked
  <2> QED
    BY <1>2, <2>6, <2>7, <2>8 DEF MissionInv
<1> QED
  BY <1>3, <1>4 DEF TransferItemsAsync, OtherAsync

\* Locking the handle changes nothing else.
LEMMA LockKeepsInv ==
    ASSUME MissionInv, NEW w \in Transfers, Lock(w)
    PROVE  MissionInv'
<1>1. /\ held' \in [Transfers -> {"no call", "handle", "locked", "no handle"}]
      /\ held[w] = "handle"
      /\ \A v \in Transfers \ {w} : held'[v] = held[v]
      /\ UNCHANGED <<item, queue, tasks, running, intMessages, messages, silenced>>
  BY DEF MissionInv, Lock
<1>2. Sound(item, queue, tasks)'
  BY <1>1 DEF MissionInv, Sound
<1> QED
  BY <1>1, <1>2 DEF MissionInv, Kicked

\* cancel() ends the transfer.
LEMMA CancelKeepsInv ==
    ASSUME MissionInv, NEW w \in Transfers, Cancel(w)
    PROVE  MissionInv'
<1>1. PICK ok \in BOOLEAN :
         LET after == [item EXCEPT ![w] = SendCancelAndFinish(RemoveTimeout(@), ok)]
         IN item' = after /\ tasks' = tasks \o Posted(item, after)
  BY DEF Cancel
<1> DEFINE new == SendCancelAndFinish(RemoveTimeout(item[w]), ok)
           after == [item EXCEPT ![w] = new]
<1>2. item \in [Transfers -> Items]
  BY DEF MissionInv, Sound
<1>3. KeptByMessage(item[w], new) /\ new.done
  BY <1>2, FinishFacts DEF SendCancelAndFinish, Results
<1>4. item' = after /\ tasks' = tasks \o Posted(item, after)
  BY <1>1
<1>5. UNCHANGED <<queue, running, held, intMessages, messages, silenced>>
  BY DEF Cancel
<1> HIDE DEF new
<1>6. /\ after \in [Transfers -> Items]
      /\ \A v \in Transfers : /\ Kept(item[v], after[v])
                              /\ after[v].started = item[v].started
                              /\ Kind[v] # "set_current" /\ ~after[v].done
                                    /\ after[v].started
                                    => after[v].timer \/ running' = v \/ v \in silenced'
  BY <1>2, <1>3, <1>5, UntouchedIsKept DEF KeptByMessage, Kept, MissionInv, Sound
<1> HIDE DEF after
<1>7. Sound(item, queue, tasks)' /\ Kicked(item, queue, tasks)'
  BY <1>4, <1>5, <1>6, HandlersFacts
<1> QED
  BY <1>5, <1>7 DEF MissionInv

\* The last reference goes when the transfer is done.
LEMMA UnlockKeepsInv ==
    ASSUME MissionInv, NEW w \in Transfers, Unlock(w)
    PROVE  MissionInv'
<1>1. /\ Sound(item, queue, tasks) /\ Kicked(item, queue, tasks)
      /\ item \in [Transfers -> Items] /\ item[w] \in Items
      /\ queue \in Seq(Transfers)
      /\ held \in [Transfers -> {"no call", "handle", "locked", "no handle"}]
  BY DEF MissionInv, Sound
<1>2. UNCHANGED <<queue, tasks, running, intMessages, messages, silenced>>
  BY DEF Unlock
<1>3. /\ held[w] = "locked"
      /\ held' \in [Transfers -> {"no call", "handle", "locked", "no handle"}]
      /\ \A v \in Transfers \ {w} : held'[v] = held[v]
  BY <1>1 DEF Unlock
<1>4. CASE UNCHANGED item
  <2>1. Sound(item, queue, tasks)'
    BY <1>1, <1>2, <1>3, <1>4 DEF Sound
  <2> QED
    BY <1>1, <1>2, <1>3, <1>4, <2>1 DEF MissionInv, Kicked
<1>5. CASE /\ item' = [item EXCEPT ![w] = Destroy(@)]
           /\ ~Has(queue, w) /\ ~Has(tasks, Task("enqueue", w))
  <2> DEFINE stopped == RemoveTimeout(item[w])
             gone == [stopped EXCEPT !.registered = FALSE, !.freed = TRUE]
  <2>1. stopped \in Items /\ Same(item[w], stopped)
    BY <1>1, TimerFacts
  <2>2. item[w].done
    BY <1>1, <1>3, <1>5 DEF Sound
  <2>3. item' = [item EXCEPT ![w] = gone]
    BY <1>5 DEF Destroy
  <2> HIDE DEF stopped
  <2>4. gone \in Items
    BY <2>1 DEF Items
  <2>5. /\ gone.notify = stopped.notify /\ gone.done = stopped.done
        /\ gone.callback = stopped.callback /\ gone.results = stopped.results
        /\ gone.started = stopped.started
    BY <2>1 DEF Items
  <2> HIDE DEF gone
  <2>6. /\ gone.notify = item[w].notify /\ gone.done /\ gone.started = item[w].started
        /\ Once(gone)
    BY <1>1, <2>1, <2>2, <2>5 DEF Same, Sound, Once
  <2>7. /\ item' \in [Transfers -> Items] /\ item'[w] = gone
        /\ \A v \in Transfers \ {w} : item'[v] = item[v]
    BY <1>1, <2>3, <2>4
  <2>8. Sound(item, queue, tasks)'
    <3>1. ASSUME NEW v \in Transfers
          PROVE  /\ Once(item'[v])
                 /\ Has(queue, v) => item'[v].notify
                 /\ item'[v].freed => item'[v].done
                 /\ held'[v] \in {"handle", "locked"}
                       => \/ Has(queue, v) \/ Has(tasks, Task("enqueue", v))
                          \/ item'[v].done
                 /\ Kind[v] # "set_current" /\ item'[v].started /\ ~item'[v].done
                       => item'[v].timer \/ running = v \/ v \in silenced
      <4>1. CASE v = w
        BY <1>1, <1>5, <2>6, <2>7, <4>1
      <4>2. CASE v # w
        BY <1>1, <1>3, <2>7, <4>2 DEF Sound
      <4> QED
        BY <4>1, <4>2
    <3> QED
      BY <1>1, <1>2, <2>7, <3>1 DEF Sound
  <2>9. Kicked(item, queue, tasks)'
    <3>1. queue # <<>> => Head(queue) \in Transfers
      BY <1>1, HasTail
    <3>2. \A v \in Transfers : /\ item'[v].started = item[v].started
                               /\ item[v].done => item'[v].done
                               /\ item'[v].done => item[v].done
      BY <2>2, <2>6, <2>7
    <3> QED
      BY <1>1, <1>2, <3>1, <3>2 DEF Kicked
  <2> QED
    BY <1>2, <1>3, <2>8, <2>9 DEF MissionInv
<1> QED
  <2>1. CASE Has(queue, w) \/ Has(tasks, Task("enqueue", w))
    <3>1. item' = [item EXCEPT ![w] = item[w]]
      BY <2>1 DEF Unlock, Has
    <3>2. item' = item
      BY <1>1, <3>1
    <3> QED
      BY <1>4, <3>2
  <2>2. CASE ~Has(queue, w) /\ ~Has(tasks, Task("enqueue", w))
    BY <1>5, <2>2 DEF Unlock, Has
  <2> QED
    BY <2>1, <2>2

\* A timeout is taken out: it runs instead.
LEMMA TimeoutStartsKeepsInv ==
    ASSUME MissionInv, NEW w \in Transfers, TimeoutStarts(w)
    PROVE  MissionInv'
<1> DEFINE new == RemoveTimeout(item[w])
<1>1. /\ Sound(item, queue, tasks) /\ Kicked(item, queue, tasks)
      /\ item \in [Transfers -> Items] /\ item[w] \in Items
      /\ queue \in Seq(Transfers)
  BY DEF MissionInv, Sound
<1>2. /\ running = NoTransfer /\ running' = w
      /\ item' = [item EXCEPT ![w] = new]
      /\ UNCHANGED <<queue, tasks, held, intMessages, messages, silenced>>
  BY DEF TimeoutStarts
<1>3. new \in Items /\ Same(item[w], new)
  BY <1>1, TimerFacts
<1> HIDE DEF new
<1>4. /\ item' \in [Transfers -> Items] /\ item'[w] = new
      /\ \A v \in Transfers \ {w} : item'[v] = item[v]
  BY <1>1, <1>2, <1>3
<1>5. \A v \in Transfers : Same(item[v], item'[v])
  BY <1>3, <1>4 DEF Same
<1>6. Sound(item, queue, tasks)'
  <2>1. ASSUME NEW v \in Transfers
        PROVE  /\ Once(item'[v])
               /\ Has(queue, v) => item'[v].notify
               /\ item'[v].freed => item'[v].done
               /\ held[v] \in {"handle", "locked"}
                     => \/ Has(queue, v) \/ Has(tasks, Task("enqueue", v))
                        \/ item'[v].done
               /\ Kind[v] # "set_current" /\ item'[v].started /\ ~item'[v].done
                     => item'[v].timer \/ running' = v \/ v \in silenced'
    <3>1. /\ Once(item[v])
          /\ Has(queue, v) => item[v].notify
          /\ item[v].freed => item[v].done
          /\ held[v] \in {"handle", "locked"}
                => \/ Has(queue, v) \/ Has(tasks, Task("enqueue", v))
                   \/ item[v].done
          /\ Kind[v] # "set_current" /\ item[v].started /\ ~item[v].done
                => item[v].timer \/ running = v \/ v \in silenced
      BY <1>1 DEF Sound
    <3>2. running # v
      BY <1>2, TransferAssumption
    <3>3. Same(item[v], item'[v]) /\ (v = w \/ item'[v].timer = item[v].timer)
      BY <1>4, <1>5
    <3> QED
      BY <1>2, <3>1, <3>2, <3>3 DEF Same, Once
  <2> QED
    BY <1>1, <1>2, <1>4, <2>1 DEF MissionInv, Sound
<1>7. Kicked(item, queue, tasks)'
  <2>1. queue # <<>> => Head(queue) \in Transfers
    BY <1>1, HasTail
  <2> QED
    BY <1>1, <1>2, <1>5, <2>1 DEF Kicked, Same
<1> QED
  BY <1>2, <1>6, <1>7 DEF MissionInv

\* process_timeout.
LEMMA TimeoutBodyKeepsInv ==
    ASSUME MissionInv, NEW w \in Transfers, TimeoutBody(w)
    PROVE  MissionInv'
<1>1. PICK ok \in BOOLEAN :
         LET after == [item EXCEPT ![w] = IF @.freed THEN @
                                          ELSE ProcessTimeout(w, @, ok)]
         IN item' = after /\ tasks' = tasks \o Posted(item, after)
  BY DEF TimeoutBody
<1> DEFINE new == IF item[w].freed THEN item[w] ELSE ProcessTimeout(w, item[w], ok)
           after == [item EXCEPT ![w] = new]
<1>2. /\ item \in [Transfers -> Items] /\ Sound(item, queue, tasks)
      /\ item[w] \in Items
  BY DEF MissionInv, Sound
<1>3. Kept(item[w], new) /\ new.started = item[w].started /\ (new.done \/ new.timer)
  <2>1. KeptByTimeout(item[w], ProcessTimeout(w, item[w], ok))
    BY <1>2, ProcessTimeoutFacts
  <2>2. Kept(item[w], item[w]) /\ (item[w].freed => item[w].done)
    BY <1>2, UntouchedIsKept DEF Sound
  <2> QED
    BY <2>1, <2>2 DEF KeptByTimeout
<1>4. item' = after /\ tasks' = tasks \o Posted(item, after)
  BY <1>1
<1>5. /\ UNCHANGED <<queue, held, intMessages, messages, silenced>>
      /\ running = w /\ running' = NoTransfer
  BY DEF TimeoutBody
<1> HIDE DEF new
<1>6. /\ after \in [Transfers -> Items]
      /\ \A v \in Transfers : /\ Kept(item[v], after[v])
                              /\ after[v].started = item[v].started
                              /\ Kind[v] # "set_current" /\ ~after[v].done
                                    /\ after[v].started
                                    => after[v].timer \/ running' = v \/ v \in silenced'
  <2>1. /\ after \in [Transfers -> Items] /\ after[w] = new
        /\ \A v \in Transfers \ {w} : after[v] = item[v]
    BY <1>2, <1>3 DEF Kept
  <2> HIDE DEF after
  <2>2. \A v \in Transfers \ {w} : Kept(item[v], item[v])
    BY <1>2, UntouchedIsKept
  <2>3. \A v \in Transfers \ {w} :
           Kind[v] # "set_current" /\ ~item[v].done /\ item[v].started
              => item[v].timer \/ v \in silenced
    BY <1>2, <1>5 DEF Sound
  <2> QED
    BY <1>3, <1>5, <2>1, <2>2, <2>3
<1> HIDE DEF after
<1>7. Sound(item, queue, tasks)' /\ Kicked(item, queue, tasks)'
  BY <1>4, <1>5, <1>6, HandlersFacts
<1> QED
  BY <1>5, <1>7 DEF MissionInv

\* A message reaches every transfer that registered for it.
LEMMA ReceiveMessageKeepsInv ==
    ASSUME MissionInv, NEW m \in Answers, ReceiveMessage(m)
    PROVE  MissionInv'
<1>1. PICK ok \in BOOLEAN :
         LET after == [w \in Transfers |->
                         IF item[w].registered /\ Handles(w, m.id)
                         THEN ProcessMessage(w, item[w], m, ok)
                         ELSE item[w]]
         IN item' = after /\ tasks' = tasks \o Posted(item, after)
  BY DEF ReceiveMessage
<1> DEFINE after == [w \in Transfers |-> IF item[w].registered /\ Handles(w, m.id)
                                         THEN ProcessMessage(w, item[w], m, ok)
                                         ELSE item[w]]
<1>2. /\ item \in [Transfers -> Items] /\ Sound(item, queue, tasks)
      /\ m \in Messages
  BY AnswersAreMessages DEF MissionInv, Sound
<1>3. item' = after /\ tasks' = tasks \o Posted(item, after)
  BY <1>1
<1>4. /\ UNCHANGED <<queue, running, held, intMessages>>
      /\ messages < MaxMessages /\ messages' = messages + 1
      /\ running = NoTransfer
      /\ silenced' = silenced \cup
            {w \in Transfers : /\ Kind[w] = "clear" /\ item[w].registered
                              /\ item[w].started /\ Unlisted(m)}
  BY DEF ReceiveMessage
<1>5. ASSUME NEW w \in Transfers
      PROVE  /\ Kept(item[w], after[w])
             /\ after[w].started = item[w].started
             /\ Kind[w] # "set_current" /\ ~after[w].done /\ after[w].started
                   => after[w].timer \/ running' = w \/ w \in silenced'
  <2>1. Kind[w] # "set_current" /\ item[w].started /\ ~item[w].done
          => item[w].timer \/ w \in silenced
    BY <1>2, <1>4, TransferAssumption DEF Sound
  <2>2. item[w] \in Items
    BY <1>2
  <2>3. CASE item[w].registered /\ Handles(w, m.id)
    <3> DEFINE new == ProcessMessage(w, item[w], m, ok)
    <3>1. after[w] = new
      BY <2>3
    <3>2. /\ Kept(item[w], new) /\ new.started = item[w].started
          /\ \/ Kind[w] = "set_current"
             \/ Kind[w] = "clear" /\ Unlisted(m)
             \/ KeptByMessage(item[w], new)
      BY <1>2, <2>2, <2>3, ProcessMessageFacts
    <3> HIDE DEF new, after
    <3>3. CASE KeptByMessage(item[w], new)
      BY <1>4, <2>1, <3>1, <3>2, <3>3 DEF KeptByMessage, Kept
    <3>4. CASE Kind[w] = "clear" /\ Unlisted(m)
      BY <1>4, <2>3, <3>1, <3>2, <3>4
    <3> QED
      BY <3>1, <3>2, <3>3, <3>4
  <2>4. CASE ~(item[w].registered /\ Handles(w, m.id))
    <3>1. after[w] = item[w]
      BY <2>4
    <3> HIDE DEF after
    <3> QED
      BY <1>4, <2>1, <2>2, <3>1, UntouchedIsKept
  <2> QED
    BY <2>3, <2>4
<1>6. after \in [Transfers -> Items]
  <2>1. \A w \in Transfers : after[w] \in Items
    BY <1>5 DEF Kept
  <2> QED
    BY <2>1
<1> HIDE DEF after
<1>7. Sound(item, queue, tasks)' /\ Kicked(item, queue, tasks)'
  BY <1>3, <1>4, <1>5, <1>6, HandlersFacts
<1>8. messages' \in 0..MaxMessages
  <2>1. MaxMessages \in Nat /\ messages \in 0..MaxMessages
    BY NumberAssumption DEF MissionInv
  <2> QED
    BY <1>4, <2>1
<1> QED
  BY <1>4, <1>7, <1>8 DEF MissionInv

\* The tasks: a transfer is registered, then queued; do_work.
LEMMA RunTaskKeepsInv == MissionInv /\ RunTask => MissionInv'
<1> SUFFICES ASSUME MissionInv, RunTask PROVE MissionInv'
  OBVIOUS
<1>1. /\ Sound(item, queue, tasks) /\ Kicked(item, queue, tasks)
      /\ item \in [Transfers -> Items]
      /\ queue \in Seq(Transfers) /\ tasks \in Seq(TaskSet)
  BY DEF MissionInv, Sound
<1>2. /\ tasks # <<>>
      /\ UNCHANGED <<running, held, intMessages, messages, silenced>>
  BY DEF RunTask
<1>3. /\ Head(tasks) \in TaskSet /\ Tail(tasks) \in Seq(TaskSet)
      /\ \A x : Has(tasks, x) <=> x = Head(tasks) \/ Has(Tail(tasks), x)
  BY <1>1, <1>2, HasTail
<1> SUFFICES Sound(item, queue, tasks)' /\ Kicked(item, queue, tasks)'
  BY <1>2 DEF MissionInv
<1> DEFINE w == Head(tasks).of
<1>4. \A v : Task("enqueue", v) # DoWorkTask /\ Task("register", v) # DoWorkTask
  BY DEF Task, DoWorkTask
<1>5. ASSUME w \in Transfers, NEW new \in Items,
             new.notify = item[w].notify \/ new.notify,
             new.done = item[w].done, new.freed = item[w].freed,
             new.callback = item[w].callback, new.results = item[w].results,
             new.started = item[w].started, new.timer = item[w].timer
      PROVE  /\ [item EXCEPT ![w] = new] \in [Transfers -> Items]
             /\ [item EXCEPT ![w] = new][w] = new
             /\ \A v \in Transfers :
                   LET after == [item EXCEPT ![w] = new] IN
                   /\ Once(after[v])
                   /\ Has(queue, v) => after[v].notify
                   /\ after[v].freed => after[v].done
                   /\ item[v].done => after[v].done
                   /\ after[v].done => item[v].done
                   /\ after[v].started = item[v].started
                   /\ Kind[v] # "set_current" /\ after[v].started /\ ~after[v].done
                         => after[v].timer \/ running = v \/ v \in silenced
  <2> DEFINE after == [item EXCEPT ![w] = new]
  <2> HIDE DEF w
  <2>1. /\ after \in [Transfers -> Items] /\ after[w] = new
        /\ \A v \in Transfers \ {w} : after[v] = item[v]
    BY <1>1, <1>5
  <2>2. \A v \in Transfers :
           /\ Once(item[v])
           /\ Has(queue, v) => item[v].notify
           /\ item[v].freed => item[v].done
           /\ Kind[v] # "set_current" /\ item[v].started /\ ~item[v].done
                 => item[v].timer \/ running = v \/ v \in silenced
    BY <1>1 DEF Sound
  <2> HIDE DEF after
  <2>3. ASSUME NEW v \in Transfers
        PROVE  /\ Once(after[v])
               /\ Has(queue, v) => after[v].notify
               /\ after[v].freed => after[v].done
               /\ item[v].done => after[v].done
               /\ after[v].done => item[v].done
               /\ after[v].started = item[v].started
               /\ Kind[v] # "set_current" /\ after[v].started /\ ~after[v].done
                     => after[v].timer \/ running = v \/ v \in silenced
    <3>1. CASE v = w
      BY <1>5, <2>1, <2>2, <3>1 DEF Once
    <3>2. CASE v # w
      BY <2>1, <2>2, <3>2
    <3> QED
      BY <3>1, <3>2
  <2> QED
    BY <2>1, <2>3 DEF after
<1>6. CASE /\ Head(tasks).op = "register"
           /\ item' = [item EXCEPT ![w].registered = TRUE]
           /\ tasks' = Tail(tasks)
           /\ UNCHANGED queue
  <2> DEFINE new == [item[w] EXCEPT !.registered = TRUE]
  <2>1. w \in Transfers /\ Head(tasks) # DoWorkTask
        /\ \A v : Head(tasks) # Task("enqueue", v)
    BY <1>3, <1>6 DEF TaskSet, DoWorkTask, Task
  <2> HIDE DEF w
  <2>2. new \in Items
    BY ZenonT(60), <1>1, <2>1 DEF Items
  <2>3. /\ new.notify = item[w].notify /\ new.done = item[w].done
        /\ new.freed = item[w].freed /\ new.callback = item[w].callback
        /\ new.results = item[w].results /\ new.started = item[w].started
        /\ new.timer = item[w].timer
    BY <1>1, <2>1 DEF Items
  <2>4. item' = [item EXCEPT ![w] = new]
    BY <1>6 DEF w
  <2> HIDE DEF new
  <2>5. /\ item' \in [Transfers -> Items]
        /\ \A v \in Transfers :
              /\ Once(item'[v])
              /\ Has(queue, v) => item'[v].notify
              /\ item'[v].freed => item'[v].done
              /\ item[v].done => item'[v].done
              /\ item'[v].done => item[v].done
              /\ item'[v].started = item[v].started
              /\ Kind[v] # "set_current" /\ item'[v].started /\ ~item'[v].done
                    => item'[v].timer \/ running = v \/ v \in silenced
    BY <1>5, <2>1, <2>2, <2>3, <2>4 DEF w
  <2>6. Sound(item, queue, tasks)'
    <3>1. \A v \in Transfers : held[v] \in {"handle", "locked"}
             => \/ Has(queue, v) \/ Has(tasks', Task("enqueue", v))
                \/ item'[v].done
      BY <1>1, <1>3, <1>6, <2>1, <2>5 DEF Sound
    <3> QED
      BY <1>1, <1>2, <1>3, <1>6, <2>5, <3>1 DEF Sound
  <2>7. Kicked(item, queue, tasks)'
    <3>1. queue # <<>> => Head(queue) \in Transfers
      BY <1>1, HasTail
    <3>2. Has(tasks, DoWorkTask) => Has(tasks', DoWorkTask)
      BY <1>3, <1>6, <2>1
    <3> QED
      BY <1>1, <1>6, <2>5, <3>1, <3>2 DEF Kicked
  <2> QED
    BY <2>6, <2>7
<1>7. CASE /\ Head(tasks).op = "enqueue"
           /\ LET items == [item EXCEPT ![w].notify = TRUE] IN
              IF queue = <<>>
              THEN \E ok \in BOOLEAN : DoWork(items, <<w>>, Tail(tasks), ok)
              ELSE /\ item' = items
                   /\ queue' = Append(queue, w)
                   /\ tasks' = Tail(tasks)
  <2> DEFINE new == [item[w] EXCEPT !.notify = TRUE]
             items == [item EXCEPT ![w] = new]
  <2>1. /\ w \in Transfers /\ Head(tasks) # DoWorkTask
        /\ \A v : Head(tasks) = Task("enqueue", v) => v = w
    BY <1>3, <1>7 DEF TaskSet, DoWorkTask, Task
  <2>2. [item EXCEPT ![w].notify = TRUE] = items
    OBVIOUS
  <2> HIDE DEF w
  <2>3. new \in Items
    BY ZenonT(60), <1>1, <2>1 DEF Items
  <2>4. /\ new.notify /\ new.done = item[w].done
        /\ new.freed = item[w].freed /\ new.callback = item[w].callback
        /\ new.results = item[w].results /\ new.started = item[w].started
        /\ new.timer = item[w].timer
    BY <1>1, <2>1 DEF Items
  <2> HIDE DEF new
  <2>5. /\ items \in [Transfers -> Items]
        /\ items[w] = new
        /\ \A v \in Transfers :
              /\ Once(items[v])
              /\ Has(queue, v) => items[v].notify
              /\ items[v].freed => items[v].done
              /\ item[v].done => items[v].done
              /\ items[v].done => item[v].done
              /\ items[v].started = item[v].started
              /\ Kind[v] # "set_current" /\ items[v].started /\ ~items[v].done
                    => items[v].timer \/ running = v \/ v \in silenced
    BY <1>5, <2>1, <2>3, <2>4 DEF w
  <2>6. /\ items[w].notify
        /\ \A v \in Transfers \ {w} :
              held[v] \in {"handle", "locked"}
                 => \/ Has(queue, v) \/ Has(Tail(tasks), Task("enqueue", v))
                    \/ items[v].done
    BY <1>1, <1>3, <2>1, <2>4, <2>5 DEF Sound
  <2>7. IF queue = <<>>
        THEN \E ok \in BOOLEAN : DoWork(items, <<w>>, Tail(tasks), ok)
        ELSE /\ item' = items
             /\ queue' = Append(queue, w)
             /\ tasks' = Tail(tasks)
    BY <1>7, <2>2 DEF w
  <2> HIDE DEF items
  <2>8. CASE queue = <<>>
    <3>1. PICK ok \in BOOLEAN : DoWork(items, <<w>>, Tail(tasks), ok)
      BY <2>7, <2>8
    <3>2. /\ <<w>> \in Seq(Transfers)
          /\ \A v : Has(<<w>>, v) <=> v = w
          /\ \A v : ~Has(queue, v)
      BY <2>1, <2>8, HasShort
    <3>3. Sound(items, <<w>>, Tail(tasks))
      BY <1>3, <2>5, <2>6, <3>2 DEF Sound
    <3> QED
      BY <1>2, <3>1, <3>3, DoWorkFacts
  <2>9. CASE queue # <<>>
    <3>1. item' = items /\ queue' = Append(queue, w) /\ tasks' = Tail(tasks)
      BY <2>7, <2>9
    <3>2. /\ queue' \in Seq(Transfers)
          /\ \A v : Has(queue', v) <=> Has(queue, v) \/ v = w
      <4>1. <<w>> \in Seq(Transfers) /\ \A v : Has(<<w>>, v) <=> v = w
        BY <2>1, HasShort
      <4>2. Append(queue, w) = queue \o <<w>>
        BY <1>1, <2>1, AppendIsConcat
      <4>3. /\ queue \o <<w>> \in Seq(Transfers)
            /\ \A v : Has(queue \o <<w>>, v) <=> Has(queue, v) \/ Has(<<w>>, v)
        BY <1>1, <4>1, HasConcat
      <4> QED
        BY <3>1, <4>1, <4>2, <4>3
    <3>3. Head(queue') = Head(queue) /\ Head(queue) \in Transfers
      BY <1>1, <2>1, <2>9, <3>1, HasTail, AppendProperties
    <3>4. Sound(item, queue, tasks)'
      <4>1. ASSUME NEW v \in Transfers
            PROVE  /\ Has(queue', v) => items[v].notify
                   /\ held[v] \in {"handle", "locked"}
                         => \/ Has(queue', v) \/ Has(Tail(tasks), Task("enqueue", v))
                            \/ items[v].done
        BY <2>5, <2>6, <3>2
      <4> QED
        BY <1>2, <1>3, <2>5, <3>1, <3>2, <4>1 DEF Sound
    <3>5. Kicked(item, queue, tasks)'
      <4>1. Has(tasks, DoWorkTask) => Has(Tail(tasks), DoWorkTask)
        BY <1>3, <2>1
      <4> QED
        BY <1>1, <2>5, <2>9, <3>1, <3>3, <4>1 DEF Kicked
    <3> QED
      BY <3>4, <3>5
  <2> QED
    BY <2>8, <2>9
<1>8. CASE /\ Head(tasks).op = "do_work"
           /\ \E ok \in BOOLEAN : DoWork(item, queue, Tail(tasks), ok)
  <2>1. PICK ok \in BOOLEAN : DoWork(item, queue, Tail(tasks), ok)
    BY <1>8
  <2>2. \A v : Head(tasks) # Task("enqueue", v)
    BY <1>8 DEF Task
  <2>3. Sound(item, queue, Tail(tasks))
    BY <1>1, <1>3, <2>2 DEF Sound
  <2> QED
    BY <1>2, <2>1, <2>3, DoWorkFacts
<1> QED
  BY <1>6, <1>7, <1>8 DEF RunTask

\* Every step keeps the invariant, one action at a time.
LEMMA NextKeepsMissionInv == MissionInv /\ [Next]_vars => MissionInv'
<1> SUFFICES ASSUME MissionInv, [Next]_vars PROVE MissionInv'
  OBVIOUS
<1>1. ASSUME NEW w \in Transfers, User(w) PROVE MissionInv'
  BY <1>1, AsyncKeepsInv, LockKeepsInv, CancelKeepsInv, UnlockKeepsInv DEF User
<1>2. CASE \E w \in Transfers : TimeoutStarts(w)
  BY <1>2, TimeoutStartsKeepsInv
<1>3. CASE \E w \in Transfers : TimeoutBody(w)
  BY <1>3, TimeoutBodyKeepsInv
<1>4. CASE SetIntMessagesSupported
  BY <1>4 DEF SetIntMessagesSupported, MissionInv, Sound, Kicked
<1>5. CASE RunTask
  BY <1>5, RunTaskKeepsInv
<1>6. CASE \E m \in Answers : ReceiveMessage(m)
  BY <1>6, ReceiveMessageKeepsInv
<1>7. CASE UNCHANGED vars
  BY <1>7 DEF vars, MissionInv, Sound, Kicked
<1> QED
  BY <1>1, <1>2, <1>3, <1>4, <1>5, <1>6, <1>7 DEF Next

-----------------------------------------------------------------------------

\* The inductive invariant of the mission transfers.
THEOREM MissionInvariance == Spec => []MissionInv
  BY InitMissionInv, NextKeepsMissionInv, PTL DEF Spec

\* The variables of the mission transfers keep their types.
THEOREM MissionTypeCorrect == Spec => []TypeOK
  BY MissionInvariance, MissionInvImplies, PTL

\* However acks, timeouts and cancel() race, the caller is told at most one
\* result.
THEOREM CallersHearOnce == Spec => []OneResult
  BY MissionInvariance, MissionInvImplies, PTL

\* An upload, download or clear under way has a timeout, in every state and with
\* acks of any types: it is retried or given up.  The one exception is a clear
\* that got an ack of a type that no case names.
THEOREM TransfersTimeOut == Spec => []TransferHasTimeout
  BY MissionInvariance, MissionInvImplies, PTL

\* Whoever ends the transfer at the front, do_work is posted: the queue goes on.
THEOREM QueueGoesOn == Spec => []QueueIsKicked
  BY MissionInvariance, MissionInvImplies, PTL

-----------------------------------------------------------------------------
(***************************************************************************)
(* What the callers are told, and the pointers the io thread keeps: an     *)
(* upload that succeeds has sent its plan, a download that succeeds hands  *)
(* over its items in order, and what is registered for messages is alive.  *)
(*                                                                         *)
(* The first two are about one transfer at a time, and each handler is     *)
(* shown to keep them; they rest on what precedes _next_sequence being     *)
(* sent, and on the last item received being the one before it.  The third *)
(* is about the order of the tasks: a transfer is registered before it is  *)
(* queued.                                                                 *)
(***************************************************************************)

\* What the caller of a transfer was told.
Told(it) == {it.results[i] : i \in DOMAIN it.results}

\* Nothing is told, and of what was sent and received nothing is forgotten.
Silent(it, new) ==
    /\ new.next = it.next
    /\ new.received = it.received
    /\ it.sent \subseteq new.sent
    /\ Told(new) \subseteq Told(it)
    /\ new.callback => it.callback
    /\ it.started => new.started

\* One result is told, with the items received.
Tells(it, new, result) ==
    /\ new.next = it.next
    /\ new.received = it.received
    /\ new.sent = it.sent
    /\ \A told \in Told(new) :
          \/ told \in Told(it)
          \/ it.callback /\ told = [result |-> result, items |-> it.received]
    /\ ~new.callback
    /\ it.started => new.started

\* What precedes the next item of an upload was sent; success is told when the
\* whole plan precedes it.
UploadHonest(w, it) ==
    /\ 0..(it.next - 1) \subseteq it.sent
    /\ \A told \in Told(it) :
          told.result = "Success" => 0..(Len(Plan[w]) - 1) \subseteq it.sent

\* Items that end in a run from 0 to the last one.
EndsInRun(items) ==
    items # <<>> =>
        \A s \in 0..items[Len(items)].seq :
            /\ items[Len(items)].seq - s < Len(items)
            /\ items[Len(items) - (items[Len(items)].seq - s)].seq = s

\* The item before the next one of a download is the last one received, until
\* its caller was told: a transfer that is done handles messages as before.
DownloadHonest(it) ==
    /\ it.callback =>
          /\ EndsInRun(it.received)
          /\ it.next # 0 => /\ it.received # <<>>
                            /\ it.received[Len(it.received)].seq = it.next - 1
    /\ ~it.started => it.next = 0
    /\ \A told \in Told(it) : told.result = "Success" => EndsInRun(told.items)

-----------------------------------------------------------------------------
(***************************************************************************)
(* Handlers that tell nothing and handlers that finish.                    *)
(***************************************************************************)

\* A transfer that tells nothing stays honest.
LEMMA SilentIsHonest ==
    ASSUME NEW w, NEW it, NEW new, Silent(it, new)
    PROVE  /\ UploadHonest(w, it) => UploadHonest(w, new)
           /\ DownloadHonest(it) => DownloadHonest(new)
  BY DEF Silent, UploadHonest, DownloadHonest

\* So does one that tells something else than success.
LEMMA FailureIsHonest ==
    ASSUME NEW w, NEW it, NEW new, NEW result, Tells(it, new, result),
           result # "Success"
    PROVE  /\ UploadHonest(w, it) => UploadHonest(w, new)
           /\ DownloadHonest(it) => DownloadHonest(new)
  BY DEF Tells, UploadHonest, DownloadHonest

\* An upload may tell success when the plan precedes the next item.
LEMMA UploadSuccessIsHonest ==
    ASSUME NEW w, NEW it, NEW new, Tells(it, new, "Success"),
           UploadHonest(w, it), it.next = Len(Plan[w])
    PROVE  UploadHonest(w, new)
  BY DEF Tells, UploadHonest

\* A download may tell it at any time.
LEMMA DownloadSuccessIsHonest ==
    ASSUME NEW it, NEW new, NEW result, Tells(it, new, result), DownloadHonest(it)
    PROVE  DownloadHonest(new)
  BY DEF Tells, DownloadHonest

\* callback_and_reset.
LEMMA CallbackAndResetTells ==
    ASSUME NEW it \in Items, NEW result \in Results
    PROVE  Tells(it, CallbackAndReset(it, result), result)
<1> DEFINE entry == [result |-> result, items |-> it.received]
           results == IF it.callback THEN Append(it.results, entry) ELSE it.results
           new == [it EXCEPT !.results = results, !.callback = FALSE, !.done = TRUE]
<1>1. CallbackAndReset(it, result) = new
  BY DEF CallbackAndReset
<1>2. /\ new.results = results /\ new.next = it.next /\ new.sent = it.sent
      /\ new.received = it.received /\ new.started = it.started
      /\ ~new.callback
  <2> HIDE DEF results
  <2> QED
    BY DEF Items
<1>3. \A i \in DOMAIN results :
         \/ i \in DOMAIN it.results /\ results[i] = it.results[i]
         \/ it.callback /\ results[i] = entry
  <2>1. it.results \in Seq([result : Results, items : Seq(ItemInts)])
    BY DEF Items
  <2>2. entry \in [result : Results, items : Seq(ItemInts)]
    BY DEF Items
  <2> HIDE DEF entry
  <2>3. CASE it.callback
    BY <2>1, <2>2, <2>3
  <2>4. CASE ~it.callback
    BY <2>4
  <2> QED
    BY <2>3, <2>4
<1> HIDE DEF results, entry, new
<1>4. \A told \in Told(new) : told \in Told(it) \/ (it.callback /\ told = entry)
  BY <1>2, <1>3 DEF Told
<1> QED
  BY <1>1, <1>2, <1>4 DEF Tells, entry

\* Adding and removing a timeout tell nothing.
LEMMA TimerIsSilent ==
    ASSUME NEW it \in Items
    PROVE  Silent(it, AddTimeout(it)) /\ Silent(it, RemoveTimeout(it))
  BY DEF AddTimeout, RemoveTimeout, Items, Silent, Told

\* callback_and_reset, after the timeout was removed.
LEMMA FinishTells ==
    ASSUME NEW it \in Items, NEW result \in Results
    PROVE  Tells(it, CallbackAndReset(RemoveTimeout(it), result), result)
<1> DEFINE stopped == RemoveTimeout(it)
<1>1. stopped \in Items
  BY TimerFacts
<1>2. /\ stopped.next = it.next /\ stopped.sent = it.sent
      /\ stopped.received = it.received /\ stopped.started = it.started
      /\ stopped.results = it.results /\ stopped.callback = it.callback
  BY DEF RemoveTimeout, Items
<1> HIDE DEF stopped
<1>3. Tells(stopped, CallbackAndReset(stopped, result), result)
  BY <1>1, CallbackAndResetTells
<1>4. Told(stopped) = Told(it)
  BY <1>2 DEF Told
<1>5. Tells(it, CallbackAndReset(stopped, result), result)
  BY <1>2, <1>3, <1>4 DEF Tells
<1> QED
  BY <1>5 DEF stopped

\* A message that counts as an attempt.
LEMMA SendOrFailIsHonest ==
    ASSUME NEW w, NEW it \in Items, NEW ok \in BOOLEAN
    PROVE  /\ UploadHonest(w, it) => UploadHonest(w, SendOrFail(it, ok))
           /\ DownloadHonest(it) => DownloadHonest(SendOrFail(it, ok))
<1>1. CASE ok
  <2>1. Silent(it, [it EXCEPT !.retries = it.retries + 1])
    BY DEF Silent, Told, Items
  <2> QED
    BY <1>1, <2>1, SilentIsHonest DEF SendOrFail
<1>2. CASE ~ok
  <2>1. Tells(it, CallbackAndReset(RemoveTimeout(it), "ConnectionError"),
              "ConnectionError")
    BY FinishTells DEF Results
  <2> QED
    BY <1>2, <2>1, FailureIsHonest DEF SendOrFail
<1> QED
  BY <1>1, <1>2

\* A message that is sent with a new timeout.
LEMMA SendWithTimeoutIsHonest ==
    ASSUME NEW w, NEW it \in Items, NEW ok \in BOOLEAN
    PROVE  /\ UploadHonest(w, it)
                 => UploadHonest(w, SendOrFail(AddTimeout(it), ok))
           /\ DownloadHonest(it)
                 => DownloadHonest(SendOrFail(AddTimeout(it), ok))
  BY TimerFacts, TimerIsSilent, SilentIsHonest, SendOrFailIsHonest

-----------------------------------------------------------------------------
(***************************************************************************)
(* UploadWorkItem.                                                         *)
(***************************************************************************)

\* An item is sent: it precedes the next one now.
LEMMA SendMissionItemIsHonest ==
    ASSUME NEW w, NEW it \in Items, NEW ok \in BOOLEAN, UploadHonest(w, it)
    PROVE  UploadHonest(w, SendMissionItem(w, it, ok))
<1>1. CASE it.next >= Len(Plan[w])
  BY <1>1 DEF SendMissionItem
<1>2. CASE ~(it.next >= Len(Plan[w])) /\ ok
  <2> DEFINE sent == it.sent \cup {it.next}
             next == it.next + 1
             retries == it.retries + 1
             new == [it EXCEPT !.sent = sent, !.next = next, !.retries = retries]
  <2>1. SendMissionItem(w, it, ok) = new
    BY <1>2 DEF SendMissionItem
  <2>2. it.next \in Nat
    BY DEF Items
  <2>3. 0..(next - 1) \subseteq sent
    BY <2>2 DEF UploadHonest
  <2>4. it.sent \subseteq sent
    OBVIOUS
  <2> HIDE DEF sent, next, retries
  <2>5. new.sent = sent /\ new.next = next /\ new.results = it.results
    BY DEF Items
  <2> HIDE DEF new
  <2> QED
    BY <2>1, <2>3, <2>4, <2>5 DEF UploadHonest, Told
<1>3. CASE ~(it.next >= Len(Plan[w])) /\ ~ok
  <2>1. Tells(it, CallbackAndReset(RemoveTimeout(it), "ConnectionError"),
              "ConnectionError")
    BY FinishTells DEF Results
  <2> QED
    BY <1>3, <2>1, FailureIsHonest DEF SendMissionItem
<1> QED
  BY <1>1, <1>2, <1>3

\* MISSION_REQUEST_INT: only what precedes the next item is sent again.
LEMMA RequestIntIsHonest ==
    ASSUME NEW w \in Transfers, NEW it \in Items, NEW seq \in Nat,
           NEW ok \in BOOLEAN, UploadHonest(w, it)
    PROVE  UploadHonest(w, ProcessMissionRequestInt(w, it, seq, ok))
<1> DEFINE stepped == [it EXCEPT !.step = "items"]
           asIs == [stepped EXCEPT !.next = seq]
           fresh == [asIs EXCEPT !.retries = 0]
<1>1. /\ stepped \in Items /\ stepped.next = it.next /\ stepped.sent = it.sent
      /\ stepped.results = it.results
  BY DEF Items
<1>2. /\ asIs \in Items /\ asIs.next = seq /\ asIs.sent = it.sent
      /\ asIs.results = it.results
  BY DEF Items
<1>3. /\ fresh \in Items /\ fresh.next = seq /\ fresh.sent = it.sent
      /\ fresh.results = it.results
  BY DEF Items
<1>4. \/ ProcessMissionRequestInt(w, it, seq, ok) \in
            {stepped, CallbackAndReset(RemoveTimeout(stepped), "Timeout")}
      \/ /\ ~(it.next < seq)
         /\ ProcessMissionRequestInt(w, it, seq, ok) \in
               {SendMissionItem(w, asIs, ok), SendMissionItem(w, fresh, ok)}
  BY DEF ProcessMissionRequestInt, RefreshTimeout
<1> HIDE DEF stepped, asIs, fresh
<1>5. UploadHonest(w, stepped)
  BY <1>1 DEF UploadHonest, Told
<1>6. UploadHonest(w, CallbackAndReset(RemoveTimeout(stepped), "Timeout"))
  <2>1. Tells(stepped, CallbackAndReset(RemoveTimeout(stepped), "Timeout"), "Timeout")
    BY <1>1, FinishTells DEF Results
  <2> QED
    BY <1>5, <2>1, FailureIsHonest
<1>7. ASSUME ~(it.next < seq)
      PROVE  /\ UploadHonest(w, SendMissionItem(w, asIs, ok))
             /\ UploadHonest(w, SendMissionItem(w, fresh, ok))
  <2>1. it.next \in Nat
    BY DEF Items
  <2>2. 0..(seq - 1) \subseteq it.sent
    BY <1>7, <2>1 DEF UploadHonest
  <2>3. Told(asIs) = Told(it) /\ Told(fresh) = Told(it)
    BY <1>2, <1>3 DEF Told
  <2>4. UploadHonest(w, asIs) /\ UploadHonest(w, fresh)
    BY <1>2, <1>3, <2>2, <2>3 DEF UploadHonest
  <2> QED
    BY <1>2, <1>3, <2>4, SendMissionItemIsHonest
<1> QED
  BY <1>4, <1>5, <1>6, <1>7

\* The other messages; an ack tells success only at the end of the plan.
LEMMA UploadMessagesAreHonest ==
    ASSUME NEW w \in Transfers, NEW it \in Items, NEW seq \in Nat,
           NEW ok \in BOOLEAN, NEW type, UploadHonest(w, it)
    PROVE  /\ UploadHonest(w, ProcessMissionRequest(w, it, seq, ok))
           /\ UploadHonest(w, UploadProcessMissionAck(w, it, type))
<1> DEFINE Finish(result) == CallbackAndReset(RemoveTimeout(it), result)
<1>1. \A result \in Results : Tells(it, Finish(result), result)
  BY FinishTells
<1>2. /\ "ConnectionError" \in Results /\ "ProtocolError" \in Results
      /\ "Cancelled" \in Results /\ "Success" \in Results
  BY DEF Results
<1> HIDE DEF Finish
<1>3. \A result \in Results : result # "Success" => UploadHonest(w, Finish(result))
  BY <1>1, FailureIsHonest
<1>4. UploadHonest(w, ProcessMissionRequest(w, it, seq, ok))
  BY <1>2, <1>3, RequestIntIsHonest
     DEF ProcessMissionRequest, RefreshTimeout, Finish
<1>5. UploadHonest(w, UploadProcessMissionAck(w, it, type))
  <2>1. it.next = Len(Plan[w]) => UploadHonest(w, Finish("Success"))
    BY <1>1, <1>2, UploadSuccessIsHonest
  <2>2. \/ UploadProcessMissionAck(w, it, type) \in
              {Finish("ProtocolError"), Finish("Cancelled")}
        \/ /\ it.next = Len(Plan[w])
           /\ UploadProcessMissionAck(w, it, type) = Finish("Success")
    BY DEF UploadProcessMissionAck, Finish
  <2> QED
    BY <1>2, <1>3, <2>1, <2>2
<1> QED
  BY <1>4, <1>5

-----------------------------------------------------------------------------
(***************************************************************************)
(* DownloadWorkItem.                                                       *)
(***************************************************************************)

\* The item that was asked for prolongs the run.
LEMMA RunGrows ==
    ASSUME NEW items \in Seq(ItemInts), NEW entry \in ItemInts, EndsInRun(items),
           entry.seq # 0 => /\ items # <<>>
                            /\ items[Len(items)].seq = entry.seq - 1
    PROVE  /\ EndsInRun(Append(items, entry))
           /\ Append(items, entry) # <<>>
           /\ Append(items, entry)[Len(Append(items, entry))] = entry
<1> DEFINE more == Append(items, entry)
           n == Len(items)
<1>1. /\ n \in Nat /\ Len(more) = n + 1 /\ more # <<>> /\ more[n + 1] = entry
      /\ \A i \in 1..n : more[i] = items[i]
  OBVIOUS
<1>2. entry.seq \in Nat
  BY DEF ItemInts
<1>3. items # <<>> => items[n].seq \in Nat
  <2>1. items # <<>> => n \in 1..n
    BY <1>1
  <2>2. items # <<>> => items[n] \in ItemInts
    BY <2>1, ElementOfSeq
  <2> QED
    BY <2>2 DEF ItemInts
<1> HIDE DEF more
<1>4. ASSUME NEW s \in 0..entry.seq
      PROVE  /\ entry.seq - s < n + 1
             /\ more[(n + 1) - (entry.seq - s)].seq = s
  <2>1. CASE s = entry.seq
    <3>1. (n + 1) - (entry.seq - s) = n + 1
      BY <1>1, <1>2, <2>1
    <3> QED
      BY SMTT(30), <1>1, <1>2, <2>1, <3>1
  <2>2. CASE s # entry.seq
    <3>1. entry.seq # 0 /\ s \in 0..(entry.seq - 1)
      BY <1>2, <2>2
    <3>2. items # <<>> /\ items[n].seq = entry.seq - 1
      BY <3>1
    <3>3. /\ (entry.seq - 1) - s < n
          /\ items[n - ((entry.seq - 1) - s)].seq = s
      BY <3>1, <3>2 DEF EndsInRun
    <3>4. /\ n - ((entry.seq - 1) - s) \in 1..n
          /\ (n + 1) - (entry.seq - s) = n - ((entry.seq - 1) - s)
      BY SMTT(30), <1>1, <1>2, <3>1, <3>3
    <3>5. more[n - ((entry.seq - 1) - s)] = items[n - ((entry.seq - 1) - s)]
      BY <1>1, <3>4
    <3>6. entry.seq - s < n + 1
      BY SMTT(30), <1>1, <1>2, <3>1, <3>3
    <3>7. more[(n + 1) - (entry.seq - s)] = items[n - ((entry.seq - 1) - s)]
      BY <3>4, <3>5
    <3> QED
      BY <3>3, <3>6, <3>7
  <2> QED
    BY <2>1, <2>2
<1>5. EndsInRun(more)
  BY <1>1, <1>4 DEF EndsInRun
<1> QED
  BY <1>1, <1>5 DEF more

\* MISSION_COUNT of a download under way.
LEMMA CountIsHonest ==
    ASSUME NEW it \in Items, NEW count \in Nat, NEW ok \in BOOLEAN,
           DownloadHonest(it)
    PROVE  DownloadHonest(ProcessMissionCount(it, count, ok))
<1>1. CASE count = 0
  <2> DEFINE finished == SendAckAndFinish(it, ok)
  <2>1. /\ finished \in Items
        /\ DownloadHonest(finished)
    <3>1. PICK result \in Results : finished = CallbackAndReset(it, result)
      BY DEF SendAckAndFinish, Results
    <3>2. Tells(it, finished, result)
      BY <3>1, CallbackAndResetTells
    <3>3. finished \in Items
      BY <3>1, CallbackAndResetFacts DEF KeptByMessage, Kept
    <3> QED
      BY <3>2, <3>3, DownloadSuccessIsHonest
  <2>2. ProcessMissionCount(it, count, ok) = RemoveTimeout(finished)
    BY <1>1 DEF ProcessMissionCount
  <2> HIDE DEF finished
  <2> QED
    BY <2>1, <2>2, TimerIsSilent, SilentIsHonest
<1>2. CASE count # 0
  <2> DEFINE counted == [it EXCEPT !.next = 0, !.step = "items",
                                   !.retries = 0, !.expected = count]
  <2>1. /\ counted \in Items /\ counted.next = 0 /\ counted.received = it.received
        /\ counted.started = it.started /\ counted.results = it.results
        /\ counted.callback = it.callback
    BY DEF Items
  <2>2. ProcessMissionCount(it, count, ok) = SendOrFail(counted, ok)
    BY <1>2 DEF ProcessMissionCount, RequestItem, RefreshTimeout
  <2> HIDE DEF counted
  <2>3. DownloadHonest(counted)
    BY <2>1 DEF DownloadHonest, Told
  <2> QED
    BY <2>1, <2>2, <2>3, SendOrFailIsHonest
<1> QED
  BY <1>1, <1>2

\* MISSION_ITEM_INT of a download under way.
LEMMA ItemIntIsHonest ==
    ASSUME NEW it \in Items, NEW seq \in Nat, NEW type \in {"mission", "fence"},
           NEW ok \in BOOLEAN, DownloadHonest(it), it.started
    PROVE  DownloadHonest(ProcessMissionItemInt(it, seq, type, ok))
<1> DEFINE entry == [seq |-> seq, type |-> type]
           items == Append(it.received, entry)
           got == [it EXCEPT !.received = items]
           next == seq + 1
           moved == [got EXCEPT !.next = next, !.retries = 0]
<1>1. CASE it.next # seq
  BY <1>1 DEF ProcessMissionItemInt, RefreshTimeout
<1>2. CASE it.next = seq
  <2>1. ProcessMissionItemInt(it, seq, type, ok) \in
          {SendAckAndFinish(RemoveTimeout(got), ok), SendOrFail(moved, ok)}
    BY <1>2 DEF ProcessMissionItemInt, RequestItem, RefreshTimeout
  <2>2. entry \in ItemInts /\ entry.seq = seq /\ it.received \in Seq(ItemInts)
    BY DEF ItemInts, Items
  <2> HIDE DEF entry
  <2>3. /\ it.callback => /\ EndsInRun(items) /\ items # <<>>
                          /\ items[Len(items)].seq = seq
        /\ items \in Seq(ItemInts)
    <3>1. it.callback =>
             /\ EndsInRun(it.received)
             /\ entry.seq # 0 => /\ it.received # <<>>
                                 /\ it.received[Len(it.received)].seq = entry.seq - 1
      BY <1>2, <2>2 DEF DownloadHonest
    <3>2. items \in Seq(ItemInts)
      BY <2>2, AppendProperties
    <3>3. it.callback => /\ EndsInRun(items) /\ items # <<>>
                         /\ items[Len(items)] = entry
      BY <2>2, <3>1, RunGrows
    <3> QED
      BY <2>2, <3>2, <3>3
  <2> HIDE DEF items
  <2>4. /\ got \in Items /\ got.next = it.next /\ got.received = items
        /\ got.started /\ got.results = it.results /\ got.callback = it.callback
    BY <2>3 DEF Items
  <2>5. next \in Nat /\ next - 1 = seq
    OBVIOUS
  <2> HIDE DEF next
  <2>6. /\ moved \in Items /\ moved.next = next /\ moved.received = items
        /\ moved.started /\ moved.results = it.results
        /\ moved.callback = it.callback
    BY <2>3, <2>5 DEF Items
  <2> HIDE DEF got, moved
  <2>7. DownloadHonest(SendOrFail(moved, ok))
    <3>1. DownloadHonest(moved)
      BY <2>3, <2>5, <2>6 DEF DownloadHonest, Told
    <3> QED
      BY <2>6, <3>1, SendOrFailIsHonest
  <2>8. DownloadHonest(SendAckAndFinish(RemoveTimeout(got), ok))
    <3> DEFINE new == SendAckAndFinish(RemoveTimeout(got), ok)
    <3>1. PICK result \in Results : new = CallbackAndReset(RemoveTimeout(got), result)
      BY DEF SendAckAndFinish, Results
    <3>2. Tells(got, new, result)
      BY <2>4, <3>1, FinishTells
    <3> HIDE DEF new
    <3>3. /\ ~new.callback /\ new.started
          /\ \A told \in Told(new) :
                \/ told \in Told(got)
                \/ got.callback /\ told = [result |-> result, items |-> items]
      BY <2>4, <3>2 DEF Tells
    <3>4. Told(got) = Told(it)
      BY <2>4 DEF Told
    <3>5. \A told \in Told(new) : told.result = "Success" => EndsInRun(told.items)
      BY <2>3, <2>4, <3>3, <3>4 DEF DownloadHonest
    <3>6. DownloadHonest(new)
      BY <3>3, <3>5 DEF DownloadHonest
    <3> QED
      BY <3>6 DEF new
  <2> QED
    BY <2>1, <2>7, <2>8
<1> QED
  BY <1>1, <1>2

-----------------------------------------------------------------------------
(***************************************************************************)
(* The handlers, taken together.                                           *)
(***************************************************************************)

\* Only one download is asked for: see section 4 of the README.
OneDownload ==
    \A v, w \in Transfers : Kind[v] = "download" /\ Kind[w] = "download" => v = w

Honest(w, it) ==
    /\ Kind[w] = "upload" => UploadHonest(w, it)
    /\ Kind[w] = "download" /\ OneDownload => DownloadHonest(it)

\* Honesty is a matter of what is told.
LEMMA HonestWhenSilent ==
    ASSUME NEW w, NEW it, NEW new, Honest(w, it)
    PROVE  /\ Silent(it, new) => Honest(w, new)
           /\ \A result \in Results \ {"Success"} :
                 Tells(it, new, result) => Honest(w, new)
  BY SilentIsHonest, FailureIsHonest DEF Honest

\* start() checks the plan, or forgets what was received before anything was
\* asked for.
LEMMA StartIsHonest ==
    ASSUME NEW w \in Transfers, NEW it \in Items, NEW ok \in BOOLEAN,
           ~it.started, Honest(w, it)
    PROVE  Honest(w, Start(w, it, ok))
<1>1. CASE Kind[w] = "upload"
  <2> DEFINE started == [it EXCEPT !.started = TRUE]
             upload == [started EXCEPT !.retries = 0, !.step = "first", !.next = 0]
  <2>1. UploadHonest(w, it)
    BY <1>1 DEF Honest
  <2>2. Start(w, it, ok) = IF PlanError(w) # "none"
                           THEN CallbackAndReset(started, PlanError(w))
                           ELSE SendOrFail(AddTimeout(upload), ok)
    BY <1>1 DEF Start, UploadStart, SendCount
  <2>3. /\ started \in Items /\ Silent(it, started)
    BY DEF Items, Silent, Told
  <2>4. /\ upload \in Items /\ upload.next = 0 /\ upload.sent = it.sent
        /\ upload.results = it.results
    BY DEF Items
  <2> HIDE DEF started, upload
  <2>5. UploadHonest(w, started)
    BY <2>1, <2>3, SilentIsHonest
  <2>6. PlanError(w) # "none" => PlanError(w) \in Results \ {"Success"}
    BY DEF PlanError, Results
  <2>7. PlanError(w) # "none"
           => UploadHonest(w, CallbackAndReset(started, PlanError(w)))
    BY <2>3, <2>5, <2>6, CallbackAndResetTells, FailureIsHonest
  <2>8. UploadHonest(w, upload)
    <3>1. 0..(0 - 1) = {}
      OBVIOUS
    <3> QED
      BY <2>1, <2>4, <3>1 DEF UploadHonest, Told
  <2>9. UploadHonest(w, SendOrFail(AddTimeout(upload), ok))
    BY <2>4, <2>8, SendWithTimeoutIsHonest
  <2> QED
    BY <1>1, <2>2, <2>7, <2>9 DEF Honest
<1>2. CASE Kind[w] = "download" /\ OneDownload
  <2> DEFINE download == [it EXCEPT !.received = <<>>, !.started = TRUE, !.retries = 0]
  <2>1. DownloadHonest(it)
    BY <1>2 DEF Honest
  <2>2. Start(w, it, ok) = SendOrFail(AddTimeout(download), ok)
    BY <1>2 DEF Start, DownloadStart, RequestList
  <2>3. /\ download \in Items /\ download.received = <<>> /\ download.started
        /\ download.next = it.next /\ download.results = it.results
    <3>1. <<>> \in Seq(ItemInts)
      BY EmptySeq
    <3> QED
      BY <3>1 DEF Items
  <2> HIDE DEF download
  <2>4. DownloadHonest(download)
    <3>1. it.next = 0
      BY <2>1 DEF DownloadHonest
    <3> QED
      BY <2>1, <2>3, <3>1 DEF DownloadHonest, EndsInRun, Told
  <2>5. DownloadHonest(SendOrFail(AddTimeout(download), ok))
    BY <2>3, <2>4, SendWithTimeoutIsHonest
  <2> QED
    BY <1>2, <2>2, <2>5 DEF Honest
<1>3. CASE Kind[w] # "upload" /\ ~(Kind[w] = "download" /\ OneDownload)
  BY <1>3 DEF Honest
<1> QED
  BY <1>1, <1>2, <1>3

\* process_timeout repeats the last message, or gives up.
LEMMA TimeoutIsHonest ==
    ASSUME NEW w \in Transfers, NEW it \in Items, NEW ok \in BOOLEAN, Honest(w, it)
    PROVE  Honest(w, ProcessTimeout(w, it, ok))
<1> DEFINE counted == [it EXCEPT !.retries = it.retries + 1]
<1>1. ProcessTimeout(w, it, ok) \in
        {CallbackAndReset(it, "Timeout"), SendOrFail(AddTimeout(it), ok),
         AddTimeout(counted)}
  BY TransferAssumption
     DEF ProcessTimeout, UploadProcessTimeout, DownloadProcessTimeout,
         ClearProcessTimeout, SetCurrentProcessTimeout, SendCount, RequestList,
         RequestItem, SendClear, SendCurrentMissionItem
<1>2. Honest(w, CallbackAndReset(it, "Timeout"))
  BY CallbackAndResetTells, HonestWhenSilent DEF Results
<1>3. Honest(w, SendOrFail(AddTimeout(it), ok))
  BY SendWithTimeoutIsHonest DEF Honest
<1>4. Honest(w, AddTimeout(counted))
  <2>1. it.retries + 1 \in Nat
    BY DEF Items
  <2>2. counted \in Items /\ Silent(it, counted)
    BY <2>1 DEF Items, Silent, Told
  <2> HIDE DEF counted
  <2> QED
    BY <2>2, TimerIsSilent, HonestWhenSilent
<1> HIDE DEF counted
<1> QED
  BY <1>1, <1>2, <1>3, <1>4

\* The messages; a download that has not started is sent none.
LEMMA MessageIsHonest ==
    ASSUME NEW w \in Transfers, NEW it \in Items, NEW m \in Messages,
           Handles(w, m.id), NEW ok \in BOOLEAN, Honest(w, it),
           Kind[w] = "download" /\ OneDownload => it.started
    PROVE  Honest(w, ProcessMessage(w, it, m, ok))
<1> DEFINE new == ProcessMessage(w, it, m, ok)
<1>1. CASE Kind[w] = "upload"
  <2>1. UploadHonest(w, it) /\ m.id \in {"request", "request_int", "ack"}
    BY <1>1 DEF Honest, Handles
  <2>2. CASE m.id = "request"
    <3>1. m.seq \in Nat /\ new = ProcessMissionRequest(w, it, m.seq, ok)
      BY <2>2 DEF Messages, ProcessMessage
    <3> QED
      BY <1>1, <2>1, <3>1, UploadMessagesAreHonest DEF Honest
  <2>3. CASE m.id = "request_int"
    <3>1. m.seq \in Nat /\ new = ProcessMissionRequestInt(w, it, m.seq, ok)
      BY <2>3 DEF Messages, ProcessMessage
    <3> QED
      BY <1>1, <2>1, <3>1, RequestIntIsHonest DEF Honest
  <2>4. CASE m.id = "ack"
    <3>1. new = UploadProcessMissionAck(w, it, m.result)
      BY <1>1, <2>4 DEF ProcessMessage
    <3> QED
      BY <1>1, <2>1, <3>1, UploadMessagesAreHonest, 0 \in Nat DEF Honest
  <2> QED
    BY <2>1, <2>2, <2>3, <2>4
<1>2. CASE Kind[w] = "download" /\ OneDownload
  <2>1. DownloadHonest(it) /\ it.started /\ m.id \in {"count", "item_int"}
    BY <1>2 DEF Honest, Handles
  <2>2. CASE m.id = "count"
    <3>1. m.count \in Nat /\ new = ProcessMissionCount(it, m.count, ok)
      BY <2>2 DEF Messages, ProcessMessage
    <3> QED
      BY <1>2, <2>1, <3>1, CountIsHonest DEF Honest
  <2>3. CASE m.id = "item_int"
    <3>1. /\ m.seq \in Nat /\ m.type \in {"mission", "fence"}
          /\ new = ProcessMissionItemInt(it, m.seq, m.type, ok)
      BY <2>3 DEF Messages, ProcessMessage
    <3> QED
      BY <1>2, <2>1, <3>1, ItemIntIsHonest DEF Honest
  <2> QED
    BY <2>1, <2>2, <2>3
<1>3. CASE Kind[w] # "upload" /\ ~(Kind[w] = "download" /\ OneDownload)
  BY <1>3 DEF Honest
<1> QED
  BY <1>1, <1>2, <1>3

\* The destructor and the message table.
LEMMA RetireIsHonest ==
    ASSUME NEW w, NEW it \in Items, Honest(w, it)
    PROVE  Honest(w, Destroy(it)) /\ Honest(w, Retire(w, it))
<1> DEFINE stopped == RemoveTimeout(it)
           out == [it EXCEPT !.registered = FALSE]
           gone == [stopped EXCEPT !.registered = FALSE, !.freed = TRUE]
<1>1. stopped \in Items /\ Honest(w, stopped)
  BY TimerFacts, TimerIsSilent, HonestWhenSilent
<1>2. Destroy(it) = gone /\ Retire(w, it) \in {out, gone}
  BY DEF Destroy, Retire
<1> HIDE DEF stopped
<1>3. Silent(stopped, gone)
  BY <1>1 DEF Items, Silent, Told
<1>4. Silent(it, out)
  BY DEF Items, Silent, Told
<1> HIDE DEF out, gone
<1> QED
  BY <1>1, <1>2, <1>3, <1>4, HonestWhenSilent

-----------------------------------------------------------------------------
(***************************************************************************)
(* The actions.                                                            *)
(***************************************************************************)

AllHonest == \A w \in Transfers : Honest(w, item[w])

\* A step that changes one transfer.
LEMMA OneChanges ==
    ASSUME item \in [Transfers -> Items], AllHonest, NEW w \in Transfers, NEW new,
           Honest(w, new), item' = [item EXCEPT ![w] = new]
    PROVE  AllHonest'
<1>1. /\ item'[w] = new
      /\ \A v \in Transfers \ {w} : item'[v] = item[v]
  OBVIOUS
<1>2. ASSUME NEW v \in Transfers PROVE Honest(v, item'[v])
  BY <1>1 DEF AllHonest
<1> QED
  BY <1>2 DEF AllHonest, Honest, UploadHonest, DownloadHonest, OneDownload, Told

\* do_work starts the transfer at the front or retires it.
LEMMA DoWorkIsHonest ==
    ASSUME NEW items \in [Transfers -> Items], NEW q \in Seq(Transfers), NEW ts,
           NEW ok \in BOOLEAN, \A w \in Transfers : Honest(w, items[w]),
           DoWork(items, q, ts, ok)
    PROVE  AllHonest'
<1> SUFFICES \A v \in Transfers : Honest(v, item'[v])
  BY DEF AllHonest, Honest, UploadHonest, DownloadHonest, OneDownload, Told
<1>1. CASE q = <<>>
  BY <1>1 DEF DoWork
<1>2. CASE q # <<>>
  <2> DEFINE w == Head(q)
             it == IF items[w].started THEN items[w] ELSE Start(w, items[w], ok)
  <2>1. w \in Transfers /\ items[w] \in Items
    BY <1>2, HasTail
  <2>2. /\ item' \in {[items EXCEPT ![w] = Retire(w, it)], [items EXCEPT ![w] = it]}
    BY <1>2 DEF DoWork
  <2> HIDE DEF w
  <2>3. it \in Items /\ Honest(w, it)
    <3>1. CASE items[w].started
      BY <2>1, <3>1
    <3>2. CASE ~items[w].started
      <4>1. Start(w, items[w], ok) \in Items
        BY <2>1, StartFacts DEF KeptByStart, Kept
      <4>2. Honest(w, Start(w, items[w], ok))
        BY <2>1, <3>2, StartIsHonest
      <4> QED
        BY <3>2, <4>1, <4>2
    <3> QED
      BY <3>1, <3>2
  <2> HIDE DEF it
  <2>4. Honest(w, Retire(w, it))
    BY <2>3, RetireIsHonest
  <2>5. /\ item'[w] \in {Retire(w, it), it}
        /\ \A v \in Transfers \ {w} : item'[v] = items[v]
    BY <2>1, <2>2
  <2> QED
    BY <2>3, <2>4, <2>5
<1> QED
  BY <1>1, <1>2

\* Calls, cancel() and references that are let go.
LEMMA UserIsHonest ==
    ASSUME MissionInv, AllHonest, NEW w \in Transfers, User(w)
    PROVE  AllHonest'
<1>1. item \in [Transfers -> Items] /\ item[w] \in Items /\ Honest(w, item[w])
  BY DEF MissionInv, Sound, AllHonest
<1>2. CASE UNCHANGED item
  BY <1>2 DEF AllHonest, Honest, UploadHonest, DownloadHonest, OneDownload, Told
<1>3. CASE item' = [item EXCEPT ![w].callback = FALSE,
                                ![w].results =
                      <<[result |-> "IntMessagesNotSupported", items |-> <<>>]>>]
  <2> DEFINE entry == [result |-> "IntMessagesNotSupported", items |-> <<>>]
             results == <<entry>>
             new == [item[w] EXCEPT !.callback = FALSE, !.results = results]
  <2>1. item' = [item EXCEPT ![w] = new]
    <3> HIDE DEF entry
    <3> QED
      BY <1>1, <1>3 DEF entry
  <2>2. \A i \in DOMAIN results : results[i].result # "Success"
    OBVIOUS
  <2> HIDE DEF results
  <2>3. /\ new.results = results /\ new.next = item[w].next /\ new.sent = item[w].sent
        /\ ~new.callback /\ new.started = item[w].started
    BY <1>1 DEF Items
  <2> HIDE DEF new
  <2>4. Honest(w, new)
    BY <1>1, <2>2, <2>3 DEF Honest, UploadHonest, DownloadHonest, Told
  <2> QED
    BY <1>1, <2>1, <2>4, OneChanges
<1>4. CASE Cancel(w)
  <2>1. PICK ok \in BOOLEAN :
           item' = [item EXCEPT ![w] = SendCancelAndFinish(RemoveTimeout(@), ok)]
    BY <1>4 DEF Cancel
  <2>2. PICK result \in Results \ {"Success"} :
           SendCancelAndFinish(RemoveTimeout(item[w]), ok)
              = CallbackAndReset(RemoveTimeout(item[w]), result)
    BY DEF SendCancelAndFinish, Results
  <2>3. Honest(w, SendCancelAndFinish(RemoveTimeout(item[w]), ok))
    BY <1>1, <2>2, FinishTells, HonestWhenSilent
  <2> QED
    BY <1>1, <2>1, <2>3, OneChanges
<1>5. CASE Unlock(w)
  <2>1. CASE Has(queue, w) \/ Has(tasks, Task("enqueue", w))
    <3>1. item' = [item EXCEPT ![w] = item[w]]
      BY <1>5, <2>1 DEF Unlock, Has
    <3> QED
      BY <1>1, <3>1, OneChanges
  <2>2. CASE ~(Has(queue, w) \/ Has(tasks, Task("enqueue", w)))
    <3>1. item' = [item EXCEPT ![w] = Destroy(item[w])]
      BY <1>5, <2>2 DEF Unlock, Has
    <3> QED
      BY <1>1, <3>1, RetireIsHonest, OneChanges
  <2> QED
    BY <2>1, <2>2
<1> QED
  BY <1>2, <1>3, <1>4, <1>5 DEF User, TransferItemsAsync, OtherAsync, Lock

\* Timeouts.
LEMMA TimersAreHonest ==
    ASSUME MissionInv, AllHonest, NEW w \in Transfers,
           TimeoutStarts(w) \/ TimeoutBody(w)
    PROVE  AllHonest'
<1>1. item \in [Transfers -> Items] /\ item[w] \in Items /\ Honest(w, item[w])
  BY DEF MissionInv, Sound, AllHonest
<1>2. CASE TimeoutStarts(w)
  <2>1. item' = [item EXCEPT ![w] = RemoveTimeout(item[w])]
    BY <1>2 DEF TimeoutStarts
  <2>2. Honest(w, RemoveTimeout(item[w]))
    BY <1>1, TimerIsSilent, HonestWhenSilent
  <2> QED
    BY <1>1, <2>1, <2>2, OneChanges
<1>3. CASE TimeoutBody(w)
  <2>1. PICK ok \in BOOLEAN :
           item' = [item EXCEPT ![w] = IF @.freed THEN @ ELSE ProcessTimeout(w, @, ok)]
    BY <1>3 DEF TimeoutBody
  <2> DEFINE new == IF item[w].freed THEN item[w] ELSE ProcessTimeout(w, item[w], ok)
  <2>2. Honest(w, new)
    BY <1>1, TimeoutIsHonest
  <2>3. item' = [item EXCEPT ![w] = new]
    BY <2>1
  <2> HIDE DEF new
  <2> QED
    BY <1>1, <2>2, <2>3, OneChanges
<1> QED
  BY <1>2, <1>3

\* A message; counts and items are sent to a download that asked for them.
LEMMA ReceiveIsHonest ==
    ASSUME MissionInv, AllHonest, NEW m \in Answers, ReceiveMessage(m)
    PROVE  AllHonest'
<1>1. PICK ok \in BOOLEAN :
         item' = [w \in Transfers |-> IF item[w].registered /\ Handles(w, m.id)
                                      THEN ProcessMessage(w, item[w], m, ok)
                                      ELSE item[w]]
  BY DEF ReceiveMessage
<1>2. m \in Messages
  BY AnswersAreMessages
<1>3. ASSUME NEW w \in Transfers, Kind[w] = "download", OneDownload, Handles(w, m.id)
      PROVE  item[w].started
  <2>1. m.id \in {"count", "item_int"}
    BY <1>3 DEF Handles
  <2>2. Begun("download") # {}
    <3>1. {Type[v] : v \in Begun("download")} # {}
      BY <2>1 DEF Answers
    <3> QED
      BY <3>1
  <2> QED
    BY <1>3, <2>2 DEF Begun, OneDownload
<1>4. ASSUME NEW w \in Transfers PROVE Honest(w, item'[w])
  <2>1. item[w] \in Items /\ Honest(w, item[w])
    BY DEF MissionInv, Sound, AllHonest
  <2>2. CASE item[w].registered /\ Handles(w, m.id)
    <3>1. item'[w] = ProcessMessage(w, item[w], m, ok)
      BY <1>1, <2>2
    <3>2. Honest(w, ProcessMessage(w, item[w], m, ok))
      BY <1>2, <1>3, <2>1, <2>2, MessageIsHonest
    <3> QED
      BY <3>1, <3>2
  <2>3. CASE ~(item[w].registered /\ Handles(w, m.id))
    BY <1>1, <2>1, <2>3
  <2> QED
    BY <2>2, <2>3
<1> QED
  BY <1>4 DEF AllHonest, Honest, UploadHonest, DownloadHonest, OneDownload, Told

\* The tasks.
LEMMA RunTaskIsHonest ==
    ASSUME MissionInv, AllHonest, RunTask
    PROVE  AllHonest'
<1>1. /\ item \in [Transfers -> Items] /\ queue \in Seq(Transfers)
      /\ tasks \in Seq(TaskSet) /\ \A w \in Transfers : Honest(w, item[w])
  BY DEF MissionInv, Sound, AllHonest
<1>2. tasks # <<>> /\ Head(tasks) \in TaskSet
  BY <1>1, HasTail DEF RunTask
<1> DEFINE w == Head(tasks).of
<1>3. CASE Head(tasks).op = "register" /\ item' = [item EXCEPT ![w].registered = TRUE]
  <2> DEFINE new == [item[w] EXCEPT !.registered = TRUE]
  <2>1. w \in Transfers
    BY <1>2, <1>3 DEF TaskSet, DoWorkTask
  <2>2. item' = [item EXCEPT ![w] = new]
    BY <1>3
  <2> HIDE DEF w
  <2>3. Silent(item[w], new)
    BY <1>1, <2>1 DEF Items, Silent, Told
  <2> HIDE DEF new
  <2> QED
    BY <1>1, <2>1, <2>2, <2>3, HonestWhenSilent, OneChanges
<1>4. CASE /\ Head(tasks).op = "enqueue"
           /\ LET items == [item EXCEPT ![w].notify = TRUE] IN
              IF queue = <<>>
              THEN \E ok \in BOOLEAN : DoWork(items, <<w>>, Tail(tasks), ok)
              ELSE item' = items
  <2> DEFINE new == [item[w] EXCEPT !.notify = TRUE]
             items == [item EXCEPT ![w] = new]
  <2>1. w \in Transfers
    BY <1>2, <1>4 DEF TaskSet, DoWorkTask
  <2>2. \/ \E ok \in BOOLEAN : DoWork(items, <<w>>, Tail(tasks), ok)
        \/ item' = items
    BY <1>4
  <2> HIDE DEF w
  <2>3. new \in Items /\ Silent(item[w], new)
    BY <1>1, <2>1 DEF Items, Silent, Told
  <2> HIDE DEF new
  <2>4. Honest(w, new)
    BY <1>1, <2>1, <2>3, HonestWhenSilent
  <2>5. CASE item' = items
    BY <1>1, <2>1, <2>4, <2>5, OneChanges
  <2>6. CASE \E ok \in BOOLEAN : DoWork(items, <<w>>, Tail(tasks), ok)
    <3>1. items \in [Transfers -> Items] /\ \A v \in Transfers : Honest(v, items[v])
      BY <1>1, <2>1, <2>3, <2>4
    <3>2. <<w>> \in Seq(Transfers)
      BY <2>1
    <3> HIDE DEF items
    <3> QED
      BY <2>6, <3>1, <3>2, DoWorkIsHonest
  <2> QED
    BY <2>2, <2>5, <2>6
<1>5. CASE \E ok \in BOOLEAN : DoWork(item, queue, Tail(tasks), ok)
  BY <1>1, <1>5, DoWorkIsHonest
<1> QED
  BY <1>3, <1>4, <1>5 DEF RunTask

\* Every step keeps all transfers honest.
LEMMA NextIsHonest == MissionInv /\ AllHonest /\ [Next]_vars => AllHonest'
<1> SUFFICES ASSUME MissionInv, AllHonest, [Next]_vars PROVE AllHonest'
  OBVIOUS
<1>1. CASE UNCHANGED item
  BY <1>1 DEF AllHonest, Honest, UploadHonest, DownloadHonest, OneDownload, Told
<1> QED
  BY <1>1, UserIsHonest, TimersAreHonest, ReceiveIsHonest, RunTaskIsHonest
     DEF Next, SetIntMessagesSupported, vars

\* Nothing was sent, received or told at first.
LEMMA InitIsHonest == Init => AllHonest
<1> SUFFICES ASSUME Init, NEW w \in Transfers PROVE Honest(w, item[w])
  BY DEF AllHonest
<1>1. /\ item[w].next = 0 /\ item[w].received = <<>> /\ item[w].results = <<>>
  BY DEF Init, NewItem
<1>2. 0..(0 - 1) = {} /\ DOMAIN <<>> = {}
  OBVIOUS
<1>3. Told(item[w]) = {}
  BY <1>1, <1>2 DEF Told
<1> QED
  BY <1>1, <1>2, <1>3 DEF Honest, UploadHonest, DownloadHonest, EndsInRun

-----------------------------------------------------------------------------
(***************************************************************************)
(* Where the transfers are that the message table points to.               *)
(***************************************************************************)

\* A transfer is registered before it is put into the queue.
Ordered(ts, w) ==
    \A i, j \in DOMAIN ts :
        ts[i] = Task("enqueue", w) /\ ts[j] = Task("register", w) => j < i

\* Of any state of the transfers, the queue and the tasks: who is registered, or
\* is about to be, is queued or about to be; who is queued is registered
\* already; nothing is known of a call that was not made.
Placed(items, q, ts, w) ==
    /\ items[w].registered \/ Has(ts, Task("register", w))
          => Has(q, w) \/ Has(ts, Task("enqueue", w))
    /\ Has(q, w) => ~Has(ts, Task("register", w))
    /\ held[w] = "no call" => /\ ~items[w].registered
                              /\ ~Has(q, w)
                              /\ ~Has(ts, Task("register", w))
                              /\ ~Has(ts, Task("enqueue", w))
    /\ Ordered(ts, w)

AllPlaced == \A w \in Transfers : Placed(item, queue, tasks, w)

\* The tasks of w are the same, and in the same order.
KeepsTasks(ts, new, w) ==
    /\ Has(new, Task("register", w)) <=> Has(ts, Task("register", w))
    /\ Has(new, Task("enqueue", w)) <=> Has(ts, Task("enqueue", w))
    /\ Ordered(ts, w) => Ordered(new, w)

\* A do_work that is posted concerns no transfer.
LEMMA DoWorkTasksAreNeutral ==
    ASSUME NEW ts \in Seq(TaskSet), NEW t \in Seq(TaskSet),
           \A x : Has(t, x) => x = DoWorkTask, NEW w
    PROVE  ts \o t \in Seq(TaskSet) /\ KeepsTasks(ts, ts \o t, w)
<1>1. \A op \in {"register", "enqueue"} : Task(op, w) # DoWorkTask
  BY DEF Task, DoWorkTask
<1>2. /\ ts \o t \in Seq(TaskSet)
      /\ \A x : Has(ts \o t, x) <=> Has(ts, x) \/ Has(t, x)
  BY HasConcat
<1>3. /\ Len(ts) \in Nat /\ Len(t) \in Nat
      /\ DOMAIN ts = 1..Len(ts) /\ DOMAIN t = 1..Len(t)
      /\ DOMAIN (ts \o t) = 1..(Len(ts) + Len(t))
      /\ \A i \in 1..(Len(ts) + Len(t)) :
            (ts \o t)[i] = IF i <= Len(ts) THEN ts[i] ELSE t[i - Len(ts)]
  BY <1>2, ConcatProperties, LenProperties
<1>4. ASSUME NEW i \in DOMAIN (ts \o t), NEW op \in {"register", "enqueue"},
             (ts \o t)[i] = Task(op, w)
      PROVE  i \in DOMAIN ts /\ ts[i] = Task(op, w)
  <2>1. CASE i <= Len(ts)
    BY <1>3, <1>4, <2>1
  <2>2. CASE ~(i <= Len(ts))
    <3>1. i - Len(ts) \in DOMAIN t /\ t[i - Len(ts)] = Task(op, w)
      BY <1>3, <1>4, <2>2
    <3> QED
      BY <1>1, <3>1 DEF Has
  <2> QED
    BY <2>1, <2>2, <1>3
<1> QED
  BY <1>1, <1>2, <1>4 DEF KeepsTasks, Ordered

\* The first task is taken.
LEMMA TakenTask ==
    ASSUME NEW ts \in Seq(TaskSet), ts # <<>>, NEW w
    PROVE  /\ Ordered(ts, w) => Ordered(Tail(ts), w)
           /\ Ordered(ts, w) /\ Head(ts) = Task("enqueue", w)
                 => ~Has(Tail(ts), Task("register", w))
<1>1. /\ Tail(ts) \in Seq(TaskSet) /\ Len(Tail(ts)) = Len(ts) - 1
      /\ \A i \in 1..Len(Tail(ts)) : Tail(ts)[i] = ts[i + 1]
      /\ Head(ts) = ts[1]
  BY HeadTailProperties
<1>2. /\ Len(ts) \in Nat \ {0} /\ DOMAIN ts = 1..Len(ts)
      /\ DOMAIN Tail(ts) = 1..(Len(ts) - 1)
  BY <1>1, LenProperties, EmptySeq
<1>3. \A i \in DOMAIN Tail(ts) : i + 1 \in DOMAIN ts /\ Tail(ts)[i] = ts[i + 1]
  BY <1>1, <1>2
<1>4. 1 \in DOMAIN ts
  BY <1>2
<1>5. ASSUME Ordered(ts, w) PROVE Ordered(Tail(ts), w)
  <2> SUFFICES ASSUME NEW i \in DOMAIN Tail(ts), NEW j \in DOMAIN Tail(ts),
                      Tail(ts)[i] = Task("enqueue", w),
                      Tail(ts)[j] = Task("register", w)
               PROVE  j < i
    BY DEF Ordered
  <2>1. j + 1 < i + 1
    BY <1>3, <1>5 DEF Ordered
  <2> QED
    BY <1>2, <2>1
<1>6. ASSUME Ordered(ts, w), Head(ts) = Task("enqueue", w),
             NEW j \in DOMAIN Tail(ts), Tail(ts)[j] = Task("register", w)
      PROVE  FALSE
  <2>1. j + 1 < 1
    BY <1>1, <1>3, <1>4, <1>6 DEF Ordered
  <2> QED
    BY <1>2, <2>1
<1> QED
  BY <1>5, <1>6 DEF Has

\* set_done posts do_work and nothing else.
LEMMA PostedIsDoWork ==
    ASSUME NEW before, NEW after
    PROVE  /\ Posted(before, after) \in Seq(TaskSet)
           /\ \A x : Has(Posted(before, after), x) => x = DoWorkTask
<1>1. Posted(before, after) \in Seq(TaskSet)
  BY PostedFacts
<1> DEFINE n == Cardinality({w \in Transfers :
                    after[w].done /\ ~before[w].done /\ before[w].notify})
<1>2. Posted(before, after) = [i \in 1..n |-> DoWorkTask]
  BY DEF Posted
<1> HIDE DEF n
<1>3. \A x : Has(Posted(before, after), x) => x = DoWorkTask
  BY <1>2 DEF Has
<1> QED
  BY <1>1, <1>3

\* A step that registers nobody, and posts no more than do_work.
LEMMA NobodyRegisters ==
    ASSUME MissionInv, AllPlaced,
           \A w \in Transfers : /\ item'[w].registered => item[w].registered
                                /\ held'[w] = "no call" => held[w] = "no call",
           NEW t \in Seq(TaskSet), \A x : Has(t, x) => x = DoWorkTask,
           tasks' = tasks \o t, UNCHANGED queue
    PROVE  AllPlaced'
<1>1. tasks \in Seq(TaskSet)
  BY DEF MissionInv, Sound
<1>2. ASSUME NEW w \in Transfers PROVE Placed(item, queue, tasks, w)'
  <2>1. KeepsTasks(tasks, tasks', w)
    BY <1>1, DoWorkTasksAreNeutral
  <2>2. Placed(item, queue, tasks, w)
    BY DEF AllPlaced
  <2>3. Ordered(tasks, w)'
    BY <2>1, <2>2 DEF KeepsTasks, Placed, Ordered
  <2> QED
    BY <2>1, <2>2, <2>3 DEF KeepsTasks, Placed
<1> QED
  BY <1>2 DEF AllPlaced

\* do_work: what leaves the queue leaves the message table.
LEMMA DoWorkPlaces ==
    ASSUME NEW items \in [Transfers -> Items], NEW q \in Seq(Transfers),
           NEW ts \in Seq(TaskSet), NEW ok \in BOOLEAN,
           \A w \in Transfers : Placed(items, q, ts, w),
           DoWork(items, q, ts, ok), UNCHANGED held
    PROVE  AllPlaced'
<1> SUFFICES \A v \in Transfers : Placed(item', queue', tasks', v)
  BY DEF AllPlaced, Placed, Ordered
<1>1. CASE q = <<>>
  BY <1>1 DEF DoWork
<1>2. CASE q # <<>>
  <2> DEFINE w == Head(q)
             it == IF items[w].started THEN items[w] ELSE Start(w, items[w], ok)
             posted == Posted(items, [items EXCEPT ![w] = it])
             kick == IF Tail(q) = <<>> THEN <<>> ELSE <<DoWorkTask>>
  <2>1. w \in Transfers /\ \A x : Has(q, x) <=> x = w \/ Has(Tail(q), x)
    BY <1>2, HasTail
  <2> HIDE DEF w
  <2>2. it \in Items /\ it.registered = items[w].registered
    <3>1. Kept(items[w], Start(w, items[w], ok))
      BY <2>1, StartFacts DEF KeptByStart
    <3> QED
      BY <2>1, <3>1 DEF Kept
  <2>3. CASE it.done
    <3>1. /\ item' = [items EXCEPT ![w] = Retire(w, it)]
          /\ queue' = Tail(q)
          /\ tasks' = ts \o posted \o kick
      BY <1>2, <2>3 DEF DoWork, w
    <3> HIDE DEF it
    <3>2. ~Retire(w, it).registered
      <4> DEFINE stopped == RemoveTimeout(it)
      <4>1. stopped \in Items
        BY <2>2, TimerFacts
      <4>2. Retire(w, it) \in {[it EXCEPT !.registered = FALSE],
                               [stopped EXCEPT !.registered = FALSE, !.freed = TRUE]}
        BY DEF Retire, Destroy
      <4> HIDE DEF stopped
      <4> QED
        BY <2>2, <4>1, <4>2 DEF Items
    <3>3. kick \in Seq(TaskSet) /\ \A x : Has(kick, x) => x = DoWorkTask
      <4>1. DoWorkTask \in TaskSet
        BY DEF TaskSet
      <4> QED
        BY <4>1, HasShort
    <3>4. posted \in Seq(TaskSet) /\ \A x : Has(posted, x) => x = DoWorkTask
      BY PostedIsDoWork
    <3> HIDE DEF posted, kick
    <3>5. ASSUME NEW v \in Transfers PROVE Placed(item', queue', tasks', v)
      <4>1. ts \o posted \in Seq(TaskSet) /\ KeepsTasks(ts, ts \o posted, v)
        BY <3>4, DoWorkTasksAreNeutral
      <4>2. KeepsTasks(ts \o posted, (ts \o posted) \o kick, v)
        BY <3>3, <4>1, DoWorkTasksAreNeutral
      <4>3. KeepsTasks(ts, tasks', v)
        BY <3>1, <4>1, <4>2 DEF KeepsTasks
      <4>4. Placed(items, q, ts, v)
        OBVIOUS
      <4>5. CASE v = w
        <5>1. item'[v] = Retire(w, it)
          BY <2>1, <3>1, <4>5
        <5> QED
          BY <2>1, <3>1, <3>2, <4>3, <4>4, <4>5, <5>1 DEF KeepsTasks, Placed
      <4>6. CASE v # w
        <5>1. item'[v] = items[v]
          BY <2>1, <3>1, <4>6
        <5> QED
          BY <2>1, <3>1, <4>3, <4>4, <4>6, <5>1 DEF KeepsTasks, Placed
      <4> QED
        BY <4>5, <4>6
    <3> QED
      BY <3>5
  <2>4. CASE ~it.done
    <3>1. item' = [items EXCEPT ![w] = it] /\ queue' = q /\ tasks' = ts
      BY <1>2, <2>4 DEF DoWork, w
    <3> HIDE DEF it
    <3>2. \A v \in Transfers : item'[v].registered = items[v].registered
      BY <2>1, <2>2, <3>1
    <3> QED
      BY <3>1, <3>2 DEF Placed
  <2> QED
    BY <2>3, <2>4
<1> QED
  BY <1>1, <1>2

\* The tasks a call posts.
CallTasks(w) == <<Task("register", w), Task("enqueue", w)>>

\* Two more tasks, in this order, of a transfer that had none.
LEMMA TwoMoreTasks ==
    ASSUME NEW w \in Transfers, NEW v \in Transfers, NEW ts \in Seq(TaskSet),
           NEW more, more = ts \o CallTasks(w)
    PROVE  /\ more \in Seq(TaskSet)
           /\ Has(more, Task("enqueue", w))
           /\ v # w => KeepsTasks(ts, more, v)
           /\ ~Has(ts, Task("register", w)) /\ ~Has(ts, Task("enqueue", w))
                 => Ordered(more, w)
<1> DEFINE first == Task("register", w)
           second == Task("enqueue", w)
           n == Len(ts)
<1>1. first \in TaskSet /\ second \in TaskSet /\ first # second
  BY DEF TaskSet, Task
<1>2. \A op \in {"register", "enqueue"} :
         v # w => Task(op, v) # first /\ Task(op, v) # second
  BY DEF Task
<1> HIDE DEF first, second
<1>3. <<first, second>> \in Seq(TaskSet)
  BY <1>1
<1>4. more = ts \o <<first, second>>
  BY DEF first, second, CallTasks
<1>5. more \in Seq(TaskSet) /\ Len(more) = n + 2 /\ n \in Nat
  BY <1>3, <1>4, ConcatProperties, LenProperties
<1>6. /\ DOMAIN more = 1..(n + 2) /\ DOMAIN ts = 1..n
      /\ \A i \in 1..n : more[i] = ts[i]
      /\ more[n + 1] = first /\ more[n + 2] = second
  <2>1. /\ \A i \in 1..(n + 2) : more[i] = IF i <= n THEN ts[i]
                                           ELSE <<first, second>>[i - n]
    BY <1>3, <1>4, ConcatProperties
  <2>2. DOMAIN more = 1..(n + 2) /\ DOMAIN ts = 1..n
    BY <1>5, LenProperties
  <2> DEFINE two == <<first, second>>
  <2>3. two[1] = first /\ two[2] = second
    OBVIOUS
  <2>4. \A i \in 1..(n + 2) : more[i] = IF i <= n THEN ts[i] ELSE two[i - n]
    BY <2>1
  <2> HIDE DEF n, two
  <2>5. /\ n + 1 \in 1..(n + 2) /\ ~(n + 1 <= n) /\ (n + 1) - n = 1
        /\ n + 2 \in 1..(n + 2) /\ ~(n + 2 <= n) /\ (n + 2) - n = 2
        /\ \A i \in 1..n : i \in 1..(n + 2) /\ i <= n
    BY <1>5
  <2>6. more[n + 1] = two[(n + 1) - n] /\ more[n + 2] = two[(n + 2) - n]
    BY <2>4, <2>5
  <2> QED
    BY <2>2, <2>3, <2>4, <2>5, <2>6
<1> HIDE DEF n
<1>7. ASSUME NEW i \in DOMAIN more
      PROVE  \/ i \in DOMAIN ts /\ more[i] = ts[i]
             \/ i = n + 1 /\ more[i] = first
             \/ i = n + 2 /\ more[i] = second
  <2>1. i \in 1..n \/ i = n + 1 \/ i = n + 2
    BY <1>5, <1>6
  <2> QED
    BY <1>6, <2>1
<1>8. \A i \in DOMAIN ts : i \in DOMAIN more /\ more[i] = ts[i]
  BY <1>5, <1>6
<1>9. n + 2 \in DOMAIN more
  BY <1>5, <1>6
<1>10. ASSUME v # w PROVE KeepsTasks(ts, more, v)
  <2>1. \A i \in DOMAIN more, op \in {"register", "enqueue"} :
           more[i] = Task(op, v) => i \in DOMAIN ts /\ ts[i] = Task(op, v)
    BY <1>2, <1>7, <1>10
  <2> QED
    BY <1>8, <2>1 DEF KeepsTasks, Has, Ordered
<1>11. ASSUME ~Has(ts, first), ~Has(ts, second) PROVE Ordered(more, w)
  <2> SUFFICES ASSUME NEW i \in DOMAIN more, NEW j \in DOMAIN more,
                      more[i] = second, more[j] = first
               PROVE  j < i
    BY DEF Ordered, first, second
  <2>1. i = n + 2
    BY <1>1, <1>7, <1>11 DEF Has
  <2>2. j = n + 1
    BY <1>1, <1>7, <1>11 DEF Has
  <2> QED
    BY <1>5, <2>1, <2>2
<1>12. Has(more, second)
  BY <1>6, <1>9 DEF Has
<1> QED
  BY <1>5, <1>10, <1>11, <1>12 DEF first, second

\* A call posts its two tasks in this order.
LEMMA AsyncPlaces ==
    ASSUME MissionInv, AllPlaced, NEW w \in Transfers, held[w] = "no call",
           tasks' = tasks \o CallTasks(w),
           held' \in {[held EXCEPT ![w] = "handle"],
                      [held EXCEPT ![w] = "no handle"]},
           UNCHANGED <<item, queue>>
    PROVE  AllPlaced'
<1>1. /\ tasks \in Seq(TaskSet)
      /\ held \in [Transfers -> {"no call", "handle", "locked", "no handle"}]
  BY DEF MissionInv, Sound
<1>2. held'[w] # "no call" /\ \A v \in Transfers \ {w} : held'[v] = held[v]
  BY <1>1
<1>3. ASSUME NEW v \in Transfers \ {w} PROVE Placed(item, queue, tasks, v)'
  <2>1. Placed(item, queue, tasks, v)
    BY DEF AllPlaced
  <2>2. KeepsTasks(tasks, tasks', v)
    BY <1>1, TwoMoreTasks
  <2>3. Ordered(tasks, v)'
    BY <2>1, <2>2 DEF KeepsTasks, Placed, Ordered
  <2> QED
    BY <1>2, <2>1, <2>2, <2>3 DEF KeepsTasks, Placed
<1>4. Placed(item, queue, tasks, w)'
  <2>1. /\ ~Has(queue, w) /\ ~Has(tasks, Task("register", w))
        /\ ~Has(tasks, Task("enqueue", w))
    BY DEF AllPlaced, Placed
  <2>2. Has(tasks', Task("enqueue", w)) /\ Ordered(tasks', w)
    BY <1>1, <2>1, TwoMoreTasks
  <2>3. Ordered(tasks, w)'
    BY <2>2 DEF Ordered
  <2> QED
    BY <1>2, <2>1, <2>2, <2>3 DEF Placed
<1> QED
  BY <1>3, <1>4 DEF AllPlaced

\* The tasks of the queue.
LEMMA RunTaskPlaces ==
    ASSUME MissionInv, AllPlaced, RunTask
    PROVE  AllPlaced'
<1>1. /\ item \in [Transfers -> Items] /\ queue \in Seq(Transfers)
      /\ tasks \in Seq(TaskSet) /\ tasks # <<>> /\ UNCHANGED held
  BY DEF MissionInv, Sound, RunTask
<1>2. /\ Head(tasks) \in TaskSet /\ Tail(tasks) \in Seq(TaskSet)
      /\ \A x : Has(tasks, x) <=> x = Head(tasks) \/ Has(Tail(tasks), x)
  BY <1>1, HasTail
<1> DEFINE w == Head(tasks).of
<1>3. \A v \in Transfers : Placed(item, queue, tasks, v) /\ Ordered(Tail(tasks), v)
  BY <1>1, TakenTask DEF AllPlaced, Placed
<1>4. CASE /\ Head(tasks).op = "register"
           /\ item' = [item EXCEPT ![w].registered = TRUE]
           /\ tasks' = Tail(tasks)
           /\ UNCHANGED queue
  <2>1. w \in Transfers /\ Head(tasks) = Task("register", w)
    BY <1>2, <1>4 DEF TaskSet, DoWorkTask, Task
  <2> HIDE DEF w
  <2>2. \A v \in Transfers \ {w} : item'[v] = item[v]
    BY <1>1, <1>4, <2>1 DEF w
  <2>3. /\ \A v : Head(tasks) # Task("enqueue", v)
        /\ \A v : Head(tasks) = Task("register", v) => v = w
    BY <2>1 DEF Task
  <2>4. ASSUME NEW v \in Transfers PROVE Placed(item', queue', tasks', v)
    <3>1. Has(tasks', Task("enqueue", v)) <=> Has(tasks, Task("enqueue", v))
      BY <1>2, <1>4, <2>3
    <3>2. CASE v = w
      <4>1. Has(tasks, Task("register", w))
        BY <1>2, <2>1
      <4>2. Has(tasks', Task("register", w)) => Has(tasks, Task("register", w))
        BY <1>2, <1>4
      <4> QED
        BY <1>1, <1>3, <1>4, <3>1, <3>2, <4>1, <4>2 DEF Placed
    <3>3. CASE v # w
      <4>1. Has(tasks', Task("register", v)) <=> Has(tasks, Task("register", v))
        BY <1>2, <1>4, <2>3, <3>3
      <4> QED
        BY <1>1, <1>3, <1>4, <2>2, <3>1, <3>3, <4>1 DEF Placed
    <3> QED
      BY <3>2, <3>3
  <2> QED
    BY <1>1, <2>4 DEF AllPlaced, Placed, Ordered
<1>5. CASE /\ Head(tasks).op = "enqueue"
           /\ LET items == [item EXCEPT ![w].notify = TRUE] IN
              IF queue = <<>>
              THEN \E ok \in BOOLEAN : DoWork(items, <<w>>, Tail(tasks), ok)
              ELSE /\ item' = items
                   /\ queue' = Append(queue, w)
                   /\ tasks' = Tail(tasks)
  <2> DEFINE new == [item[w] EXCEPT !.notify = TRUE]
             items == [item EXCEPT ![w] = new]
             longer == Append(queue, w)
  <2>1. w \in Transfers /\ Head(tasks) = Task("enqueue", w)
    BY <1>2, <1>5 DEF TaskSet, DoWorkTask, Task
  <2>2. IF queue = <<>>
        THEN \E ok \in BOOLEAN : DoWork(items, <<w>>, Tail(tasks), ok)
        ELSE item' = items /\ queue' = longer /\ tasks' = Tail(tasks)
    BY <1>5
  <2> HIDE DEF w
  <2>3. new \in Items /\ new.registered = item[w].registered
    BY ZenonT(60), <1>1, <2>1 DEF Items
  <2> HIDE DEF new
  <2>4. /\ items \in [Transfers -> Items]
        /\ \A v \in Transfers : items[v].registered = item[v].registered
    BY <1>1, <2>1, <2>3
  <2>5. ~Has(Tail(tasks), Task("register", w))
    BY <1>1, <2>1, TakenTask DEF AllPlaced, Placed
  <2>6. /\ \A v : Head(tasks) # Task("register", v)
        /\ \A v : Head(tasks) = Task("enqueue", v) => v = w
    BY <2>1 DEF Task
  <2> HIDE DEF items
  <2>7. ASSUME NEW q, \A v \in Transfers : Has(q, v) <=> Has(queue, v) \/ v = w,
               NEW v \in Transfers
        PROVE  Placed(items, q, Tail(tasks), v)
    <3>1. Has(Tail(tasks), Task("register", v)) <=> Has(tasks, Task("register", v))
      BY <1>2, <2>6
    <3>2. Placed(item, queue, tasks, v) /\ Ordered(Tail(tasks), v)
      BY <1>3
    <3>3. items[v].registered = item[v].registered
      BY <2>4
    <3>4. CASE v = w
      <4>1. Has(q, v) /\ ~Has(Tail(tasks), Task("register", v))
        BY <2>5, <2>7, <3>4
      <4>2. held[v] # "no call"
        <5>1. Has(tasks, Task("enqueue", v))
          BY <1>2, <2>1, <3>4
        <5> QED
          BY <3>2, <5>1 DEF Placed
      <4> QED
        BY <3>2, <4>1, <4>2 DEF Placed
    <3>5. CASE v # w
      <4>1. Has(Tail(tasks), Task("enqueue", v)) <=> Has(tasks, Task("enqueue", v))
        BY <1>2, <2>6, <3>5
      <4>2. Has(q, v) <=> Has(queue, v)
        BY <2>7, <3>5
      <4> QED
        BY <3>1, <3>2, <3>3, <4>1, <4>2 DEF Placed
    <3> QED
      BY <3>4, <3>5
  <2>8. CASE queue = <<>>
    <3>1. PICK ok \in BOOLEAN : DoWork(items, <<w>>, Tail(tasks), ok)
      BY <2>2, <2>8
    <3>2. /\ <<w>> \in Seq(Transfers)
          /\ \A v \in Transfers : Has(<<w>>, v) <=> Has(queue, v) \/ v = w
      <4>1. <<w>> \in Seq(Transfers) /\ \A v : Has(<<w>>, v) <=> v = w
        BY <2>1, HasShort
      <4>2. \A v : ~Has(queue, v)
        BY <2>1, <2>8, HasShort
      <4> QED
        BY <4>1, <4>2
    <3>3. \A v \in Transfers : Placed(items, <<w>>, Tail(tasks), v)
      BY <2>7, <3>2
    <3> QED
      BY <1>1, <1>2, <2>4, <3>1, <3>2, <3>3, DoWorkPlaces
  <2>9. CASE queue # <<>>
    <3>1. item' = items /\ queue' = longer /\ tasks' = Tail(tasks)
      BY <2>2, <2>9
    <3>2. \A v \in Transfers : Has(longer, v) <=> Has(queue, v) \/ v = w
      <4>1. <<w>> \in Seq(Transfers) /\ \A v : Has(<<w>>, v) <=> v = w
        BY <2>1, HasShort
      <4>2. longer = queue \o <<w>>
        BY <1>1, <2>1, AppendIsConcat
      <4> QED
        BY ZenonT(30), <1>1, <4>1, <4>2, HasConcat
    <3> HIDE DEF longer
    <3>3. \A v \in Transfers : Placed(items, longer, Tail(tasks), v)
      BY <2>7, <3>2
    <3> QED
      BY <1>1, <3>1, <3>3 DEF AllPlaced, Placed, Ordered
  <2> QED
    BY <2>8, <2>9
<1>6. CASE /\ Head(tasks).op = "do_work"
           /\ \E ok \in BOOLEAN : DoWork(item, queue, Tail(tasks), ok)
  <2>1. \A v : /\ Head(tasks) # Task("enqueue", v)
               /\ Head(tasks) # Task("register", v)
    BY <1>6 DEF Task
  <2>2. ASSUME NEW v \in Transfers PROVE Placed(item, queue, Tail(tasks), v)
    <3>1. /\ Has(Tail(tasks), Task("register", v)) <=> Has(tasks, Task("register", v))
          /\ Has(Tail(tasks), Task("enqueue", v)) <=> Has(tasks, Task("enqueue", v))
      BY <1>2, <2>1
    <3> QED
      BY <1>3, <3>1 DEF Placed
  <2> QED
    BY <1>1, <1>2, <1>6, <2>2, DoWorkPlaces
<1> QED
  BY <1>4, <1>5, <1>6 DEF RunTask

\* The calls that add no tasks, messages and timeouts leave the places alone.
LEMMA NextPlaces == MissionInv /\ AllPlaced /\ [Next]_vars => AllPlaced'
<1> SUFFICES ASSUME MissionInv, AllPlaced, [Next]_vars PROVE AllPlaced'
  OBVIOUS
<1>1. /\ item \in [Transfers -> Items]
      /\ tasks \in Seq(TaskSet)
      /\ held \in [Transfers -> {"no call", "handle", "locked", "no handle"}]
  BY DEF MissionInv, Sound
<1>2. ASSUME UNCHANGED <<queue, tasks>>,
             \A w \in Transfers : /\ item'[w].registered => item[w].registered
                                  /\ held'[w] = "no call" => held[w] = "no call"
      PROVE  AllPlaced'
  BY <1>2 DEF AllPlaced, Placed, Ordered
<1>3. ASSUME NEW w \in Transfers, TransferItemsAsync(w) PROVE AllPlaced'
  <2>1. CASE intMessages
    BY <1>3, <2>1, AsyncPlaces DEF TransferItemsAsync, CallTasks
  <2>2. CASE ~intMessages
    <3> DEFINE results == <<[result |-> "IntMessagesNotSupported", items |-> <<>>]>>
               new == [item[w] EXCEPT !.callback = FALSE, !.results = results]
    <3>1. item' = [item EXCEPT ![w] = new] /\ held' = [held EXCEPT ![w] = "no handle"]
      BY <1>1, <1>3, <2>2 DEF TransferItemsAsync
    <3> HIDE DEF results
    <3>2. new.registered = item[w].registered
      BY <1>1 DEF Items
    <3> HIDE DEF new
    <3>3. \A v \in Transfers : /\ item'[v].registered = item[v].registered
                               /\ held'[v] = "no call" => held[v] = "no call"
      BY <1>1, <3>1, <3>2
    <3> QED
      BY <1>2, <1>3, <2>2, <3>3 DEF TransferItemsAsync
  <2> QED
    BY <2>1, <2>2
<1>4. ASSUME NEW w \in Transfers, OtherAsync(w) PROVE AllPlaced'
  BY <1>4, AsyncPlaces DEF OtherAsync, CallTasks
<1>5. ASSUME NEW w \in Transfers, Lock(w) PROVE AllPlaced'
  BY <1>1, <1>2, <1>5 DEF Lock
<1>6. ASSUME NEW after \in [Transfers -> Items],
             \A w \in Transfers : Kept(item[w], after[w]),
             item' = after, tasks' = tasks \o Posted(item, after),
             UNCHANGED <<queue, held>>
      PROVE  AllPlaced'
  BY <1>6, PostedIsDoWork, NobodyRegisters DEF Kept
<1>7. ASSUME NEW w \in Transfers, NEW new, Kept(item[w], new),
             item' = [item EXCEPT ![w] = new],
             tasks' = tasks \o Posted(item, item'), UNCHANGED <<queue, held>>
      PROVE  AllPlaced'
  <2>1. /\ item' \in [Transfers -> Items]
        /\ \A v \in Transfers : Kept(item[v], item'[v])
    BY <1>1, <1>7, UntouchedIsKept DEF Kept
  <2> QED
    BY <1>6, <1>7, <2>1
<1>8. ASSUME NEW w \in Transfers, Cancel(w) PROVE AllPlaced'
  <2>1. PICK ok \in BOOLEAN :
           /\ item' = [item EXCEPT ![w] = SendCancelAndFinish(RemoveTimeout(@), ok)]
           /\ tasks' = tasks \o Posted(item, item')
    BY <1>8 DEF Cancel
  <2>2. Kept(item[w], SendCancelAndFinish(RemoveTimeout(item[w]), ok))
    BY <1>1, FinishFacts DEF SendCancelAndFinish, Results, KeptByMessage
  <2> QED
    BY <1>7, <1>8, <2>1, <2>2 DEF Cancel
<1>9. ASSUME NEW w \in Transfers, Unlock(w) PROVE AllPlaced'
  <2> DEFINE stopped == RemoveTimeout(item[w])
             gone == [stopped EXCEPT !.registered = FALSE, !.freed = TRUE]
             new == IF Has(queue, w) \/ Has(tasks, Task("enqueue", w))
                    THEN item[w] ELSE Destroy(item[w])
  <2>1. item' = [item EXCEPT ![w] = new]
    BY <1>9 DEF Unlock, Has
  <2>2. stopped \in Items /\ Destroy(item[w]) = gone
    BY <1>1, TimerFacts DEF Destroy
  <2> HIDE DEF stopped
  <2>3. ~gone.registered
    BY <2>2 DEF Items
  <2> HIDE DEF gone
  <2>4. new.registered => item[w].registered
    BY <2>2, <2>3
  <2> HIDE DEF new
  <2>5. \A v \in Transfers : item'[v].registered => item[v].registered
    BY <1>1, <2>1, <2>4
  <2>6. \A v \in Transfers : held'[v] = "no call" => held[v] = "no call"
    BY <1>1, <1>9 DEF Unlock
  <2> QED
    BY <1>2, <1>9, <2>5, <2>6 DEF Unlock
<1>10. ASSUME NEW w \in Transfers, TimeoutStarts(w) PROVE AllPlaced'
  <2>1. item' = [item EXCEPT ![w] = RemoveTimeout(item[w])]
    BY <1>10 DEF TimeoutStarts
  <2>2. RemoveTimeout(item[w]).registered = item[w].registered
    BY <1>1, TimerFacts DEF Same
  <2>3. \A v \in Transfers : item'[v].registered = item[v].registered
    BY <1>1, <2>1, <2>2
  <2> QED
    BY <1>2, <1>10, <2>3 DEF TimeoutStarts
<1>11. ASSUME NEW w \in Transfers, TimeoutBody(w) PROVE AllPlaced'
  <2>1. PICK ok \in BOOLEAN :
           /\ item' = [item EXCEPT ![w] = IF @.freed THEN @ ELSE ProcessTimeout(w, @, ok)]
           /\ tasks' = tasks \o Posted(item, item')
    BY <1>11 DEF TimeoutBody
  <2> DEFINE new == IF item[w].freed THEN item[w] ELSE ProcessTimeout(w, item[w], ok)
  <2>2. Kept(item[w], new)
    <3>1. Kept(item[w], ProcessTimeout(w, item[w], ok)) /\ Kept(item[w], item[w])
      BY <1>1, ProcessTimeoutFacts, UntouchedIsKept DEF KeptByTimeout
    <3> QED
      BY <3>1
  <2>3. item' = [item EXCEPT ![w] = new]
    BY <2>1
  <2> HIDE DEF new
  <2> QED
    BY <1>7, <1>11, <2>1, <2>2, <2>3 DEF TimeoutBody
<1>12. ASSUME NEW m \in Answers, ReceiveMessage(m) PROVE AllPlaced'
  <2>1. PICK ok \in BOOLEAN :
           /\ item' = [w \in Transfers |-> IF item[w].registered /\ Handles(w, m.id)
                                           THEN ProcessMessage(w, item[w], m, ok)
                                           ELSE item[w]]
           /\ tasks' = tasks \o Posted(item, item')
    BY <1>12 DEF ReceiveMessage
  <2>2. ASSUME NEW w \in Transfers PROVE Kept(item[w], item'[w])
    <3>1. item[w] \in Items /\ m \in Messages
      BY <1>1, AnswersAreMessages
    <3>2. CASE item[w].registered /\ Handles(w, m.id)
      <4>1. Kept(item[w], ProcessMessage(w, item[w], m, ok))
        BY <3>1, <3>2, ProcessMessageFacts
      <4> QED
        BY <2>1, <3>2, <4>1
    <3>3. CASE ~(item[w].registered /\ Handles(w, m.id))
      BY <2>1, <3>1, <3>3, UntouchedIsKept
    <3> QED
      BY <3>2, <3>3
  <2>3. item' \in [Transfers -> Items]
    BY <2>1, <2>2 DEF Kept
  <2> QED
    BY <1>6, <1>12, <2>1, <2>2, <2>3 DEF ReceiveMessage
<1>13. CASE SetIntMessagesSupported \/ UNCHANGED vars
  BY <1>2, <1>13 DEF SetIntMessagesSupported, vars
<1> QED
  BY <1>3, <1>4, <1>5, <1>8, <1>9, <1>10, <1>11, <1>12, <1>13, RunTaskPlaces
     DEF Next, User

\* No transfer has a place at first.
LEMMA InitPlaces == Init => AllPlaced
<1> SUFFICES ASSUME Init, NEW w \in Transfers PROVE Placed(item, queue, tasks, w)
  BY DEF AllPlaced
<1>1. ~item[w].registered /\ queue = <<>> /\ tasks = <<>>
  BY DEF Init, NewItem
<1>2. DOMAIN <<>> = {}
  OBVIOUS
<1>3. \A x : ~Has(<<>>, x)
  BY <1>2 DEF Has
<1> QED
  BY <1>1, <1>2, <1>3 DEF Placed, Ordered

-----------------------------------------------------------------------------

\* What an upload or a download was told is true of what it sent and received.
THEOREM OutcomeInvariance == Spec => [](MissionInv /\ AllHonest)
  BY MissionInvariance, InitIsHonest, NextIsHonest, PTL DEF Spec

\* An upload that ended with success has sent every item of its plan, whatever
\* was requested, repeated or lost.
THEOREM UploadsAreComplete == Spec => []UploadSuccessMeansSent
<1>1. AllHonest => UploadSuccessMeansSent
  BY DEF AllHonest, Honest, UploadHonest, UploadSuccessMeansSent, Told
<1> QED
  BY <1>1, OutcomeInvariance, PTL

\* With one download, late and repeated items are never taken for the one that
\* was asked for.
THEOREM DownloadsAreInOrder == ASSUME OneDownload PROVE Spec => []DownloadInOrder
<1>1. MissionInv /\ AllHonest => DownloadInOrder
  <2> SUFFICES ASSUME AllHonest, NEW w \in Transfers, Kind[w] = "download",
                      NEW i \in DOMAIN item[w].results,
                      item[w].results[i].result = "Success"
               PROVE  EndsInRun(item[w].results[i].items)
    BY DEF DownloadInOrder, EndsInRun
  <2>1. item[w].results[i] \in Told(item[w])
    BY DEF Told
  <2> QED
    BY <2>1 DEF AllHonest, Honest, DownloadHonest
<1> QED
  BY <1>1, OutcomeInvariance, PTL

\* What the message table points to is in the queue or on its way into it: no
\* message is handed to a transfer that was freed.
THEOREM RegisteredAreAlive == Spec => []RegisteredIsAlive
<1>1. Spec => []AllPlaced
  BY MissionInvariance, InitPlaces, NextPlaces, PTL DEF Spec
<1>2. AllPlaced => RegisteredIsAlive
  BY DEF AllPlaced, Placed, RegisteredIsAlive, InQueue, Pending, Has
<1> QED
  BY <1>1, <1>2, PTL

=============================================================================
