------------------------ MODULE PluginLifetimeProofs ------------------------
(***************************************************************************)
(* That a plugin is never called once it is gone, that it is enabled       *)
(* whenever its system is connected, and that the system keeps the         *)
(* contract of PluginContract, for any number of plugins.                  *)
(*                                                                         *)
(* Both threads rely on the order of the posted tasks: what is posted for  *)
(* a plugin fits the phase its owner is in, and nothing of it comes after  *)
(* a task that its owner waits for.                                        *)
(***************************************************************************)
EXTENDS PluginLifetime, TLAPS

Waited == {"erase", "unregister", "drain"}
Early == {"register", "insert", "subscribe", "unsubscribe"}

\* What may be posted for a plugin whose owner is in phase `ph'.
Allowed(ph) ==
    {op \in {"register"} : ph \in {"init", "alive", "erase"}}
       \cup {op \in Early : ph \in {"alive", "erase"}}
       \cup {op \in {"erase"} : ph = "erase"}
       \cup {op \in {"unregister"} : ph = "deinit"}
       \cup {op \in {"drain"} : ph = "drain"}

TasksFit ==
    \A i \in DOMAIN tasks : tasks[i].op \in Allowed(phase[tasks[i].plugin])

WaitedIsLast ==
    \A i, j \in DOMAIN tasks :
       tasks[i].op \in Waited /\ tasks[j].plugin = tasks[i].plugin => j <= i

InsertIsOnce ==
    \A i, j \in DOMAIN tasks :
       tasks[i].op = "insert" /\ tasks[j] = tasks[i] => j = i

TaskInv == TasksFit /\ WaitedIsLast /\ InsertIsOnce

\* A plugin that is not inserted yet was never enabled.
InsertInv ==
    /\ \A i \in DOMAIN tasks : tasks[i].op = "insert" =>
          tasks[i].plugin \notin registry \cup enabled
    /\ \A p \in Plugins : phase[p] \in {"none", "init"} => p \notin registry \cup enabled

\* Who refers to a plugin in which phase.
ReferenceInv == \A p \in Plugins :
    /\ p \in registry => phase[p] \in {"alive", "erase"}
    /\ p \in table => phase[p] \in {"init", "alive", "erase", "disable", "disabling", "deinit"}
    /\ p \in retrying => phase[p] \in {"alive", "erase", "disable"}
    /\ p \in listed => phase[p] \notin {"none", "gone"}

\* What the handler that runs has called or is going to call.
HandlerInv == \A p \in Plugins :
    /\ doing \in {"enable", "disable"} /\ (inside = p \/ p \in rest) => p \in registry
    /\ doing \in {"version", "flight"} /\ (inside = p \/ p \in rest) => p \in table
    /\ doing = "retry" /\ inside = p =>
          phase[p] \in {"alive", "erase", "disable", "disabling"}
    /\ doing = "retry" /\ p \in rest =>
          phase[p] \in {"alive", "erase", "disable", "disabling", "deinit"}
    /\ inside = p => p \notin rest

ToCall(p) == inside = p \/ p \in rest

\* Who is enabled while a handler enables or disables the plugins.
EnabledInv ==
    /\ doing = "enable" => connected
    /\ doing = "disable" => ~connected
    /\ \A p \in registry :
          /\ doing = "enable" => (p \in enabled <=> ~ToCall(p))
          /\ doing = "disable" => (p \in enabled <=> ToCall(p))
          /\ doing \notin {"enable", "disable"} => (p \in enabled <=> connected)

Inv == TypeOK /\ TaskInv /\ InsertInv /\ ReferenceInv /\ HandlerInv /\ EnabledInv

-----------------------------------------------------------------------------
\* Posting appends one task.
LEMMA PostFacts ==
    ASSUME NEW s \in Seq(Tasks), NEW t \in Tasks
    PROVE  /\ Append(s, t) \in Seq(Tasks)
           /\ DOMAIN Append(s, t) = DOMAIN s \cup {Len(s) + 1}
           /\ \A i \in DOMAIN s : Append(s, t)[i] = s[i] /\ i \in Nat /\ i <= Len(s)
           /\ Append(s, t)[Len(s) + 1] = t
           /\ Len(s) \in Nat
<1>1. Append(s, t) \in Seq(Tasks) /\ Len(s) \in Nat
  OBVIOUS
<1>2. DOMAIN s = 1..Len(s) /\ DOMAIN Append(s, t) = 1..(Len(s) + 1)
  OBVIOUS
<1> QED BY <1>1, <1>2

\* Running a task moves the others forward.
LEMMA TailFacts ==
    ASSUME NEW s \in Seq(Tasks), s # <<>>
    PROVE  /\ Tail(s) \in Seq(Tasks)
           /\ Head(s) \in Tasks /\ Head(s) = s[1] /\ 1 \in DOMAIN s
           /\ \A i \in DOMAIN Tail(s) :
                 i \in Nat /\ i >= 1 /\ i + 1 \in DOMAIN s /\ Tail(s)[i] = s[i + 1]
<1>1. Tail(s) \in Seq(Tasks) /\ Head(s) \in Tasks /\ Head(s) = s[1]
  OBVIOUS
<1>2. Len(s) \in Nat /\ Len(s) >= 1 /\ DOMAIN s = 1..Len(s)
  OBVIOUS
<1>3. DOMAIN Tail(s) = 1..(Len(s) - 1)
  BY <1>2
<1>4. \A i \in DOMAIN Tail(s) : Tail(s)[i] = s[i + 1]
  BY <1>3
<1> QED BY <1>1, <1>2, <1>3, <1>4

\* A posted task is about a plugin.
LEMMA TaskFacts ==
    ASSUME NEW s \in Seq(Tasks), NEW i \in DOMAIN s
    PROVE  s[i] \in Tasks /\ s[i].plugin \in Plugins
<1>1. s[i] \in Tasks
  OBVIOUS
<1> QED BY <1>1 DEF Tasks

\* The owner of p posts `op' and enters the phase `next'.
LEMMA PostKeepsTasks ==
    ASSUME TypeOK, TaskInv, NEW p \in Plugins, NEW op, NEW next,
           Task(op, p) \in Tasks,
           Allowed(phase[p]) \cap Waited = {},
           Allowed(phase[p]) \cup {op} \subseteq Allowed(next),
           op = "insert" => "insert" \notin Allowed(phase[p]),
           Post(op, p),
           phase' = [phase EXCEPT ![p] = next]
    PROVE  TaskInv' /\ tasks' \in Seq(Tasks)
<1> DEFINE t == Task(op, p)
           n == Len(tasks) + 1
<1>1. /\ tasks' \in Seq(Tasks)
      /\ DOMAIN tasks' = DOMAIN tasks \cup {n}
      /\ \A i \in DOMAIN tasks : tasks'[i] = tasks[i] /\ i \in Nat /\ i < n /\ i <= n
      /\ tasks'[n] = t /\ n \in Nat
  BY PostFacts DEF TypeOK, Post
<1>2. t.op = op /\ t.plugin = p
  BY DEF Task
<1>3. \A q : q \in Plugins => phase'[q] = IF q = p THEN next ELSE phase[q]
  BY DEF TypeOK
<1>4. \A i \in DOMAIN tasks : tasks[i].plugin \in Plugins
  BY TaskFacts DEF TypeOK
<1>5. \A i \in DOMAIN tasks : tasks[i].plugin = p => tasks[i].op \notin Waited
  BY DEF TaskInv, TasksFit
<1> HIDE DEF t, n
<1>6. TasksFit'
  <2> SUFFICES ASSUME NEW i \in DOMAIN tasks'
               PROVE  tasks'[i].op \in Allowed(phase'[tasks'[i].plugin])
    BY DEF TasksFit
  <2>1. CASE i = n
    BY <2>1, <1>1, <1>2, <1>3
  <2>2. CASE i \in DOMAIN tasks
    BY <2>2, <1>1, <1>3, <1>4 DEF TaskInv, TasksFit
  <2> QED BY <2>1, <2>2, <1>1
<1>7. WaitedIsLast'
  <2> SUFFICES ASSUME NEW i \in DOMAIN tasks', NEW j \in DOMAIN tasks',
                      tasks'[i].op \in Waited, tasks'[j].plugin = tasks'[i].plugin
               PROVE  j <= i
    BY DEF WaitedIsLast
  <2>1. CASE i = n
    BY <2>1, <1>1
  <2>2. CASE i \in DOMAIN tasks /\ j \in DOMAIN tasks
    BY <2>2, <1>1 DEF TaskInv, WaitedIsLast
  <2>3. CASE i \in DOMAIN tasks /\ j = n
    BY <2>3, <1>1, <1>2, <1>5
  <2> QED BY <2>1, <2>2, <2>3, <1>1
<1>8. InsertIsOnce'
  <2> SUFFICES ASSUME NEW i \in DOMAIN tasks', NEW j \in DOMAIN tasks',
                      tasks'[i].op = "insert", tasks'[j] = tasks'[i]
               PROVE  j = i
    BY DEF InsertIsOnce
  <2>1. CASE i \in DOMAIN tasks /\ j \in DOMAIN tasks
    BY <2>1, <1>1 DEF TaskInv, InsertIsOnce
  <2>2. CASE i = n /\ j \in DOMAIN tasks
    <3>1. tasks[j] = t /\ op = "insert"
      BY <2>2, <1>1, <1>2
    <3>2. tasks[j].op \in Allowed(phase[tasks[j].plugin])
      BY <2>2 DEF TaskInv, TasksFit
    <3> QED BY <3>1, <3>2, <1>2
  <2>3. CASE i \in DOMAIN tasks /\ j = n
    <3>1. tasks[i] = t /\ op = "insert"
      BY <2>3, <1>1, <1>2
    <3>2. tasks[i].op \in Allowed(phase[tasks[i].plugin])
      BY <2>3 DEF TaskInv, TasksFit
    <3> QED BY <3>1, <3>2, <1>2
  <2> QED BY <2>1, <2>2, <2>3, <1>1
<1> QED BY <1>1, <1>6, <1>7, <1>8 DEF TaskInv

\* The io thread runs the first task.  A phase that a waited task ends has no
\* other task.
LEMMA RunKeepsTasks ==
    ASSUME TypeOK, TaskInv, tasks # <<>>, tasks' = Tail(tasks), NEW next,
           \/ phase' = phase
           \/ /\ Head(tasks).op \in Waited
              /\ phase' = [phase EXCEPT ![Head(tasks).plugin] = next]
    PROVE  /\ TaskInv' /\ tasks' \in Seq(Tasks)
           /\ Head(tasks) \in Tasks /\ Head(tasks).op \in Allowed(phase[Head(tasks).plugin])
           /\ Head(tasks).op = "insert" =>
                 \A i \in DOMAIN tasks' : tasks'[i] # Head(tasks)
           /\ \A i \in DOMAIN tasks' : \E j \in DOMAIN tasks : tasks'[i] = tasks[j]
           /\ Head(tasks).op \in Waited =>
                 \A i \in DOMAIN tasks' : tasks'[i].plugin # Head(tasks).plugin
<1>1. /\ tasks' \in Seq(Tasks)
      /\ Head(tasks) \in Tasks /\ Head(tasks) = tasks[1] /\ 1 \in DOMAIN tasks
      /\ \A i \in DOMAIN tasks' :
            i \in Nat /\ i >= 1 /\ i + 1 \in DOMAIN tasks /\ tasks'[i] = tasks[i + 1]
  BY TailFacts DEF TypeOK
<1>2. Head(tasks).op \in Allowed(phase[Head(tasks).plugin])
  BY <1>1 DEF TaskInv, TasksFit
<1>3. Head(tasks).op \in Waited =>
         \A i \in DOMAIN tasks' : tasks'[i].plugin # Head(tasks).plugin
  <2> SUFFICES ASSUME Head(tasks).op \in Waited, NEW i \in DOMAIN tasks',
                      tasks'[i].plugin = Head(tasks).plugin
               PROVE  FALSE
    OBVIOUS
  <2>1. i + 1 <= 1
    BY <1>1 DEF TaskInv, WaitedIsLast
  <2> QED BY <2>1, <1>1
<1>4. Head(tasks).op = "insert" => \A i \in DOMAIN tasks' : tasks'[i] # Head(tasks)
  <2> SUFFICES ASSUME Head(tasks).op = "insert", NEW i \in DOMAIN tasks',
                      tasks'[i] = Head(tasks)
               PROVE  FALSE
    OBVIOUS
  <2>1. i + 1 = 1
    BY <1>1 DEF TaskInv, InsertIsOnce
  <2> QED BY <2>1, <1>1
<1>5. \A i \in DOMAIN tasks' : phase'[tasks'[i].plugin] = phase[tasks'[i].plugin]
  <2> SUFFICES ASSUME NEW i \in DOMAIN tasks'
               PROVE  phase'[tasks'[i].plugin] = phase[tasks'[i].plugin]
    OBVIOUS
  <2>1. tasks'[i].plugin \in Plugins /\ phase \in [Plugins -> Phases]
    BY <1>1, TaskFacts DEF TypeOK
  <2> QED BY <2>1, <1>3
<1>6. TasksFit'
  BY <1>1, <1>5 DEF TaskInv, TasksFit
<1>7. WaitedIsLast'
  <2> SUFFICES ASSUME NEW i \in DOMAIN tasks', NEW j \in DOMAIN tasks',
                      tasks'[i].op \in Waited, tasks'[j].plugin = tasks'[i].plugin
               PROVE  j <= i
    BY DEF WaitedIsLast
  <2>1. j + 1 <= i + 1
    BY <1>1 DEF TaskInv, WaitedIsLast
  <2> QED BY <2>1, <1>1
<1>8. InsertIsOnce'
  <2> SUFFICES ASSUME NEW i \in DOMAIN tasks', NEW j \in DOMAIN tasks',
                      tasks'[i].op = "insert", tasks'[j] = tasks'[i]
               PROVE  j = i
    BY DEF InsertIsOnce
  <2>1. j + 1 = i + 1
    BY <1>1 DEF TaskInv, InsertIsOnce
  <2> QED BY <2>1, <1>1
<1>9. \A i \in DOMAIN tasks' : \E j \in DOMAIN tasks : tasks'[i] = tasks[j]
  BY <1>1
<1> QED BY <1>1, <1>2, <1>3, <1>4, <1>6, <1>7, <1>8, <1>9 DEF TaskInv

-----------------------------------------------------------------------------
\* The owner posts a task and goes on to the next phase.
LEMMA ConstructKeeps ==
    ASSUME Inv, NEW p \in Plugins, Construct(p)
    PROVE  Inv'
<1>1. /\ phase[p] = "none" /\ phase' = [phase EXCEPT ![p] = "init"]
      /\ UNCHANGED <<connected, registry, table, retrying, listed, doing, inside,
                     rest, subscribed, enabled>>
      /\ Post("register", p)
  BY DEF Construct, ioVars, Enter
<1>2. TaskInv' /\ tasks' \in Seq(Tasks)
  <2>1. /\ Allowed(phase[p]) \cap Waited = {}
        /\ Allowed(phase[p]) \cup {"register"} \subseteq Allowed("init")
        /\ "register" = "insert" => "insert" \notin Allowed(phase[p])
    BY <1>1 DEF Allowed, Waited, Early
  <2>2. Task("register", p) \in Tasks
    BY DEF Task, Tasks
  <2> QED BY <1>1, <2>1, <2>2, PostKeepsTasks DEF Inv
<1>3. \A q \in Plugins : phase'[q] = IF q = p THEN "init" ELSE phase[q]
  BY <1>1 DEF Inv, TypeOK
<1>4. TypeOK'
  BY <1>1, <1>2 DEF Inv, TypeOK, Phases
<1>5. InsertInv'
  <2>1. /\ \A i \in DOMAIN tasks' :
             \/ \E j \in DOMAIN tasks : tasks'[i] = tasks[j]
             \/ tasks'[i] = Task("register", p)
    <3>1. Task("register", p) \in Tasks
      BY DEF Task, Tasks
    <3> QED BY <3>1, <1>1, PostFacts DEF Post, Inv, TypeOK
  <2>2. Task("register", p).op = "register" /\ Task("register", p).plugin = p
    BY DEF Task
  <2> QED BY <1>1, <1>3, <2>1, <2>2 DEF Inv, InsertInv
<1>6. ReferenceInv'
  BY <1>1, <1>3 DEF Inv, ReferenceInv
<1>7. HandlerInv'
  BY <1>1, <1>3 DEF Inv, HandlerInv
<1>8. EnabledInv'
  BY <1>1 DEF Inv, EnabledInv, ToCall
<1> QED BY <1>2, <1>4, <1>5, <1>6, <1>7, <1>8 DEF Inv

LEMMA RegisterPluginKeeps ==
    ASSUME Inv, NEW p \in Plugins, RegisterPlugin(p)
    PROVE  Inv'
<1>1. /\ phase[p] = "init" /\ phase' = [phase EXCEPT ![p] = "alive"]
      /\ UNCHANGED <<connected, registry, table, retrying, listed, doing, inside,
                     rest, subscribed, enabled>>
      /\ Post("insert", p)
  BY DEF RegisterPlugin, ioVars, Enter
<1>2. TaskInv' /\ tasks' \in Seq(Tasks)
  <2>1. /\ Allowed(phase[p]) \cap Waited = {}
        /\ Allowed(phase[p]) \cup {"insert"} \subseteq Allowed("alive")
        /\ "insert" = "insert" => "insert" \notin Allowed(phase[p])
    BY <1>1 DEF Allowed, Waited, Early
  <2>2. Task("insert", p) \in Tasks
    BY DEF Task, Tasks
  <2> QED BY <1>1, <2>1, <2>2, PostKeepsTasks DEF Inv
<1>3. \A q \in Plugins : phase'[q] = IF q = p THEN "alive" ELSE phase[q]
  BY <1>1 DEF Inv, TypeOK
<1>4. TypeOK'
  BY <1>1, <1>2 DEF Inv, TypeOK, Phases
<1>5. InsertInv'
  <2>1. /\ \A i \in DOMAIN tasks' :
             \/ \E j \in DOMAIN tasks : tasks'[i] = tasks[j]
             \/ tasks'[i] = Task("insert", p)
    <3>1. Task("insert", p) \in Tasks
      BY DEF Task, Tasks
    <3> QED BY <3>1, <1>1, PostFacts DEF Post, Inv, TypeOK
  <2>2. Task("insert", p).op = "insert" /\ Task("insert", p).plugin = p
    BY DEF Task
  <2> QED BY <1>1, <1>3, <2>1, <2>2 DEF Inv, InsertInv
<1>6. ReferenceInv'
  BY <1>1, <1>3 DEF Inv, ReferenceInv
<1>7. HandlerInv'
  BY <1>1, <1>3 DEF Inv, HandlerInv
<1>8. EnabledInv'
  BY <1>1 DEF Inv, EnabledInv, ToCall
<1> QED BY <1>2, <1>4, <1>5, <1>6, <1>7, <1>8 DEF Inv

LEMMA UnregisterPluginKeeps ==
    ASSUME Inv, NEW p \in Plugins, UnregisterPlugin(p)
    PROVE  Inv'
<1>1. /\ phase[p] = "alive" /\ phase' = [phase EXCEPT ![p] = "erase"]
      /\ UNCHANGED <<connected, registry, table, retrying, listed, doing, inside,
                     rest, subscribed, enabled>>
      /\ Post("erase", p)
  BY DEF UnregisterPlugin, ioVars, Enter
<1>2. TaskInv' /\ tasks' \in Seq(Tasks)
  <2>1. /\ Allowed(phase[p]) \cap Waited = {}
        /\ Allowed(phase[p]) \cup {"erase"} \subseteq Allowed("erase")
        /\ "erase" = "insert" => "insert" \notin Allowed(phase[p])
    BY <1>1 DEF Allowed, Waited, Early
  <2>2. Task("erase", p) \in Tasks
    BY DEF Task, Tasks
  <2> QED BY <1>1, <2>1, <2>2, PostKeepsTasks DEF Inv
<1>3. \A q \in Plugins : phase'[q] = IF q = p THEN "erase" ELSE phase[q]
  BY <1>1 DEF Inv, TypeOK
<1>4. TypeOK'
  BY <1>1, <1>2 DEF Inv, TypeOK, Phases
<1>5. InsertInv'
  <2>1. /\ \A i \in DOMAIN tasks' :
             \/ \E j \in DOMAIN tasks : tasks'[i] = tasks[j]
             \/ tasks'[i] = Task("erase", p)
    <3>1. Task("erase", p) \in Tasks
      BY DEF Task, Tasks
    <3> QED BY <3>1, <1>1, PostFacts DEF Post, Inv, TypeOK
  <2>2. Task("erase", p).op = "erase" /\ Task("erase", p).plugin = p
    BY DEF Task
  <2> QED BY <1>1, <1>3, <2>1, <2>2 DEF Inv, InsertInv
<1>6. ReferenceInv'
  BY <1>1, <1>3 DEF Inv, ReferenceInv
<1>7. HandlerInv'
  BY <1>1, <1>3 DEF Inv, HandlerInv
<1>8. EnabledInv'
  BY <1>1 DEF Inv, EnabledInv, ToCall
<1> QED BY <1>2, <1>4, <1>5, <1>6, <1>7, <1>8 DEF Inv

\* When the repeated call is not running, the owner goes on to deinit().
LEMMA DeinitKeeps ==
    ASSUME Inv, NEW p \in Plugins, Deinit(p)
    PROVE  Inv'
<1>1. /\ phase[p] = "disabling" /\ phase' = [phase EXCEPT ![p] = "deinit"]
      /\ UNCHANGED <<connected, registry, table, retrying, listed, doing, inside,
                     rest, subscribed, enabled>>
      /\ Post("unregister", p)
      /\ ~(doing = "retry" /\ inside = p)
  BY DEF Deinit, ioVars, Enter
<1>2. TaskInv' /\ tasks' \in Seq(Tasks)
  <2>1. /\ Allowed(phase[p]) \cap Waited = {}
        /\ Allowed(phase[p]) \cup {"unregister"} \subseteq Allowed("deinit")
        /\ "unregister" = "insert" => "insert" \notin Allowed(phase[p])
    BY <1>1 DEF Allowed, Waited, Early
  <2>2. Task("unregister", p) \in Tasks
    BY DEF Task, Tasks
  <2> QED BY <1>1, <2>1, <2>2, PostKeepsTasks DEF Inv
<1>3. \A q \in Plugins : phase'[q] = IF q = p THEN "deinit" ELSE phase[q]
  BY <1>1 DEF Inv, TypeOK
<1>4. TypeOK'
  BY <1>1, <1>2 DEF Inv, TypeOK, Phases
<1>5. InsertInv'
  <2>1. /\ \A i \in DOMAIN tasks' :
             \/ \E j \in DOMAIN tasks : tasks'[i] = tasks[j]
             \/ tasks'[i] = Task("unregister", p)
    <3>1. Task("unregister", p) \in Tasks
      BY DEF Task, Tasks
    <3> QED BY <3>1, <1>1, PostFacts DEF Post, Inv, TypeOK
  <2>2. Task("unregister", p).op = "unregister" /\ Task("unregister", p).plugin = p
    BY DEF Task
  <2> QED BY <1>1, <1>3, <2>1, <2>2 DEF Inv, InsertInv
<1>6. ReferenceInv'
  BY <1>1, <1>3 DEF Inv, ReferenceInv
<1>7. HandlerInv'
  BY <1>1, <1>3 DEF Inv, HandlerInv
<1>8. EnabledInv'
  BY <1>1 DEF Inv, EnabledInv, ToCall
<1> QED BY <1>2, <1>4, <1>5, <1>6, <1>7, <1>8 DEF Inv

LEMMA DestroyMembersKeeps ==
    ASSUME Inv, NEW p \in Plugins, DestroyMembers(p)
    PROVE  Inv'
<1>1. /\ phase[p] = "destruct" /\ phase' = [phase EXCEPT ![p] = "drain"]
      /\ UNCHANGED <<connected, registry, table, retrying, listed, doing, inside,
                     rest, subscribed, enabled>>
      /\ Post("drain", p)
  BY DEF DestroyMembers, ioVars, Enter
<1>2. TaskInv' /\ tasks' \in Seq(Tasks)
  <2>1. /\ Allowed(phase[p]) \cap Waited = {}
        /\ Allowed(phase[p]) \cup {"drain"} \subseteq Allowed("drain")
        /\ "drain" = "insert" => "insert" \notin Allowed(phase[p])
    BY <1>1 DEF Allowed, Waited, Early
  <2>2. Task("drain", p) \in Tasks
    BY DEF Task, Tasks
  <2> QED BY <1>1, <2>1, <2>2, PostKeepsTasks DEF Inv
<1>3. \A q \in Plugins : phase'[q] = IF q = p THEN "drain" ELSE phase[q]
  BY <1>1 DEF Inv, TypeOK
<1>4. TypeOK'
  BY <1>1, <1>2 DEF Inv, TypeOK, Phases
<1>5. InsertInv'
  <2>1. /\ \A i \in DOMAIN tasks' :
             \/ \E j \in DOMAIN tasks : tasks'[i] = tasks[j]
             \/ tasks'[i] = Task("drain", p)
    <3>1. Task("drain", p) \in Tasks
      BY DEF Task, Tasks
    <3> QED BY <3>1, <1>1, PostFacts DEF Post, Inv, TypeOK
  <2>2. Task("drain", p).op = "drain" /\ Task("drain", p).plugin = p
    BY DEF Task
  <2> QED BY <1>1, <1>3, <2>1, <2>2 DEF Inv, InsertInv
<1>6. ReferenceInv'
  BY <1>1, <1>3 DEF Inv, ReferenceInv
<1>7. HandlerInv'
  BY <1>1, <1>3 DEF Inv, HandlerInv
<1>8. EnabledInv'
  BY <1>1 DEF Inv, EnabledInv, ToCall
<1> QED BY <1>2, <1>4, <1>5, <1>6, <1>7, <1>8 DEF Inv

LEMMA SubscribeKeeps ==
    ASSUME Inv, NEW p \in Plugins, Subscribe(p)
    PROVE  Inv'
<1>1. /\ phase[p] = "alive" /\ UNCHANGED phase /\ subscribed' \subseteq Plugins
      /\ UNCHANGED <<connected, registry, table, retrying, listed, doing, inside,
                     rest, enabled>>
      /\ Post("subscribe", p)
  BY DEF Subscribe, ioVars, Inv, TypeOK
<1>2. TaskInv' /\ tasks' \in Seq(Tasks)
  <2>1. /\ Allowed(phase[p]) \cap Waited = {}
        /\ Allowed(phase[p]) \cup {"subscribe"} \subseteq Allowed("alive")
        /\ "subscribe" = "insert" => "insert" \notin Allowed(phase[p])
    BY <1>1 DEF Allowed, Waited, Early
  <2>2. Task("subscribe", p) \in Tasks
    BY DEF Task, Tasks
  <2>3. phase' = [phase EXCEPT ![p] = "alive"]
    BY <1>1 DEF Inv, TypeOK
  <2> QED BY <1>1, <2>1, <2>2, <2>3, PostKeepsTasks DEF Inv
<1>3. TypeOK'
  BY <1>1, <1>2 DEF Inv, TypeOK
<1>4. InsertInv'
  <2>1. /\ \A i \in DOMAIN tasks' :
             \/ \E j \in DOMAIN tasks : tasks'[i] = tasks[j]
             \/ tasks'[i] = Task("subscribe", p)
    <3>1. Task("subscribe", p) \in Tasks
      BY DEF Task, Tasks
    <3> QED BY <3>1, <1>1, PostFacts DEF Post, Inv, TypeOK
  <2>2. Task("subscribe", p).op = "subscribe"
    BY DEF Task
  <2> QED BY <1>1, <2>1, <2>2 DEF Inv, InsertInv
<1>5. ReferenceInv' /\ HandlerInv' /\ EnabledInv'
  BY <1>1 DEF Inv, ReferenceInv, HandlerInv, EnabledInv, ToCall
<1> QED BY <1>2, <1>3, <1>4, <1>5 DEF Inv

LEMMA UnsubscribeKeeps ==
    ASSUME Inv, NEW p \in Plugins, Unsubscribe(p)
    PROVE  Inv'
<1>1. /\ phase[p] = "alive" /\ UNCHANGED phase /\ subscribed' \subseteq Plugins
      /\ UNCHANGED <<connected, registry, table, retrying, listed, doing, inside,
                     rest, enabled>>
      /\ Post("unsubscribe", p)
  BY DEF Unsubscribe, ioVars, Inv, TypeOK
<1>2. TaskInv' /\ tasks' \in Seq(Tasks)
  <2>1. /\ Allowed(phase[p]) \cap Waited = {}
        /\ Allowed(phase[p]) \cup {"unsubscribe"} \subseteq Allowed("alive")
        /\ "unsubscribe" = "insert" => "insert" \notin Allowed(phase[p])
    BY <1>1 DEF Allowed, Waited, Early
  <2>2. Task("unsubscribe", p) \in Tasks
    BY DEF Task, Tasks
  <2>3. phase' = [phase EXCEPT ![p] = "alive"]
    BY <1>1 DEF Inv, TypeOK
  <2> QED BY <1>1, <2>1, <2>2, <2>3, PostKeepsTasks DEF Inv
<1>3. TypeOK'
  BY <1>1, <1>2 DEF Inv, TypeOK
<1>4. InsertInv'
  <2>1. /\ \A i \in DOMAIN tasks' :
             \/ \E j \in DOMAIN tasks : tasks'[i] = tasks[j]
             \/ tasks'[i] = Task("unsubscribe", p)
    <3>1. Task("unsubscribe", p) \in Tasks
      BY DEF Task, Tasks
    <3> QED BY <3>1, <1>1, PostFacts DEF Post, Inv, TypeOK
  <2>2. Task("unsubscribe", p).op = "unsubscribe"
    BY DEF Task
  <2> QED BY <1>1, <2>1, <2>2 DEF Inv, InsertInv
<1>5. ReferenceInv' /\ HandlerInv' /\ EnabledInv'
  BY <1>1 DEF Inv, ReferenceInv, HandlerInv, EnabledInv, ToCall
<1> QED BY <1>2, <1>3, <1>4, <1>5 DEF Inv

LEMMA DisableKeeps ==
    ASSUME Inv, NEW p \in Plugins, Disable(p)
    PROVE  Inv'
<1>1. /\ phase[p] = "disable" /\ phase' = [phase EXCEPT ![p] = "disabling"]
      /\ retrying' = retrying \ {p}
      /\ UNCHANGED <<connected, registry, table, listed, doing, inside, tasks,
                     rest, subscribed, enabled>>
  BY DEF Disable, ioVars, Enter
<1>2. \A q \in Plugins : phase'[q] = IF q = p THEN "disabling" ELSE phase[q]
  BY <1>1 DEF Inv, TypeOK
<1>3. TypeOK'
  BY <1>1 DEF Inv, TypeOK, Phases
<1>4. TaskInv'
  <2>1. Allowed("disable") = {} /\ Allowed("disabling") = {}
    BY DEF Allowed
  <2>2. \A i \in DOMAIN tasks : tasks[i].plugin \in Plugins
    BY TaskFacts DEF Inv, TypeOK
  <2>3. TasksFit'
    BY <1>1, <1>2, <2>1, <2>2 DEF Inv, TaskInv, TasksFit
  <2> QED BY <1>1, <2>3 DEF Inv, TaskInv, WaitedIsLast, InsertIsOnce
<1>5. InsertInv' /\ EnabledInv'
  BY <1>1, <1>2 DEF Inv, InsertInv, EnabledInv, ToCall
<1>6. ReferenceInv' /\ HandlerInv'
  BY <1>1, <1>2 DEF Inv, ReferenceInv, HandlerInv
<1> QED BY <1>3, <1>4, <1>5, <1>6 DEF Inv

-----------------------------------------------------------------------------
\* Whoever runs the next task, the plugin it is about is in a phase that fits.
LEMMA RunTaskKeeps ==
    ASSUME Inv, RunTask
    PROVE  Inv'
<1> DEFINE p == Head(tasks).plugin
           op == Head(tasks).op
<1>1. /\ doing = "idle" /\ tasks # <<>> /\ tasks' = Tail(tasks)
      /\ UNCHANGED <<connected, retrying, subscribed, enabled>>
      /\ inside = None /\ rest = {}
  BY DEF RunTask, Inv, TypeOK
<1>2. /\ p \in Plugins /\ op \in Allowed(phase[p])
      /\ \A q \in Plugins : inside # q /\ q \notin rest
  <2>1. Head(tasks) = tasks[1] /\ 1 \in DOMAIN tasks
    BY <1>1, TailFacts DEF Inv, TypeOK
  <2>2. p \in Plugins
    BY <2>1, TaskFacts DEF Inv, TypeOK
  <2>3. op \in Allowed(phase[p])
    BY <2>1 DEF Inv, TaskInv, TasksFit
  <2> QED BY <1>1, <2>2, <2>3, PluginAssumption
<1>3. \A i \in DOMAIN tasks' : \E j \in DOMAIN tasks : tasks'[i] = tasks[j]
  <2>1. \A i \in DOMAIN Tail(tasks) :
           i + 1 \in DOMAIN tasks /\ Tail(tasks)[i] = tasks[i + 1]
    BY <1>1, TailFacts DEF Inv, TypeOK
  <2> QED BY <1>1, <2>1
<1> HIDE DEF p, op
<1>4. ASSUME phase' = phase
      PROVE  /\ TaskInv' /\ tasks' \in Seq(Tasks)
             /\ op = "insert" => \A i \in DOMAIN tasks' : tasks'[i] # Head(tasks)
  BY <1>1, <1>4, RunKeepsTasks DEF Inv, op
<1>5. ASSUME NEW next, op \in Waited, phase' = [phase EXCEPT ![p] = next]
      PROVE  /\ TaskInv' /\ tasks' \in Seq(Tasks)
             /\ \A q \in Plugins : phase'[q] = IF q = p THEN next ELSE phase[q]
  <2>1. TaskInv' /\ tasks' \in Seq(Tasks)
    BY <1>1, <1>5, RunKeepsTasks DEF Inv, op, p
  <2> QED BY <1>5, <2>1 DEF Inv, TypeOK
<1>6. CASE op = "register" /\ ChangeTable(p)
  <2>1. /\ table' = table \cup {p}
        /\ UNCHANGED <<registry, listed, doing, inside, rest, phase>>
        /\ phase[p] \in {"init", "alive", "erase"}
    BY <1>2, <1>6 DEF ChangeTable, ioVars, Allowed, Early
  <2>2. TaskInv' /\ TypeOK'
    BY <1>1, <1>2, <1>4, <2>1 DEF Inv, TypeOK
  <2>3. InsertInv' /\ EnabledInv'
    BY <1>1, <1>3, <2>1 DEF Inv, InsertInv, EnabledInv, ToCall
  <2>4. ReferenceInv' /\ HandlerInv'
    BY <1>1, <2>1 DEF Inv, ReferenceInv, HandlerInv
  <2> QED BY <2>2, <2>3, <2>4 DEF Inv
<1>7. CASE op = "insert" /\ Insert(p)
  <2>1. /\ registry' = registry \cup {p}
        /\ UNCHANGED <<table, listed, phase>>
        /\ phase[p] \in {"alive", "erase"}
    BY <1>2, <1>7 DEF Insert, Allowed, Early
  <2>2. /\ doing' = IF connected THEN "enable" ELSE "idle"
        /\ rest' = IF connected THEN {p} ELSE {}
        /\ inside' = None
    BY <1>7 DEF Insert, Call
  <2>3. TaskInv' /\ TypeOK'
    BY <1>1, <1>2, <1>4, <2>1, <2>2 DEF Inv, TypeOK, Handlers
  <2>4. p \notin registry \cup enabled
    <3>1. Head(tasks) = tasks[1] /\ 1 \in DOMAIN tasks
      BY <1>1, TailFacts DEF Inv, TypeOK
    <3> QED BY <3>1, <1>7 DEF Inv, InsertInv, op, p
  <2>5. \A i \in DOMAIN tasks' : tasks'[i].op = "insert" => tasks'[i].plugin # p
    <3> SUFFICES ASSUME NEW i \in DOMAIN tasks', tasks'[i].op = "insert",
                        tasks'[i].plugin = p
                 PROVE  FALSE
      OBVIOUS
    <3>1. tasks'[i] \in Tasks /\ Head(tasks) \in Tasks
      BY <1>1, <2>3, TaskFacts, TailFacts DEF Inv, TypeOK
    <3>2. tasks'[i] = Head(tasks)
      BY <3>1, <1>7 DEF Tasks, op, p
    <3> QED BY <3>2, <1>4, <1>7, <2>1
  <2>6. InsertInv'
    BY <1>1, <1>3, <2>1, <2>5 DEF Inv, InsertInv
  <2>7. EnabledInv'
    BY <1>1, <1>2, <2>1, <2>2, <2>4, PluginAssumption DEF Inv, EnabledInv, ToCall, TypeOK
  <2>8. ReferenceInv' /\ HandlerInv'
    BY <1>1, <1>2, <2>1, <2>2, PluginAssumption DEF Inv, ReferenceInv, HandlerInv
  <2> QED BY <2>3, <2>6, <2>7, <2>8 DEF Inv
<1>8. CASE op = "erase" /\ Erase(p)
  <2>1. /\ registry' = registry \ {p}
        /\ UNCHANGED <<table, listed, doing, inside, rest>>
        /\ phase' = [phase EXCEPT ![p] = "disable"]
        /\ phase[p] = "erase" /\ op \in Waited
    BY <1>2, <1>8 DEF Erase, Enter, ioVars, Allowed, Early, Waited
  <2>2. TaskInv' /\ TypeOK'
    BY <1>1, <1>2, <1>5, <2>1 DEF Inv, TypeOK, Phases
  <2>3. \A q \in Plugins : phase'[q] = IF q = p THEN "disable" ELSE phase[q]
    BY <1>5, <2>1
  <2>4. InsertInv' /\ EnabledInv'
    BY <1>1, <1>3, <2>1, <2>3 DEF Inv, InsertInv, EnabledInv, ToCall
  <2>5. ReferenceInv' /\ HandlerInv'
    BY <1>1, <1>2, <2>1, <2>3 DEF Inv, ReferenceInv, HandlerInv
  <2> QED BY <2>2, <2>4, <2>5 DEF Inv
<1>9. CASE op = "unregister" /\ UnregisterAll(p)
  <2>1. /\ table' = table \ {p}
        /\ UNCHANGED <<registry, listed, doing, inside, rest>>
        /\ phase' = [phase EXCEPT ![p] = "destruct"]
        /\ phase[p] = "deinit" /\ op \in Waited
    BY <1>2, <1>9 DEF UnregisterAll, Enter, ioVars, Allowed, Early, Waited
  <2>2. TaskInv' /\ TypeOK'
    BY <1>1, <1>2, <1>5, <2>1 DEF Inv, TypeOK, Phases
  <2>3. \A q \in Plugins : phase'[q] = IF q = p THEN "destruct" ELSE phase[q]
    BY <1>5, <2>1
  <2>4. InsertInv' /\ EnabledInv'
    BY <1>1, <1>3, <2>1, <2>3 DEF Inv, InsertInv, EnabledInv, ToCall
  <2>5. ReferenceInv' /\ HandlerInv'
    BY <1>1, <1>2, <2>1, <2>3 DEF Inv, ReferenceInv, HandlerInv
  <2> QED BY <2>2, <2>4, <2>5 DEF Inv
<1>10. CASE op = "drain" /\ Drained(p)
  <2>1. /\ listed' = listed \ {p}
        /\ UNCHANGED <<registry, table, doing, inside, rest>>
        /\ phase' = [phase EXCEPT ![p] = "gone"]
        /\ phase[p] = "drain" /\ op \in Waited
    BY <1>2, <1>10 DEF Drained, Enter, ioVars, Allowed, Early, Waited
  <2>2. TaskInv' /\ TypeOK'
    BY <1>1, <1>2, <1>5, <2>1 DEF Inv, TypeOK, Phases
  <2>3. \A q \in Plugins : phase'[q] = IF q = p THEN "gone" ELSE phase[q]
    BY <1>5, <2>1
  <2>4. InsertInv' /\ EnabledInv'
    BY <1>1, <1>3, <2>1, <2>3 DEF Inv, InsertInv, EnabledInv, ToCall
  <2>5. ReferenceInv' /\ HandlerInv'
    BY <1>1, <1>2, <2>1, <2>3 DEF Inv, ReferenceInv, HandlerInv
  <2> QED BY <2>2, <2>4, <2>5 DEF Inv
<1>11. CASE /\ op \in {"subscribe", "unsubscribe"}
            /\ ChangeList(listed \cup {p}) \/ ChangeList(listed \ {p})
  <2>1. /\ listed' = listed \cup {p} \/ listed' = listed \ {p}
        /\ UNCHANGED <<registry, table, doing, inside, rest, phase>>
        /\ phase[p] \in {"alive", "erase"}
    BY <1>2, <1>11 DEF ChangeList, ioVars, Allowed, Early
  <2>2. TaskInv' /\ TypeOK'
    BY <1>1, <1>2, <1>4, <2>1 DEF Inv, TypeOK
  <2>3. InsertInv' /\ EnabledInv'
    BY <1>1, <1>3, <2>1 DEF Inv, InsertInv, EnabledInv, ToCall
  <2>4. ReferenceInv' /\ HandlerInv'
    BY <1>1, <2>1 DEF Inv, ReferenceInv, HandlerInv
  <2> QED BY <2>2, <2>3, <2>4 DEF Inv
<1> QED BY <1>6, <1>7, <1>8, <1>9, <1>10, <1>11 DEF RunTask, op, p

\* The handlers of messages and timers change neither tasks nor phases.
LEMMA HandlersKeep ==
    ASSUME Inv,
           \/ SetConnected
           \/ SetDisconnected
           \/ \E message \in {"version", "flight"} : ProcessMessage(message)
           \/ \E p \in Plugins : Retry(p) \/ Skip(p) \/ CallPlugin(p) \/ Return(p)
    PROVE  Inv'
<1>1. UNCHANGED <<registry, table, listed, tasks, phase, subscribed>>
  BY DEF SetConnected, SetDisconnected, ProcessMessage, Retry, Skip, CallPlugin, Return
<1>2. TaskInv'
  BY <1>1 DEF Inv, TaskInv, TasksFit, WaitedIsLast, InsertIsOnce
<1>3. CASE SetConnected
  <2>1. /\ doing = "idle" /\ ~connected /\ connected'
        /\ doing' = IF registry = {} THEN "idle" ELSE "enable"
        /\ rest' = registry /\ inside' = None
        /\ UNCHANGED <<retrying, enabled>>
    BY <1>3 DEF SetConnected, Call
  <2>2. TypeOK' /\ InsertInv' /\ ReferenceInv'
    BY <1>1, <1>3, <2>1 DEF Inv, TypeOK, InsertInv, ReferenceInv, Handlers, SetConnected
  <2>3. HandlerInv' /\ EnabledInv'
    BY <1>1, <2>1, PluginAssumption DEF Inv, TypeOK, HandlerInv, EnabledInv, ToCall
  <2> QED BY <1>2, <2>2, <2>3 DEF Inv
<1>4. CASE SetDisconnected
  <2>1. /\ doing = "idle" /\ connected /\ ~connected'
        /\ doing' = IF registry = {} THEN "idle" ELSE "disable"
        /\ rest' = registry /\ inside' = None
        /\ UNCHANGED <<retrying, enabled>>
    BY <1>4 DEF SetDisconnected, Call
  <2>2. TypeOK' /\ InsertInv' /\ ReferenceInv'
    BY <1>1, <1>4, <2>1 DEF Inv, TypeOK, InsertInv, ReferenceInv, Handlers, SetDisconnected
  <2>3. HandlerInv' /\ EnabledInv'
    BY <1>1, <2>1, PluginAssumption DEF Inv, TypeOK, HandlerInv, EnabledInv, ToCall
  <2> QED BY <1>2, <2>2, <2>3 DEF Inv
<1>5. ASSUME NEW message \in {"version", "flight"}, ProcessMessage(message)
      PROVE  Inv'
  <2>1. /\ doing = "idle"
        /\ doing' = IF table = {} THEN "idle" ELSE message
        /\ rest' = table /\ inside' = None
        /\ UNCHANGED <<retrying, enabled, connected>>
    BY <1>5 DEF ProcessMessage, Call
  <2>2. TypeOK' /\ InsertInv' /\ ReferenceInv'
    BY <1>1, <2>1 DEF Inv, TypeOK, InsertInv, ReferenceInv, Handlers
  <2>3. HandlerInv' /\ EnabledInv'
    BY <1>1, <2>1, PluginAssumption DEF Inv, TypeOK, HandlerInv, EnabledInv, ToCall
  <2> QED BY <1>2, <2>2, <2>3 DEF Inv
<1>6. ASSUME NEW p \in Plugins, Retry(p)
      PROVE  Inv'
  <2>1. /\ doing = "idle" /\ p \in retrying
        /\ doing' = "retry" /\ rest' = {p} /\ inside' = None
        /\ UNCHANGED <<retrying, enabled, connected>>
    BY <1>6 DEF Retry, Call
  <2>2. TypeOK' /\ InsertInv' /\ ReferenceInv'
    BY <1>1, <2>1 DEF Inv, TypeOK, InsertInv, ReferenceInv, Handlers
  <2>3. HandlerInv' /\ EnabledInv'
    BY <1>1, <2>1, PluginAssumption
       DEF Inv, TypeOK, HandlerInv, EnabledInv, ToCall, ReferenceInv
  <2> QED BY <1>2, <2>2, <2>3 DEF Inv
<1>7. ASSUME NEW p \in Plugins, Skip(p)
      PROVE  Inv'
  <2>1. /\ doing = "retry"
        /\ doing' = "idle" /\ rest' = {} /\ inside' = None
        /\ UNCHANGED <<retrying, enabled, connected>>
    BY <1>7 DEF Skip, Call
  <2>2. TypeOK' /\ InsertInv' /\ ReferenceInv'
    BY <1>1, <2>1 DEF Inv, TypeOK, InsertInv, ReferenceInv, Handlers
  <2>3. HandlerInv' /\ EnabledInv'
    BY <1>1, <2>1, PluginAssumption DEF Inv, TypeOK, HandlerInv, EnabledInv, ToCall
  <2> QED BY <1>2, <2>2, <2>3 DEF Inv
<1>8. ASSUME NEW p \in Plugins, CallPlugin(p)
      PROVE  Inv'
  <2>1. /\ inside = None /\ p \in rest /\ inside' = p /\ rest' = rest \ {p}
        /\ doing = "retry" => p \in retrying
        /\ UNCHANGED <<retrying, enabled, connected, doing>>
    BY <1>8 DEF CallPlugin
  <2>2. TypeOK' /\ InsertInv' /\ ReferenceInv'
    BY <1>1, <2>1, PluginAssumption DEF Inv, TypeOK, InsertInv, ReferenceInv
  <2>3. HandlerInv'
    BY <1>1, <2>1, PluginAssumption DEF Inv, HandlerInv, ReferenceInv
  <2>4. \A q \in registry : ToCall(q)' <=> ToCall(q)
    BY <2>1, PluginAssumption DEF Inv, TypeOK, ToCall
  <2>5. EnabledInv'
    BY <1>1, <2>1, <2>4 DEF Inv, EnabledInv
  <2> QED BY <1>2, <2>2, <2>3, <2>5 DEF Inv
<1>9. ASSUME NEW p \in Plugins, Return(p)
      PROVE  Inv'
  <2>1. /\ inside = p /\ inside' = None /\ rest' = rest
        /\ doing' = IF rest = {} THEN "idle" ELSE doing
        /\ UNCHANGED connected
        /\ enabled' = CASE doing = "enable" -> enabled \cup {p}
                         [] doing = "disable" -> enabled \ {p}
                         [] OTHER -> enabled
        /\ retrying' = CASE doing = "enable" -> retrying \cup {p}
                          [] doing \in {"disable", "version"} -> retrying \ {p}
                          [] OTHER -> retrying
    BY <1>9 DEF Return, Call
  <2>2. p \notin rest /\ (doing \in {"enable", "disable"} => p \in registry)
    BY <2>1 DEF Inv, HandlerInv
  <2>3. /\ retrying' \subseteq retrying \cup registry
        /\ enabled' \subseteq enabled \cup registry
    <3>1. CASE doing = "enable"
      BY <3>1, <2>1, <2>2
    <3>2. CASE doing = "disable"
      BY <3>2, <2>1, <2>2
    <3>3. CASE doing \notin {"enable", "disable"}
      BY <3>3, <2>1, <2>2
    <3> QED BY <3>1, <3>2, <3>3
  <2>4. TypeOK'
    BY <1>1, <2>1, <2>3 DEF Inv, TypeOK, Handlers
  <2>5. InsertInv'
    BY <1>1, <2>3 DEF Inv, InsertInv, TypeOK
  <2>6. ReferenceInv'
    BY <1>1, <2>3 DEF Inv, ReferenceInv
  <2>7. HandlerInv'
    BY <1>1, <2>1, PluginAssumption DEF Inv, HandlerInv
  <2>8. EnabledInv'
    <3>1. CASE doing = "enable"
      BY <3>1, <1>1, <2>1, <2>2, PluginAssumption DEF Inv, EnabledInv, ToCall, TypeOK
    <3>2. CASE doing = "disable"
      BY <3>2, <1>1, <2>1, <2>2, PluginAssumption DEF Inv, EnabledInv, ToCall, TypeOK
    <3>3. CASE doing \notin {"enable", "disable"}
      BY <3>3, <1>1, <2>1, <2>2, PluginAssumption DEF Inv, EnabledInv, ToCall, TypeOK
    <3> QED BY <3>1, <3>2, <3>3
  <2> QED BY <1>2, <2>4, <2>5, <2>6, <2>7, <2>8 DEF Inv
<1> QED BY <1>3, <1>4, <1>5, <1>6, <1>7, <1>8, <1>9

-----------------------------------------------------------------------------
\* The invariant is inductive.
THEOREM PluginInvariance == Spec => []Inv
<1>1. Init => Inv
  <2> SUFFICES ASSUME Init PROVE Inv
    OBVIOUS
  <2>1. tasks = <<>> /\ DOMAIN tasks = {}
    BY DEF Init
  <2>2. TypeOK
    <3>1. tasks \in Seq(Tasks)
      BY <2>1
    <3>2. phase \in [Plugins -> Phases] /\ doing \in Handlers
      BY DEF Init, Phases, Handlers
    <3> QED BY <3>1, <3>2 DEF Init, TypeOK
  <2>3. TaskInv /\ InsertInv
    BY <2>1 DEF Init, TaskInv, TasksFit, WaitedIsLast, InsertIsOnce, InsertInv
  <2>4. ReferenceInv /\ HandlerInv /\ EnabledInv
    BY PluginAssumption DEF Init, ReferenceInv, HandlerInv, EnabledInv
  <2> QED BY <2>2, <2>3, <2>4 DEF Inv
<1>2. Inv /\ [Next]_vars => Inv'
  <2> SUFFICES ASSUME Inv, [Next]_vars PROVE Inv'
    OBVIOUS
  <2>1. CASE RunTask
    BY <2>1, RunTaskKeeps
  <2>2. CASE \/ SetConnected
             \/ SetDisconnected
             \/ \E message \in {"version", "flight"} : ProcessMessage(message)
             \/ \E p \in Plugins : Retry(p) \/ Skip(p) \/ CallPlugin(p) \/ Return(p)
    BY <2>2, HandlersKeep
  <2>3. ASSUME NEW p \in Plugins, Owner(p)
        PROVE  Inv'
    BY <2>3, ConstructKeeps, RegisterPluginKeeps, SubscribeKeeps, UnsubscribeKeeps,
       UnregisterPluginKeeps, DisableKeeps, DeinitKeeps, DestroyMembersKeeps DEF Owner
  <2>4. CASE UNCHANGED vars
    BY <2>4 DEF vars, ioVars, Inv, TypeOK, TaskInv, TasksFit, WaitedIsLast, InsertIsOnce,
       InsertInv, ReferenceInv, HandlerInv, EnabledInv, ToCall
  <2> QED BY <2>1, <2>2, <2>3, <2>4 DEF Next
<1> QED BY <1>1, <1>2, PTL DEF Spec

\* The variables keep their types, and the io thread is idle only when it has
\* called and is going to call no plugin.
THEOREM PluginTypeCorrect == Spec => []TypeOK
<1>1. Inv => TypeOK
  BY DEF Inv
<1> QED BY <1>1, PluginInvariance, PTL

\* A plugin that the system knows is enabled whenever the system is connected,
\* also one that registers just as the system connects.
THEOREM EnabledWhenConnected == Spec => []EnabledWhileConnected
<1>1. Inv => EnabledWhileConnected
  BY DEF Inv, EnabledInv, EnabledWhileConnected
<1> QED BY <1>1, PluginInvariance, PTL

\* The blocking removals of the repeated call and of the message handlers
\* return only when what they removed is not running.
THEOREM RemovalsAreBarriers == Spec => []RemovedIsNotRunning
<1>1. Inv => RemovedIsNotRunning
  BY DEF Inv, HandlerInv, ReferenceInv, RemovedIsNotRunning
<1> QED BY <1>1, PluginInvariance, PTL

\* The io thread holds no pointer to a plugin that was destroyed, and nothing
\* that is posted captures it.
THEOREM GoneForGood == Spec => []GoneIsForgotten
<1>1. ASSUME Inv, NEW p \in Plugins, phase[p] = "gone"
      PROVE  /\ p \notin registry \cup table \cup retrying \cup listed \cup rest
             /\ inside # p
             /\ \A i \in DOMAIN tasks : tasks[i].plugin # p
  <2>1. p \notin registry \cup table \cup retrying \cup listed
    BY <1>1 DEF Inv, ReferenceInv
  <2>2. p \notin rest /\ inside # p
    BY <1>1, <2>1, PluginAssumption DEF Inv, TypeOK, Handlers, HandlerInv
  <2>3. \A i \in DOMAIN tasks : tasks[i].plugin # p
    BY <1>1 DEF Inv, TaskInv, TasksFit, Allowed
  <2> QED BY <2>1, <2>2, <2>3
<1>2. Inv => GoneIsForgotten
  BY <1>1 DEF GoneIsForgotten
<1> QED BY <1>2, PluginInvariance, PTL

-----------------------------------------------------------------------------
\* The stage of a plugin, given its phase and whether it is being called.
LEMMA StageFacts ==
    ASSUME NEW p \in Plugins
    PROVE  /\ inside = p /\ doing = "enable" => stage[p] = "enabling"
           /\ inside = p /\ doing = "disable" => stage[p] = "disabling"
           /\ ~(inside = p /\ doing \in {"enable", "disable"}) =>
                 /\ phase[p] = "none" => stage[p] = "absent"
                 /\ phase[p] = "init" => stage[p] = "initializing"
                 /\ phase[p] \in Closing => stage[p] = "closing"
                 /\ phase[p] = "gone" => stage[p] = "gone"
                 /\ phase[p] \in {"alive", "erase", "disable"} =>
                       stage[p] = IF p \in enabled THEN "enabled" ELSE "disabled"
  BY DEF stage, Closing

\* Who is called by the io thread is alive to its owner.
LEMMA CalledIsAlive ==
    ASSUME Inv, NEW p \in Plugins, inside = p, doing \in {"enable", "disable"}
    PROVE  phase[p] \in {"alive", "erase"} /\ p \in registry
  BY DEF Inv, HandlerInv, ReferenceInv

\* The stage moves for one plugin only.
LEMMA OneMoves ==
    ASSUME NEW p \in Plugins, NEW to, stage'[p] = to,
           \A q \in Plugins : q # p => stage'[q] = stage[q]
    PROVE  stage' = [stage EXCEPT ![p] = to]
<1>1. /\ stage = [q \in Plugins |-> stage[q]]
      /\ stage' = [q \in Plugins |-> stage'[q]]
  BY DEF stage
<1>2. [stage EXCEPT ![p] = to] = [q \in Plugins |-> IF q = p THEN to ELSE stage[q]]
  BY <1>1
<1> QED BY <1>1, <1>2

\* The stage stays as it is.
LEMMA NoneMoves ==
    ASSUME \A q \in Plugins : stage'[q] = stage[q]
    PROVE  stage' = stage
<1>1. /\ stage = [q \in Plugins |-> stage[q]]
      /\ stage' = [q \in Plugins |-> stage'[q]]
  BY DEF stage
<1> QED BY <1>1

\* The stage of a plugin depends on nothing else.
LEMMA SameStage ==
    ASSUME NEW q \in Plugins, phase'[q] = phase[q],
           q \in enabled' <=> q \in enabled,
           inside' = q /\ doing' = "enable" <=> inside = q /\ doing = "enable",
           inside' = q /\ doing' = "disable" <=> inside = q /\ doing = "disable"
    PROVE  stage'[q] = stage[q]
  BY DEF stage, Closing

\* The same as StageFacts, after a step.
LEMMA NextStageFacts ==
    ASSUME NEW p \in Plugins
    PROVE  /\ inside' = p /\ doing' = "enable" => stage'[p] = "enabling"
           /\ inside' = p /\ doing' = "disable" => stage'[p] = "disabling"
           /\ ~(inside' = p /\ doing' \in {"enable", "disable"}) =>
                 /\ phase'[p] = "none" => stage'[p] = "absent"
                 /\ phase'[p] = "init" => stage'[p] = "initializing"
                 /\ phase'[p] \in Closing => stage'[p] = "closing"
                 /\ phase'[p] = "gone" => stage'[p] = "gone"
                 /\ phase'[p] \in {"alive", "erase", "disable"} =>
                       stage'[p] = IF p \in enabled' THEN "enabled" ELSE "disabled"
  BY DEF stage, Closing

\* What the owner of a plugin does.
LEMMA OwnerImplements ==
    ASSUME Inv, NEW p \in Plugins, Owner(p)
    PROVE  [Contract!Next]_stage
<1>1. /\ UNCHANGED <<doing, inside, rest, enabled>>
      /\ \A q \in Plugins : q # p => phase'[q] = phase[q]
      /\ phase \in [Plugins -> Phases]
  BY DEF Owner, Construct, RegisterPlugin, Subscribe, Unsubscribe, UnregisterPlugin,
         Disable, Deinit, DestroyMembers, Enter, ioVars, Inv, TypeOK
<1>2. \A q \in Plugins : q # p => stage'[q] = stage[q]
  BY <1>1, SameStage
<1>3. phase[p] \notin {"alive", "erase"} => ~(inside = p /\ doing \in {"enable", "disable"})
  BY CalledIsAlive
<1>4. CASE Construct(p)
  <2>1. phase[p] = "none" /\ phase'[p] = "init"
    BY <1>1, <1>4 DEF Construct, Enter
  <2>2. stage[p] = "absent" /\ stage'[p] = "initializing"
    BY <1>1, <1>3, <2>1, StageFacts, NextStageFacts
  <2>3. Contract!BeginInit(p)
    BY <1>2, <2>2, OneMoves DEF Contract!BeginInit, Contract!Move
  <2> QED BY <2>3 DEF Contract!Next
<1>5. CASE RegisterPlugin(p)
  <2>1. phase[p] = "init" /\ phase'[p] = "alive"
    BY <1>1, <1>5 DEF RegisterPlugin, Enter
  <2>2. p \notin enabled
    BY <2>1 DEF Inv, InsertInv
  <2>3. stage[p] = "initializing" /\ stage'[p] = "disabled"
    BY <1>1, <1>3, <2>1, <2>2, StageFacts, NextStageFacts
  <2>4. Contract!EndInit(p)
    BY <1>2, <2>3, OneMoves DEF Contract!EndInit, Contract!Move
  <2> QED BY <2>4 DEF Contract!Next
<1>6. CASE Subscribe(p) \/ Unsubscribe(p)
  <2>1. phase'[p] = phase[p]
    BY <1>6 DEF Subscribe, Unsubscribe
  <2>2. stage'[p] = stage[p]
    BY <1>1, <2>1, SameStage
  <2> QED BY <1>2, <2>2, NoneMoves
<1>7. CASE UnregisterPlugin(p)
  <2>1. phase[p] = "alive" /\ phase'[p] = "erase"
    BY <1>1, <1>7 DEF UnregisterPlugin, Enter
  <2>2. stage'[p] = stage[p]
    BY <1>1, <2>1, StageFacts, NextStageFacts
  <2> QED BY <1>2, <2>2, NoneMoves
<1>8. CASE Disable(p)
  <2>1. phase[p] = "disable" /\ phase'[p] = "disabling"
    BY <1>1, <1>8 DEF Disable, Enter
  <2>2. stage[p] \in {"disabled", "enabled"} /\ stage'[p] = "closing"
    BY <1>1, <1>3, <2>1, StageFacts, NextStageFacts DEF Closing
  <2>3. Contract!BeginClose(p)
    BY <1>2, <2>2, OneMoves DEF Contract!BeginClose, Contract!Move
  <2> QED BY <2>3 DEF Contract!Next
<1>9. CASE Deinit(p) \/ DestroyMembers(p)
  <2>1. phase[p] \in Closing /\ phase'[p] \in Closing /\ phase[p] \notin {"alive", "erase"}
    BY <1>1, <1>9 DEF Deinit, DestroyMembers, Enter, Closing
  <2>2. stage'[p] = stage[p]
    BY <1>1, <1>3, <2>1, StageFacts, NextStageFacts
  <2> QED BY <1>2, <2>2, NoneMoves
<1> QED BY <1>4, <1>5, <1>6, <1>7, <1>8, <1>9 DEF Owner

\* A task is run while no plugin is called; only the last one of a destructor
\* shows.
LEMMA RunTaskImplements ==
    ASSUME Inv, RunTask
    PROVE  [Contract!Next]_stage
<1> DEFINE p == Head(tasks).plugin
           op == Head(tasks).op
<1>1. /\ tasks # <<>> /\ UNCHANGED enabled
      /\ inside = None /\ inside' = None
  BY DEF RunTask, Inv, TypeOK, ChangeTable, Insert, Erase, UnregisterAll, ChangeList,
         Drained, Call, ioVars
<1>2. /\ p \in Plugins /\ op \in Allowed(phase[p])
      /\ phase \in [Plugins -> Phases]
  <2>1. Head(tasks) = tasks[1] /\ 1 \in DOMAIN tasks
    BY <1>1, TailFacts DEF Inv, TypeOK
  <2>2. p \in Plugins
    BY <2>1, TaskFacts DEF Inv, TypeOK
  <2>3. op \in Allowed(phase[p])
    BY <2>1 DEF Inv, TaskInv, TasksFit
  <2> QED BY <2>2, <2>3 DEF Inv, TypeOK
<1>3. \A q \in Plugins : inside # q /\ inside' # q
  BY <1>1, PluginAssumption
<1>4. /\ op \in {"register", "insert", "subscribe", "unsubscribe"} => phase' = phase
      /\ op = "erase" => phase' = [phase EXCEPT ![p] = "disable"]
      /\ op = "unregister" => phase' = [phase EXCEPT ![p] = "destruct"]
      /\ op = "drain" => phase' = [phase EXCEPT ![p] = "gone"]
  BY DEF RunTask, ChangeTable, Insert, Erase, UnregisterAll, ChangeList, Drained, Enter
<1> HIDE DEF p, op
<1>5. \A q \in Plugins : phase'[q] = phase[q] => stage'[q] = stage[q]
  BY <1>1, <1>3, SameStage
<1>6. op \in {"register", "insert", "subscribe", "unsubscribe", "erase", "unregister", "drain"}
  BY <1>2 DEF Allowed, Early
<1>7. CASE op \in {"register", "insert", "subscribe", "unsubscribe"}
  BY <1>4, <1>5, <1>7, NoneMoves
<1>8. CASE op = "erase"
  <2>1. /\ phase[p] = "erase" /\ phase'[p] = "disable"
        /\ \A q \in Plugins : q # p => phase'[q] = phase[q]
    BY <1>2, <1>4, <1>8 DEF Allowed, Early
  <2>2. stage'[p] = stage[p]
    BY <1>1, <1>2, <1>3, <2>1, StageFacts, NextStageFacts
  <2> QED BY <1>5, <2>1, <2>2, NoneMoves
<1>9. CASE op = "unregister"
  <2>1. /\ phase[p] = "deinit" /\ phase'[p] = "destruct"
        /\ \A q \in Plugins : q # p => phase'[q] = phase[q]
    BY <1>2, <1>4, <1>9 DEF Allowed, Early
  <2>2. stage'[p] = stage[p]
    BY <1>2, <1>3, <2>1, StageFacts, NextStageFacts DEF Closing
  <2> QED BY <1>5, <2>1, <2>2, NoneMoves
<1>10. CASE op = "drain"
  <2>1. /\ phase[p] = "drain" /\ phase'[p] = "gone"
        /\ \A q \in Plugins : q # p => phase'[q] = phase[q]
    BY <1>2, <1>4, <1>10 DEF Allowed, Early
  <2>2. stage[p] = "closing" /\ stage'[p] = "gone"
    BY <1>2, <1>3, <2>1, StageFacts, NextStageFacts DEF Closing
  <2>3. Contract!EndClose(p)
    BY <1>2, <1>5, <2>1, <2>2, OneMoves DEF Contract!EndClose, Contract!Move
  <2> QED BY <1>2, <2>3 DEF Contract!Next
<1> QED BY <1>6, <1>7, <1>8, <1>9, <1>10

\* A call by the io thread begins.
LEMMA CallImplements ==
    ASSUME Inv, NEW p \in Plugins, CallPlugin(p)
    PROVE  [Contract!Next]_stage
<1>1. /\ inside = None /\ p \in rest /\ inside' = p
      /\ UNCHANGED <<doing, phase, enabled>>
  BY DEF CallPlugin
<1>2. \A q \in Plugins : q # p => stage'[q] = stage[q]
  BY <1>1, SameStage, PluginAssumption
<1>3. doing \in {"enable", "disable"} => phase[p] \in {"alive", "erase"} /\ p \in registry
  BY <1>1 DEF Inv, HandlerInv, ReferenceInv
<1>4. CASE doing = "enable"
  <2>1. p \notin enabled
    BY <1>1, <1>3, <1>4 DEF Inv, EnabledInv, ToCall
  <2>2. stage[p] = "disabled" /\ stage'[p] = "enabling"
    BY <1>1, <1>3, <1>4, <2>1, StageFacts, NextStageFacts, PluginAssumption
  <2>3. Contract!BeginEnable(p)
    BY <1>2, <2>2, OneMoves DEF Contract!BeginEnable, Contract!Move
  <2> QED BY <2>3 DEF Contract!Next
<1>5. CASE doing = "disable"
  <2>1. p \in enabled
    BY <1>1, <1>3, <1>5 DEF Inv, EnabledInv, ToCall
  <2>2. stage[p] = "enabled" /\ stage'[p] = "disabling"
    BY <1>1, <1>3, <1>5, <2>1, StageFacts, NextStageFacts, PluginAssumption
  <2>3. Contract!BeginDisable(p)
    BY <1>2, <2>2, OneMoves DEF Contract!BeginDisable, Contract!Move
  <2> QED BY <2>3 DEF Contract!Next
<1>6. CASE doing \notin {"enable", "disable"}
  <2>1. stage'[p] = stage[p]
    BY <1>1, <1>6, SameStage
  <2> QED BY <1>2, <2>1, NoneMoves
<1> QED BY <1>4, <1>5, <1>6

\* A call by the io thread returns.
LEMMA ReturnImplements ==
    ASSUME Inv, NEW p \in Plugins, Return(p)
    PROVE  [Contract!Next]_stage
<1>1. /\ inside = p /\ inside' = None /\ UNCHANGED phase
      /\ enabled' = CASE doing = "enable" -> enabled \cup {p}
                       [] doing = "disable" -> enabled \ {p}
                       [] OTHER -> enabled
  BY DEF Return, Call
<1>2. \A q \in Plugins : q # p => (q \in enabled' <=> q \in enabled)
  <2>1. CASE doing = "enable"
    BY <1>1, <2>1
  <2>2. CASE doing = "disable"
    BY <1>1, <2>2
  <2>3. CASE doing \notin {"enable", "disable"}
    BY <1>1, <2>3
  <2> QED BY <2>1, <2>2, <2>3
<1>3. \A q \in Plugins : q # p => stage'[q] = stage[q]
  BY <1>1, <1>2, SameStage, PluginAssumption
<1>4. doing \in {"enable", "disable"} => phase'[p] \in {"alive", "erase"}
  BY <1>1, CalledIsAlive
<1>5. inside' # p
  BY <1>1, PluginAssumption
<1>6. CASE doing = "enable"
  <2>1. stage[p] = "enabling" /\ stage'[p] = "enabled"
    BY <1>1, <1>4, <1>5, <1>6, StageFacts, NextStageFacts
  <2>2. Contract!EndEnable(p)
    BY <1>3, <2>1, OneMoves DEF Contract!EndEnable, Contract!Move
  <2> QED BY <2>2 DEF Contract!Next
<1>7. CASE doing = "disable"
  <2>1. stage[p] = "disabling" /\ stage'[p] = "disabled"
    BY <1>1, <1>4, <1>5, <1>7, StageFacts, NextStageFacts
  <2>2. Contract!EndDisable(p)
    BY <1>3, <2>1, OneMoves DEF Contract!EndDisable, Contract!Move
  <2> QED BY <2>2 DEF Contract!Next
<1>8. CASE doing \notin {"enable", "disable"}
  <2>1. p \in enabled' <=> p \in enabled
    BY <1>1, <1>8
  <2>2. stage'[p] = stage[p]
    BY <1>1, <1>5, <1>8, <2>1, SameStage
  <2> QED BY <1>3, <2>2, NoneMoves
<1> QED BY <1>6, <1>7, <1>8

\* A handler that begins or gives up calls no plugin yet.
LEMMA BeginImplements ==
    ASSUME Inv,
           \/ SetConnected
           \/ SetDisconnected
           \/ \E message \in {"version", "flight"} : ProcessMessage(message)
           \/ \E p \in Plugins : Retry(p) \/ Skip(p)
    PROVE  [Contract!Next]_stage
<1>1. inside' = None /\ UNCHANGED <<phase, enabled>>
  BY DEF SetConnected, SetDisconnected, ProcessMessage, Retry, Skip, Call
<1>2. inside = None \/ doing = "retry"
  BY DEF SetConnected, SetDisconnected, ProcessMessage, Retry, Skip, Inv, TypeOK
<1>3. \A q \in Plugins : stage'[q] = stage[q]
  BY <1>1, <1>2, SameStage, PluginAssumption
<1> QED BY <1>3, NoneMoves

\* The system keeps the contract: every plugin is initialized, enabled and
\* disabled in turn, one call at a time, and closed in the end.
THEOREM SystemImplementsContract == Spec => ImplementsContract
<1>1. Init => Contract!Init
  <2> SUFFICES ASSUME Init PROVE Contract!Init
    OBVIOUS
  <2>1. \A p \in Plugins : inside # p /\ phase[p] = "none"
    BY PluginAssumption DEF Init
  <2>2. \A p \in Plugins : stage[p] = "absent"
    BY <2>1, StageFacts
  <2>3. stage = [p \in Plugins |-> stage[p]]
    BY DEF stage
  <2> QED BY <2>2, <2>3 DEF Contract!Init
<1>2. Inv /\ [Next]_vars => [Contract!Next]_stage
  <2> SUFFICES ASSUME Inv, [Next]_vars PROVE [Contract!Next]_stage
    OBVIOUS
  <2>1. CASE RunTask
    BY <2>1, RunTaskImplements
  <2>2. CASE \/ SetConnected
             \/ SetDisconnected
             \/ \E message \in {"version", "flight"} : ProcessMessage(message)
             \/ \E p \in Plugins : Retry(p) \/ Skip(p)
    BY <2>2, BeginImplements
  <2>3. ASSUME NEW p \in Plugins, CallPlugin(p) \/ Return(p) \/ Owner(p)
        PROVE  [Contract!Next]_stage
    BY <2>3, CallImplements, ReturnImplements, OwnerImplements
  <2>4. CASE UNCHANGED vars
    <3>1. \A q \in Plugins : stage'[q] = stage[q]
      BY <2>4, SameStage DEF vars, ioVars
    <3> QED BY <3>1, NoneMoves
  <2> QED BY <2>1, <2>2, <2>3, <2>4 DEF Next
<1> QED BY <1>1, <1>2, PluginInvariance, PTL DEF Spec, ImplementsContract, Contract!Spec
=============================================================================
