----------------------- MODULE ParameterClientProofs ------------------------
(***************************************************************************)
(* What a caller of the parameter client may rely on, for any requests,    *)
(* owners, number of parameters, retries and size of a chunk.              *)
(*                                                                         *)
(* A request is on its way in a line: its task is posted, it waits in the  *)
(* queue, it is sent, it ends.  Most steps let nobody into that line and   *)
(* keep its order (Shrinks), which is shown once for all of them; the      *)
(* three that post or enqueue are looked at one by one (LineInv).  Apart   *)
(* from that there is the request that was sent, with its timeout and the  *)
(* cache that it fills (WayInv).                                           *)
(***************************************************************************)
EXTENDS ParameterClient, FiniteSetTheorems, SequenceTheorems, TLAPS

EnqueueTask(r) == [op |-> "enqueue", request |-> r]
CancelTask(o) == [op |-> "cancel", owner |-> o]

\* A request is in the queue once, and only the one at the front was sent.
QueueInv ==
    /\ \A i, j \in DOMAIN queue : queue[i] = queue[j] => i = j
    /\ \A i \in DOMAIN queue : queue[i] \in requested => i = 1
    /\ \A i \in DOMAIN queue : queue[i] \in asked
    /\ requested \subseteq asked

\* A request whose task is posted is new to everybody but its caller.
TaskInv ==
    \A i \in DOMAIN tasks : \A r \in Requests :
       tasks[i] = EnqueueTask(r) =>
          /\ \A j \in DOMAIN tasks : tasks[j] = EnqueueTask(r) => i = j
          /\ r \in asked \ requested
          /\ \A j \in DOMAIN queue : queue[j] # r

\* A get or set that waits has not heard of a result.
SilenceInv ==
    \A r \in Requests : Kind[r] # "all" /\ results[r] # <<>> =>
       /\ r \in asked
       /\ ~Pending(EnqueueTask(r))
       /\ \A i \in DOMAIN queue : queue[i] # r

\* What an owner has asked for comes before its cancellation, and nothing of it
\* is left after that, but for what its own callbacks have asked for since.
OwnerInv ==
    /\ \A i, j \in DOMAIN tasks : \A o \in Owners, r \in Requests \ late :
          tasks[i] = CancelTask(o) /\ tasks[j] = EnqueueTask(r) /\ Owner[r] = o
             => j < i
    /\ \A i \in DOMAIN tasks : \A o \in Owners :
          tasks[i] = CancelTask(o) => o \in cancelling
    /\ \A i \in DOMAIN tasks : \A r \in Requests :
          tasks[i] = EnqueueTask(r) => Owner[r] \notin cancelled \/ r \in late
    /\ \A i \in DOMAIN queue :
          Owner[queue[i]] \notin cancelled \/ queue[i] \in late

Found == {p \in Params : label[p] # Nothing}

\* While a "get all" is under way the cache is what it has found, which is not
\* all.
CacheInv ==
    /\ \A r \in Requests : UnderWay(r) /\ Kind[r] = "all" =>
          Found = fresh /\ CacheSize(label) < NumParams
    /\ \A r \in Requests : count[r] \in {0, NumParams}

ClientInv ==
    /\ TypeOK
    /\ QueueInv
    /\ TaskInv
    /\ SilenceInv
    /\ OwnerInv
    /\ CacheInv
    /\ RequestHasTimeout
    /\ QueueIsKicked

-----------------------------------------------------------------------------
(***************************************************************************)
(* Ranks in a finite set of numbers.                                       *)
(***************************************************************************)

\* Ranks grow with the elements.
LEMMA RankGrows ==
    ASSUME NEW S \in SUBSET Nat, IsFiniteSet(S), NEW i \in S, NEW j \in S, i < j
    PROVE  Rank(S, i) < Rank(S, j)
<1> DEFINE Below(k) == {x \in S : x < k}
<1>1. IsFiniteSet(Below(i)) /\ IsFiniteSet(Below(j))
  BY FS_Subset
<1>2. Below(i) \subseteq Below(j) /\ i \in Below(j) /\ i \notin Below(i)
  <2>1. i \in Nat /\ j \in Nat /\ S \subseteq Nat
    OBVIOUS
  <2>2. \A x \in S : x < i => x < j
    BY <2>1
  <2>3. Below(i) \subseteq Below(j)
    BY <2>2
  <2>4. ~(i < i)
    BY <2>1
  <2> QED
    BY <2>3, <2>4
<1>3. Cardinality(Below(i)) <= Cardinality(Below(j))
  BY <1>1, <1>2, FS_Subset
<1>4. Cardinality(Below(i)) # Cardinality(Below(j))
  BY <1>1, <1>2, FS_Subset
<1>5. Cardinality(Below(i)) \in Nat /\ Cardinality(Below(j)) \in Nat
  BY <1>1, FS_CardinalityType
<1> QED
  BY <1>3, <1>4, <1>5 DEF Rank

\* The ranks are the numbers below the cardinality, each the rank of one.
LEMMA RankIsABijection ==
    ASSUME NEW S \in SUBSET Nat, IsFiniteSet(S)
    PROVE  /\ Cardinality(S) \in Nat
           /\ \A i \in S : Rank(S, i) \in 0..(Cardinality(S) - 1)
           /\ \A i, j \in S : Rank(S, i) = Rank(S, j) => i = j
           /\ \A n \in 0..(Cardinality(S) - 1) : \E i \in S : Rank(S, i) = n
<1> DEFINE N == Cardinality(S)
           Ranks == 0..(N - 1)
           f == [i \in S |-> Rank(S, i)]
<1>1. N \in Nat
  BY FS_CardinalityType
<1>2. ASSUME NEW i \in S PROVE Rank(S, i) \in Ranks
  <2> DEFINE Below == {x \in S : x < i}
  <2>1. Below \subseteq S /\ Below # S
    OBVIOUS
  <2>2. IsFiniteSet(Below) /\ Cardinality(Below) <= N /\ Cardinality(Below) # N
    BY <2>1, FS_Subset
  <2>3. Cardinality(Below) \in Nat
    BY <2>2, FS_CardinalityType
  <2> QED
    BY <1>1, <2>2, <2>3 DEF Rank
<1>3. ASSUME NEW i \in S, NEW j \in S, Rank(S, i) = Rank(S, j) PROVE i = j
  <2>1. Rank(S, i) \in Nat
    BY <1>2
  <2>2. ~(i < j) /\ ~(j < i)
    BY <1>3, <2>1, RankGrows
  <2> QED
    BY <2>2
<1>4. f \in Injection(S, Ranks)
  <2>1. f \in [S -> Ranks]
    BY <1>2
  <2>2. \A i, j \in S : f[i] = f[j] => i = j
    BY <1>3
  <2> QED
    BY <2>1, <2>2 DEF Injection, IsInjective
<1>5. IsFiniteSet(Ranks) /\ Cardinality(Ranks) = N
  <2>1. 0 \in Int /\ N - 1 \in Int /\ (0 > N - 1 <=> N = 0)
    BY <1>1
  <2>2. Cardinality(Ranks) = IF 0 > N - 1 THEN 0 ELSE N - 1 - 0 + 1
    BY <2>1, FS_Interval
  <2> QED
    BY <1>1, <2>1, <2>2, FS_Interval
<1>6. f \in Surjection(S, Ranks)
  BY <1>4, <1>5, FS_Injection
<1>7. \A n \in Ranks : \E i \in S : f[i] = n
  BY <1>6 DEF Surjection
<1> QED
  BY <1>1, <1>2, <1>3, <1>7

\* A finite set of numbers that is not empty has a largest one.
LEMMA LargestExists ==
    ASSUME NEW S \in SUBSET Nat, IsFiniteSet(S), S # {}
    PROVE  \E i \in S : \A j \in S : j <= i
<1>1. Cardinality(S) \in Nat \ {0}
  BY FS_EmptySet, FS_CardinalityType
<1>2. PICK i \in S : Rank(S, i) = Cardinality(S) - 1
  BY <1>1, RankIsABijection
<1>3. ASSUME NEW j \in S, ~(j <= i) PROVE FALSE
  <2>1. Rank(S, i) < Rank(S, j)
    BY <1>3, RankGrows
  <2>2. Rank(S, j) \in 0..(Cardinality(S) - 1)
    BY RankIsABijection
  <2> QED
    BY <1>1, <1>2, <2>1, <2>2
<1> QED
  BY <1>3

(***************************************************************************)
(* The queue without the requests of an owner.                             *)
(***************************************************************************)

\* Each request of s is one of q by another owner than o; they keep their
\* order, and none is left out.
IsTheOthers(s, q, o) ==
    \E at \in [1..Len(s) -> DOMAIN q] :
        /\ \A n \in 1..Len(s) : s[n] = q[at[n]] /\ Owner[s[n]] # o
        /\ \A m, n \in 1..Len(s) : m < n => at[m] < at[n]
        /\ \A i \in DOMAIN q : Owner[q[i]] # o => \E n \in 1..Len(s) : at[n] = i

\* What cancel_all_param leaves of the queue is just that.
LEMMA WithoutIsTheOthers ==
    ASSUME NEW q \in Seq(Requests), NEW o
    PROVE  /\ Without(q, o) \in Seq(Requests)
           /\ IsTheOthers(Without(q, o), q, o)
<1> DEFINE K == Kept(q, o)
           N == Cardinality(K)
           at == [n \in 1..N |-> CHOOSE i \in K : Rank(K, i) = n - 1]
           s == Without(q, o)
<1>1. K \in SUBSET Nat /\ IsFiniteSet(K) /\ K \subseteq DOMAIN q
  <2>1. DOMAIN q = 1..Len(q) /\ Len(q) \in Nat
    OBVIOUS
  <2>2. IsFiniteSet(1..Len(q))
    BY <2>1, FS_Interval
  <2>3. K \subseteq 1..Len(q)
    BY <2>1 DEF Kept
  <2>4. IsFiniteSet(K)
    BY <2>2, <2>3, FS_Subset
  <2> QED
    BY <2>1, <2>3, <2>4
<1>2. N \in Nat
  BY <1>1, RankIsABijection
<1>3. \A n \in 1..N : at[n] \in K /\ Rank(K, at[n]) = n - 1
  <2> SUFFICES ASSUME NEW n \in 1..N PROVE at[n] \in K /\ Rank(K, at[n]) = n - 1
    OBVIOUS
  <2>1. n - 1 \in 0..(N - 1)
    BY <1>2
  <2>2. \E i \in K : Rank(K, i) = n - 1
    BY <1>1, <2>1, RankIsABijection
  <2> QED
    BY <2>2
<1>4. \A m, n \in 1..N : m < n => at[m] < at[n]
  <2> SUFFICES ASSUME NEW m \in 1..N, NEW n \in 1..N, m < n, ~(at[m] < at[n])
               PROVE  FALSE
    OBVIOUS
  <2>1. /\ at[m] \in K /\ Rank(K, at[m]) = m - 1
        /\ at[n] \in K /\ Rank(K, at[n]) = n - 1
    BY <1>3
  <2>2. at[m] \in Nat /\ at[n] \in Nat
    BY <1>1, <2>1
  <2>3. CASE at[m] = at[n]
    BY <1>2, <2>1, <2>3
  <2>4. CASE at[n] < at[m]
    <3>1. Rank(K, at[n]) < Rank(K, at[m])
      BY <1>1, <2>1, <2>4, RankGrows
    <3> QED
      BY <1>2, <2>1, <3>1
  <2> QED
    BY <2>2, <2>3, <2>4
<1>5. s = [n \in 1..N |-> q[at[n]]]
  BY DEF Without
<1>6. at = [n \in 1..N |-> at[n]]
  OBVIOUS
<1> HIDE DEF at, s, N
<1>7. \A n \in 1..N : at[n] \in DOMAIN q /\ Owner[q[at[n]]] # o
  BY <1>1, <1>3 DEF Kept
<1>8. \A i \in K : \E n \in 1..N : at[n] = i
  <2> SUFFICES ASSUME NEW i \in K PROVE \E n \in 1..N : at[n] = i
    OBVIOUS
  <2>1. Rank(K, i) \in 0..(N - 1)
    BY <1>1, RankIsABijection DEF N
  <2>2. PICK n \in 1..N : n - 1 = Rank(K, i)
    <3>1. \A x \in 0..(N - 1) : x + 1 \in 1..N /\ (x + 1) - 1 = x
      BY <1>2
    <3> QED
      BY <2>1, <3>1
  <2>3. at[n] \in K /\ Rank(K, at[n]) = Rank(K, i)
    BY <1>3, <2>2
  <2>4. at[n] = i
    BY <1>1, <2>3, RankIsABijection
  <2> QED
    BY <2>4
<1>9. s \in Seq(Requests) /\ Len(s) = N
  <2>1. \A n \in 1..N : q[at[n]] \in Requests
    <3>1. \A i \in DOMAIN q : q[i] \in Requests
      OBVIOUS
    <3> QED
      BY <1>7, <3>1
  <2>2. s \in [1..N -> Requests]
    BY <1>5, <2>1
  <2> QED
    BY <1>2, <2>2
<1>10. at \in [1..Len(s) -> DOMAIN q]
  BY <1>6, <1>7, <1>9
<1>11. \A n \in 1..Len(s) : s[n] = q[at[n]] /\ Owner[s[n]] # o
  BY <1>5, <1>7, <1>9
<1>12. \A i \in DOMAIN q : Owner[q[i]] # o => \E n \in 1..Len(s) : at[n] = i
  BY <1>8, <1>9 DEF Kept
<1>13. IsTheOthers(s, q, o)
  <2>1. \A m, n \in 1..Len(s) : m < n => at[m] < at[n]
    BY <1>4, <1>9
  <2> QED
    BY <2>1, <1>10, <1>11, <1>12 DEF IsTheOthers
<1> QED
  BY <1>9, <1>13 DEF s

-----------------------------------------------------------------------------
(***************************************************************************)
(* The cache.                                                              *)
(***************************************************************************)

Labels == [Params -> Params \cup {Nothing}]

\* The parameters of the server are numbers, as many as it says.
LEMMA ParamsAreFinite ==
    IsFiniteSet(Params) /\ Cardinality(Params) = NumParams /\ Params \in SUBSET Nat
<1>1. NumParams \in Nat \ {0}
  BY NumberAssumption
<1>2. /\ IsFiniteSet(0..(NumParams - 1))
      /\ Cardinality(0..(NumParams - 1))
           = IF 0 > NumParams - 1 THEN 0 ELSE (NumParams - 1) - 0 + 1
  BY <1>1, FS_Interval
<1> QED
  BY <1>1, <1>2 DEF Params

\* The cache has room for every parameter of the server.
LEMMA CacheSizeBounds ==
    ASSUME NEW l \in Labels
    PROVE  /\ CacheSize(l) \in 0..NumParams
           /\ CacheSize(l) = NumParams <=> \A p \in Params : l[p] # Nothing
           /\ CacheSize(l) = 0 <=> \A p \in Params : l[p] = Nothing
<1> DEFINE F == {p \in Params : l[p] # Nothing}
<1>1. F = {p \in DOMAIN l : l[p] # Nothing}
  BY DEF Labels
<1>2. CacheSize(l) = Cardinality(F)
  BY <1>1 DEF CacheSize
<1>3. F \subseteq Params
  OBVIOUS
<1>4. IsFiniteSet(F) /\ Cardinality(F) <= NumParams
  BY <1>3, ParamsAreFinite, FS_Subset
<1>5. Cardinality(F) \in Nat
  BY <1>4, FS_CardinalityType
<1>6. Cardinality(F) = NumParams <=> F = Params
  BY <1>3, ParamsAreFinite, FS_Subset
<1>7. Cardinality(F) = 0 <=> F = {}
  BY <1>4, FS_EmptySet
<1>8. F = Params <=> \A p \in Params : l[p] # Nothing
  OBVIOUS
<1>9. F = {} <=> \A p \in Params : l[p] = Nothing
  OBVIOUS
<1> HIDE DEF F
<1> QED
  BY <1>2, <1>4, <1>5, <1>6, <1>7, <1>8, <1>9, NumberAssumption

\* add_new_param labels what was not labelled, and forgets nothing.
LEMMA AddedIsFound ==
    ASSUME label \in Labels, NEW p \in Params, NEW indexed \in BOOLEAN,
           AddNewParam(p, indexed)
    PROVE  /\ label' \in Labels
           /\ label'[p] # Nothing
           /\ \A x \in Params : x # p => label'[x] = label[x]
<1>1. Nothing \notin Nat /\ Params \subseteq Nat
  BY RequestAssumption, ParamsAreFinite
<1>2. CASE label[p] # Nothing
  BY <1>2 DEF AddNewParam, Labels
<1>3. CASE label[p] = Nothing
  <2> DEFINE new == IF indexed THEN p ELSE CacheSize(label)
  <2>1. CacheSize(label) \in Params
    BY <1>3, CacheSizeBounds, NumberAssumption DEF Params
  <2>2. new \in Params /\ new # Nothing
    BY <1>1, <2>1
  <2>3. label' = [label EXCEPT ![p] = new]
    BY <1>3 DEF AddNewParam
  <2> HIDE DEF new
  <2> QED
    BY <2>2, <2>3 DEF Labels
<1> QED
  BY <1>2, <1>3

\* While the cache is not full, an index is missing, also when some labels are
\* positions and not indices.
LEMMA IndexIsMissing ==
    ASSUME NEW l \in Labels, CacheSize(l) < NumParams
    PROVE  Missing(l, NumParams) # {}
<1> DEFINE F == {p \in Params : l[p] # Nothing}
           f == [p \in F |-> l[p]]
<1> SUFFICES ASSUME Missing(l, NumParams) = {} PROVE FALSE
  OBVIOUS
<1>1. \A i \in Params : \E p \in Params : l[p] = i
  BY DEF Missing, Params, Labels
<1>2. Nothing \notin Params
  BY RequestAssumption, ParamsAreFinite
<1>3. f \in [F -> Params]
  BY DEF Labels
<1>4. \A i \in Params : \E p \in F : f[p] = i
  BY <1>1, <1>2
<1>5. f \in Surjection(F, Params)
  BY <1>3, <1>4 DEF Surjection
<1>6. F \subseteq Params
  OBVIOUS
<1>7. IsFiniteSet(F)
  BY <1>6, ParamsAreFinite, FS_Subset
<1>8. Cardinality(Params) <= Cardinality(F)
  BY <1>5, <1>7, FS_Surjection
<1>9. F = {p \in DOMAIN l : l[p] # Nothing}
  BY DEF Labels
<1>10. CacheSize(l) = Cardinality(F)
  BY <1>9 DEF CacheSize
<1> HIDE DEF F
<1>11. Cardinality(F) \in Nat
  BY <1>7, FS_CardinalityType
<1> QED
  BY <1>8, <1>10, <1>11, ParamsAreFinite, NumberAssumption

\* What request_next_missing asks for last is a parameter of the server.
LEMMA LastMissingIsAParam ==
    ASSUME NEW l, NEW n \in 0..NumParams, NEW ok, RequestNextMissing(l, n, ok),
           lastMissing \in Params \cup {Nothing}
    PROVE  lastMissing' \in Params \cup {Nothing}
<1> DEFINE S == NextMissing(l, n)
<1>1. S \subseteq Params
  BY NumberAssumption DEF NextMissing, Missing, Params
<1>2. S \in SUBSET Nat /\ IsFiniteSet(S)
  BY <1>1, ParamsAreFinite, FS_Subset
<1>3. CASE S = {}
  BY <1>3 DEF RequestNextMissing
<1>4. CASE S # {}
  <2>1. \E i \in S : \A j \in S : j <= i
    BY <1>2, <1>4, LargestExists
  <2>2. lastMissing' = CHOOSE i \in S : \A j \in S : j <= i
    BY <1>4 DEF RequestNextMissing
  <2> HIDE DEF S
  <2>3. lastMissing' \in S
    BY <2>1, <2>2
  <2> QED
    BY <1>1, <2>3
<1> QED
  BY <1>3, <1>4

-----------------------------------------------------------------------------
(***************************************************************************)
(* Type correctness.                                                       *)
(***************************************************************************)

\* Those who are told of a success are owners.
LEMMA CallsType == Calls => calling' \subseteq Owners
  BY DEF Calls, Owners

\* A value in either protocol.  PARAM_EXT_VALUE asks for nothing more, so no
\* message can fail to be sent.
Value(p, indexed, value, ok) ==
    \/ ProcessParamValue(p, indexed, value, ok)
    \/ ok = TRUE /\ ProcessParamExtValue(p, indexed)

\* It is an answer to the request under way, by what kind of request that is.
LEMMA ValueCases ==
    ASSUME NEW p, NEW indexed, NEW value, NEW ok, Value(p, indexed, value, ok)
    PROVE  \E r \in Requests :
             /\ UnderWay(r)
             /\ \/ /\ Kind[r] = "set" /\ SetValue(r, value, ok)
                   /\ UNCHANGED <<allVars, cacheVars>>
                \/ /\ Kind[r] = "get" /\ RemoveTimeout /\ Finish(r, "Success", tasks)
                   /\ UNCHANGED <<retries, allVars, cacheVars>>
                \/ /\ Kind[r] = "all" /\ AllValue(r, p, indexed, ok)
                   /\ UNCHANGED retries
             /\ Calls
             /\ UNCHANGED <<extended, requested, callerVars>>
<1>1. CASE ProcessParamValue(p, indexed, value, ok)
  BY <1>1 DEF ProcessParamValue, GetValue
<1>2. CASE ok = TRUE /\ ProcessParamExtValue(p, indexed)
  BY <1>2 DEF ProcessParamExtValue, GetValue
<1> QED
  BY <1>1, <1>2 DEF Value

\* What kind of task it is tells what is in it.
LEMMA TaskShapes ==
    ASSUME NEW t \in Tasks
    PROVE  /\ t.op = "do_work" => t = DoWorkTask
           /\ t.op = "enqueue" => t.request \in Requests /\ t = EnqueueTask(t.request)
           /\ t.op = "cancel" => t.owner \in Owners /\ t = CancelTask(t.owner)
           /\ t.op \in {"do_work", "enqueue", "cancel"}
  BY DEF Tasks, DoWorkTask, EnqueueTask, CancelTask

\* Tasks of different kinds differ, and so do those of different requests.
LEMMA TasksDiffer ==
    ASSUME NEW r \in Requests, NEW o \in Owners
    PROVE  /\ EnqueueTask(r) \in Tasks /\ EnqueueTask(r).op = "enqueue"
           /\ CancelTask(o) \in Tasks /\ CancelTask(o).op = "cancel"
           /\ DoWorkTask \in Tasks /\ DoWorkTask.op = "do_work"
           /\ EnqueueTask(r) # CancelTask(o)
           /\ EnqueueTask(r) # DoWorkTask
           /\ CancelTask(o) # DoWorkTask
           /\ \A s \in Requests : EnqueueTask(r) = EnqueueTask(s) => r = s
           /\ \A p \in Owners : CancelTask(o) = CancelTask(p) => o = p
  BY DEF Tasks, DoWorkTask, EnqueueTask, CancelTask

\* What the queue, the tasks and the results are after a request has ended.
LEMMA FinishType ==
    ASSUME TypeOK, NEW r \in Requests, NEW result \in Results,
           Finish(r, result, tasks), queue # <<>>
    PROVE  /\ queue' \in Seq(Requests)
           /\ tasks' \in Seq(Tasks)
           /\ results' \in [Requests -> Seq(Results)]
<1>1. DoWorkTask \in Tasks
  BY DEF Tasks
<1>2. queue' \in Seq(Requests)
  BY DEF Finish, TypeOK
<1>3. tasks' \in Seq(Tasks)
  BY <1>1 DEF Finish, TypeOK
<1>4. results' \in [Requests -> Seq(Results)]
  BY DEF Finish, Call, TypeOK
<1> QED
  BY <1>2, <1>3, <1>4

\* do_work keeps the types, of whatever queue it finds.
LEMMA DoWorkType ==
    ASSUME TypeOK, NEW q \in Seq(Requests), NEW ts \in Seq(Tasks), NEW ok \in BOOLEAN,
           DoWork(q, ts, ok), Calls, UNCHANGED <<extended, retries, allVars, callerVars>>
    PROVE  TypeOK'
<1> USE DEF allVars, callerVars, timerVars, cacheVars
<1>0. calling' \subseteq Owners
  BY CallsType
<1> USE <1>0
<1>1. CASE UNCHANGED <<requested, timerVars, cacheVars, results>> /\ queue' = q /\ tasks' = ts
  BY <1>1 DEF TypeOK
<1>2. CASE /\ q # <<>> /\ Head(q) \notin requested
           /\ (IF Kind[Head(q)] = "set" THEN UNCHANGED cacheVars ELSE ClearCache)
  <2>1. Head(q) \in Requests /\ Tail(q) \in Seq(Requests)
    BY <1>2
  <2>2. label' \in Labels /\ lastMissing' \in Params \cup {Nothing} /\ fresh' \subseteq Params
    BY <1>2 DEF ClearCache, Labels, TypeOK
  <2>3. CASE /\ requested' = requested \cup {Head(q)}
             /\ AddTimeout(timer, stale)
             /\ queue' = q /\ tasks' = ts
             /\ UNCHANGED results
    <3>1. timer' \in BOOLEAN /\ stale' \in Nat
      BY <2>3 DEF AddTimeout, TypeOK
    <3>2. requested' \subseteq Requests /\ rerequesting' \subseteq requested'
      BY <2>1, <2>3 DEF TypeOK
    <3> QED
      BY <2>2, <2>3, <3>1, <3>2 DEF TypeOK, Labels
  <2>4. CASE /\ queue' = Tail(q)
             /\ tasks' = IF Len(q) > 1 THEN Append(ts, DoWorkTask) ELSE ts
             /\ Call(Head(q), "ConnectionError")
             /\ UNCHANGED <<requested, timerVars>>
    <3>1. tasks' \in Seq(Tasks)
      <4>1. DoWorkTask \in Tasks
        BY DEF Tasks
      <4> QED
        BY <2>4, <4>1
    <3>2. results' \in [Requests -> Seq(Results)]
      <4>1. results \in [Requests -> Seq(Results)] /\ "ConnectionError" \in Results
        BY DEF Results, TypeOK
      <4>2. Append(results[Head(q)], "ConnectionError") \in Seq(Results)
        BY <2>1, <4>1
      <4> QED
        BY <2>1, <2>4, <4>1, <4>2 DEF Call
    <3> QED
      BY <2>1, <2>2, <2>4, <3>1, <3>2 DEF TypeOK, Labels
  <2> QED
    BY <1>2, <2>3, <2>4 DEF DoWork
<1> QED
  BY <1>1, <1>2 DEF DoWork

\* The callers' steps and the posted tasks.
LEMMA TaskType ==
    ASSUME TypeOK, OwnerInv,
           \/ \E r \in Requests : Request(r)
           \/ \E o \in Owners : Cancel(o)
           \/ TaskStep
           \/ Erase
    PROVE  TypeOK'
<1>1. ASSUME NEW r \in Requests, Request(r) PROVE TypeOK'
  <2>1. tasks' \in Seq(Tasks)
    BY <1>1, TaskShapes DEF Request, Tasks, TypeOK
  <2>2. asked' \subseteq Requests /\ late' \subseteq asked'
    BY <1>1 DEF Request, TypeOK
  <2> QED
    BY <1>1, <2>1, <2>2 DEF Request, TypeOK, timerVars, allVars, cacheVars
<1>2. ASSUME NEW o \in Owners, Cancel(o) PROVE TypeOK'
  <2>1. tasks' \in Seq(Tasks)
    BY <1>2 DEF Cancel, Tasks, TypeOK
  <2> QED
    BY <1>2, <2>1 DEF Cancel, TypeOK, timerVars, allVars, cacheVars
<1>3. ASSUME NEW ok \in BOOLEAN, RunDoWork(ok) PROVE TypeOK'
  <2>1. queue \in Seq(Requests) /\ Tail(tasks) \in Seq(Tasks)
    BY <1>3 DEF RunDoWork, TypeOK
  <2> QED
    BY <1>3, <2>1, DoWorkType DEF RunDoWork
<1>4. ASSUME NEW ok \in BOOLEAN, Enqueue(ok) PROVE TypeOK'
  <2> DEFINE q == Append(queue, Head(tasks).request)
  <2>1. Head(tasks) \in Tasks /\ Tail(tasks) \in Seq(Tasks)
    BY <1>4 DEF Enqueue, TypeOK
  <2>2. Head(tasks).request \in Requests
    BY <1>4, <2>1, TaskShapes DEF Enqueue
  <2>3. q \in Seq(Requests)
    BY <2>2 DEF TypeOK
  <2>4. CASE queue = <<>>
    BY <1>4, <2>1, <2>3, <2>4, DoWorkType DEF Enqueue
  <2>5. CASE queue # <<>>
    BY <1>4, <2>1, <2>3, <2>5, CallsType DEF Enqueue, TypeOK, timerVars, allVars, cacheVars, callerVars
  <2> QED
    BY <2>4, <2>5
<1>5. CASE Erase
  <2>1. Head(tasks) \in Tasks /\ Tail(tasks) \in Seq(Tasks)
    BY <1>5 DEF Erase, TypeOK
  <2>2. Head(tasks).owner \in cancelling
    <3>1. /\ Head(tasks).owner \in Owners
          /\ tasks[1] = CancelTask(Head(tasks).owner)
          /\ 1 \in DOMAIN tasks
      BY <1>5, <2>1, TaskShapes DEF Erase, TypeOK
    <3> QED
      BY <3>1 DEF OwnerInv
  <2>3. queue' \in Seq(Requests)
    BY <1>5, WithoutIsTheOthers DEF Erase, TypeOK
  <2> QED
    BY <1>5, <2>1, <2>2, <2>3 DEF Erase, TypeOK, timerVars, allVars, cacheVars
<1> QED
  BY <1>1, <1>2, <1>3, <1>4, <1>5 DEF TaskStep

\* The messages.
LEMMA MessageType ==
    ASSUME TypeOK,
           \/ \E p \in Params, indexed, ok \in BOOLEAN, value \in {"same", "other", "type"} :
                 Value(p, indexed, value, ok)
           \/ \E p \in Params, result \in {"Success", "Failed"} :
                 ProcessParamExtAck(p, result)
           \/ \E p \in Params : ProcessParamError(p)
    PROVE  TypeOK'
<1> USE DEF timerVars, allVars, cacheVars, callerVars
<1> DEFINE Typed == /\ queue' \in Seq(Requests)
                    /\ tasks' \in Seq(Tasks)
                    /\ results' \in [Requests -> Seq(Results)]
<1>1. {"Success", "Timeout", "ConnectionError", "WrongType", "Failed"} = Results
  BY DEF Results
<1>2. ASSUME NEW p \in Params, NEW indexed \in BOOLEAN, NEW ok \in BOOLEAN,
             NEW value \in {"same", "other", "type"},
             Value(p, indexed, value, ok)
      PROVE  TypeOK'
  <2>1. PICK r \in Requests :
          /\ UnderWay(r)
          /\ \/ /\ SetValue(r, value, ok)
                /\ UNCHANGED <<allVars, cacheVars>>
             \/ /\ RemoveTimeout
                /\ Finish(r, "Success", tasks)
                /\ UNCHANGED <<retries, allVars, cacheVars>>
             \/ /\ AllValue(r, p, indexed, ok)
                /\ UNCHANGED retries
          /\ Calls
          /\ UNCHANGED <<extended, requested, callerVars>>
    BY <1>2, ValueCases
  <2>2. queue # <<>> /\ calling' \subseteq Owners
    BY <2>1, CallsType DEF UnderWay
  <2> USE <2>2
  <2>3. CASE SetValue(r, value, ok) /\ UNCHANGED <<allVars, cacheVars>>
    <3>1. Typed
      BY <1>1, <2>2, <2>3, FinishType DEF SetValue, TypeOK
    <3>2. timer' \in BOOLEAN /\ stale' \in Nat
      BY <2>3 DEF SetValue, RemoveTimeout, TypeOK
    <3>3. retries' \in [Requests -> 0..Retries]
      <4>1. \/ UNCHANGED retries
            \/ retries[r] > 0 /\ retries' = [retries EXCEPT ![r] = @ - 1]
        BY <2>3 DEF SetValue
      <4>2. retries \in [Requests -> 0..Retries]
        BY DEF TypeOK
      <4>3. retries[r] > 0 => retries[r] - 1 \in 0..Retries
        BY <4>2, NumberAssumption
      <4> QED
        BY <4>1, <4>2, <4>3
    <3> QED
      BY <2>1, <2>3, <3>1, <3>2, <3>3 DEF TypeOK
  <2>4. CASE /\ RemoveTimeout
             /\ Finish(r, "Success", tasks)
             /\ UNCHANGED <<retries, allVars, cacheVars>>
    <3>1. Typed
      BY <1>1, <2>2, <2>4, FinishType
    <3> QED
      BY <2>1, <2>4, <3>1 DEF RemoveTimeout, TypeOK
  <2>5. CASE AllValue(r, p, indexed, ok) /\ UNCHANGED retries
    <3>1. Typed
      BY <1>1, <2>2, <2>5, FinishType DEF AllValue, TypeOK
    <3>2. timer' \in BOOLEAN /\ stale' \in Nat
      BY <2>5 DEF AllValue, RemoveTimeout, TypeOK
    <3>3. label' \in Labels
      BY <2>5, AddedIsFound DEF AllValue, TypeOK, Labels
    <3>4. lastMissing' \in Params \cup {Nothing}
      <4>1. \/ UNCHANGED lastMissing
            \/ RequestNextMissing(label', NumParams, ok)
        BY <2>5 DEF AllValue
      <4>2. NumParams \in 0..NumParams
        BY NumberAssumption
      <4> QED
        BY <4>1, <4>2, LastMissingIsAParam DEF TypeOK
    <3>5. count' \in [Requests -> 0..NumParams] /\ fresh' \subseteq Params
      BY <2>5, NumberAssumption DEF AllValue, TypeOK
    <3>6. UNCHANGED rerequesting
      BY <2>5 DEF AllValue
    <3> QED
      BY <2>1, <2>5, <3>1, <3>2, <3>3, <3>4, <3>5, <3>6 DEF TypeOK, Labels
  <2> QED
    BY <2>1, <2>3, <2>4, <2>5
<1>3. ASSUME NEW r \in Requests, NEW result \in {"Success", "Failed"},
             UnderWay(r), RemoveTimeout, Finish(r, result, tasks), Calls,
             UNCHANGED <<extended, requested, retries, allVars, cacheVars, callerVars>>
      PROVE  TypeOK'
  <2>1. Typed
    BY <1>1, <1>3, FinishType DEF UnderWay
  <2> QED
    BY <1>3, <2>1, CallsType DEF RemoveTimeout, TypeOK
<1> QED
  BY <1>2, <1>3 DEF ProcessParamExtAck, ProcessParamError

\* Whatever was registered before, there is a timeout now.
LEMMA AddTimeoutType ==
    ASSUME NEW t \in BOOLEAN, NEW s \in Nat, AddTimeout(t, s)
    PROVE  timer' = TRUE /\ stale' \in Nat
<1>1. CASE t = TRUE
  BY <1>1 DEF AddTimeout
<1>2. CASE t = FALSE
  BY <1>2 DEF AddTimeout
<1> QED
  BY <1>1, <1>2

\* The timeouts; `t' and `s' are what is left of them once one has fired.
LEMMA TimeoutType ==
    ASSUME TypeOK, NEW t \in BOOLEAN, NEW s \in Nat, NEW ok \in BOOLEAN,
           ReceiveTimeout(t, s, ok)
    PROVE  TypeOK'
<1> USE DEF timerVars, allVars, cacheVars, callerVars
<1> DEFINE Typed == /\ queue' \in Seq(Requests)
                    /\ tasks' \in Seq(Tasks)
                    /\ results' \in [Requests -> Seq(Results)]
<1>1. {"Success", "Timeout", "ConnectionError", "WrongType", "Failed"} = Results
  BY DEF Results
<1>2. UNCHANGED <<extended, requested, callerVars>> /\ calling' \subseteq Owners
  BY CallsType DEF ReceiveTimeout
<1>3. CASE /\ timer' = t /\ stale' = s
           /\ UNCHANGED <<queue, tasks, results, retries, allVars, cacheVars>>
  BY <1>2, <1>3 DEF TypeOK
<1>4. ASSUME NEW r \in Requests, UnderWay(r), Kind[r] # "all", retries[r] > 0,
             SendAgain(r, t, s, ok), UNCHANGED <<allVars, cacheVars>>
      PROVE  TypeOK'
  <2>1. Typed
    <3>1. \/ UNCHANGED <<queue, tasks, results>>
          \/ Finish(r, "ConnectionError", tasks)
      BY <1>4 DEF SendAgain
    <3> QED
      BY <1>1, <1>4, <3>1, FinishType DEF UnderWay, TypeOK
  <2>2. timer' \in BOOLEAN /\ stale' \in Nat
    <3>1. AddTimeout(t, s) \/ (timer' = t /\ stale' = s)
      BY <1>4 DEF SendAgain
    <3> QED
      BY <3>1, AddTimeoutType
  <2>3. retries' \in [Requests -> 0..Retries]
    <3>1. \/ retries' = [retries EXCEPT ![r] = @ - 1]
          \/ UNCHANGED retries
      BY <1>4 DEF SendAgain
    <3>2. retries \in [Requests -> 0..Retries] /\ retries[r] > 0
      BY <1>4 DEF TypeOK
    <3>3. retries[r] - 1 \in 0..Retries
      BY <3>2, NumberAssumption
    <3> QED
      BY <3>1, <3>2, <3>3
  <2> QED
    BY <1>2, <1>4, <2>1, <2>2, <2>3 DEF TypeOK
<1>5. ASSUME NEW r \in Requests, UnderWay(r), Finish(r, "Timeout", tasks),
             timer' = t, stale' = s, UNCHANGED <<retries, allVars, cacheVars>>
      PROVE  TypeOK'
  <2>1. Typed
    BY <1>1, <1>5, FinishType DEF UnderWay
  <2> QED
    BY <1>2, <1>5, <2>1 DEF TypeOK
<1>6. ASSUME NEW r \in Requests, UnderWay(r), retries[r] > 0,
             RequestListAgain(r, t, s, ok), UNCHANGED <<allVars, cacheVars>>
      PROVE  TypeOK'
  <2>1. Typed
    <3>1. \/ UNCHANGED <<queue, tasks, results>>
          \/ Finish(r, "ConnectionError", tasks)
      BY <1>6 DEF RequestListAgain
    <3> QED
      BY <1>1, <1>6, <3>1, FinishType DEF UnderWay, TypeOK
  <2>2. timer' \in BOOLEAN /\ stale' \in Nat
    <3>1. AddTimeout(t, s) \/ (timer' = t /\ stale' = s)
      BY <1>6 DEF RequestListAgain
    <3> QED
      BY <3>1, AddTimeoutType
  <2>3. retries' \in [Requests -> 0..Retries]
    BY <1>6, NumberAssumption DEF RequestListAgain, TypeOK
  <2> QED
    BY <1>2, <1>6, <2>1, <2>2, <2>3 DEF TypeOK
<1>7. ASSUME NEW r \in Requests, GiveUpList(r, t, s), UNCHANGED <<allVars, cacheVars>>
      PROVE  TypeOK'
  <2>1. Typed
    BY <1>1, <1>7 DEF GiveUpList, Call, TypeOK
  <2> QED
    BY <1>2, <1>7, <2>1 DEF GiveUpList, TypeOK
<1>8. ASSUME NEW r \in Requests, UnderWay(r), RequestMissing(r, t, s, ok)
      PROVE  TypeOK'
  <2>1. Typed
    <3>1. \/ UNCHANGED <<queue, tasks, results>>
          \/ Finish(r, "ConnectionError", tasks)
      BY <1>8 DEF RequestMissing
    <3> QED
      BY <1>1, <1>8, <3>1, FinishType DEF UnderWay, TypeOK
  <2>2. timer' \in BOOLEAN /\ stale' \in Nat
    <3>1. AddTimeout(t, s) \/ (timer' = t /\ stale' = s)
      BY <1>8 DEF RequestMissing
    <3> QED
      BY <3>1, AddTimeoutType
  <2>3. lastMissing' \in Params \cup {Nothing}
    BY <1>8, LastMissingIsAParam DEF RequestMissing, TypeOK
  <2>4. rerequesting' \subseteq requested'
    BY <1>2, <1>8 DEF RequestMissing, UnderWay, TypeOK
  <2>5. UNCHANGED <<retries, count, label, fresh>>
    BY <1>8 DEF RequestMissing
  <2> QED
    BY <1>2, <2>1, <2>2, <2>3, <2>4, <2>5 DEF TypeOK
<1> QED
  BY <1>3, <1>4, <1>5, <1>6, <1>7, <1>8 DEF ReceiveTimeout

-----------------------------------------------------------------------------
(***************************************************************************)
(* The line of requests: those that are posted and those in the queue.     *)
(***************************************************************************)

InQueue(r) == \E i \in DOMAIN queue : queue[i] = r

\* A step that lets nobody into the line: the queue keeps its order, the tasks
\* move up by `d' and may be followed by do_work, at most the front is sent,
\* and a get or set hears of a result as it leaves.
Shrinks(d) ==
    /\ \E at \in [DOMAIN queue' -> DOMAIN queue] :
          /\ \A i \in DOMAIN queue' : queue'[i] = queue[at[i]]
          /\ \A i, j \in DOMAIN queue' : i < j => at[i] < at[j]
    /\ \A i \in DOMAIN tasks' : tasks'[i] # DoWorkTask =>
          i + d \in DOMAIN tasks /\ tasks'[i] = tasks[i + d]
    /\ UNCHANGED <<asked, late, cancelling>>
    /\ \A x \in requested' : x \in requested \/ (queue' # <<>> /\ x = queue'[1])
    /\ \A r \in Requests :
          Kind[r] # "all" /\ results'[r] # results[r] => InQueue(r) /\ ~InQueue(r)'

\* Who stays in the queue is there once, and only the front was sent.
LEMMA ShrinksQueue ==
    ASSUME TypeOK, TypeOK', QueueInv, NEW d \in {0, 1}, Shrinks(d)
    PROVE  QueueInv' /\ \A r \in Requests : InQueue(r)' => InQueue(r)
<1>1. PICK at \in [DOMAIN queue' -> DOMAIN queue] :
          /\ \A i \in DOMAIN queue' : queue'[i] = queue[at[i]]
          /\ \A i, j \in DOMAIN queue' : i < j => at[i] < at[j]
  BY DEF Shrinks
<1>2. /\ DOMAIN queue = 1..Len(queue) /\ Len(queue) \in Nat
      /\ DOMAIN queue' = 1..Len(queue') /\ Len(queue') \in Nat
      /\ queue' # <<>> => 1 \in DOMAIN queue'
  BY DEF TypeOK
<1>3. ASSUME NEW i \in DOMAIN queue', NEW j \in DOMAIN queue', queue'[i] = queue'[j]
      PROVE  i = j
  <2>1. at[i] = at[j]
    BY <1>1, <1>3 DEF QueueInv
  <2>2. ~(i < j) /\ ~(j < i)
    BY <1>1, <1>2, <2>1
  <2> QED
    BY <1>2, <2>2
<1>4. ASSUME NEW i \in DOMAIN queue', queue'[i] \in requested'
      PROVE  i = 1
  <2>1. CASE queue'[i] \in requested
    <3>1. at[i] = 1
      BY <1>1, <2>1 DEF QueueInv
    <3>2. 1 \in DOMAIN queue' /\ at[1] >= 1
      BY <1>1, <1>2
    <3>3. ~(1 < i)
      BY <1>1, <1>2, <3>1, <3>2
    <3> QED
      BY <1>2, <3>3
  <2>2. CASE queue' # <<>> /\ queue'[i] = queue'[1]
    BY <1>2, <1>3, <2>2
  <2> QED
    BY <1>4, <2>1, <2>2 DEF Shrinks
<1>5. \A i \in DOMAIN queue' : queue'[i] \in asked'
  BY <1>1 DEF QueueInv, Shrinks
<1>6. requested' \subseteq asked'
  BY <1>2, <1>5 DEF QueueInv, Shrinks
<1>7. QueueInv'
  BY <1>3, <1>4, <1>5, <1>6 DEF QueueInv
<1>8. \A r \in Requests : InQueue(r)' => InQueue(r)
  BY <1>1 DEF InQueue
<1> QED
  BY <1>7, <1>8

\* What is still posted is new, and who has heard has left.
LEMMA ShrinksTasks ==
    ASSUME TypeOK, TypeOK', QueueInv, TaskInv, SilenceInv, NEW d \in {0, 1}, Shrinks(d)
    PROVE  TaskInv' /\ SilenceInv'
<1>1. \A r \in Requests : InQueue(r)' => InQueue(r)
  BY ShrinksQueue
<1>2. /\ DOMAIN tasks' = 1..Len(tasks') /\ Len(tasks') \in Nat
      /\ queue' # <<>> => 1 \in DOMAIN queue' /\ queue'[1] \in Requests
  BY DEF TypeOK
<1>3. ASSUME NEW i \in DOMAIN tasks', NEW r \in Requests, tasks'[i] = EnqueueTask(r)
      PROVE  /\ i + d \in DOMAIN tasks /\ tasks[i + d] = EnqueueTask(r)
             /\ \A j \in DOMAIN tasks' : tasks'[j] = EnqueueTask(r) => i = j
             /\ r \in asked' \ requested'
             /\ ~InQueue(r) /\ ~InQueue(r)'
  <2>0. EnqueueTask(r) # DoWorkTask
    BY DEF EnqueueTask, DoWorkTask
  <2>1. i + d \in DOMAIN tasks /\ tasks[i + d] = EnqueueTask(r)
    BY <1>3, <2>0 DEF Shrinks
  <2>2. /\ \A j \in DOMAIN tasks : tasks[j] = EnqueueTask(r) => i + d = j
        /\ r \in asked \ requested
        /\ ~InQueue(r)
    BY <2>1 DEF TaskInv, InQueue
  <2>3. \A j \in DOMAIN tasks' : tasks'[j] = EnqueueTask(r) => i = j
    <3> SUFFICES ASSUME NEW j \in DOMAIN tasks', tasks'[j] = EnqueueTask(r) PROVE i = j
      OBVIOUS
    <3>1. j + d \in DOMAIN tasks /\ tasks[j + d] = EnqueueTask(r)
      BY <2>0 DEF Shrinks
    <3>2. i + d = j + d
      BY <2>2, <3>1
    <3> QED
      BY <1>2, <3>2
  <2>4. ~InQueue(r)'
    BY <1>1, <2>2
  <2>5. r \notin requested'
    BY <1>2, <2>2, <2>4 DEF Shrinks, InQueue
  <2> QED
    BY <2>1, <2>2, <2>3, <2>4, <2>5 DEF Shrinks
<1>4. TaskInv'
  BY <1>3 DEF TaskInv, InQueue
<1>5. ASSUME NEW r \in Requests, Kind[r] # "all", results'[r] # <<>>
      PROVE  r \in asked' /\ ~Pending(EnqueueTask(r))' /\ ~InQueue(r)'
  <2>1. ~Pending(EnqueueTask(r)) /\ r \in asked /\ ~InQueue(r)'
    <3>1. CASE results[r] # <<>>
      BY <1>1, <1>5, <3>1 DEF SilenceInv, InQueue
    <3>2. CASE results[r] = <<>>
      <4>1. InQueue(r) /\ ~InQueue(r)'
        BY <1>5, <3>2 DEF Shrinks
      <4>2. r \in asked /\ ~Pending(EnqueueTask(r))
        BY <4>1 DEF QueueInv, TaskInv, InQueue, Pending
      <4> QED
        BY <4>1, <4>2
    <3> QED
      BY <3>1, <3>2
  <2>2. ~Pending(EnqueueTask(r))'
    BY <1>3, <2>1 DEF Pending
  <2> QED
    BY <2>1, <2>2 DEF Shrinks
<1>6. SilenceInv'
  BY <1>5 DEF SilenceInv, InQueue
<1> QED
  BY <1>4, <1>6

\* The owners, if nobody was cancelled.
LEMMA ShrinksOwners ==
    ASSUME TypeOK, TypeOK', QueueInv, OwnerInv, NEW d \in {0, 1}, Shrinks(d),
           UNCHANGED cancelled
    PROVE  OwnerInv'
<1>1. DOMAIN tasks' = 1..Len(tasks') /\ Len(tasks') \in Nat
  BY DEF TypeOK
<1>2. ASSUME NEW i \in DOMAIN tasks', tasks'[i] # DoWorkTask
      PROVE  i + d \in DOMAIN tasks /\ tasks'[i] = tasks[i + d]
  BY <1>2 DEF Shrinks
<1>3. \A r \in Requests, o \in Owners :
         EnqueueTask(r) # DoWorkTask /\ CancelTask(o) # DoWorkTask
  BY DEF EnqueueTask, CancelTask, DoWorkTask
<1>4. ASSUME NEW i \in DOMAIN tasks', NEW j \in DOMAIN tasks', NEW o \in Owners,
             NEW r \in Requests \ late',
             tasks'[i] = CancelTask(o), tasks'[j] = EnqueueTask(r), Owner[r] = o
      PROVE  j < i
  <2>1. /\ i + d \in DOMAIN tasks /\ tasks[i + d] = CancelTask(o)
        /\ j + d \in DOMAIN tasks /\ tasks[j + d] = EnqueueTask(r)
    BY <1>2, <1>3, <1>4
  <2>2. j + d < i + d
    BY <1>4, <2>1 DEF OwnerInv, Shrinks
  <2> QED
    BY <1>1, <2>2
<1>5. ASSUME NEW i \in DOMAIN tasks', NEW o \in Owners, tasks'[i] = CancelTask(o)
      PROVE  o \in cancelling'
  <2>1. tasks'[i] # DoWorkTask
    BY <1>5 DEF CancelTask, DoWorkTask
  <2>2. i + d \in DOMAIN tasks /\ tasks[i + d] = CancelTask(o)
    BY <1>2, <1>5, <2>1
  <2> QED
    BY <2>2 DEF OwnerInv, Shrinks
<1>6. ASSUME NEW i \in DOMAIN tasks', NEW r \in Requests, tasks'[i] = EnqueueTask(r)
      PROVE  Owner[r] \notin cancelled' \/ r \in late'
  <2>1. tasks'[i] # DoWorkTask
    BY <1>6 DEF EnqueueTask, DoWorkTask
  <2>2. i + d \in DOMAIN tasks /\ tasks[i + d] = EnqueueTask(r)
    BY <1>2, <1>6, <2>1
  <2> QED
    BY <2>2 DEF OwnerInv, Shrinks
<1>7. \A i \in DOMAIN queue' : Owner[queue'[i]] \notin cancelled' \/ queue'[i] \in late'
  BY DEF OwnerInv, Shrinks
<1> QED
  BY <1>4, <1>5, <1>6, <1>7 DEF OwnerInv

LineInv == QueueInv /\ TaskInv /\ SilenceInv /\ OwnerInv /\ QueueIsKicked

\* The front leaves the queue, and do_work is posted if others wait.
LEMMA FrontLeaves ==
    ASSUME NEW q \in Seq(Requests), q # <<>>, NEW ts \in Seq(Tasks),
           queue' = Tail(q),
           tasks' = IF Len(q) > 1 THEN Append(ts, DoWorkTask) ELSE ts
    PROVE  /\ DOMAIN queue' = 1..(Len(q) - 1)
           /\ \A i \in DOMAIN queue' : i + 1 \in DOMAIN q /\ queue'[i] = q[i + 1]
           /\ \A i \in DOMAIN tasks' : tasks'[i] # DoWorkTask =>
                 i \in DOMAIN ts /\ tasks'[i] = ts[i]
           /\ queue' # <<>> => Pending(DoWorkTask)'
<1>1. Len(q) \in Nat /\ Len(q) >= 1
  OBVIOUS
<1>2. /\ DOMAIN queue' = 1..(Len(q) - 1)
      /\ \A i \in DOMAIN queue' : i + 1 \in DOMAIN q /\ queue'[i] = q[i + 1]
  BY <1>1
<1>3. CASE Len(q) > 1
  <2>1. /\ DOMAIN tasks' = 1..(Len(ts) + 1)
        /\ tasks'[Len(ts) + 1] = DoWorkTask
        /\ \A i \in 1..Len(ts) : tasks'[i] = ts[i]
    BY <1>3
  <2>2. Len(ts) \in Nat /\ DOMAIN ts = 1..Len(ts) /\ Len(ts) + 1 \in 1..(Len(ts) + 1)
    OBVIOUS
  <2>3. Pending(DoWorkTask)'
    BY <2>1, <2>2 DEF Pending
  <2>4. \A i \in DOMAIN tasks' : tasks'[i] # DoWorkTask => i \in DOMAIN ts
    BY <2>1, <2>2
  <2> QED
    BY <1>2, <2>1, <2>2, <2>3, <2>4
<1>4. CASE ~(Len(q) > 1)
  <2>1. Tail(q) = <<>>
    BY <1>1, <1>4
  <2> QED
    BY <1>2, <1>4, <2>1
<1> QED
  BY <1>3, <1>4

\* What a message or a timeout does to the line.
Responds ==
    /\ UNCHANGED <<requested, callerVars>>
    /\ \/ UNCHANGED <<queue, tasks, results>>
       \/ \E r \in Requests, result \in Results :
             UnderWay(r) /\ Finish(r, result, tasks)
       \/ \E r \in Requests :
             UnderWay(r) /\ Kind[r] = "all" /\ Call(r, "Timeout") /\ UNCHANGED <<queue, tasks>>

Answer ==
    \/ \E p \in Params, indexed, ok \in BOOLEAN, value \in {"same", "other", "type"} :
          Value(p, indexed, value, ok)
    \/ \E p \in Params, result \in {"Success", "Failed"} : ProcessParamExtAck(p, result)
    \/ \E p \in Params : ProcessParamError(p)
    \/ \E ok \in BOOLEAN : TimeoutFires(ok)

\* Whatever the server sends, and whichever timeout fires, at most the front
\* ends; only a get-all may hear of a timeout and stay.
LEMMA AnswersRespond == Answer => Responds
<1> SUFFICES ASSUME Answer PROVE Responds
  OBVIOUS
<1>1. {"Success", "Timeout", "ConnectionError", "WrongType", "Failed"} = Results
  BY DEF Results
<1>2. ASSUME NEW p \in Params, NEW indexed \in BOOLEAN, NEW ok \in BOOLEAN,
             NEW value \in {"same", "other", "type"},
             Value(p, indexed, value, ok)
      PROVE  Responds
  <2>1. PICK r \in Requests :
          /\ UnderWay(r)
          /\ \/ SetValue(r, value, ok)
             \/ Finish(r, "Success", tasks)
             \/ AllValue(r, p, indexed, ok)
          /\ UNCHANGED <<requested, callerVars>>
    BY <1>2, ValueCases
  <2>2. \/ UNCHANGED <<queue, tasks, results>>
        \/ \E result \in Results : Finish(r, result, tasks)
    BY <1>1, <2>1 DEF SetValue, AllValue
  <2> QED
    BY <2>1, <2>2 DEF Responds
<1>3. ASSUME NEW p \in Params, NEW result \in {"Success", "Failed"},
             ProcessParamExtAck(p, result)
      PROVE  Responds
  BY <1>1, <1>3 DEF ProcessParamExtAck, Responds
<1>4. ASSUME NEW p \in Params, ProcessParamError(p) PROVE Responds
  BY <1>1, <1>4 DEF ProcessParamError, Responds
<1>5. ASSUME NEW t, NEW s, NEW ok \in BOOLEAN, ReceiveTimeout(t, s, ok) PROVE Responds
  <2>1. UNCHANGED <<requested, callerVars>>
    BY <1>5 DEF ReceiveTimeout
  <2>2. CASE UNCHANGED <<queue, tasks, results>>
    BY <2>1, <2>2 DEF Responds
  <2>3. ASSUME NEW r \in Requests, UnderWay(r),
               \/ SendAgain(r, t, s, ok)
               \/ Finish(r, "Timeout", tasks)
               \/ RequestListAgain(r, t, s, ok)
               \/ Kind[r] = "all" /\ GiveUpList(r, t, s)
               \/ RequestMissing(r, t, s, ok)
        PROVE  Responds
    <3>1. \/ UNCHANGED <<queue, tasks, results>>
          \/ \E result \in Results : Finish(r, result, tasks)
          \/ Kind[r] = "all" /\ Call(r, "Timeout") /\ UNCHANGED <<queue, tasks>>
      BY <1>1, <2>3 DEF SendAgain, RequestListAgain, GiveUpList, RequestMissing
    <3> QED
      BY <2>1, <2>3, <3>1 DEF Responds
  <2> QED
    BY <1>5, <2>2, <2>3 DEF ReceiveTimeout
<1> QED
  BY <1>2, <1>3, <1>4, <1>5 DEF Answer, TimeoutFires

\* So nobody gets into the line, and who hears leaves it.
LEMMA RespondsShrinks ==
    ASSUME TypeOK, QueueInv, Responds
    PROVE  Shrinks(0)
<1> USE DEF callerVars
<1>1. /\ DOMAIN queue = 1..Len(queue) /\ Len(queue) \in Nat
      /\ DOMAIN tasks = 1..Len(tasks) /\ Len(tasks) \in Nat
  BY DEF TypeOK
<1>2. UNCHANGED <<asked, late, cancelling, requested>>
  BY DEF Responds
<1>3. CASE UNCHANGED <<queue, tasks>> /\ \A r \in Requests : Kind[r] # "all" => results'[r] = results[r]
  <2> DEFINE at == [i \in DOMAIN queue' |-> i]
  <2>1. /\ at \in [DOMAIN queue' -> DOMAIN queue]
        /\ \A i \in DOMAIN queue' : queue'[i] = queue[at[i]]
        /\ \A i, j \in DOMAIN queue' : i < j => at[i] < at[j]
    BY <1>3
  <2>2. \A i \in DOMAIN tasks' : i + 0 \in DOMAIN tasks /\ tasks'[i] = tasks[i + 0]
    <3>1. \A i \in 1..Len(tasks) : i + 0 = i
      BY <1>1
    <3> QED
      BY <1>1, <1>3, <3>1
  <2> HIDE DEF at
  <2> QED
    BY <1>2, <1>3, <2>1, <2>2 DEF Shrinks
<1>4. ASSUME NEW r \in Requests, NEW result \in Results, UnderWay(r), Finish(r, result, tasks)
      PROVE  Shrinks(0)
  <2> DEFINE at == [i \in DOMAIN queue' |-> i + 1]
  <2>1. queue # <<>> /\ r = Head(queue)
    BY <1>4 DEF UnderWay
  <2>2. /\ DOMAIN queue' = 1..(Len(queue) - 1)
        /\ \A i \in DOMAIN queue' : i + 1 \in DOMAIN queue /\ queue'[i] = queue[i + 1]
        /\ \A i \in DOMAIN tasks' : tasks'[i] # DoWorkTask =>
              i \in DOMAIN tasks /\ tasks'[i] = tasks[i]
    BY <1>4, <2>1, FrontLeaves DEF Finish, TypeOK
  <2>3. /\ at \in [DOMAIN queue' -> DOMAIN queue]
        /\ \A i \in DOMAIN queue' : queue'[i] = queue[at[i]]
    BY <2>2
  <2>4. \A i, j \in DOMAIN queue' : i < j => at[i] < at[j]
    BY <1>1, <2>2
  <2>5. \A i \in DOMAIN tasks' : tasks'[i] # DoWorkTask =>
           i + 0 \in DOMAIN tasks /\ tasks'[i] = tasks[i + 0]
    <3>1. \A i \in DOMAIN tasks : i + 0 = i
      BY <1>1
    <3> QED
      BY <2>2, <3>1
  <2>6. \A x \in Requests : results'[x] # results[x] => x = r
    BY <1>4 DEF Finish, Call, TypeOK
  <2>7. InQueue(r) /\ ~InQueue(r)'
    <3>1. 1 \in DOMAIN queue /\ queue[1] = r
      BY <1>1, <2>1
    <3>2. \A i \in DOMAIN queue' : queue'[i] # r
      BY <1>1, <2>2, <3>1 DEF QueueInv
    <3> QED
      BY <3>1, <3>2 DEF InQueue
  <2> HIDE DEF at
  <2> QED
    BY <1>2, <2>3, <2>4, <2>5, <2>6, <2>7 DEF Shrinks
<1>5. ASSUME NEW r \in Requests, Kind[r] = "all", Call(r, "Timeout"), UNCHANGED <<queue, tasks>>
      PROVE  Shrinks(0)
  <2>1. \A x \in Requests : Kind[x] # "all" => results'[x] = results[x]
    BY <1>5 DEF Call, TypeOK
  <2> QED
    BY <1>3, <1>5, <2>1
<1> QED
  BY <1>3, <1>4, <1>5 DEF Responds

\* Messages and timeouts keep the line.
LEMMA RespondsLine ==
    ASSUME TypeOK, TypeOK', LineInv, Responds
    PROVE  LineInv'
<1>1. Shrinks(0)
  BY RespondsShrinks DEF LineInv
<1>2. QueueInv' /\ TaskInv' /\ SilenceInv'
  BY <1>1, ShrinksQueue, ShrinksTasks DEF LineInv
<1>3. OwnerInv'
  BY <1>1, ShrinksOwners DEF LineInv, Responds, callerVars
<1>4. QueueIsKicked'
  <2>1. UNCHANGED <<requested, cancelled>>
    BY DEF Responds, callerVars
  <2>2. CASE UNCHANGED <<queue, tasks>>
    BY <2>1, <2>2 DEF LineInv, QueueIsKicked, Pending
  <2>3. ASSUME NEW r \in Requests, NEW result \in Results,
               UnderWay(r), Finish(r, result, tasks)
        PROVE  QueueIsKicked'
    <3>1. queue' # <<>> => Pending(DoWorkTask)'
      BY <2>3, FrontLeaves DEF UnderWay, Finish, TypeOK
    <3> QED
      BY <3>1 DEF QueueIsKicked
  <2> QED
    BY <2>2, <2>3 DEF Responds
<1> QED
  BY <1>2, <1>3, <1>4 DEF LineInv

\* A task is taken from the front of those that are posted.
LEMMA TaskTaken ==
    ASSUME NEW ts \in Seq(Tasks), ts # <<>>
    PROVE  /\ Tail(ts) \in Seq(Tasks) /\ DOMAIN Tail(ts) = 1..(Len(ts) - 1)
           /\ \A i \in DOMAIN Tail(ts) : i + 1 \in DOMAIN ts /\ Tail(ts)[i] = ts[i + 1]
           /\ \A i \in DOMAIN ts : i # 1 => i - 1 \in DOMAIN Tail(ts) /\ Tail(ts)[i - 1] = ts[i]
           /\ 1 \in DOMAIN ts /\ ts[1] = Head(ts) /\ Head(ts) \in Tasks
<1>1. Len(ts) \in Nat \ {0} /\ DOMAIN ts = 1..Len(ts)
  OBVIOUS
<1>2. /\ Tail(ts) \in Seq(Tasks) /\ Len(Tail(ts)) = Len(ts) - 1
      /\ \A i \in 1..(Len(ts) - 1) : Tail(ts)[i] = ts[i + 1]
  BY HeadTailProperties
<1>3. DOMAIN Tail(ts) = 1..(Len(ts) - 1)
  BY <1>2
<1>4. ASSUME NEW i \in DOMAIN ts, i # 1
      PROVE  i - 1 \in DOMAIN Tail(ts) /\ Tail(ts)[i - 1] = ts[i]
  <2>1. i - 1 \in 1..(Len(ts) - 1) /\ (i - 1) + 1 = i
    BY <1>1, <1>4
  <2> QED
    BY <1>2, <1>3, <2>1
<1>5. 1 \in DOMAIN ts /\ ts[1] = Head(ts) /\ Head(ts) \in Tasks
  BY <1>1
<1> QED
  BY <1>1, <1>2, <1>3, <1>4, <1>5

\* The posted do_work leaves a front that is under way, or posts the next.
LEMMA DoWorkLine ==
    ASSUME TypeOK, TypeOK', LineInv, NEW ok \in BOOLEAN, RunDoWork(ok)
    PROVE  LineInv'
<1> DEFINE ts == Tail(tasks)
<1> USE DEF callerVars
<1>1. /\ DOMAIN queue = 1..Len(queue) /\ Len(queue) \in Nat
      /\ tasks \in Seq(Tasks) /\ tasks # <<>> /\ queue \in Seq(Requests)
  BY DEF TypeOK, RunDoWork
<1>2. /\ ts \in Seq(Tasks)
      /\ \A i \in DOMAIN ts : i + 1 \in DOMAIN tasks /\ ts[i] = tasks[i + 1]
  BY <1>1, TaskTaken
<1>3. DoWork(queue, ts, ok) /\ UNCHANGED <<asked, late, cancelling, cancelled>>
  BY DEF RunDoWork
<1> HIDE DEF ts
<1>4. CASE /\ queue' = queue /\ tasks' = ts /\ UNCHANGED results
           /\ \A x \in requested' : x \in requested \/ (queue # <<>> /\ x = Head(queue))
           /\ queue # <<>> => Head(queue) \in requested'
  <2> DEFINE at == [i \in DOMAIN queue' |-> i]
  <2>1. /\ at \in [DOMAIN queue' -> DOMAIN queue]
        /\ \A i \in DOMAIN queue' : queue'[i] = queue[at[i]]
        /\ \A i, j \in DOMAIN queue' : i < j => at[i] < at[j]
    BY <1>4
  <2>2. queue # <<>> => Head(queue) = queue'[1]
    BY <1>1, <1>4
  <2>3. \A i \in DOMAIN tasks' : i + 1 \in DOMAIN tasks /\ tasks'[i] = tasks[i + 1]
    BY <1>2, <1>4
  <2> HIDE DEF at
  <2>4. Shrinks(1)
    BY <1>3, <1>4, <2>1, <2>2, <2>3 DEF Shrinks
  <2>5. QueueIsKicked'
    <3>1. queue' # <<>> => Head(queue') \in requested'
      BY <1>4
    <3> QED
      BY <3>1 DEF QueueIsKicked
  <2> QED
    BY <1>3, <2>4, <2>5, ShrinksQueue, ShrinksTasks, ShrinksOwners DEF LineInv
<1>5. CASE /\ queue # <<>>
           /\ queue' = Tail(queue)
           /\ tasks' = IF Len(queue) > 1 THEN Append(ts, DoWorkTask) ELSE ts
           /\ Call(Head(queue), "ConnectionError")
           /\ UNCHANGED requested
  <2> DEFINE at == [i \in DOMAIN queue' |-> i + 1]
  <2>0. PICK r \in Requests : r = Head(queue)
    BY <1>1, <1>5
  <2>1. /\ DOMAIN queue' = 1..(Len(queue) - 1)
        /\ \A i \in DOMAIN queue' : i + 1 \in DOMAIN queue /\ queue'[i] = queue[i + 1]
        /\ \A i \in DOMAIN tasks' : tasks'[i] # DoWorkTask =>
              i \in DOMAIN ts /\ tasks'[i] = ts[i]
        /\ queue' # <<>> => Pending(DoWorkTask)'
    BY <1>1, <1>2, <1>5, FrontLeaves
  <2>2. /\ at \in [DOMAIN queue' -> DOMAIN queue]
        /\ \A i \in DOMAIN queue' : queue'[i] = queue[at[i]]
    BY <2>1
  <2>3. \A i, j \in DOMAIN queue' : i < j => at[i] < at[j]
    BY <1>1, <2>1
  <2>4. \A i \in DOMAIN tasks' : tasks'[i] # DoWorkTask =>
           i + 1 \in DOMAIN tasks /\ tasks'[i] = tasks[i + 1]
    BY <1>2, <2>1
  <2>5. \A x \in Requests : results'[x] # results[x] => x = r
    BY <1>5, <2>0 DEF Call, TypeOK
  <2>6. InQueue(r) /\ ~InQueue(r)'
    <3>1. 1 \in DOMAIN queue /\ queue[1] = r
      BY <1>1, <1>5, <2>0
    <3>2. \A i \in DOMAIN queue' : queue'[i] # r
      BY <1>1, <2>1, <3>1 DEF QueueInv, LineInv
    <3> QED
      BY <3>1, <3>2 DEF InQueue
  <2> HIDE DEF at
  <2>7. Shrinks(1)
    BY <1>3, <1>5, <2>2, <2>3, <2>4, <2>5, <2>6 DEF Shrinks
  <2>8. QueueIsKicked'
    BY <2>1 DEF QueueIsKicked
  <2> QED
    BY <1>3, <2>7, <2>8, ShrinksQueue, ShrinksTasks, ShrinksOwners DEF LineInv
<1> QED
  BY <1>3, <1>4, <1>5 DEF DoWork

\* The request at the front of the tasks steps into the queue, or hears at once
\* that it could not be sent.
LEMMA EnqueueLine ==
    ASSUME TypeOK, TypeOK', LineInv, NEW ok \in BOOLEAN, Enqueue(ok)
    PROVE  LineInv'
<1> DEFINE ts == Tail(tasks)
<1> USE DEF callerVars
<1>1. /\ DOMAIN queue = 1..Len(queue) /\ Len(queue) \in Nat /\ queue \in Seq(Requests)
      /\ tasks \in Seq(Tasks) /\ tasks # <<>> /\ Head(tasks).op = "enqueue"
  BY DEF TypeOK, Enqueue
<1>2. /\ ts \in Seq(Tasks) /\ DOMAIN ts = 1..(Len(tasks) - 1)
      /\ \A i \in DOMAIN ts : i + 1 \in DOMAIN tasks /\ ts[i] = tasks[i + 1]
      /\ \A i \in DOMAIN tasks : i # 1 => i - 1 \in DOMAIN ts /\ ts[i - 1] = tasks[i]
      /\ 1 \in DOMAIN tasks /\ tasks[1] = Head(tasks) /\ Head(tasks) \in Tasks
  BY <1>1, TaskTaken
<1>3. PICK r \in Requests : Head(tasks) = EnqueueTask(r) /\ r = Head(tasks).request
  BY <1>1, <1>2, TaskShapes
<1>4. /\ r \in asked \ requested /\ ~InQueue(r)
      /\ Owner[r] \notin cancelled \/ r \in late
      /\ Kind[r] # "all" => results[r] = <<>>
  BY <1>2, <1>3 DEF LineInv, TaskInv, OwnerInv, SilenceInv, InQueue, Pending
<1>5. UNCHANGED <<asked, late, cancelling, cancelled>>
  BY DEF Enqueue
<1>6. \/ /\ queue # <<>> /\ queue' = Append(queue, r) /\ tasks' = ts
         /\ UNCHANGED <<requested, results>>
      \/ queue = <<>> /\ DoWork(Append(queue, r), ts, ok)
  BY <1>3 DEF Enqueue
<1> HIDE DEF ts
<1>7. /\ tasks' = ts
      /\ \/ /\ queue' = Append(queue, r) /\ UNCHANGED results
            /\ \/ queue # <<>> /\ UNCHANGED requested
               \/ queue = <<>> /\ requested' = requested \cup {r}
         \/ /\ queue = <<>> /\ queue' = <<>>
            /\ Call(r, "ConnectionError") /\ UNCHANGED requested
  <2>1. ASSUME queue = <<>>, DoWork(Append(queue, r), ts, ok)
        PROVE  /\ tasks' = ts
               /\ \/ /\ queue' = Append(queue, r) /\ UNCHANGED results
                     /\ requested' = requested \cup {r}
                  \/ queue' = <<>> /\ Call(r, "ConnectionError") /\ UNCHANGED requested
    <3>1. Append(queue, r) = <<r>>
      BY <2>1
    <3>2. /\ <<r>> # <<>> /\ Head(<<r>>) = r /\ Tail(<<r>>) = <<>> /\ ~(Len(<<r>>) > 1)
      OBVIOUS
    <3> QED
      BY <1>4, <2>1, <3>1, <3>2 DEF DoWork
  <2> QED
    BY <1>6, <2>1
<1>8. ASSUME NEW i \in DOMAIN ts, NEW s \in Requests, ts[i] = EnqueueTask(s)
      PROVE  /\ i + 1 \in DOMAIN tasks /\ tasks[i + 1] = EnqueueTask(s)
             /\ s # r
  <2>1. i + 1 \in DOMAIN tasks /\ tasks[i + 1] = EnqueueTask(s) /\ i \in Nat /\ i + 1 # 1
    BY <1>2, <1>8
  <2> QED
    BY <1>2, <1>3, <2>1 DEF LineInv, TaskInv
<1>9. /\ \A x \in requested' : x \in requested \/ (x = r /\ queue = <<>>)
      /\ \A i \in DOMAIN queue' :
            \/ i \in DOMAIN queue /\ queue'[i] = queue[i]
            \/ i = Len(queue) + 1 /\ queue'[i] = r /\ UNCHANGED results
      /\ \A x \in Requests : results'[x] # results[x] => x = r /\ queue' = <<>>
  <2>1. CASE queue' = Append(queue, r) /\ UNCHANGED results
    <3>1. /\ DOMAIN queue' = 1..(Len(queue) + 1)
          /\ \A i \in 1..Len(queue) : queue'[i] = queue[i]
          /\ queue'[Len(queue) + 1] = r
      BY <1>1, <2>1
    <3>2. \A i \in 1..(Len(queue) + 1) : i \in 1..Len(queue) \/ i = Len(queue) + 1
      BY <1>1
    <3> QED
      BY <1>1, <1>7, <2>1, <3>1, <3>2
  <2>2. CASE queue' = <<>> /\ Call(r, "ConnectionError") /\ UNCHANGED requested
    <3>1. \A x \in Requests : results'[x] # results[x] => x = r
      BY <2>2 DEF Call, TypeOK
    <3> QED
      BY <2>2, <3>1
  <2> QED
    BY <1>7, <2>1, <2>2
<1>10. QueueInv'
  <2>1. \A i \in DOMAIN queue : queue[i] # r /\ queue[i] \in asked
    BY <1>4 DEF LineInv, QueueInv, InQueue
  <2>2. \A i, j \in DOMAIN queue' : queue'[i] = queue'[j] => i = j
    BY <1>9, <2>1 DEF LineInv, QueueInv
  <2>3. ASSUME NEW i \in DOMAIN queue', queue'[i] \in requested' PROVE i = 1
    <3>1. CASE i \in DOMAIN queue /\ queue'[i] = queue[i]
      BY <1>9, <2>1, <2>3, <3>1 DEF LineInv, QueueInv
    <3>2. CASE i = Len(queue) + 1 /\ queue'[i] = r
      BY <1>4, <1>9, <2>3, <3>2
    <3> QED
      BY <1>9, <3>1, <3>2
  <2>4. \A i \in DOMAIN queue' : queue'[i] \in asked'
    BY <1>4, <1>5, <1>9, <2>1
  <2>5. requested' \subseteq asked'
    BY <1>4, <1>5, <1>9 DEF LineInv, QueueInv
  <2> QED
    BY <2>2, <2>3, <2>4, <2>5 DEF QueueInv
<1>11. TaskInv'
  <2>1. ASSUME NEW i \in DOMAIN tasks', NEW s \in Requests, tasks'[i] = EnqueueTask(s)
        PROVE  /\ \A j \in DOMAIN tasks' : tasks'[j] = EnqueueTask(s) => i = j
               /\ s \in asked' \ requested'
               /\ \A j \in DOMAIN queue' : queue'[j] # s
    <3>1. i \in DOMAIN ts /\ ts[i] = EnqueueTask(s)
      BY <1>7, <2>1
    <3>2. i + 1 \in DOMAIN tasks /\ tasks[i + 1] = EnqueueTask(s) /\ s # r
      BY <1>8, <3>1
    <3>3. /\ \A j \in DOMAIN tasks : tasks[j] = EnqueueTask(s) => i + 1 = j
          /\ s \in asked \ requested
          /\ \A j \in DOMAIN queue : queue[j] # s
      BY <3>2 DEF LineInv, TaskInv
    <3>4. ASSUME NEW j \in DOMAIN tasks', tasks'[j] = EnqueueTask(s) PROVE i = j
      <4>1. j \in DOMAIN ts /\ ts[j] = EnqueueTask(s)
        BY <1>7, <3>4
      <4>2. i + 1 = j + 1
        BY <1>8, <3>3, <4>1
      <4> QED
        BY <1>2, <3>1, <4>1, <4>2
    <3>5. s \in asked' \ requested'
      BY <1>5, <1>9, <3>2, <3>3
    <3>6. \A j \in DOMAIN queue' : queue'[j] # s
      BY <1>9, <3>2, <3>3
    <3> QED
      BY <3>4, <3>5, <3>6
  <2> QED
    BY <2>1 DEF TaskInv
<1>12. SilenceInv'
  <2>1. ASSUME NEW x \in Requests, Kind[x] # "all", results'[x] # <<>>
        PROVE  /\ x \in asked'
               /\ \A i \in DOMAIN tasks' : tasks'[i] # EnqueueTask(x)
               /\ \A i \in DOMAIN queue' : queue'[i] # x
    <3>1. CASE results'[x] # results[x]
      BY <1>4, <1>5, <1>7, <1>8, <1>9, <3>1
    <3>2. CASE results'[x] = results[x]
      <4>1. /\ x \in asked /\ x # r
            /\ \A i \in DOMAIN tasks : tasks[i] # EnqueueTask(x)
            /\ \A i \in DOMAIN queue : queue[i] # x
        BY <1>4, <2>1, <3>2 DEF LineInv, SilenceInv, Pending
      <4> QED
        BY <1>5, <1>7, <1>8, <1>9, <4>1
    <3> QED
      BY <3>1, <3>2
  <2> QED
    BY <2>1 DEF SilenceInv, Pending
<1>13. OwnerInv'
  <2>1. ASSUME NEW i \in DOMAIN ts, NEW j \in DOMAIN ts, NEW o \in Owners,
               NEW s \in Requests \ late, ts[i] = CancelTask(o), ts[j] = EnqueueTask(s),
               Owner[s] = o
        PROVE  j < i
    <3>1. /\ i + 1 \in DOMAIN tasks /\ tasks[i + 1] = CancelTask(o)
          /\ j + 1 \in DOMAIN tasks /\ tasks[j + 1] = EnqueueTask(s)
      BY <1>2, <2>1
    <3>2. j + 1 < i + 1
      BY <2>1, <3>1 DEF LineInv, OwnerInv
    <3> QED
      BY <1>2, <3>2
  <2>2. \A i \in DOMAIN ts : \A o \in Owners : ts[i] = CancelTask(o) => o \in cancelling
    BY <1>2 DEF LineInv, OwnerInv
  <2>3. \A i \in DOMAIN ts : \A s \in Requests :
           ts[i] = EnqueueTask(s) => Owner[s] \notin cancelled \/ s \in late
    BY <1>2 DEF LineInv, OwnerInv
  <2>4. \A i \in DOMAIN queue' : Owner[queue'[i]] \notin cancelled \/ queue'[i] \in late
    BY <1>4, <1>9 DEF LineInv, OwnerInv
  <2> QED
    BY <1>5, <1>7, <2>1, <2>2, <2>3, <2>4 DEF OwnerInv
<1>14. QueueIsKicked'
  <2> SUFFICES ASSUME queue' # <<>>, Head(queue') \notin requested', cancelled' = {}
               PROVE  Pending(DoWorkTask)'
    BY DEF QueueIsKicked
  <2>1. queue' = Append(queue, r)
    BY <1>7
  <2>2. queue # <<>> /\ UNCHANGED requested
    <3>1. ASSUME queue = <<>> PROVE FALSE
      <4>1. Head(queue') = r
        BY <2>1, <3>1
      <4>2. r \in requested'
        BY <1>7, <2>1, <3>1
      <4> QED
        BY <4>1, <4>2
    <3> QED
      BY <1>7, <3>1
  <2>3. Head(queue') = Head(queue)
    BY <1>1, <2>1, <2>2
  <2>4. PICK i \in DOMAIN tasks : tasks[i] = DoWorkTask
    BY <1>5, <2>2, <2>3 DEF LineInv, QueueIsKicked, Pending
  <2>5. i # 1
    BY <1>2, <1>3, <2>4 DEF EnqueueTask, DoWorkTask
  <2> QED
    BY <1>2, <1>7, <2>4, <2>5 DEF Pending
<1> QED
  BY <1>10, <1>11, <1>12, <1>13, <1>14 DEF LineInv

\* What is posted comes behind what was posted.
LEMMA TaskPosted ==
    ASSUME NEW t, tasks \in Seq(Tasks), tasks' = Append(tasks, t)
    PROVE  /\ \A i \in DOMAIN tasks : i \in DOMAIN tasks' /\ tasks'[i] = tasks[i]
           /\ \A i \in DOMAIN tasks' :
                 \/ i \in DOMAIN tasks /\ tasks'[i] = tasks[i]
                 \/ tasks'[i] = t /\ \A j \in DOMAIN tasks : j < i
           /\ \A i, j \in DOMAIN tasks' : i \notin DOMAIN tasks /\ j \notin DOMAIN tasks => i = j
<1>1. Len(tasks) \in Nat /\ DOMAIN tasks = 1..Len(tasks)
  OBVIOUS
<1>2. /\ DOMAIN tasks' = 1..(Len(tasks) + 1)
      /\ \A i \in 1..Len(tasks) : tasks'[i] = tasks[i]
      /\ tasks'[Len(tasks) + 1] = t
  OBVIOUS
<1>3. \A i \in 1..(Len(tasks) + 1) : i \in 1..Len(tasks) \/ i = Len(tasks) + 1
  BY <1>1
<1>4. \A j \in 1..Len(tasks) : j < Len(tasks) + 1 /\ j \in 1..(Len(tasks) + 1)
  BY <1>1
<1> QED
  BY <1>1, <1>2, <1>3, <1>4

\* A new request comes behind what its owner has posted; if its cancellation is
\* among that, it is late.
LEMMA RequestLine ==
    ASSUME TypeOK, LineInv, NEW r \in Requests, Request(r)
    PROVE  LineInv'
<1>1. /\ r \notin asked /\ asked' = asked \cup {r}
      /\ late \subseteq late' /\ late' \subseteq late \cup {r}
      /\ Owner[r] \in cancelling => r \in late'
      /\ tasks' = Append(tasks, EnqueueTask(r)) /\ tasks \in Seq(Tasks)
      /\ UNCHANGED <<queue, requested, cancelling, cancelled, results>>
  BY DEF Request, EnqueueTask, TypeOK
<1>2. /\ \A i \in DOMAIN tasks : i \in DOMAIN tasks' /\ tasks'[i] = tasks[i]
      /\ \A i \in DOMAIN tasks' :
            \/ i \in DOMAIN tasks /\ tasks'[i] = tasks[i]
            \/ tasks'[i] = EnqueueTask(r) /\ \A j \in DOMAIN tasks : j < i
      /\ \A i, j \in DOMAIN tasks' : i \notin DOMAIN tasks /\ j \notin DOMAIN tasks => i = j
  BY <1>1, TaskPosted
<1>3. \A s \in Requests : EnqueueTask(s) = EnqueueTask(r) => s = r
  BY DEF EnqueueTask
<1>4. \A o \in Owners : EnqueueTask(r) # CancelTask(o)
  BY TasksDiffer
<1>5. QueueInv'
  BY <1>1 DEF LineInv, QueueInv
<1>6. TaskInv'
  <2>1. ASSUME NEW i \in DOMAIN tasks', NEW s \in Requests, tasks'[i] = EnqueueTask(s)
        PROVE  /\ \A j \in DOMAIN tasks' : tasks'[j] = EnqueueTask(s) => i = j
               /\ s \in asked' \ requested'
               /\ \A j \in DOMAIN queue' : queue'[j] # s
    <3>1. CASE i \in DOMAIN tasks /\ tasks'[i] = tasks[i]
      <4>1. /\ \A j \in DOMAIN tasks : tasks[j] = EnqueueTask(s) => i = j
            /\ s \in asked \ requested
            /\ \A j \in DOMAIN queue : queue[j] # s
        BY <2>1, <3>1 DEF LineInv, TaskInv
      <4>2. s # r
        BY <1>1, <4>1
      <4> QED
        BY <1>1, <1>2, <1>3, <4>1, <4>2
    <3>2. CASE i \notin DOMAIN tasks
      <4>1. s = r
        BY <1>2, <1>3, <2>1, <3>2
      <4>2. \A j \in DOMAIN tasks : tasks[j] # EnqueueTask(r)
        BY <1>1 DEF LineInv, TaskInv
      <4>3. \A j \in DOMAIN tasks' : tasks'[j] = EnqueueTask(r) => j \notin DOMAIN tasks
        BY <1>2, <4>2
      <4>4. r \notin requested /\ \A j \in DOMAIN queue : queue[j] # r
        BY <1>1 DEF LineInv, QueueInv
      <4> QED
        BY <1>1, <1>2, <3>2, <4>1, <4>3, <4>4
    <3> QED
      BY <1>2, <3>1, <3>2
  <2> QED
    BY <2>1 DEF TaskInv
<1>7. SilenceInv'
  BY <1>1, <1>2, <1>3 DEF LineInv, SilenceInv, Pending
<1>8. OwnerInv'
  <2>1. ASSUME NEW i \in DOMAIN tasks', NEW o \in Owners, tasks'[i] = CancelTask(o)
        PROVE  i \in DOMAIN tasks /\ tasks[i] = CancelTask(o) /\ o \in cancelling
    BY <1>2, <1>4, <2>1 DEF LineInv, OwnerInv
  <2>2. ASSUME NEW i \in DOMAIN tasks', NEW s \in Requests, tasks'[i] = EnqueueTask(s)
        PROVE  \/ i \in DOMAIN tasks /\ tasks[i] = EnqueueTask(s)
               \/ s = r
    BY <1>2, <1>3, <2>2
  <2>3. ASSUME NEW i \in DOMAIN tasks', NEW j \in DOMAIN tasks', NEW o \in Owners,
               NEW s \in Requests \ late', tasks'[i] = CancelTask(o),
               tasks'[j] = EnqueueTask(s), Owner[s] = o
        PROVE  j < i
    BY <1>1, <2>1, <2>2, <2>3 DEF LineInv, OwnerInv
  <2>4. Owner[r] \notin cancelled \/ r \in late'
    BY <1>1 DEF TypeOK
  <2>5. \A i \in DOMAIN tasks' : \A s \in Requests :
           tasks'[i] = EnqueueTask(s) => Owner[s] \notin cancelled' \/ s \in late'
    BY <1>1, <2>2, <2>4 DEF LineInv, OwnerInv
  <2>6. \A i \in DOMAIN queue' : Owner[queue'[i]] \notin cancelled' \/ queue'[i] \in late'
    BY <1>1 DEF LineInv, OwnerInv
  <2> QED
    BY <1>1, <2>1, <2>3, <2>5, <2>6 DEF LineInv, OwnerInv
<1>9. QueueIsKicked'
  BY <1>1, <1>2 DEF LineInv, QueueIsKicked, Pending
<1> QED
  BY <1>5, <1>6, <1>7, <1>8, <1>9 DEF LineInv

\* So is the cancellation.
LEMMA CancelLine ==
    ASSUME TypeOK, LineInv, NEW o \in Owners, Cancel(o)
    PROVE  LineInv'
<1>1. /\ cancelling' = cancelling \cup {o}
      /\ tasks' = Append(tasks, CancelTask(o)) /\ tasks \in Seq(Tasks)
      /\ UNCHANGED <<queue, requested, asked, late, cancelled, results>>
  BY DEF Cancel, CancelTask, TypeOK
<1>2. /\ \A i \in DOMAIN tasks : i \in DOMAIN tasks' /\ tasks'[i] = tasks[i]
      /\ \A i \in DOMAIN tasks' :
            \/ i \in DOMAIN tasks /\ tasks'[i] = tasks[i]
            \/ tasks'[i] = CancelTask(o) /\ \A j \in DOMAIN tasks : j < i
  BY <1>1, TaskPosted
<1>3. \A s \in Requests : EnqueueTask(s) # CancelTask(o)
  BY TasksDiffer
<1>4. \A p \in Owners : CancelTask(p) = CancelTask(o) => p = o
  BY DEF CancelTask
<1>5. QueueInv'
  BY <1>1 DEF LineInv, QueueInv
<1>6. ASSUME NEW i \in DOMAIN tasks', NEW s \in Requests, tasks'[i] = EnqueueTask(s)
      PROVE  i \in DOMAIN tasks /\ tasks[i] = EnqueueTask(s)
  BY <1>2, <1>3, <1>6
<1>7. TaskInv'
  BY <1>1, <1>6 DEF LineInv, TaskInv
<1>8. SilenceInv'
  BY <1>1, <1>6 DEF LineInv, SilenceInv, Pending
<1>9. OwnerInv'
  <2>1. ASSUME NEW i \in DOMAIN tasks', NEW j \in DOMAIN tasks', NEW p \in Owners,
               NEW s \in Requests \ late', tasks'[i] = CancelTask(p),
               tasks'[j] = EnqueueTask(s), Owner[s] = p
        PROVE  j < i
    BY <1>1, <1>2, <1>6, <2>1 DEF LineInv, OwnerInv
  <2>2. \A i \in DOMAIN tasks' : \A p \in Owners :
           tasks'[i] = CancelTask(p) => p \in cancelling'
    BY <1>1, <1>2, <1>4 DEF LineInv, OwnerInv
  <2> QED
    BY <1>1, <1>6, <2>1, <2>2 DEF LineInv, OwnerInv
<1>10. QueueIsKicked'
  BY <1>1, <1>2 DEF LineInv, QueueIsKicked, Pending
<1> QED
  BY <1>5, <1>7, <1>8, <1>9, <1>10 DEF LineInv

\* The cancellation takes the requests of the owner out of the queue; those
\* among the tasks behind it are late.
LEMMA EraseLine ==
    ASSUME TypeOK, TypeOK', LineInv, Erase
    PROVE  LineInv'
<1> DEFINE ts == Tail(tasks)
<1>1. /\ tasks \in Seq(Tasks) /\ tasks # <<>> /\ Head(tasks).op = "cancel"
      /\ queue \in Seq(Requests)
  BY DEF TypeOK, Erase
<1>2. /\ ts \in Seq(Tasks) /\ DOMAIN ts = 1..(Len(tasks) - 1)
      /\ \A i \in DOMAIN ts : i + 1 \in DOMAIN tasks /\ ts[i] = tasks[i + 1]
      /\ 1 \in DOMAIN tasks /\ tasks[1] = Head(tasks) /\ Head(tasks) \in Tasks
  BY <1>1, TaskTaken
<1>3. PICK o \in Owners : Head(tasks) = CancelTask(o) /\ o = Head(tasks).owner
  BY <1>1, <1>2, TaskShapes
<1>4. /\ queue' = Without(queue, o) /\ tasks' = ts /\ cancelled' = cancelled \cup {o}
      /\ UNCHANGED <<requested, asked, late, cancelling, results>>
  BY <1>3 DEF Erase
<1>5. PICK at \in [1..Len(queue') -> DOMAIN queue] :
         /\ \A n \in 1..Len(queue') : queue'[n] = queue[at[n]] /\ Owner[queue'[n]] # o
         /\ \A m, n \in 1..Len(queue') : m < n => at[m] < at[n]
  <2>1. IsTheOthers(Without(queue, o), queue, o)
    BY <1>1, WithoutIsTheOthers
  <2>2. IsTheOthers(queue', queue, o)
    BY <1>4, <2>1
  <2> QED
    BY <2>2 DEF IsTheOthers
<1>6. DOMAIN queue' = 1..Len(queue')
  BY DEF TypeOK
<1> HIDE DEF ts
<1>7. Shrinks(1)
  <2>1. \A i \in DOMAIN tasks' : i + 1 \in DOMAIN tasks /\ tasks'[i] = tasks[i + 1]
    BY <1>2, <1>4
  <2> QED
    BY <1>4, <1>5, <1>6, <2>1 DEF Shrinks
<1>8. QueueInv' /\ TaskInv' /\ SilenceInv'
  BY <1>7, ShrinksQueue, ShrinksTasks DEF LineInv
<1>9. OwnerInv'
  <2>1. ASSUME NEW i \in DOMAIN ts, NEW j \in DOMAIN ts, NEW p \in Owners,
               NEW s \in Requests \ late, ts[i] = CancelTask(p), ts[j] = EnqueueTask(s),
               Owner[s] = p
        PROVE  j < i
    <3>1. /\ i + 1 \in DOMAIN tasks /\ tasks[i + 1] = CancelTask(p)
          /\ j + 1 \in DOMAIN tasks /\ tasks[j + 1] = EnqueueTask(s)
      BY <1>2, <2>1
    <3>2. j + 1 < i + 1
      BY <2>1, <3>1 DEF LineInv, OwnerInv
    <3> QED
      BY <1>2, <3>2
  <2>2. \A i \in DOMAIN ts : \A p \in Owners : ts[i] = CancelTask(p) => p \in cancelling
    BY <1>2 DEF LineInv, OwnerInv
  <2>3. ASSUME NEW i \in DOMAIN ts, NEW s \in Requests, ts[i] = EnqueueTask(s)
        PROVE  Owner[s] \notin cancelled' \/ s \in late'
    <3>1. i + 1 \in DOMAIN tasks /\ tasks[i + 1] = EnqueueTask(s)
      BY <1>2, <2>3
    <3>2. Owner[s] \notin cancelled \/ s \in late
      BY <3>1 DEF LineInv, OwnerInv
    <3>3. ASSUME Owner[s] = o, s \notin late PROVE FALSE
      <4>1. i + 1 < 1
        BY <1>2, <1>3, <3>1, <3>3 DEF LineInv, OwnerInv
      <4> QED
        BY <1>2, <4>1
    <3> QED
      BY <1>4, <3>2, <3>3
  <2>4. \A i \in DOMAIN queue' : Owner[queue'[i]] \notin cancelled' \/ queue'[i] \in late'
    BY <1>4, <1>5, <1>6 DEF LineInv, OwnerInv
  <2> QED
    BY <1>4, <2>1, <2>2, <2>3, <2>4 DEF OwnerInv
<1>10. QueueIsKicked'
  BY <1>4 DEF QueueIsKicked
<1> QED
  BY <1>8, <1>9, <1>10 DEF LineInv

-----------------------------------------------------------------------------
(***************************************************************************)
(* The request that is under way: its timeout, and the cache it fills.     *)
(***************************************************************************)

WayInv == RequestHasTimeout /\ CacheInv

\* A step that neither sends a request nor touches the cache.
LEMMA NobodyIsSent ==
    ASSUME WayInv, \A r \in Requests : UnderWay(r)' => UnderWay(r),
           UNCHANGED <<timer, results, label, fresh, count>>
    PROVE  WayInv'
<1>1. RequestHasTimeout'
  BY DEF WayInv, RequestHasTimeout, GivenUp
<1>2. CacheInv'
  BY DEF WayInv, CacheInv, Found
<1> QED
  BY <1>1, <1>2 DEF WayInv

\* The one behind the front was not sent.
LEMMA NextIsNotSent ==
    ASSUME TypeOK, QueueInv, queue # <<>>, queue' = Tail(queue), UNCHANGED requested
    PROVE  \A r \in Requests : ~UnderWay(r)'
<1>1. Len(queue) \in Nat /\ DOMAIN queue = 1..Len(queue) /\ queue \in Seq(Requests)
  BY DEF TypeOK
<1> SUFFICES ASSUME NEW r \in Requests, UnderWay(r)' PROVE FALSE
  OBVIOUS
<1>2. queue' # <<>> /\ r = Head(queue') /\ r \in requested
  BY DEF UnderWay
<1>3. 2 \in DOMAIN queue /\ r = queue[2]
  <2>1. Len(queue) >= 2
    BY <1>1, <1>2
  <2>2. Head(Tail(queue)) = queue[2]
    BY <1>1, <2>1
  <2> QED
    BY <1>1, <1>2, <2>1, <2>2
<1> QED
  BY <1>2, <1>3 DEF QueueInv

\* Then nothing is under way.
LEMMA NothingIsSent ==
    ASSUME \A r \in Requests : ~UnderWay(r)',
           \A r \in Requests : count'[r] \in {0, NumParams}
    PROVE  WayInv'
  BY DEF WayInv, RequestHasTimeout, CacheInv

\* A parameter that arrives while a "get all" is under way.
LEMMA AllValueFound ==
    ASSUME TypeOK, CacheInv, NEW r \in Requests, UnderWay(r), Kind[r] = "all",
           NEW p \in Params, NEW indexed \in BOOLEAN, AddNewParam(p, indexed),
           fresh' = fresh \cup {p}
    PROVE  Found' = fresh' /\ label' \in Labels /\ CacheSize(label') \in 0..NumParams
<1>1. label \in Labels /\ Found = fresh
  BY DEF TypeOK, Labels, CacheInv
<1>2. /\ label' \in Labels /\ label'[p] # Nothing
      /\ \A x \in Params : x # p => label'[x] = label[x]
  BY <1>1, AddedIsFound
<1>3. Found' = {x \in Params : label'[x] # Nothing}
  BY DEF Found
<1>4. Found' = Found \cup {p}
  BY <1>2, <1>3 DEF Found
<1>5. CacheSize(label') \in 0..NumParams
  BY <1>2, CacheSizeBounds
<1> QED
  BY <1>1, <1>2, <1>4, <1>5

\* A value ends the request under way, or leaves it its timeout; it is found
\* in the cache from then on.
LEMMA ValueWay ==
    ASSUME TypeOK, QueueInv, WayInv, NEW p \in Params, NEW indexed \in BOOLEAN,
           NEW ok \in BOOLEAN, NEW value \in {"same", "other", "type"},
           Value(p, indexed, value, ok)
    PROVE  WayInv'
<1> USE DEF timerVars, allVars, cacheVars, callerVars
<1>1. PICK r \in Requests :
        /\ UnderWay(r)
        /\ \/ SetValue(r, value, ok) /\ UNCHANGED <<allVars, cacheVars>>
           \/ Finish(r, "Success", tasks) /\ UNCHANGED <<allVars, cacheVars>>
           \/ Kind[r] = "all" /\ AllValue(r, p, indexed, ok)
        /\ UNCHANGED requested
  BY ValueCases
<1>2. \A x \in Requests : count'[x] \in {0, NumParams}
  BY <1>1 DEF AllValue, WayInv, CacheInv, TypeOK
<1>3. queue # <<>>
  BY <1>1 DEF UnderWay
<1>4. ASSUME NEW result, Finish(r, result, tasks) PROVE WayInv'
  BY <1>1, <1>2, <1>3, <1>4, NextIsNotSent, NothingIsSent DEF Finish
<1>5. CASE SetValue(r, value, ok) /\ UNCHANGED <<allVars, cacheVars>>
  <2>1. CASE UNCHANGED <<queue, results, timerVars>>
    BY <1>1, <1>5, <2>1, NobodyIsSent DEF UnderWay
  <2> QED
    BY <1>4, <1>5, <2>1 DEF SetValue
<1>6. CASE Kind[r] = "all" /\ AllValue(r, p, indexed, ok)
  <2>1. CASE UNCHANGED <<queue, results, timer>> /\ CacheSize(label') # NumParams
    <3>1. \A x \in Requests : UnderWay(x)' <=> UnderWay(x)
      BY <1>1, <2>1 DEF UnderWay
    <3>2. RequestHasTimeout'
      BY <2>1, <3>1 DEF WayInv, RequestHasTimeout, GivenUp
    <3>3. Found' = fresh' /\ CacheSize(label') \in 0..NumParams
      BY <1>1, <1>6, AllValueFound DEF AllValue, WayInv
    <3>4. CacheSize(label') < NumParams
      BY <2>1, <3>3, NumberAssumption
    <3>5. CacheInv'
      BY <1>2, <3>3, <3>4 DEF CacheInv
    <3> QED
      BY <3>2, <3>5 DEF WayInv
  <2> QED
    BY <1>4, <1>6, <2>1 DEF AllValue
<1> QED
  BY <1>1, <1>4, <1>5, <1>6

\* A timeout ends the request under way, sends it again with a new timeout, or
\* tells a get-all that it is given up.
LEMMA TimeoutWay ==
    ASSUME TypeOK, TypeOK', QueueInv, WayInv, NEW t, NEW s, NEW ok \in BOOLEAN,
           ReceiveTimeout(t, s, ok)
    PROVE  WayInv'
<1> USE DEF timerVars, allVars, cacheVars, callerVars
<1>1. UNCHANGED <<requested, label, fresh, count>>
  BY DEF ReceiveTimeout, RequestMissing
<1>2. \A x \in Requests : count'[x] \in {0, NumParams}
  BY <1>1 DEF WayInv, CacheInv
<1>3. CASE NothingUnderWay /\ UNCHANGED queue
  <2>1. \A x \in Requests : ~UnderWay(x)'
    BY <1>1, <1>3 DEF NothingUnderWay, UnderWay
  <2> QED
    BY <1>2, <2>1, NothingIsSent
<1>4. ASSUME NEW r \in Requests, UnderWay(r), NEW result, Finish(r, result, tasks)
      PROVE  WayInv'
  BY <1>1, <1>2, <1>4, NextIsNotSent, NothingIsSent DEF Finish, UnderWay
<1>5. ASSUME UNCHANGED queue,
             \A x \in Requests : UnderWay(x)' /\ ~GivenUp(x)' => timer'
      PROVE  WayInv'
  <2>1. \A x \in Requests : UnderWay(x)' <=> UnderWay(x)
    BY <1>1, <1>5 DEF UnderWay
  <2>2. CacheInv'
    BY <1>1, <2>1 DEF WayInv, CacheInv, Found
  <2> QED
    BY <1>5, <2>2 DEF WayInv, RequestHasTimeout
<1>6. ASSUME NEW r \in Requests, UnderWay(r), Kind[r] = "all", GiveUpList(r, t, s)
      PROVE  WayInv'
  <2>1. results'[r] = Append(results[r], "Timeout") /\ results[r] \in Seq(Results)
    BY <1>6 DEF GiveUpList, Call, TypeOK
  <2>2. results'[r] # <<>>
    BY <2>1
  <2>3. \A x \in Requests : UnderWay(x)' => x = r
    BY <1>1, <1>6 DEF GiveUpList, UnderWay
  <2> QED
    BY <1>5, <1>6, <2>2, <2>3 DEF GiveUpList, GivenUp
<1>7. ASSUME NEW r \in Requests, UnderWay(r),
             \/ SendAgain(r, t, s, ok)
             \/ Finish(r, "Timeout", tasks)
             \/ RequestListAgain(r, t, s, ok)
             \/ RequestMissing(r, t, s, ok)
      PROVE  WayInv'
  <2>1. \/ UNCHANGED queue /\ timer' = TRUE
        \/ \E result \in Results : Finish(r, result, tasks)
    BY <1>7 DEF SendAgain, RequestListAgain, RequestMissing, AddTimeout, Results
  <2> QED
    BY <1>4, <1>5, <1>7, <2>1
<1> QED
  BY <1>3, <1>6, <1>7 DEF ReceiveTimeout

\* All that the server and the timeouts do.
LEMMA AnswersWay ==
    ASSUME TypeOK, TypeOK', QueueInv, WayInv, Answer
    PROVE  WayInv'
<1>1. ASSUME NEW r \in Requests, NEW result, UnderWay(r), Finish(r, result, tasks),
             UNCHANGED <<requested, allVars>>
      PROVE  WayInv'
  <2>1. \A x \in Requests : ~UnderWay(x)'
    BY <1>1, NextIsNotSent DEF Finish, UnderWay
  <2> QED
    BY <1>1, <2>1, NothingIsSent DEF WayInv, CacheInv, allVars
<1> QED
  BY <1>1, ValueWay, TimeoutWay
     DEF Answer, ProcessParamExtAck, ProcessParamError, TimeoutFires

\* do_work, of whatever queue it finds.
LEMMA DoWorkWay ==
    ASSUME TypeOK, WayInv, NEW q \in Seq(Requests), NEW ts, NEW ok \in BOOLEAN,
           \A i \in DOMAIN q : q[i] \in requested => i = 1 /\ queue = q,
           DoWork(q, ts, ok), UNCHANGED count
    PROVE  WayInv'
<1> USE DEF timerVars, cacheVars
<1>1. \A x \in Requests : count'[x] \in {0, NumParams}
  BY DEF WayInv, CacheInv
<1>2. DOMAIN q = 1..Len(q) /\ Len(q) \in Nat
  OBVIOUS
<1>3. CASE /\ q # <<>> => Head(q) \in requested
           /\ queue' = q
           /\ UNCHANGED <<requested, timerVars, cacheVars, results>>
  <2>1. CASE q = <<>>
    BY <1>1, <1>3, <2>1, NothingIsSent DEF UnderWay
  <2>2. CASE q # <<>>
    <3>1. 1 \in DOMAIN q /\ q[1] = Head(q)
      BY <1>2, <2>2
    <3>2. queue' = queue
      BY <1>3, <2>2, <3>1
    <3> QED
      BY <1>3, <3>2, NobodyIsSent DEF UnderWay
  <2> QED
    BY <2>1, <2>2
<1>4. CASE /\ q # <<>>
           /\ IF Kind[Head(q)] = "set" THEN UNCHANGED cacheVars ELSE ClearCache
           /\ AddTimeout(timer, stale)
           /\ queue' = q
  <2>1. RequestHasTimeout'
    BY <1>4 DEF AddTimeout, RequestHasTimeout
  <2>2. ASSUME NEW x \in Requests, UnderWay(x)', Kind[x] = "all"
        PROVE  Found' = fresh' /\ CacheSize(label') < NumParams
    <3>1. ClearCache
      BY <1>4, <2>2 DEF UnderWay
    <3>2. label' \in Labels /\ (\A p \in Params : label'[p] = Nothing) /\ fresh' = {}
      BY <3>1 DEF ClearCache, Labels
    <3>3. Found' = {}
      BY <3>2 DEF Found
    <3>4. CacheSize(label') = 0
      BY <3>2, CacheSizeBounds
    <3> QED
      BY <3>2, <3>3, <3>4, NumberAssumption
  <2>3. CacheInv'
    BY <1>1, <2>2 DEF CacheInv
  <2> QED
    BY <2>1, <2>3 DEF WayInv
<1>5. CASE q # <<>> /\ queue' = Tail(q) /\ UNCHANGED requested
  <2>1. ASSUME NEW x \in Requests, UnderWay(x)' PROVE FALSE
    <3>1. Tail(q) # <<>> /\ x = Head(Tail(q)) /\ x \in requested
      BY <1>5, <2>1 DEF UnderWay
    <3>2. 2 \in DOMAIN q /\ x = q[2]
      <4>1. Len(q) >= 2
        BY <1>2, <1>5, <3>1
      <4>2. Head(Tail(q)) = q[2]
        BY <1>2, <4>1
      <4> QED
        BY <1>2, <3>1, <4>1, <4>2
    <3> QED
      BY <3>1, <3>2
  <2> QED
    BY <1>1, <2>1, NothingIsSent
<1> QED
  BY <1>3, <1>4, <1>5 DEF DoWork

\* The callers and the tasks: only do_work and enqueue send a request.
LEMMA TasksWay ==
    ASSUME TypeOK, LineInv, WayInv,
           \/ \E r \in Requests : Request(r)
           \/ \E o \in Owners : Cancel(o)
           \/ TaskStep
           \/ Erase
    PROVE  WayInv'
<1> USE DEF timerVars, cacheVars, allVars
<1>0. /\ queue \in Seq(Requests) /\ tasks \in Seq(Tasks)
      /\ DOMAIN queue = 1..Len(queue) /\ Len(queue) \in Nat
  BY DEF TypeOK
<1>1. ASSUME UNCHANGED <<queue, requested, timer, results, label, fresh, count>>
      PROVE  WayInv'
  BY <1>1, NobodyIsSent DEF UnderWay
<1>2. ASSUME NEW r \in Requests, Request(r) PROVE WayInv'
  BY <1>1, <1>2 DEF Request
<1>3. ASSUME NEW o \in Owners, Cancel(o) PROVE WayInv'
  BY <1>1, <1>3 DEF Cancel
<1>4. ASSUME NEW ok \in BOOLEAN, RunDoWork(ok) PROVE WayInv'
  <2>1. DoWork(queue, Tail(tasks), ok) /\ UNCHANGED count
    BY <1>4 DEF RunDoWork
  <2>2. \A i \in DOMAIN queue : queue[i] \in requested => i = 1
    BY DEF LineInv, QueueInv
  <2> QED
    BY <1>0, <2>1, <2>2, DoWorkWay
<1>5. ASSUME NEW ok \in BOOLEAN, Enqueue(ok) PROVE WayInv'
  <2>1. /\ Head(tasks) \in Tasks /\ tasks[1] = Head(tasks) /\ 1 \in DOMAIN tasks
        /\ Head(tasks).op = "enqueue"
    BY <1>0, <1>5, TaskTaken DEF Enqueue
  <2>2. PICK r \in Requests : Head(tasks) = EnqueueTask(r) /\ r = Head(tasks).request
    BY <2>1, TaskShapes
  <2>3. r \notin requested
    BY <2>1, <2>2 DEF LineInv, TaskInv
  <2>4. UNCHANGED count
    BY <1>5 DEF Enqueue
  <2>5. CASE queue = <<>>
    <3>1. DoWork(<<r>>, Tail(tasks), ok)
      <4>1. Append(queue, r) = <<r>>
        BY <2>5
      <4> QED
        BY <1>5, <2>2, <2>5, <4>1 DEF Enqueue
    <3>2. <<r>> \in Seq(Requests) /\ \A i \in DOMAIN <<r>> : <<r>>[i] \notin requested
      BY <2>3
    <3> QED
      BY <2>4, <3>1, <3>2, DoWorkWay
  <2>6. CASE queue # <<>>
    <3>1. /\ queue' = Append(queue, r)
          /\ UNCHANGED <<requested, timer, results, label, fresh, count>>
      BY <1>5, <2>2, <2>6 DEF Enqueue
    <3>2. Head(queue') = Head(queue)
      BY <1>0, <2>6, <3>1
    <3> QED
      BY <2>6, <3>1, <3>2, NobodyIsSent DEF UnderWay
  <2> QED
    BY <2>5, <2>6
<1>6. ASSUME Erase PROVE WayInv'
  <2>0. PICK o : o = Head(tasks).owner
    OBVIOUS
  <2>1. /\ queue' = Without(queue, o)
        /\ UNCHANGED <<requested, timer, results, label, fresh, count>>
    BY <1>6, <2>0 DEF Erase
  <2>2. PICK s \in Seq(Requests) : s = Without(queue, o)
    BY <1>0, WithoutIsTheOthers
  <2>3. PICK at \in [1..Len(s) -> DOMAIN queue] :
           /\ \A n \in 1..Len(s) : s[n] = queue[at[n]]
           /\ \A m, n \in 1..Len(s) : m < n => at[m] < at[n]
    <3>1. queue \in Seq(Requests) /\ s = Without(queue, o)
      BY <2>2 DEF TypeOK
    <3>2. IsTheOthers(Without(queue, o), queue, o)
      BY <3>1, WithoutIsTheOthers
    <3>3. IsTheOthers(s, queue, o)
      BY <3>1, <3>2
    <3> QED
      BY <3>3 DEF IsTheOthers
  <2>4. ASSUME NEW r \in Requests, UnderWay(r)' PROVE UnderWay(r)
    <3>1. s # <<>> /\ r = Head(s) /\ r \in requested
      BY <2>1, <2>2, <2>4 DEF UnderWay
    <3>2. 1 \in 1..Len(s) /\ r = s[1]
      BY <3>1
    <3>3. at[1] \in DOMAIN queue /\ r = queue[at[1]]
      BY <2>3, <3>2
    <3>4. at[1] = 1
      BY <3>1, <3>3 DEF LineInv, QueueInv
    <3> QED
      BY <1>0, <3>1, <3>3, <3>4 DEF UnderWay
  <2> QED
    BY <2>1, <2>4, NobodyIsSent
<1> QED
  BY <1>2, <1>3, <1>4, <1>5, <1>6 DEF TaskStep

-----------------------------------------------------------------------------
(***************************************************************************)
(* The invariant.                                                          *)
(***************************************************************************)

\* The invariant by layers.
LEMMA ClientInvParts == ClientInv <=> TypeOK /\ LineInv /\ WayInv
  BY DEF ClientInv, LineInv, WayInv

\* It holds at first, when nobody has asked for anything.
LEMMA InitIsClientInv == Init => ClientInv
<1> SUFFICES ASSUME Init PROVE ClientInv
  OBVIOUS
<1>1. TypeOK
  <2>1. label \in [Params -> Params \cup {Nothing}]
    BY DEF Init
  <2>2. /\ retries \in [Requests -> 0..Retries] /\ count \in [Requests -> 0..NumParams]
        /\ results \in [Requests -> Seq(Results)]
    BY NumberAssumption DEF Init
  <2>3. queue \in Seq(Requests) /\ tasks \in Seq(Tasks)
    BY DEF Init
  <2> QED
    BY <2>1, <2>2, <2>3 DEF Init, TypeOK
<1>2. queue = <<>> /\ tasks = <<>> /\ requested = {} /\ DOMAIN queue = {} /\ DOMAIN tasks = {}
  BY DEF Init
<1>3. \A r \in Requests : results[r] = <<>> /\ count[r] = 0 /\ ~UnderWay(r)
  BY <1>2 DEF Init, UnderWay
<1>4. LineInv
  BY <1>2, <1>3 DEF LineInv, QueueInv, TaskInv, SilenceInv, OwnerInv, QueueIsKicked
<1>5. WayInv
  BY <1>3 DEF WayInv, RequestHasTimeout, CacheInv
<1> QED
  BY <1>1, <1>4, <1>5, ClientInvParts

\* The steps, grouped as the proofs need them.
LEMMA NextCases ==
    Next <=> \/ \E r \in Requests : Request(r)
             \/ \E o \in Owners : Cancel(o)
             \/ TaskStep
             \/ Erase
             \/ Answer
<1>1. "same" \in {"same", "other", "type"} /\ TRUE \in BOOLEAN
  OBVIOUS
<1>2. (\E p \in Params, indexed, ok \in BOOLEAN, value \in {"same", "other", "type"} :
          Value(p, indexed, value, ok))
      <=> \/ \E p \in Params, indexed, ok \in BOOLEAN, value \in {"same", "other", "type"} :
                ProcessParamValue(p, indexed, value, ok)
          \/ \E p \in Params, indexed \in BOOLEAN : ProcessParamExtValue(p, indexed)
  BY <1>1 DEF Value
<1> QED
  BY <1>2 DEF Next, Answer

\* The types after any step.
LEMMA NextType ==
    ASSUME ClientInv, Next
    PROVE  TypeOK'
<1>1. TypeOK /\ OwnerInv
  BY DEF ClientInv
<1>2. CASE Answer
  <2>1. ASSUME NEW ok \in BOOLEAN, TimeoutFires(ok) PROVE TypeOK'
    <3>1. CASE ReceiveTimeout(FALSE, stale, ok)
      BY <1>1, <3>1, TimeoutType DEF TypeOK
    <3>2. CASE stale > 0 /\ ReceiveTimeout(timer, stale - 1, ok)
      <4>1. stale - 1 \in Nat /\ timer \in BOOLEAN
        BY <1>1, <3>2 DEF TypeOK
      <4> QED
        BY <1>1, <3>2, <4>1, TimeoutType
    <3> QED
      BY <2>1, <3>1, <3>2 DEF TimeoutFires
  <2> QED
    BY <1>1, <1>2, <2>1, MessageType DEF Answer
<1> QED
  BY <1>1, <1>2, TaskType, NextCases

\* The line after any step.
LEMMA NextLine ==
    ASSUME ClientInv, Next
    PROVE  LineInv'
<1>1. TypeOK /\ TypeOK' /\ LineInv
  BY NextType, ClientInvParts
<1>2. CASE Answer
  BY <1>1, <1>2, AnswersRespond, RespondsLine
<1>3. CASE TaskStep
  BY <1>1, <1>3, DoWorkLine, EnqueueLine DEF TaskStep
<1> QED
  BY <1>1, <1>2, <1>3, RequestLine, CancelLine, EraseLine, NextCases

\* Every step keeps the invariant.
LEMMA NextKeepsInv ==
    ASSUME ClientInv, [Next]_vars
    PROVE  ClientInv'
<1>1. CASE Next
  <2>1. TypeOK /\ TypeOK' /\ LineInv /\ LineInv' /\ WayInv /\ QueueInv
    BY <1>1, NextType, NextLine, ClientInvParts DEF ClientInv
  <2>2. WayInv'
    BY <1>1, <2>1, AnswersWay, TasksWay, NextCases
  <2> QED
    BY <2>1, <2>2 DEF ClientInv, LineInv, WayInv
<1>2. CASE UNCHANGED vars
  <2> USE DEF vars, timerVars, allVars, cacheVars, callerVars
  <2>1. TypeOK'
    BY <1>2 DEF ClientInv, TypeOK
  <2>2. LineInv'
    BY <1>2 DEF ClientInv, LineInv, QueueInv, TaskInv, SilenceInv, OwnerInv, QueueIsKicked, Pending
  <2>3. WayInv'
    BY <1>2, ClientInvParts, NobodyIsSent DEF UnderWay
  <2> QED
    BY <2>1, <2>2, <2>3 DEF ClientInv, LineInv, WayInv
<1> QED
  BY <1>1, <1>2

\* The invariant holds in every state.
THEOREM ClientInvariance == Spec => []ClientInv
<1>1. ClientInv /\ [Next]_vars => ClientInv'
  BY NextKeepsInv
<1> QED
  BY InitIsClientInv, <1>1, PTL DEF Spec

-----------------------------------------------------------------------------
(***************************************************************************)
(* What follows.                                                           *)
(***************************************************************************)

\* The variables of the client have their types: among others a request that
\* is rerequesting was sent, and a label is an index the server has.
THEOREM ClientTypeCorrect == Spec => []TypeOK
<1>1. ClientInv => TypeOK
  BY DEF ClientInv
<1> QED
  BY ClientInvariance, <1>1, PTL

\* The request under way always has a timeout of its own, until its callback
\* has heard: that the server falls silent is noticed, whatever timeouts of
\* earlier requests fire in between.
THEOREM RequestsTimeOut == Spec => []RequestHasTimeout
<1>1. ClientInv => RequestHasTimeout
  BY DEF ClientInv
<1> QED
  BY ClientInvariance, <1>1, PTL

\* A request that waits at the front is one that a posted do_work will send,
\* as long as nobody has cancelled.
THEOREM WaitingRequestsAreKicked == Spec => []QueueIsKicked
<1>1. ClientInv => QueueIsKicked
  BY DEF ClientInv
<1> QED
  BY ClientInvariance, <1>1, PTL

\* The assertion of receive_timeout: while parameters are missing there is an
\* index to ask for, although the cache may hold positions for indices.
THEOREM IndexIsAlwaysMissing == Spec => []MissingIndexExists
<1>1. ASSUME ClientInv PROVE MissingIndexExists
  <2>1. label \in Labels
    BY <1>1 DEF ClientInv, TypeOK, Labels
  <2>2. ASSUME NEW r \in Requests, UnderWay(r), Kind[r] = "all", count[r] # 0
        PROVE  Missing(label, count[r]) # {}
    <3>1. count[r] = NumParams /\ CacheSize(label) < NumParams
      BY <1>1, <2>2 DEF ClientInv, CacheInv
    <3> QED
      BY <2>1, <3>1, IndexIsMissing
  <2> QED
    BY <2>2 DEF MissingIndexExists
<1> QED
  BY ClientInvariance, <1>1, PTL

\* Whose callback a step calls: the front of the queue, or the request that
\* just came and could not be sent.
LEMMA WhoHears ==
    ASSUME ClientInv, Next, NEW r \in Requests, results'[r] # results[r]
    PROVE  InQueue(r) \/ (tasks # <<>> /\ tasks[1] = EnqueueTask(r) /\ 1 \in DOMAIN tasks)
<1>1. TypeOK
  BY DEF ClientInv
<1>2. DOMAIN queue = 1..Len(queue) /\ Len(queue) \in Nat /\ tasks \in Seq(Tasks)
  BY <1>1 DEF TypeOK
<1>3. ASSUME queue # <<>>, r = Head(queue) PROVE InQueue(r)
  <2>1. 1 \in DOMAIN queue /\ queue[1] = r
    BY <1>2, <1>3
  <2> QED
    BY <2>1 DEF InQueue
<1>4. ASSUME NEW x, NEW result, Call(x, result) PROVE x = r
  BY <1>1, <1>4 DEF Call, TypeOK
<1>5. CASE Answer
  <2>1. PICK x \in Requests : UnderWay(x) /\ \E result : Call(x, result)
    BY <1>5, AnswersRespond DEF Responds, Finish
  <2> QED
    BY <1>3, <1>4, <2>1 DEF UnderWay
<1>6. ASSUME NEW ok \in BOOLEAN, RunDoWork(ok) PROVE InQueue(r)
  BY <1>3, <1>4, <1>6 DEF RunDoWork, DoWork
<1>7. ASSUME NEW ok \in BOOLEAN, Enqueue(ok)
      PROVE  tasks # <<>> /\ tasks[1] = EnqueueTask(r) /\ 1 \in DOMAIN tasks
  <2>1. /\ Head(tasks) \in Tasks /\ tasks[1] = Head(tasks) /\ 1 \in DOMAIN tasks
        /\ Head(tasks).op = "enqueue" /\ tasks # <<>>
    BY <1>2, <1>7, TaskTaken DEF Enqueue
  <2>2. PICK x \in Requests : Head(tasks) = EnqueueTask(x) /\ x = Head(tasks).request
    BY <2>1, TaskShapes
  <2>3. queue = <<>> /\ DoWork(Append(queue, x), Tail(tasks), ok)
    BY <1>7, <2>2 DEF Enqueue
  <2>4. Append(queue, x) = <<x>> /\ Head(<<x>>) = x
    BY <2>3
  <2>5. Call(x, "ConnectionError")
    BY <2>3, <2>4 DEF DoWork
  <2> QED
    BY <1>4, <2>1, <2>2, <2>5
<1> QED
  BY <1>5, <1>6, <1>7, NextCases DEF Request, Cancel, Erase, TaskStep

\* A get or set hears once of what became of it, and once the cancellation of an
\* owner was executed only those of its requests hear anything that its own
\* callbacks have made after it was posted.
THEOREM CallersHearOnce == Spec => HearsOnce
<1>1. ASSUME ClientInv, Next, NEW r \in Requests, results'[r] # results[r]
      PROVE  /\ Kind[r] = "all" \/ results[r] = <<>>
             /\ Owner[r] \in cancelled => r \in late
  <2>1. InQueue(r) \/ (tasks[1] = EnqueueTask(r) /\ 1 \in DOMAIN tasks)
    BY <1>1, WhoHears
  <2>2. Owner[r] \in cancelled => r \in late
    BY <1>1, <2>1 DEF ClientInv, OwnerInv, InQueue
  <2>3. Kind[r] = "all" \/ results[r] = <<>>
    BY <1>1, <2>1 DEF ClientInv, SilenceInv, InQueue, Pending
  <2> QED
    BY <2>2, <2>3
<1>2. ClientInv /\ [Next]_vars =>
        [\A r \in Requests : results'[r] # results[r]
            => /\ Kind[r] = "all" \/ results[r] = <<>>
               /\ Owner[r] \in cancelled => r \in late]_vars
  BY <1>1
<1> QED
  BY ClientInvariance, <1>2, PTL DEF Spec, HearsOnce

\* A "get all" that reports success has received every parameter of the server
\* since it was sent.
THEOREM SuccessIsComplete == Spec => GetAllIsComplete
<1> DEFINE Succeeds(r) == results'[r] = Append(results[r], "Success")
<1>1. ASSUME ClientInv, Next, NEW r \in Requests, Kind[r] = "all", Succeeds(r)
      PROVE  fresh' = Params
  <2>1. TypeOK /\ results[r] \in Seq(Results) /\ CacheInv
    BY <1>1 DEF ClientInv, TypeOK
  <2>2. results'[r] # results[r]
    BY <1>1, <2>1
  <2>3. ASSUME NEW x, NEW result, Call(x, result)
        PROVE  x = r /\ result = "Success"
    <3>1. x = r /\ results'[r] = Append(results[r], result)
      BY <2>1, <2>2, <2>3 DEF Call, TypeOK
    <3>2. Append(results[r], result) = Append(results[r], "Success")
      BY <1>1, <3>1
    <3>3. result = "Success"
      <4>1. Append(results[r], result)[Len(results[r]) + 1] = result
        BY <2>1
      <4>2. Append(results[r], "Success")[Len(results[r]) + 1] = "Success"
        BY <2>1
      <4> QED
        BY <3>2, <4>1, <4>2
    <3> QED
      BY <3>1, <3>3
  <2>4. ASSUME NEW p \in Params, NEW indexed \in BOOLEAN, NEW ok \in BOOLEAN,
               NEW value \in {"same", "other", "type"},
               Value(p, indexed, value, ok)
        PROVE  fresh' = Params
    <3>1. PICK x \in Requests :
            /\ UnderWay(x)
            /\ \/ Kind[x] = "set" /\ SetValue(x, value, ok)
               \/ Kind[x] = "get" /\ Finish(x, "Success", tasks)
               \/ Kind[x] = "all" /\ AllValue(x, p, indexed, ok)
      BY <2>4, ValueCases
    <3>2. \E result : Call(x, result)
      BY <2>2, <3>1 DEF SetValue, Finish, AllValue
    <3>3. x = r /\ AllValue(r, p, indexed, ok)
      BY <1>1, <2>3, <3>1, <3>2
    <3>4. CacheSize(label') = NumParams
      <4>1. \A result : Call(r, result) => result = "Success"
        BY <2>3
      <4>2. ~Call(r, "ConnectionError")
        BY <4>1
      <4> QED
        BY <2>2, <3>3, <4>2 DEF AllValue, Finish
    <3>5. Found' = fresh' /\ label' \in Labels
      BY <1>1, <2>1, <3>1, <3>3, AllValueFound DEF AllValue
    <3>6. \A y \in Params : label'[y] # Nothing
      BY <3>4, <3>5, CacheSizeBounds
    <3> QED
      BY <3>5, <3>6 DEF Found
  <2>5. ASSUME NEW t, NEW s, NEW ok, ReceiveTimeout(t, s, ok) PROVE FALSE
    <3>1. PICK x \in Requests :
            \/ SendAgain(x, t, s, ok)
            \/ Finish(x, "Timeout", tasks)
            \/ RequestListAgain(x, t, s, ok)
            \/ GiveUpList(x, t, s)
            \/ RequestMissing(x, t, s, ok)
      BY <2>2, <2>5 DEF ReceiveTimeout
    <3>2. Call(x, "ConnectionError") \/ Call(x, "Timeout")
      BY <2>2, <3>1
         DEF SendAgain, Finish, RequestListAgain, GiveUpList, RequestMissing
    <3>3. "ConnectionError" # "Success" /\ "Timeout" # "Success"
      OBVIOUS
    <3> QED
      BY <2>3, <3>2, <3>3
  <2>6. ASSUME NEW q, NEW ts, NEW ok, DoWork(q, ts, ok) PROVE FALSE
    <3>1. Call(Head(q), "ConnectionError")
      BY <2>2, <2>6 DEF DoWork
    <3> QED
      BY <2>3, <3>1
  <2>7. ASSUME NEW p \in Params,
               \/ ProcessParamError(p)
               \/ \E result \in {"Success", "Failed"} : ProcessParamExtAck(p, result)
        PROVE  FALSE
    <3>1. PICK x \in Requests : Kind[x] # "all" /\ \E result : Call(x, result)
      BY <2>7 DEF ProcessParamError, ProcessParamExtAck, Finish
    <3> QED
      BY <1>1, <2>3, <3>1
  <2>8. CASE Answer
    BY <2>4, <2>5, <2>7, <2>8 DEF Answer, TimeoutFires
  <2>9. CASE TaskStep
    BY <2>2, <2>6, <2>9 DEF TaskStep, RunDoWork, Enqueue
  <2> QED
    BY <1>1, <2>2, <2>8, <2>9, NextCases DEF Request, Cancel, Erase
<1>2. ASSUME ClientInv, UNCHANGED vars, NEW r \in Requests PROVE ~Succeeds(r)
  <2>1. results[r] \in Seq(Results) /\ results' = results
    BY <1>2 DEF ClientInv, TypeOK, vars
  <2> QED
    BY <2>1
<1>3. ClientInv /\ [Next]_vars =>
        [\A r \in Requests :
            Kind[r] = "all" /\ results'[r] = Append(results[r], "Success")
               => fresh' = Params]_vars
  BY <1>1, <1>2
<1> QED
  BY ClientInvariance, <1>3, PTL DEF Spec, GetAllIsComplete
=============================================================================
