-------------------------- MODULE CallbackDelivery --------------------------
(***************************************************************************)
(* What the user callbacks promise (core/THREADING.md:152, "User           *)
(* callbacks: two classes"): a callback is called at most once, and only   *)
(* the updates of a stream may be dropped instead.  Nothing is said of     *)
(* queues, threads and executors here; UserCallbackQueue implements this.  *)
(***************************************************************************)
CONSTANTS
    Results,   \* call_user_callback: somebody may wait for these
    Updates    \* call_user_callback_droppable: updates of a stream

Callbacks == Results \cup Updates

VARIABLES
    pending,    \* submitted, and neither called nor given up
    delivered,  \* handed to the user
    dropped,    \* given up
    closed      \* the Mavsdk instance is being destroyed

vars == <<pending, delivered, dropped, closed>>

Init ==
    /\ pending = {}
    /\ delivered = {}
    /\ dropped = {}
    /\ closed = FALSE

Submit(c) ==
    /\ c \notin pending \cup delivered \cup dropped
    /\ ~closed
    /\ pending' = pending \cup {c}
    /\ UNCHANGED <<delivered, dropped, closed>>

\* A change of the executor hands over everything that is queued at once.
Deliver(S) ==
    /\ S \subseteq pending
    /\ pending' = pending \ S
    /\ delivered' = delivered \cup S
    /\ UNCHANGED <<dropped, closed>>

\* The oldest updates give way to newer ones; with the instance everything may
\* be given up.
Drop(S) ==
    /\ S \subseteq pending
    /\ S \subseteq Updates \/ closed
    /\ pending' = pending \ S
    /\ dropped' = dropped \cup S
    /\ UNCHANGED <<delivered, closed>>

Close ==
    /\ ~closed
    /\ closed' = TRUE
    /\ UNCHANGED <<pending, delivered, dropped>>

Next ==
    \/ \E c \in Callbacks : Submit(c)
    \/ \E S \in SUBSET pending : Deliver(S) \/ Drop(S)
    \/ Close

Spec == Init /\ [][Next]_vars

\* A callback is called or given up, never both, and never twice; a result is
\* not given up while the instance lives.
OneFate ==
    /\ pending \cap (delivered \cup dropped) = {}
    /\ delivered \cap dropped = {}
    /\ closed \/ dropped \subseteq Updates
=============================================================================
