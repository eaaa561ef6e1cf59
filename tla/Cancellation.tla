---------------------------- MODULE Cancellation ----------------------------
(***************************************************************************)
(* What remove() and remove_blocking() promise the owner of a callback     *)
(* (core/timeout_handler.hpp:39-51, core/call_every_handler.hpp:40-54): a  *)
(* removed callback is not started any more, and once a blocking removal   *)
(* has returned it is not running either, so that what it captured can be  *)
(* destroyed.  When a callback is called is left open.                     *)
(***************************************************************************)
CONSTANT Cookies

VARIABLES
    registered,  \* callbacks that may be started
    running,     \* the callback that is being run, if any
    removed,     \* those that were removed
    released     \* those whose owner may be destroyed

vars == <<registered, running, removed, released>>

Init ==
    /\ registered = {}
    /\ running = {}
    /\ removed = {}
    /\ released = {}

Register(c) ==
    /\ c \notin registered \cup removed
    /\ registered' = registered \cup {c}
    /\ UNCHANGED <<running, removed, released>>

\* Callbacks are run one at a time: the one before has returned.
Start(c) ==
    /\ c \in registered
    /\ running' = {c}
    /\ registered' \subseteq registered
    /\ UNCHANGED <<removed, released>>

\* The callback returns.  One-shot callbacks may have left by then.
Finish ==
    /\ running' = {}
    /\ registered' \subseteq registered
    /\ UNCHANGED <<removed, released>>

Remove(c) ==
    /\ registered' = registered \ {c}
    /\ removed' = removed \cup {c}
    /\ UNCHANGED <<running, released>>

\* remove_blocking(c) returns, perhaps in the step that removes c.
Release(c) ==
    /\ c \notin running
    /\ registered' = registered \ {c}
    /\ removed' = removed \cup {c}
    /\ released' = released \cup {c}
    /\ UNCHANGED running

Next ==
    \/ \E c \in Cookies : Register(c) \/ Start(c) \/ Remove(c) \/ Release(c)
    \/ Finish

Spec == Init /\ [][Next]_vars

\* The owner of a released callback is safe, now and later.
OwnersAreSafe == released \cap (registered \cup running) = {}
=============================================================================
