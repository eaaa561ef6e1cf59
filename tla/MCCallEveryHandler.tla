------------------------- MODULE MCCallEveryHandler -------------------------
(***************************************************************************)
(* Two entries that change between two intervals, a user thread and the io *)
(* thread, whose callbacks may make any call as well.                      *)
(***************************************************************************)
EXTENDS CallEveryHandler
=============================================================================
