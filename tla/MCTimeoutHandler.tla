-------------------------- MODULE MCTimeoutHandler --------------------------
(***************************************************************************)
(* TimeoutHandler on a small instance: two user threads besides the io     *)
(* thread, two timeouts of different durations.                            *)
(***************************************************************************)
EXTENDS TimeoutHandler
=============================================================================
