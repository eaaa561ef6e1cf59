---------------------------- MODULE MCTimersPoll ----------------------------
(***************************************************************************)
(* One user thread and the io thread, one timeout and one repeated call.   *)
(***************************************************************************)
EXTENDS TimersPoll
=============================================================================
