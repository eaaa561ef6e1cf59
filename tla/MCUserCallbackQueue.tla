------------------------ MODULE MCUserCallbackQueue -------------------------
(***************************************************************************)
(* UserCallbackQueue on a small instance: the io thread and a user thread  *)
(* submit results and updates into a queue with room for two.              *)
(***************************************************************************)
EXTENDS UserCallbackQueue
=============================================================================
