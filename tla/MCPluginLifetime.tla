-------------------------- MODULE MCPluginLifetime --------------------------
(***************************************************************************)
(* Two plugins of one system, each created, used and destroyed by its own  *)
(* thread while the system connects and times out again and again.         *)
(***************************************************************************)
EXTENDS PluginLifetime
=============================================================================
