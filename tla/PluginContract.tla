--------------------------- MODULE PluginContract ---------------------------
(***************************************************************************)
(* What the system promises every plugin (core/plugin_impl_base.hpp:       *)
(* 16-52): init() once, then enable() and disable() in turn as the system  *)
(* is discovered and times out, and at the end a last disable() and        *)
(* deinit() - one call at a time, whatever thread makes it.                *)
(***************************************************************************)
CONSTANT Plugins

VARIABLE stage  \* what each plugin knows of its life

Init == stage = [p \in Plugins |-> "absent"]

Move(p, from, to) ==
    /\ stage[p] \in from
    /\ stage' = [stage EXCEPT ![p] = to]

BeginInit(p) == Move(p, {"absent"}, "initializing")
EndInit(p) == Move(p, {"initializing"}, "disabled")
BeginEnable(p) == Move(p, {"disabled"}, "enabling")
EndEnable(p) == Move(p, {"enabling"}, "enabled")
BeginDisable(p) == Move(p, {"enabled"}, "disabling")
EndDisable(p) == Move(p, {"disabling"}, "disabled")

\* The last disable() comes in any case, to a system still connected or not.
BeginClose(p) == Move(p, {"disabled", "enabled"}, "closing")
EndClose(p) == Move(p, {"closing"}, "gone")

Next == \E p \in Plugins :
    \/ BeginInit(p) \/ EndInit(p)
    \/ BeginEnable(p) \/ EndEnable(p)
    \/ BeginDisable(p) \/ EndDisable(p)
    \/ BeginClose(p) \/ EndClose(p)

Spec == Init /\ [][Next]_stage
=============================================================================
