--------------------------- MODULE MCCommandSender ---------------------------
(***************************************************************************)
(* Three calls that share a command id: two requests of message A from one *)
(* component, with equal identifications, and one of message B addressed   *)
(* to every component.  The second request of A has no callback, so it is  *)
(* dropped behind the first one but can be ahead of it.                    *)
(***************************************************************************)
EXTENDS CommandSender

CONSTANTS w1, w2, w3, camera, gimbal

Request(message, component) ==
    [command |-> "REQUEST_MESSAGE", param |-> message, target |-> component]

MCWorks == {w1, w2, w3}
MCIdent == [w \in MCWorks |->
              CASE w = w1 -> Request("A", camera)
                [] w = w2 -> Request("A", camera)
                [] w = w3 -> Request("B", AnyComponent)]
MCRetries == [w \in MCWorks |-> 1]
=============================================================================
