------------------------ MODULE MCMissionTransferClient ------------------------
(***************************************************************************)
(* Transfers that different plugins ask one system for.                    *)
(***************************************************************************)
EXTENDS MissionTransferClient, TLC

CONSTANTS w1, w2

Item(seq, type, current) == [seq |-> seq, type |-> type, current |-> current]

MissionPlan == <<Item(0, "mission", 1), Item(1, "mission", 0)>>
FencePlan == <<Item(0, "fence", 0)>>

MCTransfers == {w1, w2}

\* The mission plugin uses w1, the geofence plugin w2.
MCType == (w1 :> "mission" @@ w2 :> "fence")

MCPlan == (w1 :> MissionPlan @@ w2 :> FencePlan)

Uploads == (w1 :> "upload" @@ w2 :> "upload")
DownloadAndClear == (w1 :> "download" @@ w2 :> "clear")
DownloadAndSetCurrent == (w1 :> "download" @@ w2 :> "set_current")

MCCurrent == [w \in MCTransfers |-> 1]

MCStored == [mission |-> 2, fence |-> 1]
=============================================================================
