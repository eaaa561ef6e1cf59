SPECIFICATION FairSpec
CONSTANTS
    w1 = w1
    w2 = w2
    NoTransfer = NoTransfer
    Transfers <- MCTransfers
    Kind <- DownloadAndSetCurrent
    Type <- MCType
    Plan <- MCPlan
    Current <- MCCurrent
    Stored <- MCStored
    Retries = 2
    ArduPilot = FALSE
    AckTypes = {"ACCEPTED", "ERROR"}
    MaxSeq = 2
    MaxMessages = 1
PROPERTIES
    SetCurrentEnds
CHECK_DEADLOCK FALSE
