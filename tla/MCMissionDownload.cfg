SPECIFICATION FairSpec
CONSTANTS
    w1 = w1
    w2 = w2
    NoTransfer = NoTransfer
    Transfers <- MCTransfers
    Kind <- DownloadAndClear
    Type <- MCType
    Plan <- MCPlan
    Current <- MCCurrent
    Stored <- MCStored
    Retries = 2
    ArduPilot = FALSE
    AckTypes = {"ACCEPTED", "ERROR", "OTHER"}
    MaxSeq = 2
    MaxMessages = 4
INVARIANTS
    DownloadInOrder
    TransferHasTimeout
PROPERTIES
    EveryTransferEnds
CHECK_DEADLOCK FALSE
