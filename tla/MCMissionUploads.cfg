SPECIFICATION FairSpec
CONSTANTS
    w1 = w1
    w2 = w2
    NoTransfer = NoTransfer
    Transfers <- MCTransfers
    Kind <- Uploads
    Type <- MCType
    Plan <- MCPlan
    Current <- MCCurrent
    Stored <- MCStored
    Retries = 2
    ArduPilot = FALSE
    AckTypes = {"ACCEPTED", "ERROR"}
    MaxSeq = 2
    MaxMessages = 3
INVARIANTS
    OneResult
    TransferHasTimeout
    QueueIsKicked
    RegisteredIsAlive
    UploadSuccessMeansSent
PROPERTIES
    EveryTransferEnds
CHECK_DEADLOCK FALSE
