SPECIFICATION FairSpec
CONSTANTS
    w1 = w1
    w2 = w2
    w3 = w3
    camera = camera
    gimbal = gimbal
    AnyComponent = AnyComponent
    Works <- MCWorks
    Ident <- MCIdent
    Retries <- MCRetries
    HasCallback = {w1, w3}
    Components = {camera, gimbal}
    MaxAcks = 2
INVARIANTS
    SentHasTimeout
    RetriesAreRespected
PROPERTIES
    NothingAfterFinalResult
    EveryCallIsAnswered
CHECK_DEADLOCK FALSE
