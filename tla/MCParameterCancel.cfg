SPECIFICATION FairSpec
CONSTANTS
    all = all
    set = set
    get = get
    failure = failure
    param = param
    Nothing = Nothing
    Requests <- MCRequests
    Kind <- MCKind
    Name <- MCName
    Owner <- MCOwner
    NumParams = 2
    Retries = 1
    ChunkSize = 1
INVARIANT QueueIsAlwaysKicked
CHECK_DEADLOCK FALSE
