SPECIFICATION FairSpec
CONSTANTS
    Plugins = {info, camera}
    MaxTasks = 2
    None = None
INVARIANTS
    EnabledWhileConnected
    RemovedIsNotRunning
    GoneIsForgotten
PROPERTIES
    ImplementsContract
    DestructorReturns
CHECK_DEADLOCK FALSE
