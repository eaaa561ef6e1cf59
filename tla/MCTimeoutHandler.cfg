SPECIFICATION FairSpec
CONSTANTS
    Users = {"user1", "user2"}
    IoThread = "io"
    Durations = {0, 1}
    MaxCookie = 2
    MaxTime = 3
INVARIANTS
    ReleasedIsNotRunning
    NeverEarly
PROPERTIES
    StartsAtMostOnceAndNeverAfterRemove
    ImplementsCancellation
    BlockedRemoveReturns
    EveryTimeoutFiresOrIsRemoved
