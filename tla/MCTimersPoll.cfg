SPECIFICATION FairPollSpec
CONSTANTS
    Users = {"user"}
    IoThread = "io"
    Durations = {1}
    MaxCookie = 1
    MaxTime = 3
    Interval = 2
    MaxWait = 100
    MaxPosted = 2
INVARIANTS
    NoLostWakeup
PROPERTIES
    ImplementsTimeoutHandler
