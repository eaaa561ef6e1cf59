SPECIFICATION FairSpec
CONSTANTS
    Users = {"user"}
    IoThread = "io"
    Intervals = {1, 2}
    MaxCookie = 2
    MaxTime = 3
PROPERTIES
    ImplementsCancellation
    EarlierDeadlineWakesUp
    DueIsCalled
