SPECIFICATION FairSpec
CONSTANTS
    Results = {1}
    Updates = {11, 12, 13}
    Producers = {"io", "user"}
    MaxDroppable = 2
    MaxChanges = 3
    NoCallback = 0
INVARIANTS
    UpdatesAreBounded
    StreamStaysCurrent
PROPERTIES
    ImplementsDelivery
    EveryResultIsDelivered
    ChangeEnds
CHECK_DEADLOCK FALSE
