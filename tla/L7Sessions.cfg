CONSTANTS
    Servers <- AllServers
    Ids = {7}
    Capacity = 1
    MaxConns = 2
    MaxData = 2
    MaxChunks = 1
SPECIFICATION FairSpec
CHECK_DEADLOCK FALSE
INVARIANTS
    NothingAfterFin
    MapHoldsLive
    OwnAnswers
PROPERTIES
    Greeted
    StoppedEnds
    Terminates
