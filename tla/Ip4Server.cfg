CONSTANTS
    me = me
    gw = gw
    far = far
    mac1 = mac1
    none = none
    Addresses <- AllAddresses
    Own = me
    Subnet <- LocalAddresses
    Gateway = gw
    Macs <- AllMacs
    NoMac = none
    Mapped = {TRUE, FALSE}
    MaxPackets = 2
    MaxFrags = 2
    Unit = 2
    Room = 3
    Ids = {5, 6}
    Lengths = {2, 4, 5}
    MaxCopies = 2
SPECIFICATION FairSpec4
CHECK_DEADLOCK FALSE
INVARIANTS
    FreedOnce
    RecordsLive
    NotForgotten
    DeliveredWhole
    NothingLeftBehind
PROPERTIES
    EventuallyGone
