CONSTANTS
    Peers = {"tap", "ip4"}
    Askers = {"arp", "tcp"}
    Wants <- MCWants
    Blocking = {"arp"}
    Capacity = 2
    MaxTimeouts = 2
    MaxStarts = 2
    MaxNr = 4
SPECIFICATION FairSpec
CHECK_DEADLOCK FALSE
INVARIANTS
    FewUnderWay
    NotStale
PROPERTIES
    Configured
