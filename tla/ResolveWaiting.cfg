CONSTANTS
    me = me
    near = near
    gw = gw
    far = far
    mac0 = mac0
    mac1 = mac1
    mac2 = mac2
    none = none
    Own = me
    Subnet <- SmallSubnet
    Gateway = gw
    Hosts <- OneHost
    Remote <- NoHosts
    MacOf <- SmallTable
    NoMac = none
    Uninitialised <- SomeNumbers
    Mapped = {TRUE}
    MaxPackets = 1
    MaxFrags = 1
    MaxLost = 1
    MaxAsked = 0
    MaxWork = 2
SPECIFICATION Spec
CHECK_DEADLOCK FALSE
INVARIANTS
    AnsweredIsNotWaiting
