CONSTANTS
    me = me
    near = near
    gw = gw
    far = far
    mac0 = mac0
    mac1 = mac1
    mac2 = mac2
    none = none
    Own = me
    Subnet <- LocalAddresses
    Gateway = gw
    Hosts <- OtherHosts
    Remote <- FarHosts
    MacOf <- MacTable
    NoMac = none
    Uninitialised <- SomeNumbers
    Mapped = {TRUE}
    MaxPackets = 2
    MaxFrags = 1
    MaxLost = 1
    MaxAsked = 1
    MaxWork = 3
SPECIFICATION Spec
CHECK_DEADLOCK FALSE
INVARIANTS
    RightAddresses
    NoOrphans
