CONSTANTS
    Modulus = 8
    Mss = 2
    MaxRefused = 1
    MaxWire = 2
    Scenarios <- InOutLifeClient
    NoSession = NoSession
    NoSegment = NoSegment
SPECIFICATION TransferSpec
CHECK_DEADLOCK FALSE
INVARIANTS
    StreamIn
    AckedIsDelivered
    StreamOut
    NoSilentRemoval
PROPERTIES
    PeerHeard
    L7Heard
