CONSTANTS
    Modulus = 8
    Mss = 2
    MaxRefused = 1
    MaxWire = 3
    Scenarios <- JustLife
    NoSession = NoSession
    NoSegment = NoSegment
SPECIFICATION TransferSpec
CHECK_DEADLOCK FALSE
INVARIANTS
    DeletedOnce
