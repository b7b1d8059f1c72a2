CONSTANTS
    Senders = {s1, s2}
    Receivers = {r1}
    Owner = main
    NoThread = none
    Capacity = 3
    Sizes = {1, 2}
    Requests <- MCRequests
    Searches <- MCSearches
    MaxNr = 2
    MaxCrashes = 2
SPECIFICATION Spec
SYMMETRY Symmetry
CHECK_DEADLOCK FALSE
INVARIANTS
    BeginSucceeds
