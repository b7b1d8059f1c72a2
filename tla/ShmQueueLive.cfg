CONSTANTS
    Senders = {s1, s2}
    Receivers = {r1}
    Owner = main
    NoThread = none
    Capacity = 3
    Sizes = {1, 2, 4}
    Requests <- BlockingRequests
    Searches <- AnySearch
    MaxNr = 4
    MaxCrashes = 0
SPECIFICATION FairSpec
PROPERTIES
    SendReturns
