CONSTANTS
    a = a
    b = b
    c = c
    Handles <- Clients
    Owners <- Clients
    OwnerOf <- Shared
    NoOwner = NoOwner
    Torn = Torn
    LeaseMs = 2
    WaitMs = 1
    MaxSpins = 3
SPECIFICATION FairSpec
PROPERTIES LeasesKeepContract NobodyWaitsForEver
