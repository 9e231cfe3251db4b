SPECIFICATION FairSpec
CONSTANTS
    Clients = {c1, c2, c3}
    None = none
    Stall = 1
    MaxFaults = 2
PROPERTIES
    QueuedIsHandled
