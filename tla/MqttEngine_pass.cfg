SPECIFICATION FairSpec
CONSTANTS
    Clients = {c1, c2, c3}
    None = none
    Stall = 2
    MaxFaults = 3
INVARIANTS
    TypeOK
    NoneLeftBehind
    ClientInUse
PROPERTIES
    HeardAgain
    Settles
