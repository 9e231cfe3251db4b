SPECIFICATION FairSpec
CONSTANTS
    Ext = {x, y}
    NoAlert = NoAlert
    MarkSeen = TRUE
    MaxFaults = 2
INVARIANTS
    TypeOK
    PushedOnce
PROPERTIES
    ImplementsBook
    DismissedResolves
