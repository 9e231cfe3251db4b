SPECIFICATION FairSpec
CONSTANTS
    Ext = {x, y}
    NoAlert = NoAlert
    MarkSeen = TRUE
    MaxFaults = 0
PROPERTIES
    UnseenArrives
