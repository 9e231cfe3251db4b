SPECIFICATION ActionsFairSpec
CONSTANTS
    Requests = {q1, q2}
    MaxOps = 2
    MaxUpsets = 2
INVARIANTS ActionsTypeOK ParkAgrees
PROPERTIES MirrorSettles
CHECK_DEADLOCK FALSE
