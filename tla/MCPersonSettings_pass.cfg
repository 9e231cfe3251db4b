SPECIFICATION Spec
CONSTANTS
    People = {ann, bob}
    Owner = ann
    Keys = {k1}
    Requests = {q1, q2}
    MaxTime = 1
    MaxOps = 3
    MaxFaults = 1
INVARIANTS TypeOK FieldsKept
PROPERTIES MutesKept MutesAreOnes
SYMMETRY Symmetry
CHECK_DEADLOCK FALSE
