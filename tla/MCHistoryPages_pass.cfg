SPECIFICATION Spec
CONSTANTS
    Alerts <- MCAlerts
    KindOf <- MCKindOf
    SourceOf <- MCSourceOf
    Filters <- MCFilters
    Requested = {1, 5}
    DefaultLimit = 2
    MaxLimit = 3
    MaxTime = 2
    MaxChanges = 5
INVARIANTS
    TypeOK
    PagesComplete
    RightToTheSecond
CHECK_DEADLOCK FALSE
