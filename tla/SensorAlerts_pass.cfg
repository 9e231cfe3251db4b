SPECIFICATION FairSpec
CONSTANTS
    Rules = {door}
    Ids = {a1, a2}
    Requests = {q1}
    NoRule = NoRule
    NoId = NoId
    StaleAfter = 1
    Retention = 1
    InboxSize = 1
    MaxTime = 2
    MaxEvents = 2
INVARIANTS
    TypeOK
    OneActivePerRule
    AnnouncedAtMostOnce
    NewsInHand
PROPERTIES
    ImplementsBook
    EveryAlertCloses
    CreatedIsAnnounced
    ClosedIsTold
