SPECIFICATION FairSpec
CONSTANTS
    Reviews = {r1}
    Clips = {c1, c2}
    MaxEvents = 5
INVARIANTS
    TypeOK
    EndedIsDated
    AnnouncedOnce
PROPERTIES
    ImplementsBook
    EveryReviewCloses
CHECK_DEADLOCK FALSE
