SPECIFICATION FairSpec
CONSTANTS
    Commands = {c1, c2}
    MIN_BACKOFF = 1
    MAX_BACKOFF = 3
    MaxEvents = 3
INVARIANTS
    TypeOK
    EventsConserved
    BackoffLaw
    AcksBelongToSession
PROPERTIES
    StreamSpec
    CancelStops
    EventsLeave
    CommandsAnswered
CHECK_DEADLOCK FALSE
