SPECIFICATION Spec
CONSTANTS
    Commands = {c1}
    MIN_BACKOFF = 1
    MAX_BACKOFF = 3
    MaxEvents = 2
INVARIANT
    NoEventLost
CHECK_DEADLOCK FALSE
