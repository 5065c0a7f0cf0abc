SPECIFICATION Spec
CONSTANTS
    Nonces = {n1, n2}
    Timestamps <- MCTimestamps
    MAX_CLOCK_SKEW_SECS = 1
    NONCE_CACHE_TTL = 4
    Drift = 1
    MaxTime = 5
    MaxSessions = 2
INVARIANTS
    AcceptedOncePerSession
    
PROPERTY
    DuplicateEndsSession
