SPECIFICATION Spec
CONSTANTS
    Servers = {s1, s2}
    NoServer = NoServer
    Ids = {i1, i2, i3}
    NoId = NoId
    Streams = {a1}
    NoStream = NoStream
    Tasks = {t1}
    HostPort <- MCHostPort
    LossyEngine = FALSE
    OneAtATime = TRUE
INVARIANTS
    TrackedIsCurrent
    StartedIsTracked
    OfflineMeansStopped
SYMMETRY Symmetry
