SPECIFICATION Spec
CONSTANTS
    Servers = {s1}
    NoServer = NoServer
    Ids = {i1, i2}
    NoId = NoId
    Streams = {a1, a2, a3}
    NoStream = NoStream
    Tasks = {t1}
    HostPort <- MCHostPort
    LossyEngine = FALSE
    OneAtATime = TRUE
INVARIANT
    AttachedOnce
SYMMETRY Symmetry
