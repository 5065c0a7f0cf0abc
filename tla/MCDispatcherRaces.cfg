SPECIFICATION Spec
CONSTANTS
    Servers = {s1}
    NoServer = NoServer
    Ids = {i1, i2}
    NoId = NoId
    Streams = {a1, a2}
    NoStream = NoStream
    Tasks = {t1, t2}
    HostPort <- MCHostPort
    LossyEngine = FALSE
    OneAtATime = FALSE
INVARIANT
    NoDeadConsole
SYMMETRY Symmetry
