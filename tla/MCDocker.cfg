SPECIFICATION DockerFairSpec
CONSTANTS
    Servers = {s1}
    NoServer = NoServer
    Ids = {i1, i2}
    NoId = NoId
    Streams = {a1}
    NoStream = NoStream
    Tasks = {t1, t2}
    HostPort <- MCHostPort
    LossyEngine = TRUE
INVARIANTS
    DockerTypeOK
    RecoversOnce
PROPERTIES
    ForeignUntouched
    CallsReturn
