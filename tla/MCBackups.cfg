SPECIFICATION BackupsSpec
CONSTANTS
    Files = {f, g}
    Versions = {v}
    NoFile = NoFile
    Cut = Cut
    MaxSecond = 2
    PerSecond = 1
    Tasks = {t1, t2}
INVARIANTS
    
    
    BackupIsExact
    RestoreIsExact
    AckedIsListed
SYMMETRY Symmetry
