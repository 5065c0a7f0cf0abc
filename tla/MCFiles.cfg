SPECIFICATION FilesSpec
CONSTANTS
    Names = {"f", "d", "g"}
    Paths <- MCPaths
    Rels <- MCRels
    Versions = {1, 2}
    Size <- MCSize
    MAX_FILE_BYTES = 1
    ServerPaths <- MCServerPaths
    Tasks = {t1, t2}
    NoPath = NoPath
INVARIANTS
    
    DoneAsPromised
    FailureIsConfined
SYMMETRY Symmetry
