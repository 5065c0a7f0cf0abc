SPECIFICATION Spec
CONSTANTS
    Radix = 2
    Scripts <- MCScripts
    Writes <- MCWrites
    MaxLen = 6
    MaxRotations = 1
    Inputs = {i1, i2}
    Attaches = {1, 2}
    NoConsole = NoConsole
    Bindings <- MCBindings
    Creates = {c1, c2}
INVARIANTS
    PullIsTrue
    LinesAreExact
    FollowsExactly
    LastLinesAreLast
    LinesAreWhole
    OpenedIsOpen
    EveryPortTried
    HintedOnce
PROPERTIES
    
    InputsAreAnswered
CHECK_DEADLOCK FALSE
