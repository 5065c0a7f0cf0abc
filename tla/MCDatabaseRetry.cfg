SPECIFICATION DatabaseSpec
CONSTANTS
    n1 = n1
    n2 = n2
    u1 = u1
    u2 = u2
    Names = {n1, n2}
    Users = {u1, u2}
    Owner <- MCOwner
    Tasks = {t1, t2}
    PerName = 1
    Recreate = TRUE
PROPERTY
    OnlyDeleteDropsData
