SPECIFICATION Spec
CONSTANTS
    Procs = {p, q}
    p = p
    q = q
    FirstDirs <- Dirs
    MaxEvents = 4
SYMMETRY Renamings
INVARIANTS TypeOK  IdsSorted OriginsListed
CHECK_DEADLOCK FALSE
