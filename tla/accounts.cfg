SPECIFICATION Spec
CONSTANTS
    MAXUSERS = 3
    UCACHE_HASHSIZE = 2
    a = a
    b = b
    c = c
    Names = {a, b, c}
    NoName = NoName
    ucache_hash <- Hash
    FirstFiles <- Files
    Clients = {c1, c2}
    c1 = c1
    c2 = c2
    MaxEvents = 3
SYMMETRY Renamings
INVARIANTS TypeOK ListsSound NamesSound AccountKept PhantomOnlyTimeout MissedOnlyMoved
CHECK_DEADLOCK FALSE
