SPECIFICATION UnhitSpec
CONSTANTS
    USHM_SIZE = 2
    MAXACTIVE = 2
    Telnet = {2}
    Web = {w1}
    w1 = w1
    Users = {1, 2}
    Hash <- OneList
    Sysops = {2}
    TelnetLimit = 1
    WebLimit = 1
    Garbage <- AnyValue
    CounterMod = 1
CHECK_DEADLOCK FALSE
INVARIANTS FreeListSound RingSound
PROPERTIES TableSpec LiveEntryKept
