SPECIFICATION UnhitSpec
CONSTANTS
    USHM_SIZE = 3
    MAXACTIVE = 3
    Telnet = {2, 3}
    Web = {}
    Users = {1, 2}
    Hash <- OneList
    Sysops = {2}
    TelnetLimit = 1
    WebLimit = 1
    Garbage = {0, 1}
    CounterMod = 1
CHECK_DEADLOCK FALSE
INVARIANTS TypeOK FreeListSound HashListsSound RingSound
PROPERTIES LiveEntryKept
