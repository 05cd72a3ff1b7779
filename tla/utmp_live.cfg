SPECIFICATION FairSpec
CONSTANTS
    USHM_SIZE = 2
    MAXACTIVE = 2
    Telnet = {2, 3}
    Web = {}
    Users = {1}
    Hash <- OneList
    Sysops = {2}
    TelnetLimit = 1
    WebLimit = 1
    Garbage = {0}
    CounterMod = 2
INVARIANTS CountersAgree
CHECK_DEADLOCK FALSE
PROPERTIES ExitEnds LockReturned
