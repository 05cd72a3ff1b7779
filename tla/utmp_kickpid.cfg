SPECIFICATION Spec
CONSTANTS
    USHM_SIZE = 2
    MAXACTIVE = 2
    Telnet = {2, 3}
    Web = {}
    Users = {1, 2}
    Hash <- OneList
    Sysops = {2}
    TelnetLimit = 1
    WebLimit = 1
    Garbage = {0}
    CounterMod = 1
CHECK_DEADLOCK FALSE
PROPERTIES KickHitsItsUser
