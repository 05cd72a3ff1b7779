SPECIFICATION Spec
CONSTANTS
    Telnet = {l1}
    Web = {w1}
    Senders = {s1, s2}
    l1 = l1
    w1 = w1
    s1 = s1
    s2 = s2
    MAXMESSAGE = 0
    Modes = {0}
    MaxEvents = 3
SYMMETRY Renamings
INVARIANTS TypeOK NothingSkipped TextMatches UnreadBounded WakeupsCover
    SpinOnlyWithOther AcceptedKept TakenIsShown
CHECK_DEADLOCK FALSE
