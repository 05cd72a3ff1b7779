SPECIFICATION ReadersSpec
CONSTANTS
    USHM_SIZE = 3
    Names = {1, 2}
    Counting = FALSE
INVARIANTS ReaderOnRing LeadsToHead InsertsHideNobody NobodyTwice
CHECK_DEADLOCK FALSE
