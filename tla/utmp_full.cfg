SPECIFICATION ReadersSpec
CONSTANTS
    USHM_SIZE = 3
    Names = {1, 2}
    Counting = TRUE
INVARIANTS RebuiltWhenLooping
CHECK_DEADLOCK FALSE
