SPECIFICATION Spec
CONSTANTS
    USHM_SIZE = 3
    Names = {1, 2, 3}
INVARIANTS Inv RingImplements
CHECK_DEADLOCK FALSE
