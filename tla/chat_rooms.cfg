SPECIFICATION Spec
CONSTANTS
    CHATMAXACTIVE = 2
    MAXROOM = 2
    Clients = {sysop, plain}
    sysop = sysop
    plain = plain
    Utent <- Numbers
    MaxLost = 1
    Ids = {i, j}
    i = i
    j = j
    RoomNames = {a, b}
    a = a
    b = b
    Mainroom = main
    main = main
    Sysops = {sysop}
    Chatops = {}
    Modes = {"locked"}
    None = None
SYMMETRY Renamings
INVARIANTS TypeOK OccupantsAgree Distinct
PROPERTIES ChatSpec
CHECK_DEADLOCK FALSE
