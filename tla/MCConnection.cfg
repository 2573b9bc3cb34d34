SPECIFICATION FairEndToEndSpec
CONSTANTS
    c1 = c1
    c2 = c2
    r1 = r1
    a = a
    b = b
    Handles = {c1, c2}
    RoomIds = {r1}
    Names = {a, b}
    BadNames = {EVERYONE}
    EVERYONE = EVERYONE
    MentionSets = {{EVERYONE}}
    MayJoin <- OneRoomEach
    MaxPerWindow = 1
    WindowMs = 1
    HardCap = 2
    HistoryTtlMs = 0
    Batching = TRUE
    CallsGc = FALSE
    MaxTime = 2
    MaxCalls <- Calls
    Asks <- TalkerAndListener
    undefined = undefined
INVARIANTS
    CallsAccounted
    SeatAsTold
    JoinAnsweredFirst
    HeardInOrder
    SentIsHeard
PROPERTIES
    AnsweredUnlessCut
    AddressedWake
    GoneLeaveRoom
    AgentsChat
CHECK_DEADLOCK FALSE
