SPECIFICATION FairEndToEndSpec
CONSTANTS
    c1 = c1
    c2 = c2
    r1 = r1
    a = a
    b = b
    Handles = {c1}
    RoomIds = {r1}
    Names = {a}
    BadNames = {EVERYONE}
    EVERYONE = EVERYONE
    MentionSets = {{EVERYONE}}
    MayJoin <- OneRoomEach
    MaxPerWindow = 1
    WindowMs = 1
    HardCap = 1
    HistoryTtlMs = 0
    Batching = TRUE
    CallsGc = FALSE
    MaxTime = 0
    MaxCalls <- Calls
    Asks <- TalkerAndListener
    undefined = undefined
PROPERTY
    EveryCallReturns
CHECK_DEADLOCK FALSE
