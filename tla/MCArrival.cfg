SPECIFICATION FairDeliverySpec
CONSTANTS
    c1 = c1
    c2 = c2
    c3 = c3
    r1 = r1
    r2 = r2
    a = a
    b = b
    Handles = {c1, c2, c3}
    RoomIds = {r1, r2}
    Names = {a, b}
    BadNames = {EVERYONE}
    EVERYONE = EVERYONE
    MentionSets <- Mentions
    MayJoin <- TwoProjects
    MaxPerWindow = 2
    WindowMs = 1
    HardCap = 2
    HistoryTtlMs = 0
    Batching = TRUE
    CallsGc = TRUE
    MaxTime = 0
    undefined = undefined
INVARIANT
    RoomsIsolated
PROPERTY
    EveryMessageArrives
CHECK_DEADLOCK FALSE
