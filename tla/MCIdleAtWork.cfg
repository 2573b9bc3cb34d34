SPECIFICATION EngagementSpec
CONSTANTS
    c1 = c1
    c2 = c2
    r1 = r1
    a = a
    b = b
    Handles = {c1, c2}
    RoomIds = {r1}
    Names = {a, b}
    BadNames = {EVERYONE}
    EVERYONE = EVERYONE
    MentionSets = {{EVERYONE}}
    MayJoin <- OneRoomEach
    MaxPerWindow = 1
    WindowMs = 2
    HardCap = 3
    HistoryTtlMs = 1
    Batching = TRUE
    CallsGc = TRUE
    EngagementWindowMs = 2
    MaxTime = 4
    undefined = undefined
INVARIANT
    ToolUsersEngaged
CHECK_DEADLOCK FALSE
