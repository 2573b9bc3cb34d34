SPECIFICATION DeliverySpec
CONSTANTS
    c1 = c1
    c2 = c2
    c3 = c3
    r1 = r1
    r2 = r2
    a = a
    b = b
    Handles = {c1, c2, c3}
    RoomIds = {r1}
    Names = {a, b}
    BadNames = {EVERYONE}
    EVERYONE = EVERYONE
    MentionSets <- Mentions
    MayJoin <- OneRoomEach
    MaxPerWindow = 2
    WindowMs = 1
    HardCap = 2
    HistoryTtlMs = 0
    Batching = TRUE
    CallsGc = TRUE
    MaxTime = 1
    undefined = undefined
VIEW WithoutActivity
SYMMETRY Symmetric
INVARIANTS
    TypeOK
    OwedDelivered
PROPERTY
    ImplementsChat
CHECK_DEADLOCK FALSE
