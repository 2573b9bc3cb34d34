SPECIFICATION RetentionSpec
CONSTANTS
    c1 = c1
    c2 = c2
    c3 = c3
    r1 = r1
    r2 = r2
    a = a
    b = b
    Handles = {c1, c2, c3}
    RoomIds = {r1}
    Names = {a, b}
    BadNames = {EVERYONE}
    EVERYONE = EVERYONE
    MentionSets = {{EVERYONE}}
    MayJoin <- OneRoomEach
    Limits = {1, undefined}
    MaxPerWindow = 2
    WindowMs = 1
    HardCap = 2
    HistoryTtlMs = 1
    Batching = TRUE
    CallsGc = TRUE
    MaxTime = 2
    undefined = undefined
VIEW WithoutPushes
SYMMETRY Symmetric
INVARIANTS
    SeatsAgree
    HistoryNumbered
    DeparturesAge
    ReaderMissesNothing
    SenderWithinQuota
    QuotaIsOwn
    ThrottledSpokeLately
PROPERTIES
    ImplementsLimiter
    EvictedOnlyWhenStale
CHECK_DEADLOCK FALSE
