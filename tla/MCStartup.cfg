SPECIFICATION FairSpec
CONSTANTS
    s1 = s1
    s2 = s2
    Sessions = {s1, s2}
    MaxOutages = 2
    Inherited = Inherited
    none = none
    free = free
    lingering = lingering
INVARIANTS
    TokenSharedUnlessContended
    RecordTrue
PROPERTIES
    EverySessionConnects
    DaemonsSettle
CHECK_DEADLOCK FALSE
