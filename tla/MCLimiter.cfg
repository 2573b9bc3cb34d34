SPECIFICATION SteppedSpec
CONSTANTS
    Senders = {s1, s2}
    MaxPerWindow = 2
    WindowMs = 1
    MaxTime = 4
    MaxSets = 1
SYMMETRY Symmetric
INVARIANTS
    TypeOK
    BoundWhileSteady
    ExactWhileSteady
    QuotaOutlivesSteps
    ShieldedStampsGo
PROPERTY
    RefusalLeavesNoTrace
CHECK_DEADLOCK TRUE
