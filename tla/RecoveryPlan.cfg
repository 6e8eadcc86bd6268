SPECIFICATION MCSpec
CONSTANTS
    d1 = d1
    d2 = d2
    p1 = p1
    p2 = p2
    o1 = o1
    o2 = o2
    k1 = k1
    w1 = w1
    None = None
    Deliveries = {d1, d2}
    Unreadable = {}
    Keys = {k1}
    Drainers = {w1}
    MaxActive = 2
    ClaimLimit = 2
    MaxAttempts = 1
    QuarantineMax = 2
    HistoryMax = 2
    MaxAdmissions = 2
    MaxRefusals = 0
    MaxGeneration = 3
    Plans = {p1, p2}
    Operators = {o1}
    AppliedMax = 1
    MaxCrashes = 0
INVARIANTS
    AppliedAtMostOnce
    DoneMeansApplied
    OwnEffectsAreNotStale
SYMMETRY Symmetry
CHECK_DEADLOCK FALSE
