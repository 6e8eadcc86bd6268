SPECIFICATION Spec
CONSTANTS
    start = start
    request = request
    result = result
    clash = clash
    session = session
    operation = operation
    w1 = w1
    w2 = w2
    None = None
    Deliveries = {request, result}
    Keys = {operation}
    Conflicts <- ConflictsInstance
    Unreadable = {}
    Drainers = {w1, w2}
    MaxActive = 3
    ClaimLimit = 2
    MaxAttempts = 2
    QuarantineMax = 1
    HistoryMax = 2
    MaxAdmissions = 2
    MaxRefusals = 0
    MaxGeneration = 2
    Overrun = TRUE
    MaxFaults = 0
    SessionOf <- SessionOfInstance
    RequestOf <- RequestOfInstance
    Announces <- AnnouncesInstance
INVARIANT NoLostWakeup
