SPECIFICATION FairSpec
CONSTANTS
    start = start
    request = request
    result = result
    clash = clash
    session = session
    operation = operation
    w1 = w1
    w2 = w2
    None = None
    Deliveries = {start, request, clash}
    Keys = {session, operation}
    Conflicts <- ConflictsInstance
    Unreadable = {}
    Drainers = {w1}
    MaxActive = 3
    ClaimLimit = 2
    MaxAttempts = 2
    QuarantineMax = 1
    HistoryMax = 2
    MaxAdmissions = 3
    MaxRefusals = 1
    MaxGeneration = 2
    Overrun = FALSE
    MaxFaults = 1
    SessionOf <- SessionOfInstance
    RequestOf <- RequestOfInstance
    Announces <- AnnouncesInstance
INVARIANTS
    SpoolIsConsistent
    StoredIsSound
PROPERTIES
    ImplementsDelivery
    AcceptedSettles
    OutstandingWorkIsWoken
