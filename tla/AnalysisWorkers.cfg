SPECIFICATION FairSpec
CONSTANTS
    s1 = s1
    c1 = c1
    c2 = c2
    k1 = k1
    k2 = k2
    None = None
    Streams = {s1}
    MaxAttempts = 2
    MaxHighWater = 1
    MaxJobs = 2
    MaxContinuations = 0
    Coordinators = {c1, c2}
    Slots = {k1, k2}
    MaxProcesses = 1
    MaxFaults = 2
INVARIANTS
    WorkIsOwned
PROPERTIES
    AdmittedIsAnalysed
CHECK_DEADLOCK FALSE
