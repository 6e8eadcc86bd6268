SPECIFICATION QueuesSpec
CONSTANTS
    d1 = d1
    bad = bad
    k1 = k1
    w1 = w1
    w2 = w2
    request = request
    result = result
    clash = clash
    s1 = s1
    s2 = s2
    None = None
    Streams = {s1, s2}
    MaxAttempts = 2
    MaxHighWater = 2
    MaxJobs = 5
    MaxContinuations = 1
SYMMETRY Symmetry
INVARIANTS
    LateCallsAreHarmless
    AnalysedOnce
    NothingForgotten
PROPERTY ImplementsProgress
CHECK_DEADLOCK FALSE
