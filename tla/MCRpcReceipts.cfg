SPECIFICATION FairSpec
CONSTANTS
    c1 = c1
    c2 = c2
    Callers = {c1, c2}
    MaxHashes = 3
    BatchSize = 2
    RequestConcurrency = 2
    MaxCalls = 2
    MaxRotations = 1
    MaxFaults = 1
CHECK_DEADLOCK FALSE
INVARIANTS IInv OutcomesInOrder ErrorNeedsFault
PROPERTY CallsEnd
