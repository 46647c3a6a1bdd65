SPECIFICATION Spec
CONSTANTS
    c1 = c1
    c2 = c2
    Callers = {c1, c2}
    MaxHashes = 3
    BatchSize = 2
    RequestConcurrency = 2
    MaxCalls = 3
    MaxRotations = 1
    MaxFaults = 0
CHECK_DEADLOCK FALSE
INVARIANT ReprobedAfterRotation
