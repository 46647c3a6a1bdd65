SPECIFICATION FairSpec
CONSTANTS
    None = None
    a = a
    s1 = s1
    s2 = s2
    Sessions = {s1, s2}
    Chains = {a}
    MaxId = 2
    MaxStored = 2
    Blocks = {0}
    Flags = {FALSE}
    MaxCalls = 3
    MaxFaults = 1
CHECK_DEADLOCK FALSE
INVARIANTS IInv NoOrphans ReportIsHonest
PROPERTIES ImplementsAtomic CommitIsWhole CallsReturn
