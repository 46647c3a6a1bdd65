SPECIFICATION FairSpec
CONSTANTS
    None = None
    c1 = c1
    e1 = e1
    Monitors = {c1, e1}
    Kind <- MCKind
    Matches <- MCLiveMatches
    Ranges <- MCLiveRanges
    MaxU64 = 4
    MaxBlock = 1
    BatchSize = 1
    BlockConcurrency = 1
    SinkEnabled = FALSE
    MaxFaults = 2
PROPERTIES BackfillCompletes CancelStops
