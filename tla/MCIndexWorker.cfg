SPECIFICATION Spec
CONSTANTS
    None = None
    c1 = c1
    e1 = e1
    Monitors = {c1, e1}
    Kind <- MCKind
    Matches <- MCMatches
    Ranges <- MCRanges
    MaxU64 = 3
    MaxBlock = 2
    BatchSize = 2
    BlockConcurrency = 2
    SinkEnabled = TRUE
    MaxFaults = 2
INVARIANTS StoredExactly SinkOncePerBlock WorkerInv
PROPERTIES SuccessMeansCommitted ImplementsAbstract
