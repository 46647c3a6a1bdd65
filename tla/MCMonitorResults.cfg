SPECIFICATION FairSpec
CONSTANTS
    None = None
    Deleted = Deleted
    BIND_LIMIT = 13
    MAX_COLUMNS = 6
    Targets <- MCTargets
    Found <- MCFound
    Starts = {0}
    Permits = 1
    Limits = {0, 3}
    MaxPage = 2
    MaxFaults = 2
CHECK_DEADLOCK FALSE
INVARIANTS ReadsBackAsSent RowsAreComplete DeliveredOnce PagesMissNothing
PROPERTIES IndexingGoesOn ShutdownEnds
