SPECIFICATION Spec
CONSTANTS
    None = None
    k1 = k1
    k2 = k2
    l1 = l1
    l2 = l2
    x = x
    y = y
    RangeStart = 1
    RangeEnd = 2
    MonitorLists <- MCMonitorLists
    TransactionLists <- MCTransactionLists
    LogLists <- MCLogLists
    CachedBlocks <- MCCachedBlocks
    MaxFaults = 1
CHECK_DEADLOCK FALSE
INVARIANTS PreparedExact ErrorHasCause
