SPECIFICATION FairSpec
CONSTANTS
    a1 = a1
    a2 = a2
    a3 = a3
    p1 = p1
    p2 = p2
    Addresses = {a1, a2, a3}
    Topics = {p1, p2}
    First = 1
    Last = 6
    RequestConcurrency = 2
CHECK_DEADLOCK FALSE
INVARIANTS StackValid ExactLogs
PROPERTY Terminates
