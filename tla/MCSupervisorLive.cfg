SPECIFICATION FairSpec
CONSTANTS
    None = None
    Boot = Boot
    a = a
    b = b
    u = u
    v = v
    r1 = r1
    r2 = r2
    t1 = t1
    t2 = t2
    t3 = t3
    Chains = {a, b}
    Urls = {u}
    Requests = {r1}
    Tasks = {t1, t2}
    WritePermits = 1
    MaxFaults = 0
    MaxDisconnects = 1
    MaxRestarts = 0
CHECK_DEADLOCK FALSE
PROPERTIES RequestsFinish ShutdownCompletes
