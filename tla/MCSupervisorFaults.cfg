SPECIFICATION Spec
CONSTANTS
    None = None
    Boot = Boot
    a = a
    b = b
    u = u
    v = v
    r1 = r1
    r2 = r2
    t1 = t1
    t2 = t2
    t3 = t3
    Chains = {a}
    Urls = {u, v}
    Requests = {r1, r2}
    Tasks = {t1, t2, t3}
    WritePermits = 1
    MaxFaults = 1
    MaxDisconnects = 1
    MaxRestarts = 1
SYMMETRY MCSymmetry
CHECK_DEADLOCK FALSE
INVARIANTS IInv NoLostWorker ShutdownIsFinal SettledAgrees OneWorkerPerChain DeleteWaitsForCommit
