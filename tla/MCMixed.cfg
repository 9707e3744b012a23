CONSTANTS
    j1 = j1
    j2 = j2
    q1 = q1
    s1 = s1
    w1 = w1
    w2 = w2
    ClusterJobs = {j2}
    SqlJobs = {q1}
    ShowJobs = {s1}
    Workers = {w1}
    Scans <- OneScan
    Parallelism <- TwoWays
    WorkerThreads = 2
    WorkerHasCatalog = TRUE
    MaxFaults = 0
    MaxRestarts = 1
    NoTask = NoTask
    NoWorker = NoWorker
SPECIFICATION Spec
INVARIANTS
    InlineResultSticks
    IInv
