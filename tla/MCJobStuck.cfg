CONSTANTS
    j1 = j1
    j2 = j2
    q1 = q1
    s1 = s1
    w1 = w1
    w2 = w2
    ClusterJobs = {j2}
    SqlJobs = {}
    ShowJobs = {}
    Workers = {w1}
    Scans <- NoScan
    Parallelism <- OneWay
    WorkerThreads = 2
    WorkerHasCatalog = FALSE
    MaxFaults = 0
    MaxRestarts = 0
    NoTask = NoTask
    NoWorker = NoWorker
SPECIFICATION Spec
INVARIANTS
    JobReflectsTasks
