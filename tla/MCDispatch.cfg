CONSTANTS
    j1 = j1
    j2 = j2
    q1 = q1
    s1 = s1
    w1 = w1
    w2 = w2
    ClusterJobs = {j1}
    SqlJobs = {}
    ShowJobs = {}
    Workers = {w1, w2}
    Scans <- OneScan
    Parallelism <- TwoWays
    WorkerThreads = 2
    WorkerHasCatalog = TRUE
    MaxFaults = 1
    MaxRestarts = 0
    NoTask = NoTask
    NoWorker = NoWorker
SYMMETRY WorkerSymmetry
SPECIFICATION Spec
INVARIANTS
    TypeOK
    AtMostOnceDispatch
    NoForgottenTask
    TotalRunsExact
    StageVerdictSound
    JobVerdictGrounded
    PanicsOnlyMidSubmit
PROPERTIES
    TerminalTaskStable
    ImplementsTaskDispatch
