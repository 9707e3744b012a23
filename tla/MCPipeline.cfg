CONSTANTS
    x1 = x1
    x2 = x2
    f0 = f0
    f1 = f1
    f2 = f2
    k1 = k1
    d1 = d1
    q1 = q1
    q2 = q2
    Rows = {x1, x2}
    Paths = {f0, f1, f2}
    Keys = {k1}
    Dirs = {d1}
    Seeded <- SeedTable
    HasCatalog = TRUE
    Garbage = Garbage
    None = None
    Requests = {q1, q2}
    Scenarios <- MCScenarios
SPECIFICATION FairSpec
INVARIANTS
    TypeOK
    DependenciesFirst
    ReportComplete
    RegisteredExists
    WholeOutputs
    LongestPathLayers
PROPERTY
    EveryRunAnswered
CHECK_DEADLOCK FALSE
