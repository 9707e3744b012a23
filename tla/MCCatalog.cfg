CONSTANTS
    t1 = t1
    t2 = t2
    p1 = p1
    p2 = p2
    k1 = k1
    c1 = c1
    j1 = j1
    r1 = r1
    r2 = r2
    Tables = {t1, t2}
    Paths = {p1, p2}
    JsonPaths = {p2}
    Keys = {k1}
    Flows <- ThreeFlows
    CsvContents = {c1}
    JsonContents = {j1}
    Reqs = {r1, r2}
    Threads = 2
    Load <- LoadBoth
    MaxFileWrites = 1
    None = None
SPECIFICATION FairSpec
INVARIANTS
    TypeOK
    StableReadsExact
    EntriesWhole
PROPERTY
    EveryRequestAnswered
CHECK_DEADLOCK FALSE
