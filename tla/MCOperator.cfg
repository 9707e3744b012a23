CONSTANTS
    t1 = t1
    t2 = t2
    NoImage = NoImage
    Broken = Broken
    None = None
    Scenarios <- MCScenarios
SPECIFICATION FairSpec
INVARIANTS
    TypeOK
    ChildrenInOrder
PROPERTY
    EventuallySettled
CHECK_DEADLOCK FALSE
