CONSTANTS
    c1 = c1
    c2 = c2
    obj = obj
    other = other
    r1 = r1
    r2 = r2
    Posts = {c1, c2}
    Events = {obj, other}
    Objects = {obj}
    Runs = {r1, r2}
    MaxPoll = 2
    None = None
    Scenarios <- MCScenarios
SPECIFICATION FairSpec
INVARIANTS
    TypeOK
    ExactlyOnceWithoutFaults
    RepeatedOnlyUncommitted
    LostOnlyInFlight
    ProducedAreInTopic
PROPERTY
    AckedIsStored
CHECK_DEADLOCK FALSE
