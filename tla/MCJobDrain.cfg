\* One metadata refresh; any three store calls but Finish fail or lose their answer.
SPECIFICATION FairSpec
CONSTANTS
    o1 = o1
    o2 = o2
    i1 = i1
    i2 = i2
    i3 = i3
    w1 = w1
    w2 = w2
    coord = coord
    none = none
    Ops <- OneRefreshOps
    Items <- OneRefreshItems
    OpOf <- OneRefreshOpOf
    Kind <- OneRefreshKind
    Planned <- OneRefreshPlanned
    Workers <- OneWorker
    Coordinator = coord
    None = none
    QueueCapacity = 1
    Outcomes = {"succeeded"}
    Budget = 2
    FaultyCalls <- AllButFinish
    MaxFaults = 3
    MaxPanics = 0
    MaxSessions = 1
PROPERTIES
    StopDrains
    WorkEnds
CHECK_DEADLOCK FALSE
