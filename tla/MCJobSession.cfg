\* Two workers, two archives, every order of cancel and shutdown, and one report that cannot be saved.
SPECIFICATION Spec
CONSTANTS
    o1 = o1
    o2 = o2
    i1 = i1
    i2 = i2
    i3 = i3
    w1 = w1
    w2 = w2
    coord = coord
    none = none
    Ops <- ImportOps
    Items <- ImportItems
    OpOf <- ImportOpOf
    Kind <- ImportKind
    Planned <- ImportPlanned
    Workers <- TwoWorkers
    Coordinator = coord
    None = none
    QueueCapacity = 1
    Outcomes = {"succeeded"}
    Budget = 1
    FaultyCalls = {"complete", "interrupt"}
    MaxFaults = 1
    MaxPanics = 0
    MaxSessions = 1
SYMMETRY WorkerSymmetry
INVARIANTS
    CancelIsRecorded
    DrainedIsQuiescent
    SettlementIsDurable
CHECK_DEADLOCK FALSE
