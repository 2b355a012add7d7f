\* Any four store calls fail or lose their answer, the executor may panic, the process may die once.
SPECIFICATION Spec
CONSTANTS
    o1 = o1
    o2 = o2
    i1 = i1
    i2 = i2
    i3 = i3
    w1 = w1
    w2 = w2
    coord = coord
    none = none
    Ops <- ExportOps
    Items <- ExportItems
    OpOf <- ExportOpOf
    Kind <- ExportKind
    Planned <- ExportPlanned
    Workers <- OneWorker
    Coordinator = coord
    None = none
    QueueCapacity = 1
    Outcomes = {"succeeded"}
    Budget = 3
    FaultyCalls <- Calls
    MaxFaults = 4
    MaxPanics = 1
    MaxSessions = 2
INVARIANTS
    ExecutedAtMostOnce
    AdmissionIsTrue
PROPERTIES
    ImplementsLog
CHECK_DEADLOCK FALSE
