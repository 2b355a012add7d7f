\* The writer: capacities of one, so that both limits are met.
SPECIFICATION FairSpec
CONSTANTS
    c1 = c1
    c2 = c2
    w1 = w1
    Clients <- TwoClients
    Workers <- OneWorker
    Kinds <- WriterKinds
    OrdinaryCapacity = 1
    RepairCapacity = 1
    MaxJobs = 3
    MaxFaults = 2
INVARIANTS
    UnknownStopsOrdinary
    CleanCloseIsProof
PROPERTIES
    WaitReturns
    CloseReturns
CHECK_DEADLOCK FALSE
