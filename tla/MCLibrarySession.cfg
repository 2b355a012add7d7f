\* Two threads, one operation of two items, two activations.
SPECIFICATION FairSession
CONSTANTS
    t1 = t1
    t2 = t2
    o1 = o1
    Artist = Artist
    Clients <- MCClients
    Switchers <- MCThreads
    Threads <- MCThreads
    Ops <- MCOps
    Items <- MCItems
    MaxGeneration = 2
INVARIANTS
    SwitchExcludesUses
    MoveInterruptsNothing
PROPERTIES
    SwitchSettles
CHECK_DEADLOCK FALSE
