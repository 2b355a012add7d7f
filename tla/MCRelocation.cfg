\* Failing calls, interference, and two dying processes or a power loss.
SPECIFICATION FairSpec
CONSTANTS
    r1 = r1
    r2 = r2
    d1 = d1
    Roots <- TwoRoots
    Home <- r1
    Data <- OneFile
    Versions <- TwoVersions
    MaxMoves = 2
    MaxFaults = 2
    MaxDeaths = 2
    MaxOutages = 1
INVARIANTS
    AuthorityIsWhole
    StatusIsTrue
    ReceiptIsTrue
PROPERTIES
    ForeignStays
    StartOpens
CHECK_DEADLOCK FALSE
