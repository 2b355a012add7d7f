\* A process that dies between the exchange and the removal of the old profile.
SPECIFICATION FairSpec
CONSTANTS
    r1 = r1
    r2 = r2
    d1 = d1
    Roots <- TwoRoots
    Home <- r1
    Data <- OneFile
    Versions <- OneVersion
    MaxMoves = 1
    MaxFaults = 0
    MaxDeaths = 1
    MaxOutages = 0
PROPERTIES
    CommittedMoveOpens
CHECK_DEADLOCK FALSE
