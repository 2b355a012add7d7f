\* Two workers; two archives with one UUID, imported three times in all.
SPECIFICATION Spec
CONSTANTS
    w1 = w1
    w2 = w2
    art = art
    NoArt = NoArt
    NoOne = NoOne
    Workers <- TwoWorkers
    Sources <- Picked
    MaxImports = 3
    MaxRemovals = 1
    MaxFaults = 1
    MaxDeaths = 1
INVARIANTS
    RowHasFiles
    ReportIsTrue
PROPERTIES
    OrphansStay
    ImportEnds
CHECK_DEADLOCK FALSE
