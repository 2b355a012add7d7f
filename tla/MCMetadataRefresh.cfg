SPECIFICATION FairSpec
CONSTANTS
    i1 = i1
    Images <- OneImage
    NoOne = NoOne
    MaxRefreshes = 2
    MaxArtworks = 2
    MaxFaults = 2
    MaxDeaths = 1
    MaxOutages = 1
INVARIANTS
    CatalogHasFiles
    RefreshReportIsTrue
PROPERTIES
    RefreshEnds
CHECK_DEADLOCK FALSE
