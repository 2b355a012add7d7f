SPECIFICATION FairSpec
CONSTANTS
    s1 = s1
    s2 = s2
    none = none
    Stories <- MCStories
    NoStory <- MCNoStory
    MaxFaults <- MCMaxFaults
    MaxCrashes <- MCMaxCrashes
INVARIANTS
    AnswerIsTrue
    MisplacedIsKnown
    RemovedIsStored
    OpenIsWhole
PROPERTIES
    RemovalSettles
