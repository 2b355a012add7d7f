\* One story and one collection; two shelves, two reviews and three transactions.
SPECIFICATION ShelfSpec
CONSTANTS
    s1 = s1
    s2 = s2
    c1 = c1
    c2 = c2
    Stories <- OneStory
    Collections <- OneCollection
    MaxShelves = 2
    Limit = 1
    MaxTickets = 2
    MaxWrites = 3
    MaxFaults = 1
    MaxOpens = 1
INVARIANTS
    ManualShelfIsKept
PROPERTIES
    ActsOnReview
    NoBlindRemoval
CHECK_DEADLOCK FALSE
