SPECIFICATION FairSpec
CONSTANTS
    l1 = l1
    l2 = l2
    Lookups = {l1, l2}
    Nobody = Nobody
    Slots = 1
    Interval <- MCInterval
    Budget = 3
    MaxCandidates = 2
INVARIANTS TypeOK
PROPERTIES CallsAreSpaced EveryLookupEnds
