SPECIFICATION FairSpec
CONSTANTS
    Ids = {1, 2, 3}
    Lists <- MCLists
    PingWorkers = 2
    MaxPing = 2
INVARIANTS
    TestedAsAsked
    FastestTested
PROPERTIES
    FatalOnlyIfSilent
    SelectionEnds
