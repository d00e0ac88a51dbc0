SPECIFICATION FairSpec
CONSTANTS
    Urls <- MCUrls
    MaxRedirects = 4
    Limit = 3
    MaxFrame = 2
INVARIANTS
    TypeOK
    BodyStaysHome
    NeverDowngraded
    BodyNeverRevived
    ChainBounded
PROPERTIES
    TimedCallEnds
    EndlessBodyEnds
