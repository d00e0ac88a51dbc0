SPECIFICATION FairSpec
CONSTANTS
    ConnectTimeout = 5
    FallbackDelay = 1
    MinAttempt = 2
    MaxPrimaries = 3
    MaxFallbacks = 2
    MaxAfter = 2
INVARIANTS
    WithinBudget
    EveryAddressTried
    FamiliesRace
    FirstErrorReported
PROPERTIES
    DialReturns
