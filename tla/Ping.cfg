SPECIFICATION FairSpec
CONSTANTS
    Counts = {1, 3}
    Interval = 2
    MaxLate = 3
    HttpTimes = {1, 4}
INVARIANTS
    EchosOnSchedule
    ComparableSamples
PROPERTIES
    LastWordStands
    PhaseEnds
