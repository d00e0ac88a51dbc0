SPECIFICATION FairSpec
CONSTANTS
    Upload = FALSE
    Requests = 2
    RampUp = 1
    Duration = 2
    Timeout = 2
    FinalReads = 3
    MaxElapsed = 5
    MaxBytes = 2
    MaxOverhead = 0
    QueueCap = 0
INVARIANTS
    WindowHonoured
    AbandonedOnlyUnanswered
    ReportedTotalStable
PROPERTIES
    NoBlindRetry
    PhaseEnds
    ImplementsMeasurement
