SPECIFICATION Spec
CONSTANTS
    Upload = TRUE
    Requests = 2
    RampUp = 1
    Duration = 2
    Timeout = 2
    FinalReads = 2
    MaxElapsed = 5
    MaxBytes = 2
    MaxOverhead = 2
    QueueCap = 2
PROPERTIES
    TotalBetweenWireBounds
