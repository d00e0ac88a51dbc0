SPECIFICATION PingSpec
CONSTANTS
    Counts = {3}
    Interval = 2
    MaxLate = 0
    HttpTimes = {1, 4}
INVARIANTS
    IncreasesMoveFaster
