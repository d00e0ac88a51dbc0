SPECIFICATION Spec
CONSTANTS
    Segments = {"", ".", "..", "a", "b"}
    Bases <- MCBases
    MaxSegments = 5
    Characters = {"a", "=", ",", "'", "quote", "backslash", "<", "u003c", "ESC", "LF"}
    Addresses <- MCAddresses
    Delimiters = {",", "=", "TAB", "LF"}
    MaxText = 3
    Payloads = {0, 1, 2, 3, 4, 7}
    Chunk = 3
    MaxSent = 9
INVARIANTS
    JoinedPathsLead
    ReportsAreInert
    QuoteRecoverable
    BodyMatchesLength
