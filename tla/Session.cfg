SPECIFICATION FairSpec
CONSTANTS
    Servers = 3
    MaxProgress = 1
INVARIANTS
    ProgressInItsPhase
    DocumentIffSuccess
    DocumentFaithful
    PostedOnce
PROPERTIES
    RunExits
