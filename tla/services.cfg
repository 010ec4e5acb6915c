SPECIFICATION Spec
CONSTANTS
    Files <- MCFiles
    Content <- MCContent
    Burst = 2
    MaxEdits = 2
    MaxRestarts = 1
    MaxCrashes = 2
INVARIANTS
    TypeOK
    Agree
    Confined
PROPERTIES
    CageComesBack
    LoopStops
CHECK_DEADLOCK FALSE
