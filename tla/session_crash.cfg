SPECIFICATION Spec
CONSTANTS
    Files <- MCFiles
    Content <- MCContent
    Burst = 2
    MaxEdits = 0
    MaxRestarts = 0
    MaxCrashes = 1
PROPERTY SessionComesBack
CHECK_DEADLOCK FALSE
