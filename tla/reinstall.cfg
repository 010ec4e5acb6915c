SPECIFICATION Spec
CONSTANTS
    Origins <- MCOrigins
    Texts = {"sway"}
    MaxRuns = 3
    MaxFaults = 0
    MaxTime = 0
INVARIANT LoginPathRestored
