SPECIFICATION Spec
CONSTANTS
    Origins <- MCOrigins
    Texts = {"sway"}
    MaxRuns = 3
    MaxFaults = 1
    MaxTime = 1
INVARIANTS
    TypeOK
    NoOverreach
    ConfigKept
    InstallReady
    UninstallClean
PROPERTIES
    CompositorInstalled
    Restores
