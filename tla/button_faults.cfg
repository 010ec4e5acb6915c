SPECIFICATION Spec
CONSTANTS
    Pins = {p1}
    NoPin = NoPin
    QueueBound = 3
    VmStates = {"running", "stopped"}
    VmStart = {"stopped"}
    HostStart = {"paired"}
    Budget <- ButtonFaultBudget
    Backend = "spice"
    PowerButton = TRUE
    FailureLimit = 2
    FailureWindow = 1
    ReconnectInitial = 1
    ReconnectMax = 2
    OffDelay = 1
    Stabilize = 1
    Debounce = 1
    ShutdownTimeout = 1
    PairTimeout = 1
INVARIANTS
    ErrorEndsAction
    SleepingIsDark
PROPERTIES
    ActionEnds
