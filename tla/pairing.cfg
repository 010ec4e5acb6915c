SPECIFICATION Spec
CONSTANTS
    Pins = {p1, p2}
    NoPin = NoPin
    QueueBound = 3
    VmStates = {"running", "stopped"}
    VmStart = {"running", "stopped"}
    HostStart = {"unreachable", "unpaired", "paired"}
    Budget <- PairBudget
    Backend = "moonlight"
    PowerButton = FALSE
    FailureLimit = 2
    FailureWindow = 1
    ReconnectInitial = 1
    ReconnectMax = 2
    OffDelay = 1
    Stabilize = 1
    Debounce = 1
    ShutdownTimeout = 1
    PairTimeout = 1
INVARIANTS
    PinOnScreen
    WaitingOnScreen
    StreamIsPaired
