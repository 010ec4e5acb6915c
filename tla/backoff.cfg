SPECIFICATION Spec
CONSTANTS
    Pins = {p1}
    NoPin = NoPin
    QueueBound = 3
    VmStates = {"running", "stopped", "prelaunch"}
    VmStart = {"running", "stopped"}
    HostStart = {"paired"}
    Budget <- BackoffBudget
    Backend = "vnc"
    PowerButton = FALSE
    FailureLimit = 2
    FailureWindow = 1
    ReconnectInitial = 1
    ReconnectMax = 2
    OffDelay = 1
    Stabilize = 1
    Debounce = 1
    ShutdownTimeout = 1
    PairTimeout = 1
INVARIANTS
    TypeOK
PROPERTIES
    LaunchIsDue
