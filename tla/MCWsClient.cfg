SPECIFICATION SafetySpec
CONSTANTS
    h1 = h1
    h2 = h2
    NoHandle = NoHandle
    Handles <- MCHandles
    Generations = 2
    MinInterval = 1
    MaxInterval = 1
    Builds = {TRUE}
    Pins = {"ca"}
    UseMdns = TRUE
    NoPage = NoPage
    MaxEdits = 1
    NetChanges = FALSE
    CanReboot = TRUE
SYMMETRY HandleSymmetry
INVARIANTS
    IInv
    OwnedOnce
    AtMostOneClient
    HandlerAlive
    HrefExcludesToken
    AnchorFromWebSocket
PROPERTIES
    AttemptOwnsState
    LateEventsDropped
