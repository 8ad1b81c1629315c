SPECIFICATION FairSpec
CONSTANTS
    h1 = h1
    h2 = h2
    NoHandle = NoHandle
    Handles <- OneHandle
    Generations = 2
    MinInterval = 1
    MaxInterval = 1
    Builds = {TRUE}
    Pins = {"leaf"}
    UseMdns = FALSE
    NoPage = NoPage
    MaxEdits = 0
    NetChanges = TRUE
    CanReboot = FALSE
PROPERTIES
    AttemptEnds
    TeardownEnds
    ConnectedIsReal
    Retries
