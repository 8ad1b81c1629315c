SPECIFICATION TokenSpec
CONSTANTS
    h1 = h1
    h2 = h2
    NoHandle = NoHandle
    Handles <- OneHandle
    Generations = 2
    MinInterval = 1
    MaxInterval = 1
    Builds = {TRUE, FALSE}
    Pins = {"leaf"}
    UseMdns = FALSE
    NoPage = NoPage
    MaxEdits = 0
    NetChanges = FALSE
    CanReboot = FALSE
PROPERTIES
    TokenIsReplaced
