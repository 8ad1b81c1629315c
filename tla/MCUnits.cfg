SPECIFICATION Spec
CONSTANTS
    Long = 3
    Ultra = 5
    Interval = 2
    Grace = 2
    RepeatStart = 3
    RepeatEvery = 1
    MaxPresses = 4
    Samples = {s1, s2}
    Invalid = Invalid
    Delay = 1
    MinInterval = 2
    Every = 2
    MaxAge = 3
    Readings <- MCReadings
    Window = 3
    Lower = 1
    Upper = 2
    MinDelta = 1
    MaxDelta = 2
    MaxSkips = 1
    Turn = 3
    MinAngle <- MCMinAngle
    Curves <- MCCurves
    Pauses = {1, 2}
    MaxValues = 4
    MaxRestarts = 1
    MaxPulses = 3
    Timeout = 3
    MaxCommands = 3
    Savers = {http, worker}
    Configs = {d, v1, v2}
    Default = d
    MaxChanges = 3
    Missing = Missing
    Broken = Broken
    MaxLines = 2
    MaxLineAge = 1
    Depth = 1
    MaxSeq = 4
    MaxTime = 3
    MaxSession = 1
    NoCursor = NoCursor
    NonceAge = 1
    MaxNonces = 2
    Tolerance = 2
    ClockWrap = 6
    Horizon = 0
    Oldest = 5
    MaxCount = 3
    Connections = 2
    Cards = {c1, c2, c3}
    MaxConcurrency = 1
    MaxRetries = 1
    MaxReloads = 1
    Patterns <- MCPatterns
    Blip <- MCBlip
    Wrap = 11
    MaxGap = 4
    MaxBlips = 2
    MaxChains = 3
    MaxFailures = 2
    f1 = f1
    f2 = f2
    typed = typed
    Forms = {f1, f2, typed}
    Partial = Partial
    Rounded <- MCRounded
INVARIANTS
    TypeOK
    ClicksBacked
    TransformsSound
    ConfigSurvives
    NoSilentGap
PROPERTY PagesServed
\* The parts whose bounds are used up stop.
CHECK_DEADLOCK FALSE
