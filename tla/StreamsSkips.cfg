SPECIFICATION StreamsSpec
CONSTANTS
    Readings = {0, 1, 4}
    Window = 2
    Lower = 1
    Upper = 2
    MinDelta = 1
    MaxDelta = 2
    MaxSkips = 1
    Turn = 3
    MinAngle = 0
    Curves = {}
    Pauses = {1}
    MaxValues = 4
    MaxRestarts = 0
INVARIANT SkipsWithinMax
CHECK_DEADLOCK FALSE
