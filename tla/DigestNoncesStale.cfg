SPECIFICATION NoncesSpec
CONSTANTS
    NonceAge = 1
    MaxNonces = 2
    Tolerance = 2
    ClockWrap = 6
    Horizon = 0
    Oldest = 5
    MaxCount = 3
    Connections = 2
INVARIANT NotStaleYoung
