SPECIFICATION PinSpec
CONSTANT MaxPulses = 3
INVARIANT FirstLevelSent
