SPECIFICATION Spec
CONSTANTS
    Jobs = {j1}
    Slots = {s1}
    Controllers = {c1}
    RetryBase = 2
    MaxBackoff = 3
    MaxStops = 0
    MaxFaults = 0
    MaxControls = 1
PROPERTY PausedUntilResumed
CHECK_DEADLOCK FALSE
