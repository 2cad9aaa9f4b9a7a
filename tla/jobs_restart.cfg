SPECIFICATION Spec
CONSTANTS
    Jobs = {j1, j2}
    Slots = {s1, s2}
    Controllers = {c1}
    RetryBase = 2
    MaxBackoff = 3
    MaxStops = 2
    MaxFaults = 1
    MaxControls = 1
INVARIANT QueueInv
PROPERTIES CompletedIsFinal IdlePauseHolds JobsSettle
CHECK_DEADLOCK FALSE
