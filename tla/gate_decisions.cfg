SPECIFICATION Spec
CONSTANTS
    Absent = Absent
    Stamps <- Results
    c1 = c1
    c2 = c2
    Callers = {c1, c2}
    Setups <- AllSetups
    Trees = {"t0", "t1"}
    FirstTree = "t0"
    Evidence = {"passed", "failed"}
    Passing = {"passed"}
    MaxDisturbances = 1
INVARIANTS GateInv HistoryReplays
CHECK_DEADLOCK FALSE
