SPECIFICATION Spec
CONSTANTS
    Absent = Absent
    Stamps <- OneResult
    c1 = c1
    c2 = c2
    Callers = {c1}
    Setups <- ShippedSetup
    Trees = {"t0", "t1"}
    FirstTree = "t0"
    Evidence = {"passed", "failed"}
    Passing = {"passed"}
    MaxDisturbances = 0
PROPERTY ApprovalSettles
CHECK_DEADLOCK FALSE
