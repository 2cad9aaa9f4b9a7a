SPECIFICATION MCSpec
CONSTANTS
    Assignments = {a1, a2}
    WorkPackages = {w1}
    Attempts = {t1, t2}
    Tokens = {k1, k2}
    Contracts = {c1}
    Idems = {i1, i2}
    Digests = {d1}
    Nonces = {n1}
    None = None
    Callers = {p, q}
    Gens = {1}
    LeaseDuration = 1
    ExtendBy = 1
    MaxTime = 1
    MaxOps = 7
    RaceOps = 4
SYMMETRY Symmetry
CONSTRAINT OpsBound
INVARIANTS ControlInv LeaseHorizon
PROPERTIES StepsFollowTable AppliedOnce ClosedLeasesStayClosed ImplementsLifecycle
