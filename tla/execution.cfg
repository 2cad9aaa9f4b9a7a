CONSTANTS
    Assignments = {1, 2}
    MaxAttempts = 2
    Setups <- MCSetups
SPECIFICATION Spec
INVARIANTS ExecutionInv RetryOnce
PROPERTIES StartedOnce DependencyBarrier ActiveSettles
CHECK_DEADLOCK FALSE
