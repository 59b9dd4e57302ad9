\* A restart of the CLI at any point.
CONSTANTS
    x1 = x1
    x2 = x2
    None = None
    Execs = {x1}
    MaxPrompts = 2
    MaxRestarts = 1
    SlowEta = TRUE
SPECIFICATION Spec
INVARIANTS GoOnIsResumed
CHECK_DEADLOCK FALSE
