\* Cancel while the ETA profile is read.
CONSTANTS
    x1 = x1
    x2 = x2
    None = None
    Execs = {x1}
    MaxPrompts = 2
    MaxRestarts = 0
    SlowEta = TRUE
SPECIFICATION Spec
INVARIANT PendingIsExecuting
CHECK_DEADLOCK FALSE
