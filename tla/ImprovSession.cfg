\* One prompt at a time, the ETA profile cached.
CONSTANTS
    x1 = x1
    x2 = x2
    None = None
    Execs = {x1}
    MaxPrompts = 2
    MaxRestarts = 0
    SlowEta = FALSE
SPECIFICATION Spec
INVARIANTS CancelReachesAgents EndsOnce WebAgrees
PROPERTIES PromptsEnd
CHECK_DEADLOCK FALSE
