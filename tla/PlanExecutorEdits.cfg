\* One loop at a time; the user edits, deletes and creates issues and archives the board.
CONSTANTS
    a = a
    b = b
    c = c
    e = e
    r1 = r1
    r2 = r2
    NoEpic = NoEpic
    Issues <- FlatIssues
    Epics = {}
    Children <- FlatChildren
    BlockedBy <- FlatIndependent
    Priority <- FlatPriority
    Ungated = {b}
    ParallelLimits = {2}
    Runs = {r1}
    InitStatuses = {"todo"}
    AgentStatuses = {"in_review", "done"}
    UserStatuses = {"todo", "done", "in_progress"}
    MaxEdits = 2
    MaxCrashes = 0
SPECIFICATION Spec
INVARIANTS ReviewGate ReviewBudget
CHECK_DEADLOCK FALSE
