\* Two loops.
CONSTANTS
    a = a
    b = b
    c = c
    e = e
    r1 = r1
    r2 = r2
    NoEpic = NoEpic
    Issues <- FlatIssues
    Epics = {}
    Children <- FlatChildren
    BlockedBy <- FlatIndependent
    Priority <- FlatPriority
    Ungated = {}
    ParallelLimits = {1, 2}
    Runs = {r1, r2}
    InitStatuses = {"todo"}
    AgentStatuses = {"in_review"}
    UserStatuses = {}
    MaxEdits = 0
    MaxCrashes = 0
SPECIFICATION Spec
INVARIANTS NoIssueRunTwice

CHECK_DEADLOCK FALSE
