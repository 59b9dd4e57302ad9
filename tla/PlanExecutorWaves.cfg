\* One loop at a time: b waits for the epic of a, c for itself; no edits by the user.
CONSTANTS
    a = a
    b = b
    c = c
    e = e
    r1 = r1
    r2 = r2
    NoEpic = NoEpic
    Issues <- BlockedIssues
    Epics <- MCEpics
    Children <- BlockedChildren
    BlockedBy <- Blocked
    Priority <- BlockedPriority
    Ungated = {}
    ParallelLimits = {1, 2}
    Runs = {r1}
    InitStatuses = {"todo", "cancelled"}
    AgentStatuses = {"in_review"}
    UserStatuses = {}
    MaxEdits = 0
    MaxCrashes = 1
SPECIFICATION Spec
INVARIANTS DependencyOrder NothingLeftRunning PermissionsFollowWaves
PROPERTIES RunEnds BoardCompletedWhenDone ImplementsLifecycle
CHECK_DEADLOCK FALSE
