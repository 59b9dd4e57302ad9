\* Two webs on one tab: closing, new and past sessions, resent prompts,
\* restarts, removal.
CONSTANTS
    w1 = w1
    w2 = w2
    s1 = s1
    s2 = s2
    m1 = m1
    None = None
    Webs = {w1, w2}
    Sessions = {s1, s2}
    Messages = {m1}
    MaxRestarts = 1
SPECIFICATION Spec
SYMMETRY WebSymmetry
INVARIANTS RunsOnce SweepsOnlyDeleted CommandsReachTheRun
CHECK_DEADLOCK FALSE
