\* Each part on its own: three subprocesses, two calls and a permission, a tool
\* and two prompts, two retries, four pieces of text, two reviews, a question.
CONSTANTS
    ServerProcs = {1, 2, 3}
    MaxRestarts = 2
    MaxServerCrashes = 1
    Calls = {c1, c2}
    Permissions = {p1}
    MaxTokens = 1
    MaxQueued = 3
    Tools = {t1}
    WarnTicks = 1
    KillTicks = 2
    CapTicks = 3
    Extensions = {1, 3}
    LongestTicks = 3
    MaxExtensions = 1
    MaxPrompts = 1
    Policies = {"NONE", "STANDARD", "FULL"}
    MaxRetries = 2
    MaxAutoContinues = 1
    MaxPieces = 4
    Reviews = {r1, r2}
    Operations = {{"critical"}, {"needs"}}
    CacheMax = 1
    Asked = {q1}
    Viewers = {w1, w2}
    MaxCrashes = 1
SPECIFICATION EnginesSpec
INVARIANTS EnginesTypeOK ServerNoOrphan ResumesOwnSession TextAccounted OnlyDecisionsCached
PROPERTIES OpenCodeKeepsContract NeverReturnsLess EveryWaitEnds EveryRunEnds
CHECK_DEADLOCK FALSE
