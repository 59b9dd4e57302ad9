\* Each part on its own: a terminal and two webs, two uploads and a download, two
\* merges, a tab and two worktrees, three runs on one report, scans of three sizes.
CONSTANTS
    Terms = {t1}
    Screens = {w1, w2}
    Ptys = {1, 2}
    MaxOutput = 2
    Scrollback = 1
    Uploads = {u1, u2}
    Downloads = {d1}
    Chunks = 2
    MaxVariants = 1
    Merges = {m1, m2}
    Branches = {b1}
    Edits = {e1, e2}
    Blocking = {e1}
    WTabs = {tab1}
    Worktrees = {tree1, tree2}
    Runs = {run1, run2, run3}
    Paths = {root, dotSlash}
    RootNames = {root, dotSlash}
    MaxHistory = 1
    SourceLines = {4999, 5000, 20000}
    LowsFound = {0, 1, 8, 31, 199}
    KeptFindings = 200
    MaxAdded = 2
SPECIFICATION WorkspaceSpec
INVARIANTS SevereFindingsShow NoEditLost  WorkIsWhole
PROPERTIES LetterNeverRises ResultsAreCurrent WorkEnds
CHECK_DEADLOCK FALSE
