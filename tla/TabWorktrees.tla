----------------------------- MODULE TabWorktrees -----------------------------
(* Which worktree each tab of the web works in: the process's gitDirectories  *)
(* map, a cache of the session registry on disk (git-worktree-handlers.ts,    *)
(* git-log-handlers.ts, tab-handlers.ts, git-head-watcher.ts). "none" stands  *)
(* for no entry, which routes the tab to the project's directory; branch      *)
(* names are left out.                                                        *)
EXTENDS Naturals, FiniteSets

CONSTANTS
  WTabs,         \* tabs of the web (a plan board is one too)
  Worktrees      \* worktrees the user may create

VARIABLES
  present,       \* worktrees on disk
  dirs,          \* gitDirectories
  registry,      \* the worktree each tab has in the registry; "gone" once removed
  asked,         \* the git commands that handlers of each tab await
  watched,       \* the worktrees of each tab the head watcher awaits git for
  choice,        \* history: the worktree the user last moved each tab to
  browsed,       \* history: the directories set for each tab since
  late           \* history: worktrees it may come back to by a late answer of git

worktreeVars == <<present, dirs, registry, asked, watched, choice, browsed, late>>

Commands == [op : {"switch", "create"}, dir : Worktrees]
WorktreesTypeOK ==
  /\ present \subseteq Worktrees
  /\ \A t \in WTabs :
       /\ dirs[t] \in Worktrees \cup {"none", "project"}
       /\ registry[t] \in Worktrees \cup {"none", "gone"}
       /\ asked[t] \subseteq Commands /\ watched[t] \subseteq Worktrees
       /\ choice[t] \in Worktrees \cup {"none", "gone"}

WorktreesInit ==
  /\ present = {} /\ dirs = [t \in WTabs |-> "none"]
  /\ registry = [t \in WTabs |-> "none"] /\ asked = [t \in WTabs |-> {}]
  /\ watched = [t \in WTabs |-> {}] /\ choice = [t \in WTabs |-> "none"]
  /\ browsed = [t \in WTabs |-> {}] /\ late = [t \in WTabs |-> {}]

Registered(t) == registry[t] # "gone"

\* The last move of a tab waits for git.
Switch(w) == [op |-> "switch", dir |-> w]
Moving(t) == Switch(choice[t]) \in asked[t]

\* Mutant: leaving a worktree clears the map only.
KeptInRegistry(t, w) == IF w = "none" THEN registry ELSE [registry EXCEPT ![t] = w]

\* SessionRegistry.updateTabWorktree: nothing for a tab it does not have.
UpdateTabWorktree(t, w) ==
  IF Registered(t) THEN [registry EXCEPT ![t] = w] ELSE registry

\* A move: what git is still asked about the tab is about where it was.
Moved(t, w) ==
  /\ choice' = [choice EXCEPT ![t] = w]
  /\ browsed' = [browsed EXCEPT ![t] = {}]
  /\ late' = [late EXCEPT ![t] = watched[t] \cup {a.dir : a \in asked[t]}]

\* handleTabWorktreeSwitch without a path: back to the project's directory.
SwitchToProject(t) ==
  /\ Registered(t)
  /\ dirs' = [dirs EXCEPT ![t] = "none"]
  /\ registry' = UpdateTabWorktree(t, "none")
  /\ Moved(t, "none")
  /\ UNCHANGED <<present, asked, watched>>

\* Otherwise the map is set at once, the registry when git has told the branch, or
\* failed to; a bound: no second switch to a worktree while one to it waits.
SwitchStarts(t, w) ==
  /\ Registered(t) /\ w \in present /\ Switch(w) \notin asked[t]
  /\ dirs' = [dirs EXCEPT ![t] = w]
  /\ asked' = [asked EXCEPT ![t] = @ \cup {Switch(w)}]
  /\ Moved(t, w)
  /\ UNCHANGED <<present, registry, watched>>
SwitchEnds(t, w) ==
  /\ Switch(w) \in asked[t]
  /\ registry' = UpdateTabWorktree(t, w)
  /\ asked' = [asked EXCEPT ![t] = @ \ {Switch(w)}]
  /\ UNCHANGED <<present, dirs, watched, choice, browsed, late>>

\* handleGitWorktreeCreateAndAssign: the tab moves when git has added the
\* worktree, or stays where it is.
Create(w) == [op |-> "create", dir |-> w]
CreateStarts(t, w) ==
  /\ Registered(t) /\ w \notin present /\ Create(w) \notin asked[t]
  /\ asked' = [asked EXCEPT ![t] = @ \cup {Create(w)}]
  /\ UNCHANGED <<present, dirs, registry, watched, choice, browsed, late>>
CreateEnds(t, w) ==
  /\ Create(w) \in asked[t]
  /\ asked' = [asked EXCEPT ![t] = @ \ {Create(w)}]
  /\ \/ /\ w \notin present /\ present' = present \cup {w}
        /\ dirs' = [dirs EXCEPT ![t] = w]
        /\ registry' = UpdateTabWorktree(t, w)
        /\ Moved(t, w)
     \/ UNCHANGED <<present, dirs, registry, choice, browsed, late>>
  /\ UNCHANGED watched

\* handleGitWorktreeRemove, its cleanup of the map included, which leaves the
\* registry alone.
RemoveWorktree(w) ==
  /\ w \in present
  /\ present' = present \ {w}
  /\ dirs' = [t \in WTabs |-> IF dirs[t] = w THEN "none" ELSE dirs[t]]
  /\ UNCHANGED <<registry, asked, watched, choice, browsed, late>>

\* handleGitSetDirectory: the map only. Without a directory the entry goes.
SetDirectory(t, d) ==
  /\ Registered(t) /\ d \in present \cup {"project"}
  /\ dirs' = [dirs EXCEPT ![t] = d]
  /\ browsed' = [browsed EXCEPT ![t] = @ \cup {d}]
  /\ UNCHANGED <<present, registry, asked, watched, choice, late>>
UnsetDirectory(t) ==
  /\ Registered(t) /\ dirs[t] # "none"
  /\ dirs' = [dirs EXCEPT ![t] = "none"]
  /\ UNCHANGED <<present, registry, asked, watched, choice, browsed, late>>

\* restoreWorktreeFromRegistry, on any message of the tab, its initTab or a web's
\* getActiveTabs; while a move waits, the registry has where the tab was.
Hydrate(t) ==
  /\ dirs[t] = "none" /\ registry[t] \notin {"none", "gone"}
  /\ dirs' = [dirs EXCEPT ![t] = registry[t]]
  /\ late' = IF Moving(t) THEN [late EXCEPT ![t] = @ \cup {registry[t]}] ELSE late
  /\ UNCHANGED <<present, registry, asked, watched, choice, browsed>>

\* The head watcher, on a timer of its own, asks git for the branch of a tab's
\* worktree, and writes the worktree it asked about when the branch is a new one.
WatchStarts(t) ==
  /\ dirs[t] \in present /\ dirs[t] \notin watched[t]
  /\ watched' = [watched EXCEPT ![t] = @ \cup {dirs[t]}]
  /\ UNCHANGED <<present, dirs, registry, asked, choice, browsed, late>>
WatchEnds(t, w, changed) ==
  /\ w \in watched[t]
  /\ registry' = IF changed THEN UpdateTabWorktree(t, w) ELSE registry
  /\ watched' = [watched EXCEPT ![t] = @ \ {w}]
  /\ UNCHANGED <<present, dirs, asked, choice, browsed, late>>

\* handleRemoveTab.
RemoveTab(t) ==
  /\ Registered(t)
  /\ registry' = [registry EXCEPT ![t] = "gone"]
  /\ dirs' = [dirs EXCEPT ![t] = "none"]
  /\ Moved(t, "gone")
  /\ UNCHANGED <<present, asked, watched>>

\* The process restarts: a move that was not answered is not made.
ProcessRestarts ==
  /\ \E t \in WTabs : dirs[t] # "none"
  /\ dirs' = [t \in WTabs |-> "none"]
  /\ asked' = [t \in WTabs |-> {}] /\ watched' = [t \in WTabs |-> {}]
  /\ choice' = [t \in WTabs |-> IF Moving(t) THEN registry[t] ELSE choice[t]]
  /\ UNCHANGED <<present, registry, browsed, late>>

WorktreesNext ==
  \/ ProcessRestarts
  \/ \E w \in Worktrees : RemoveWorktree(w)
  \/ \E t \in WTabs :
       \/ SwitchToProject(t) \/ UnsetDirectory(t) \/ Hydrate(t) \/ WatchStarts(t)
       \/ RemoveTab(t)
       \/ \E d \in Worktrees \cup {"project"} : SetDirectory(t, d)
       \/ \E w \in Worktrees :
            \/ SwitchStarts(t, w) \/ SwitchEnds(t, w)
            \/ CreateStarts(t, w) \/ CreateEnds(t, w)
            \/ \E changed \in BOOLEAN : WatchEnds(t, w, changed)

WorktreesSpec == WorktreesInit /\ [][WorktreesNext]_worktreeVars
-----------------------------------------------------------------------------
\* Where the tab's next message goes, in the map or in the registry.
Directory(t) == IF dirs[t] # "none" THEN dirs[t] ELSE registry[t]

\* No tab comes back to a worktree its user left: over restarts, removals and
\* hydrations, a tab works in the worktree it was last moved to, or in a directory set
\* for it since. Only an answer of git that came late brings one back: to the head
\* watcher or to an earlier switch, when the tab was moved on before it, or to the last
\* switch, when the map was filled from the registry before it.
TabStaysWhereMoved ==
  \A t \in WTabs : Registered(t) /\ ~ Moving(t) =>
    Directory(t) \in {choice[t]} \cup browsed[t] \cup late[t]
=============================================================================
