---------------------------- MODULE WorkspaceProofs ----------------------------
(* The theorems about what the web's users share in a project, for every value *)
(* of the constants.                                                           *)
(*   QualityRuns: what is recorded and published of scans and reviews          *)
(*   TabWorktrees: a tab works where its user last put it, or where git's      *)
(*     answer to an earlier question brings it                                 *)
(*   Terminals: no output and no shell is lost, but where an id was opened     *)
(*     again while its old shell died                                          *)
(*   FileTransfer: what stands under a name is what was received, but where    *)
(*     two uploads had the name at once or a chunk came late                   *)
(*   WorktreeMerge: no edit of the user is lost                                *)
(*   QualityGrading: severe findings show in the grade, and no finding raises  *)
(*     it                                                                      *)
(*   Workspace: all of it is in its ranges and what the webs were told         *)
EXTENDS Workspace, FiniteSetTheorems, TLAPS

--------------------------------------------------------------------------------
\* Scans and reviews.

RunRecords ==
  [at : {"none", "sizing", "scanning", "reviewing", "verifying", "done"},
   kind : Kinds \cup {"none"}, path : Paths \cup {"none"},
   read : [scan : Runs \cup {"none"}, review : Runs \cup {"none"}]]
Reports == [scan : Runs \cup {"none"}, review : Runs \cup {"none"}]

Shapes ==
  /\ run \in [Runs -> RunRecords] /\ reports \in [Files -> Reports]
  /\ slot \in [Paths -> Runs \cup {"none"}] /\ active \in [Paths -> Kinds \cup {"none"}]

\* The slots are the runs under way, and only they have a controller to abort.
SlotsAreRuns ==
  /\ \A r \in Runs : Live(r) =>
       /\ run[r].path \in Paths /\ slot[run[r].path] = r
       /\ (run[r].kind = "scanning" <=> run[r].at \in {"sizing", "scanning"})
       /\ run[r].kind \in Kinds
  /\ \A p \in Paths : slot[p] # "none" => Live(slot[p]) /\ run[slot[p]].path = p
  /\ \A r \in aborted : r \in Runs /\ Live(r)

\* A report shows runs that have ended.
ReportsOfDone ==
  \A f \in Files : \A r \in {reports[f].scan, reports[f].review} :
    r # "none" => run[r].at = "done"

\* What each directory has on record.
Recorded ==
  /\ \A r \in Runs : Live(r) /\ run[r].at # "sizing" /\ r \notin aborted =>
       active[run[r].path] = run[r].kind
  /\ \A p \in Paths : active[p] # "none" => slot[p] # "none" \/ p \in orphaned

QualityInv == "none" \notin Runs /\ Shapes /\ SlotsAreRuns /\ ReportsOfDone /\ Recorded

LEMMA QualityInitInv == "none" \notin Runs /\ QualityInit => QualityInv
<1> SUFFICES ASSUME "none" \notin Runs, QualityInit PROVE QualityInv
  OBVIOUS
<1>1. Shapes
  BY DEF QualityInit, Shapes, RunRecords, Reports, Idle, NoReport
<1> QED
  BY <1>1 DEF QualityInit, QualityInv, SlotsAreRuns, ReportsOfDone, Recorded, Live, Idle, NoReport

\* Every name of a directory has a report.
LEMMA FileOf == ASSUME NEW p \in Paths PROVE File(p) \in Files
BY DEF Files

LEMMA RegisterInv ==
  ASSUME QualityInv, NEW r \in Runs, NEW p \in Paths, NEW kind \in Kinds,
         NEW at \in {"sizing", "reviewing"}, (kind = "scanning" <=> at = "sizing"),
         Register(r, p, kind, at), UNCHANGED <<aborted, reports, trend>>,
         \/ at = "sizing" /\ UNCHANGED <<active, orphaned>>
         \/ at = "reviewing" /\ RecordActive(p, kind)
  PROVE  QualityInv'
<1>0. /\ "none" \notin Runs /\ Shapes /\ SlotsAreRuns /\ ReportsOfDone /\ Recorded
      /\ run[r].at = "none" /\ slot[p] = "none" /\ kind # "none" /\ at # "done"
  BY DEF QualityInv, Register, Kinds
<1> DEFINE rec == [at |-> at, kind |-> kind, path |-> p, read |-> reports[File(p)]]
<1>1. /\ rec \in RunRecords /\ rec.at = at /\ rec.kind = kind /\ rec.path = p
  BY <1>0, FileOf DEF Shapes, Reports, RunRecords
<1>2. run' = [run EXCEPT ![r] = rec] /\ slot' = [slot EXCEPT ![p] = r]
  BY DEF Register
<1> HIDE DEF rec
<1>3. /\ active' \in [Paths -> Kinds \cup {"none"}]
      /\ \A q \in Paths : q # p => active'[q] = active[q] /\ (q \in orphaned => q \in orphaned')
      /\ at = "reviewing" => active'[p] = kind
  BY <1>0 DEF RecordActive, Shapes
<1>4. Shapes'
  BY <1>0, <1>1, <1>2, <1>3 DEF Shapes
<1>5. SlotsAreRuns'
  BY <1>0, <1>1, <1>2 DEF Shapes, SlotsAreRuns, Live
<1>6. ReportsOfDone'
  BY <1>0, <1>2 DEF Shapes, ReportsOfDone
<1>7. Recorded'
  BY <1>0, <1>1, <1>2, <1>3 DEF Shapes, SlotsAreRuns, Recorded, Live
<1> QED
  BY <1>0, <1>4, <1>5, <1>6, <1>7 DEF QualityInv

\* The end of a run, with a report or without.
LEMMA EndInv ==
  ASSUME QualityInv, NEW r \in Runs, Live(r), EndRun(r), reports' \in [Files -> Reports],
         \A f \in Files : \A s \in {reports'[f].scan, reports'[f].review} :
           s \in {reports[f].scan, reports[f].review, "none", r}
  PROVE  QualityInv'
<1>0. "none" \notin Runs /\ Shapes /\ SlotsAreRuns /\ ReportsOfDone /\ Recorded
  BY DEF QualityInv
<1> DEFINE p == run[r].path
           over == [Idle EXCEPT !.at = "done"]
<1>1. p \in Paths /\ slot[p] = r
  BY <1>0 DEF SlotsAreRuns
<1>2. over \in RunRecords /\ over.at = "done"
  BY DEF Idle, NoReport, RunRecords
<1>3. /\ run' = [run EXCEPT ![r] = over] /\ slot' = [slot EXCEPT ![p] = "none"]
      /\ active' = [active EXCEPT ![p] = "none"] /\ orphaned' = orphaned \ {p}
      /\ aborted' = aborted \ {r}
  BY DEF EndRun
<1> HIDE DEF p, over
<1>4. Shapes'
  BY <1>0, <1>1, <1>2, <1>3 DEF Shapes
<1>5. SlotsAreRuns'
  BY <1>0, <1>1, <1>2, <1>3 DEF Shapes, SlotsAreRuns, Live, p
<1>6. ReportsOfDone'
  BY <1>0, <1>2, <1>3 DEF Shapes, ReportsOfDone, Reports
<1>7. Recorded'
  BY <1>0, <1>1, <1>2, <1>3 DEF Shapes, SlotsAreRuns, Recorded, Live, p
<1> QED
  BY <1>0, <1>4, <1>5, <1>6, <1>7 DEF QualityInv

\* What Publish writes: a scan's report, or the same scan with a review.
LEMMA PublishWrites ==
  ASSUME QualityInv, NEW r \in Runs, Live(r), Publish(r)
  PROVE  /\ reports' \in [Files -> Reports] /\ EndRun(r)
         /\ \A f \in Files : reports'[f] # reports[f] =>
              \/ run[r].kind = "scanning" /\ reports'[f].scan = r /\ reports'[f].review = "none"
              \/ reports'[f].scan = reports[f].scan /\ reports'[f].review = r
<1>1. Shapes /\ File(run[r].path) \in Files
  BY FileOf DEF QualityInv, SlotsAreRuns
<1> DEFINE f == File(run[r].path)
<1>2. reports[f] \in Reports
  BY <1>1 DEF Shapes
<1>3. /\ Published(r) \in Reports
      /\ \/ run[r].kind = "scanning" /\ Published(r).scan = r /\ Published(r).review = "none"
         \/ Published(r).scan = reports[f].scan /\ Published(r).review = r
  BY <1>2 DEF Published, Reports
<1>4. reports' = [reports EXCEPT ![f] = Published(r)] /\ EndRun(r)
  BY DEF Publish
<1> QED
  BY <1>1, <1>3, <1>4 DEF Shapes

LEMMA QualityStep == QualityInv /\ [QualityNext]_qualityVars => QualityInv'
<1> SUFFICES ASSUME QualityInv, [QualityNext]_qualityVars PROVE QualityInv'
  OBVIOUS
<1>0. "none" \notin Runs /\ Shapes /\ SlotsAreRuns /\ ReportsOfDone /\ Recorded
  BY DEF QualityInv
<1>1. ASSUME UNCHANGED <<run, aborted, slot, active, orphaned, reports>> PROVE QualityInv'
  BY <1>0, <1>1 DEF QualityInv, Shapes, SlotsAreRuns, ReportsOfDone, Recorded, Live
<1>2. ASSUME NEW r \in Runs, NEW p \in Paths, ScanStarts(r, p) \/ ReviewStarts(r, p)
      PROVE  QualityInv'
  BY <1>2, RegisterInv DEF ScanStarts, ReviewStarts, Kinds
<1>3. ASSUME NEW r \in Runs, Live(r), Publish(r) PROVE QualityInv'
  <2>1. \A f \in Files : \A s \in {reports'[f].scan, reports'[f].review} :
          s \in {reports[f].scan, reports[f].review, "none", r}
    BY <1>3, PublishWrites
  <2> QED
    BY <1>3, <2>1, PublishWrites, EndInv
<1>4. ASSUME NEW r \in Runs, RunFails(r) PROVE QualityInv'
  BY <1>0, <1>4, EndInv DEF RunFails, Live, Shapes
<1>5. ASSUME NEW r \in Runs, run[r].at = "reviewing",
             run' = [run EXCEPT ![r].at = "verifying"],
             UNCHANGED <<aborted, slot, active, orphaned, reports, trend>>
      PROVE  QualityInv'
  <2>1. /\ run' \in [Runs -> RunRecords]
        /\ run'[r].at = "verifying" /\ run'[r].path = run[r].path /\ run'[r].kind = run[r].kind
        /\ \A q \in Runs \ {r} : run'[q] = run[q]
    BY <1>0, <1>5 DEF Shapes, RunRecords
  <2> QED
    BY <1>0, <1>5, <2>1 DEF QualityInv, Shapes, SlotsAreRuns, ReportsOfDone, Recorded, Live
<1>6. ASSUME NEW r \in Runs, ScanRecorded(r) PROVE QualityInv'
  <2>1. /\ run[r].at = "sizing" /\ run[r].path \in Paths /\ run[r].kind = "scanning"
        /\ slot[run[r].path] = r
    BY <1>0, <1>6 DEF ScanRecorded, SlotsAreRuns, Live
  <2>2. /\ run' \in [Runs -> RunRecords]
        /\ run'[r].at = "scanning" /\ run'[r].path = run[r].path /\ run'[r].kind = run[r].kind
        /\ \A q \in Runs \ {r} : run'[q] = run[q]
    BY <1>0, <1>6 DEF ScanRecorded, Shapes, RunRecords
  <2>3. /\ active' = [active EXCEPT ![run[r].path] = "scanning"]
        /\ orphaned' = orphaned \ {run[r].path}
        /\ UNCHANGED <<aborted, slot, reports>>
    BY <1>6 DEF ScanRecorded, RecordActive
  <2>4. Shapes'
    BY <1>0, <2>2, <2>3 DEF Shapes, Kinds
  <2>5. SlotsAreRuns'
    BY <1>0, <2>1, <2>2, <2>3 DEF Shapes, SlotsAreRuns, Live
  <2>6. ReportsOfDone'
    BY <1>0, <2>1, <2>2, <2>3 DEF Shapes, Reports, ReportsOfDone
  <2>7. Recorded'
    BY <1>0, <2>1, <2>2, <2>3 DEF Shapes, SlotsAreRuns, Recorded, Live
  <2> QED
    BY <1>0, <2>4, <2>5, <2>6, <2>7 DEF QualityInv
<1>7. ASSUME NEW p \in Paths, Cancel(p) PROVE QualityInv'
  <2>1. /\ aborted' = IF slot[p] = "none" THEN aborted ELSE aborted \cup {slot[p]}
        /\ active' = [active EXCEPT ![p] = "none"] /\ orphaned' = orphaned \ {p}
        /\ UNCHANGED <<slot, run, reports>>
    BY <1>7 DEF Cancel, SlotAfterCancel
  <2>2. Shapes' /\ SlotsAreRuns' /\ ReportsOfDone'
    BY <1>0, <2>1 DEF Shapes, SlotsAreRuns, ReportsOfDone, Live
  <2>3. Recorded'
    BY <1>0, <2>1 DEF Shapes, SlotsAreRuns, Recorded, Live
  <2> QED
    BY <1>0, <2>2, <2>3 DEF QualityInv
<1>8. CASE LoadState
  <2> DEFINE orphans == {p \in Paths : active[p] # "none" /\ slot[p] = "none"}
  <2>1. /\ active' = [p \in Paths |-> IF p \in orphans THEN "none" ELSE active[p]]
        /\ orphaned' = orphaned \ orphans
        /\ UNCHANGED <<run, aborted, slot, reports>>
    BY <1>8 DEF LoadState
  <2>2. Shapes' /\ SlotsAreRuns' /\ ReportsOfDone'
    BY <1>0, <2>1 DEF Shapes, SlotsAreRuns, ReportsOfDone, Live
  <2>3. Recorded'
    BY <1>0, <2>1 DEF Shapes, SlotsAreRuns, Recorded, Live
  <2> QED
    BY <1>0, <2>2, <2>3 DEF QualityInv
<1>9. CASE ProcessDies
  <2> DEFINE over == [Idle EXCEPT !.at = "done"]
  <2>1. over \in RunRecords /\ over.at = "done"
    BY DEF Idle, NoReport, RunRecords
  <2>2. /\ run' = [r \in Runs |-> IF Live(r) THEN over ELSE run[r]]
        /\ aborted' = {} /\ slot' = [p \in Paths |-> "none"]
        /\ orphaned' = {p \in Paths : active[p] # "none"}
        /\ UNCHANGED <<active, reports>>
    BY <1>9 DEF ProcessDies
  <2> HIDE DEF over
  <2>3. \A r \in Runs : ~ Live(r)'
    BY <2>1, <2>2 DEF Live
  <2>4. Shapes'
    BY <1>0, <2>1, <2>2 DEF Shapes
  <2>5. SlotsAreRuns' /\ Recorded'
    BY <1>0, <2>2, <2>3 DEF SlotsAreRuns, Recorded
  <2>6. ReportsOfDone'
    BY <1>0, <2>1, <2>2 DEF ReportsOfDone, Shapes, Reports, Live
  <2> QED
    BY <1>0, <2>4, <2>5, <2>6 DEF QualityInv
<1>10. ASSUME NEW r \in Runs, RunStep(r) PROVE QualityInv'
  <2>1. \/ ScanRecorded(r) \/ RunFails(r)
        \/ Live(r) /\ Publish(r)
        \/ /\ run[r].at = "reviewing" /\ run' = [run EXCEPT ![r].at = "verifying"]
           /\ UNCHANGED <<aborted, slot, active, orphaned, reports, trend>>
    BY <1>10 DEF RunStep, ScanEnds, Reviewed, Verified, Live
  <2> QED
    BY <1>3, <1>4, <1>5, <1>6, <2>1
<1> QED
  BY <1>1, <1>2, <1>7, <1>8, <1>9, <1>10 DEF QualityNext, MinutePasses, qualityVars

\* The record on disk tells the truth: what runs and was not cancelled is on record
\* with its kind, and a record without a run is one a dead process left
\* (quality-handlers.ts: handleScan, handleLoadState; quality-persistence.ts).
THEOREM RecordsAgreeHolds == "none" \notin Runs /\ QualitySpec => []RecordsAgree
<1>1. QualityInv => RecordsAgree
  BY DEF QualityInv, SlotsAreRuns, Recorded, RecordsAgree
<1> QED
  BY <1>1, QualityInitInv, QualityStep, PTL DEF QualitySpec

\* A cancelled run publishes nothing however late it ends, and a review is added to
\* the report of the latest scan (quality-handlers.ts: persistScan;
\* quality-review-agent.ts: persistReviewResults).
THEOREM ResultsAreCurrentHolds == "none" \notin Runs /\ QualitySpec => ResultsAreCurrent
<1> DEFINE Current ==
      \A f \in Files : reports'[f] # reports[f] =>
        /\ {reports'[f].scan, reports'[f].review} \cap aborted = {}
        /\ reports'[f].scan # reports[f].scan =>
             \E r \in Runs : run[r].kind = "scanning" /\ reports'[f].scan = r /\ run'[r] # run[r]
<1>1. QualityInv /\ [QualityNext]_qualityVars => [Current]_qualityVars
  <2> SUFFICES ASSUME QualityInv, QualityNext PROVE Current
    BY DEF QualityInv
  <2>1. CASE UNCHANGED reports
    BY <2>1
  <2>2. ASSUME NEW r \in Runs, Live(r), r \notin aborted, Publish(r) PROVE Current
    <3>1. run'[r].at = "done" /\ run[r].at # "done"
      BY <2>2 DEF Publish, EndRun, QualityInv, Shapes, Idle, Live
    <3>2. "none" \notin aborted /\ \A s \in aborted : s \in Runs /\ run[s].at # "done"
      BY DEF QualityInv, SlotsAreRuns, Live
    <3>3. \A f \in Files : \A s \in {reports[f].scan, reports[f].review} : s \notin aborted
      BY <3>2 DEF QualityInv, ReportsOfDone
    <3> QED
      BY <2>2, <3>1, <3>2, <3>3, PublishWrites
  <2> QED
    BY <2>1, <2>2
       DEF QualityNext, MinutePasses, LoadState, ProcessDies, Cancel, RunStep, ScanStarts,
           ReviewStarts, Register, RecordActive, ScanRecorded, ScanEnds, Reviewed, Verified,
           RunFails, Proceeds, Live
<1> QED
  BY <1>1, QualityInitInv, QualityStep, PTL DEF QualitySpec, ResultsAreCurrent

--------------------------------------------------------------------------------
\* The worktrees of tabs.

\* The types, for each tab.
TabShapes ==
  /\ DOMAIN dirs = WTabs /\ DOMAIN registry = WTabs /\ DOMAIN choice = WTabs
  /\ DOMAIN browsed = WTabs /\ DOMAIN late = WTabs
  /\ asked \in [WTabs -> SUBSET Commands]
  /\ watched \in [WTabs -> SUBSET Worktrees]
  /\ present \subseteq Worktrees

\* Where its user has put a tab, and what was still asked about it then.
Places(t) == {choice[t]} \cup browsed[t] \cup late[t]

\* The map names a place of the tab or nothing, and so does the registry unless
\* the last move still waits; what the head watcher asks about, or a switch waits
\* for, is a place of the tab.
TabKept(t) ==
  /\ dirs[t] # "none" => dirs[t] \in Places(t)
  /\ Registered(t) /\ ~ Moving(t) => registry[t] \in Places(t)
  /\ watched[t] \subseteq Places(t)
  /\ \A a \in asked[t] : a.op = "switch" => a.dir \in Places(t)

\* The invariant.
TabsInv ==
  /\ "none" \notin Worktrees /\ TabShapes
  /\ \A t \in WTabs : TabKept(t)

\* A tab that no step touches is kept.
LEMMA UntouchedTab ==
  ASSUME NEW t, TabKept(t), dirs'[t] = dirs[t], registry'[t] = registry[t],
         asked'[t] = asked[t], watched'[t] = watched[t], choice'[t] = choice[t],
         browsed'[t] = browsed[t], late'[t] = late[t]
  PROVE  TabKept(t)'
BY DEF TabKept, Places, Registered, Moving, Switch

\* Commands of the two kinds differ.
LEMMA CommandsDiffer ==
  ASSUME NEW v, NEW w
  PROVE  /\ Switch(v).op = "switch" /\ Switch(v).dir = v
         /\ Create(v).op = "create" /\ Create(v).dir = v
         /\ Switch(v) # Create(w) /\ (Switch(v) = Switch(w) => v = w)
<1>1. /\ Switch(v).op = "switch" /\ Switch(v).dir = v
      /\ Create(v).op = "create" /\ Create(v).dir = v
      /\ Switch(w).dir = w /\ Create(w).op = "create"
  BY DEF Switch, Create
<1> QED
  BY <1>1

\* Both are commands.
LEMMA CommandsOf ==
  ASSUME NEW w \in Worktrees PROVE Switch(w) \in Commands /\ Create(w) \in Commands
BY DEF Switch, Create, Commands

\* Every step keeps where each tab is.
LEMMA WorktreesStep ==
  ASSUME TabsInv, [WorktreesNext]_worktreeVars
  PROVE  TabsInv'
<1>o. "none" \notin Worktrees
  BY DEF TabsInv
<1>s. ASSUME TabShapes', \A t \in WTabs : TabKept(t)' PROVE TabsInv'
  BY <1>o, <1>s DEF TabsInv
<1>1. CASE ProcessRestarts
  <2>1. TabShapes'
    BY <1>1 DEF ProcessRestarts, TabsInv, TabShapes
  <2>2. ASSUME NEW t \in WTabs PROVE TabKept(t)'
    BY <1>1 DEF ProcessRestarts, TabsInv, TabShapes, TabKept, Places, Registered
  <2> QED
    BY <1>s, <2>1, <2>2
<1>2. ASSUME NEW w \in Worktrees, RemoveWorktree(w) PROVE TabsInv'
  <2>1. TabShapes'
    BY <1>2 DEF RemoveWorktree, TabsInv, TabShapes
  <2>2. ASSUME NEW t \in WTabs PROVE TabKept(t)'
    BY <1>2 DEF RemoveWorktree, TabsInv, TabShapes, TabKept, Places, Registered, Moving
  <2> QED
    BY <1>s, <2>1, <2>2
\* The steps of one tab.
<1>t. ASSUME NEW t \in WTabs, TabShapes', TabKept(t)',
             \A u \in WTabs \ {t} :
               /\ dirs'[u] = dirs[u] /\ registry'[u] = registry[u] /\ asked'[u] = asked[u]
               /\ watched'[u] = watched[u] /\ choice'[u] = choice[u]
               /\ browsed'[u] = browsed[u] /\ late'[u] = late[u]
      PROVE  TabsInv'
  <2>1. ASSUME NEW u \in WTabs PROVE TabKept(u)'
    <3>1. CASE u = t
      BY <1>t, <3>1
    <3>2. CASE u # t
      BY <1>t, <3>2, UntouchedTab DEF TabsInv
    <3> QED
      BY <3>1, <3>2
  <2> QED
    BY <1>s, <1>t, <2>1
\* Moved on, a tab keeps what was asked about it as late.
<1>m. ASSUME NEW t \in WTabs, NEW w, Moved(t, w)
      PROVE  /\ w \in Places(t)' /\ watched[t] \subseteq Places(t)'
             /\ \A a \in asked[t] : a.dir \in Places(t)'
             /\ choice'[t] = w
  BY <1>m DEF Moved, Places, TabsInv, TabShapes
<1>3. ASSUME NEW t \in WTabs, SwitchToProject(t) \/ RemoveTab(t) PROVE TabsInv'
  <2> USE DEF UpdateTabWorktree, Registered
  <2>1. TabShapes'
    BY <1>3 DEF SwitchToProject, RemoveTab, Moved, TabsInv, TabShapes
  <2>2. \E w : Moved(t, w) /\ dirs'[t] = "none" /\ asked' = asked /\ watched' = watched
               /\ (registry'[t] = w \/ registry'[t] = "gone")
    BY <1>3 DEF SwitchToProject, RemoveTab, TabsInv, TabShapes
  <2>3. TabKept(t)'
    BY <1>m, <2>2 DEF TabKept
  <2>4. \A u \in WTabs \ {t} :
          /\ dirs'[u] = dirs[u] /\ registry'[u] = registry[u] /\ asked'[u] = asked[u]
          /\ watched'[u] = watched[u] /\ choice'[u] = choice[u]
          /\ browsed'[u] = browsed[u] /\ late'[u] = late[u]
    BY <1>3 DEF SwitchToProject, RemoveTab, Moved, TabsInv, TabShapes
  <2> QED
    BY <1>t, <2>1, <2>3, <2>4
<1>4. ASSUME NEW t \in WTabs, UnsetDirectory(t) \/ Hydrate(t) \/ WatchStarts(t)
      PROVE  TabsInv'
  <2>1. TabShapes'
    BY <1>4 DEF UnsetDirectory, Hydrate, WatchStarts, TabsInv, TabShapes
  <2>2. TabKept(t)'
    BY <1>4, <1>o DEF UnsetDirectory, Hydrate, WatchStarts, TabsInv, TabShapes, TabKept,
       Places, Registered, Moving
  <2>3. \A u \in WTabs \ {t} :
          /\ dirs'[u] = dirs[u] /\ registry'[u] = registry[u] /\ asked'[u] = asked[u]
          /\ watched'[u] = watched[u] /\ choice'[u] = choice[u]
          /\ browsed'[u] = browsed[u] /\ late'[u] = late[u]
    BY <1>4 DEF UnsetDirectory, Hydrate, WatchStarts, TabsInv, TabShapes
  <2> QED
    BY <1>t, <2>1, <2>2, <2>3
<1>5. ASSUME NEW t \in WTabs, NEW w \in Worktrees, SwitchEnds(t, w) PROVE TabsInv'
  <2> USE DEF UpdateTabWorktree, Registered
  <2>1. TabShapes'
    BY <1>5 DEF SwitchEnds, TabsInv, TabShapes
  <2>2. w \in Places(t) /\ asked'[t] = asked[t] \ {Switch(w)} /\ Places(t)' = Places(t)
    BY <1>5, CommandsDiffer DEF SwitchEnds, TabsInv, TabShapes, TabKept, Places
  <2>3. ASSUME Registered(t)' PROVE registry'[t] = w /\ registry[t] # "gone"
    BY <1>5, <2>3 DEF SwitchEnds, TabsInv, TabShapes
  <2>4. TabKept(t)'
    BY <1>5, <2>2, <2>3 DEF SwitchEnds, TabsInv, TabKept
  <2>5. \A u \in WTabs \ {t} :
          /\ dirs'[u] = dirs[u] /\ registry'[u] = registry[u] /\ asked'[u] = asked[u]
          /\ watched'[u] = watched[u] /\ choice'[u] = choice[u]
          /\ browsed'[u] = browsed[u] /\ late'[u] = late[u]
    BY <1>5 DEF SwitchEnds, TabsInv, TabShapes
  <2> QED
    BY <1>t, <2>1, <2>4, <2>5
<1>6. ASSUME NEW t \in WTabs, NEW w \in Worktrees, CreateEnds(t, w) PROVE TabsInv'
  <2> USE DEF UpdateTabWorktree, Registered
  <2>1. TabShapes'
    BY <1>6 DEF CreateEnds, Moved, TabsInv, TabShapes
  <2>2. asked'[t] = asked[t] \ {Create(w)} /\ watched' = watched
    BY <1>6 DEF CreateEnds, TabsInv, TabShapes
  <2>3. TabKept(t)'
    <3>1. CASE Moved(t, w) /\ dirs' = [dirs EXCEPT ![t] = w]
               /\ registry' = UpdateTabWorktree(t, w)
      <4>1. dirs'[t] = w /\ (registry'[t] = w \/ registry'[t] = "gone")
        BY <3>1 DEF TabsInv, TabShapes
      <4> QED
        BY <1>m, <2>2, <3>1, <4>1 DEF TabKept
    <3>2. CASE UNCHANGED <<present, dirs, registry, choice, browsed, late>>
      <4>1. Moving(t)' <=> Moving(t)
        BY <2>2, <3>2, CommandsDiffer DEF Moving, Switch
      <4> QED
        BY <2>2, <3>2, <4>1 DEF TabKept, Places, TabsInv
    <3> QED
      BY <1>6, <3>1, <3>2 DEF CreateEnds
  <2>4. \A u \in WTabs \ {t} :
          /\ dirs'[u] = dirs[u] /\ registry'[u] = registry[u] /\ asked'[u] = asked[u]
          /\ watched'[u] = watched[u] /\ choice'[u] = choice[u]
          /\ browsed'[u] = browsed[u] /\ late'[u] = late[u]
    BY <1>6 DEF CreateEnds, Moved, TabsInv, TabShapes
  <2> QED
    BY <1>t, <2>1, <2>3, <2>4
<1>7. ASSUME NEW t \in WTabs, NEW w \in Worktrees, NEW changed \in BOOLEAN,
             WatchEnds(t, w, changed)
      PROVE  TabsInv'
  <2>1. TabShapes'
    BY <1>7 DEF WatchEnds, UpdateTabWorktree, TabsInv, TabShapes
  <2>2. TabKept(t)'
    BY <1>7 DEF WatchEnds, UpdateTabWorktree, Registered, TabsInv, TabShapes, TabKept,
                Places, Moving
  <2>3. \A u \in WTabs \ {t} :
          /\ dirs'[u] = dirs[u] /\ registry'[u] = registry[u] /\ asked'[u] = asked[u]
          /\ watched'[u] = watched[u] /\ choice'[u] = choice[u]
          /\ browsed'[u] = browsed[u] /\ late'[u] = late[u]
    BY <1>7 DEF WatchEnds, UpdateTabWorktree, TabsInv, TabShapes
  <2> QED
    BY <1>t, <2>1, <2>2, <2>3
<1>8. ASSUME NEW t \in WTabs, NEW d \in Worktrees \cup {"project"}, SetDirectory(t, d)
      PROVE  TabsInv'
  <2>1. TabShapes'
    BY <1>8 DEF SetDirectory, TabsInv, TabShapes
  <2>2. TabKept(t)'
    BY <1>8 DEF SetDirectory, Registered, TabsInv, TabShapes, TabKept, Places, Moving
  <2>3. \A u \in WTabs \ {t} :
          /\ dirs'[u] = dirs[u] /\ registry'[u] = registry[u] /\ asked'[u] = asked[u]
          /\ watched'[u] = watched[u] /\ choice'[u] = choice[u]
          /\ browsed'[u] = browsed[u] /\ late'[u] = late[u]
    BY <1>8 DEF SetDirectory, TabsInv, TabShapes
  <2> QED
    BY <1>t, <2>1, <2>2, <2>3
<1>9. ASSUME NEW t \in WTabs, NEW w \in Worktrees, SwitchStarts(t, w) PROVE TabsInv'
  <2>1. TabShapes'
    BY <1>9, CommandsOf DEF SwitchStarts, Moved, TabsInv, TabShapes
  <2>2. Moved(t, w) /\ dirs'[t] = w /\ asked'[t] = asked[t] \cup {Switch(w)}
        /\ watched' = watched
    BY <1>9 DEF SwitchStarts, TabsInv, TabShapes
  <2>3. Moving(t)'
    BY <1>m, <2>2 DEF Moving, Switch
  <2>4. TabKept(t)'
    BY <1>m, <2>2, <2>3, CommandsDiffer DEF TabKept
  <2>5. \A u \in WTabs \ {t} :
          /\ dirs'[u] = dirs[u] /\ registry'[u] = registry[u] /\ asked'[u] = asked[u]
          /\ watched'[u] = watched[u] /\ choice'[u] = choice[u]
          /\ browsed'[u] = browsed[u] /\ late'[u] = late[u]
    BY <1>9 DEF SwitchStarts, Moved, TabsInv, TabShapes
  <2> QED
    BY <1>t, <2>1, <2>4, <2>5
<1>10. ASSUME NEW t \in WTabs, NEW w \in Worktrees, CreateStarts(t, w) PROVE TabsInv'
  <2>1. TabShapes'
    BY <1>10, CommandsOf DEF CreateStarts, TabsInv, TabShapes
  <2>2. asked'[t] = asked[t] \cup {Create(w)}
        /\ UNCHANGED <<present, dirs, registry, watched, choice, browsed, late>>
    BY <1>10 DEF CreateStarts, TabsInv, TabShapes
  <2>3. Moving(t)' <=> Moving(t)
    BY <2>2, CommandsDiffer DEF Moving, Switch
  <2>4. TabKept(t)'
    BY <2>2, <2>3, CommandsDiffer DEF TabKept, Places, Registered, TabsInv
  <2>5. \A u \in WTabs \ {t} :
          /\ dirs'[u] = dirs[u] /\ registry'[u] = registry[u] /\ asked'[u] = asked[u]
          /\ watched'[u] = watched[u] /\ choice'[u] = choice[u]
          /\ browsed'[u] = browsed[u] /\ late'[u] = late[u]
    BY <1>10 DEF CreateStarts, TabsInv, TabShapes
  <2> QED
    BY <1>t, <2>1, <2>4, <2>5
<1>11. CASE UNCHANGED worktreeVars
  BY <1>11 DEF worktreeVars, TabsInv, TabShapes, TabKept, Places, Registered, Moving
<1> QED
  BY <1>1, <1>2, <1>3, <1>4, <1>5, <1>6, <1>7, <1>8, <1>9, <1>10, <1>11 DEF WorktreesNext

\* A tab works where its user last put it, or where an answer of git that was asked
\* before brings it (git-worktree-handlers.ts, git-head-watcher.ts), for any number
\* of tabs and worktrees.
THEOREM TabStaysWhereMovedHolds ==
  "none" \notin Worktrees /\ WorktreesSpec => []TabStaysWhereMoved
<1>1. "none" \notin Worktrees /\ WorktreesInit => TabsInv
  BY DEF WorktreesInit, TabsInv, TabShapes, TabKept, Places, Commands
<1>2. TabsInv => TabStaysWhereMoved
  BY DEF TabsInv, TabKept, TabStaysWhereMoved, Directory, Places
<1>3. TabsInv /\ [WorktreesNext]_worktreeVars => TabsInv'
  BY WorktreesStep
<1> QED
  BY <1>1, <1>2, <1>3, PTL DEF WorktreesSpec

--------------------------------------------------------------------------------
\* Terminals.

\* A shell in the map runs and is there under its own id. One that was opened when
\* all older ones of its id had exited is in the map as long as it runs, and the
\* only one of its id. One that has exited has handed out all it put out.
Alive(k) == pty[k].process \in {"running", "killed"}
MapInv ==
  /\ \A t \in Terms : session[t] # 0 =>
       pty[session[t]].id = t /\ pty[session[t]].process = "running"
  /\ \A k \in Ptys :
       /\ pty[k].process = "exited" => pty[k].flushed = pty[k].made
       /\ pty[k].process = "none" => pty[k].flushed = pty[k].made /\ k \notin crossed
       /\ pty[k].process = "running" /\ k \notin crossed =>
            /\ session[pty[k].id] = k
            /\ \A j \in Ptys \ {k} : Alive(j) => pty[j].id # pty[k].id

\* Somebody watches what has a shell and listeners.
WatchInv ==
  \A t \in Terms :
    /\ subscribers[t] \subseteq connected
    /\ t \in listening <=> subscribers[t] # {}
    /\ subscribers[t] # {} => session[t] # 0

\* What a web was sent.
ScreenInv ==
  \A w \in Screens, t \in Terms :
    /\ w \in subscribers[t] =>
         /\ screen[w][t].pty = session[t] /\ screen[w][t].upto >= pty[session[t]].flushed
         /\ screen[w][t].upto <= pty[session[t]].made
         /\ screen[w][t].from # 0 => screen[w][t].upto - screen[w][t].from >= Scrollback
    /\ screen[w][t].ended /\ ~ screen[w][t].foreign =>
         /\ screen[w][t].pty \in Ptys /\ pty[screen[w][t].pty].process = "exited"
         /\ screen[w][t].upto = pty[screen[w][t].pty].made
    /\ screen[w][t].foreign => screen[w][t].pty \in crossed

\* The invariant.
TerminalsInv == TerminalsTypeOK /\ MapInv /\ WatchInv /\ ScreenInv

\* Terminals are numbered from 1: 0 is no PTY.
LEMMA NumberedPtys == Ptys \subseteq Nat /\ 0 \notin Ptys
BY TerminalsAssumption, FS_CardinalityType

\* The record of a PTY, and of what a web was sent.
PtyRecords ==
  [id : Terms, process : {"none", "running", "killed", "exited"},
   made : 0..MaxOutput, flushed : 0..MaxOutput]
ScreenRecords ==
  [pty : Ptys \cup {0}, from : 0..MaxOutput, upto : 0..MaxOutput,
   ended : BOOLEAN, foreign : BOOLEAN]

\* What closing some PTYs leaves of them.
Killed(S) ==
  [k \in Ptys |-> IF k \in S
                  THEN [pty[k] EXCEPT !.process = "killed", !.flushed = pty[k].made]
                  ELSE pty[k]]

LEMMA KilledPtys ==
  ASSUME TerminalsTypeOK, NEW S, pty' = Killed(S)
  PROVE  /\ pty' \in [Ptys -> PtyRecords]
         /\ \A k \in Ptys :
              /\ pty'[k].id = pty[k].id /\ pty'[k].made = pty[k].made
              /\ pty'[k].process = IF k \in S THEN "killed" ELSE pty[k].process
              /\ pty'[k].flushed = IF k \in S THEN pty[k].made ELSE pty[k].flushed
              /\ pty'[k].flushed <= pty'[k].made
<1>m. MaxOutput \in Nat
  BY TerminalsAssumption
<1>1. ASSUME NEW k \in Ptys
      PROVE  /\ pty'[k] \in PtyRecords
             /\ pty'[k].id = pty[k].id /\ pty'[k].made = pty[k].made
             /\ pty'[k].process = IF k \in S THEN "killed" ELSE pty[k].process
             /\ pty'[k].flushed = IF k \in S THEN pty[k].made ELSE pty[k].flushed
             /\ pty'[k].flushed <= pty'[k].made
  <2>1. pty[k] \in PtyRecords /\ pty[k].flushed <= pty[k].made
    BY DEF TerminalsTypeOK, PtyRecords
  <2>2. pty'[k] = IF k \in S
                  THEN [pty[k] EXCEPT !.process = "killed", !.flushed = pty[k].made]
                  ELSE pty[k]
    BY DEF Killed
  <2>3. CASE k \in S
    <3> DEFINE n == [pty[k] EXCEPT !.process = "killed", !.flushed = pty[k].made]
    <3>1. /\ n \in PtyRecords /\ n.id = pty[k].id /\ n.made = pty[k].made
          /\ n.process = "killed" /\ n.flushed = pty[k].made
      BY <2>1 DEF PtyRecords
    <3>2. pty[k].made \in Int /\ pty'[k] = n
      BY <1>m, <2>1, <2>2, <2>3 DEF PtyRecords
    <3> HIDE DEF n
    <3> QED
      BY <2>3, <3>1, <3>2
  <2>4. CASE k \notin S
    BY <2>1, <2>2, <2>4
  <2> QED
    BY <2>3, <2>4
<1>2. DOMAIN pty' = Ptys /\ pty' = [k \in Ptys |-> pty'[k]]
  BY DEF Killed
<1> QED
  BY <1>1, <1>2

\* What the listeners of a PTY's id leave on one screen.
LEMMA SentScreen ==
  ASSUME TerminalsTypeOK, NEW k \in Ptys, NEW ended \in BOOLEAN, NEW r \in ScreenRecords
  PROVE  /\ Sent(r, k, ended) \in ScreenRecords
         /\ Sent(r, k, ended).pty = r.pty /\ Sent(r, k, ended).from = r.from
         /\ Sent(r, k, ended).ended = ended
         /\ r.pty # k => Sent(r, k, ended).foreign /\ Sent(r, k, ended).upto = r.upto
         /\ r.pty = k =>
              /\ Sent(r, k, ended).foreign = r.foreign
              /\ Sent(r, k, ended).upto = IF r.upto >= pty[k].flushed THEN pty[k].made ELSE r.upto
<1>1. pty[k].made \in 0..MaxOutput
  BY DEF TerminalsTypeOK
<1>2. CASE r.pty # k
  <2>1. Sent(r, k, ended) = [r EXCEPT !.ended = ended, !.foreign = TRUE]
    BY <1>2 DEF Sent
  <2> QED
    BY <1>2, <2>1 DEF ScreenRecords
<1>3. CASE r.pty = k
  <2> DEFINE n == IF r.upto >= pty[k].flushed THEN pty[k].made ELSE r.upto
  <2>1. Sent(r, k, ended) = [r EXCEPT !.ended = ended, !.upto = n]
    BY <1>3 DEF Sent
  <2>2. n \in 0..MaxOutput
    BY <1>1 DEF ScreenRecords
  <2> HIDE DEF n
  <2>3. /\ Sent(r, k, ended) \in ScreenRecords
        /\ Sent(r, k, ended).pty = r.pty /\ Sent(r, k, ended).from = r.from
        /\ Sent(r, k, ended).ended = ended /\ Sent(r, k, ended).foreign = r.foreign
        /\ Sent(r, k, ended).upto = n
    BY <2>1, <2>2 DEF ScreenRecords
  <2> QED
    BY <1>3, <2>3 DEF n
<1> QED
  BY <1>2, <1>3

\* And on all of them.
LEMMA GivenScreens ==
  ASSUME TerminalsTypeOK, NEW k \in Ptys, NEW ended \in BOOLEAN, screen' = Given(k, ended)
  PROVE  /\ screen' \in [Screens -> [Terms -> ScreenRecords]]
         /\ \A w \in Screens, t \in Terms :
              screen'[w][t] = IF t = pty[k].id /\ w \in Watching(t)
                              THEN Sent(screen[w][t], k, ended) ELSE screen[w][t]
<1>1. /\ pty[k].id \in Terms
      /\ screen \in [Screens -> [Terms -> ScreenRecords]]
  BY DEF TerminalsTypeOK, ScreenRecords
<1>2. /\ DOMAIN screen' = Screens /\ screen' = [w \in Screens |-> screen'[w]]
      /\ \A w \in Screens : screen'[w] = [screen[w] EXCEPT ![pty[k].id] =
           IF w \in Watching(pty[k].id) THEN Sent(@, k, ended) ELSE @]
  BY DEF Given
<1>3. ASSUME NEW w \in Screens, NEW t \in Terms
      PROVE  screen'[w][t] = IF t = pty[k].id /\ w \in Watching(t)
                             THEN Sent(screen[w][t], k, ended) ELSE screen[w][t]
  BY <1>1, <1>2
<1>4. ASSUME NEW w \in Screens PROVE screen'[w] \in [Terms -> ScreenRecords]
  <2>1. screen[w] \in [Terms -> ScreenRecords] /\ screen[w][pty[k].id] \in ScreenRecords
    BY <1>1
  <2>2. Sent(screen[w][pty[k].id], k, ended) \in ScreenRecords
    BY <2>1, SentScreen
  <2>3. \/ screen'[w] = screen[w]
        \/ screen'[w] = [screen[w] EXCEPT ![pty[k].id] = Sent(screen[w][pty[k].id], k, ended)]
    BY <1>1, <1>2, <2>1
  <2> QED
    BY <1>1, <2>1, <2>2, <2>3
<1> QED
  BY <1>2, <1>3, <1>4

\* Where something of an id is handed out by a PTY other than the one in the map, that
\* one was opened too early.
LEMMA OtherPty ==
  ASSUME TerminalsInv, NEW k \in Ptys, Alive(k), session[pty[k].id] \notin {0, k}
  PROVE  session[pty[k].id] \in crossed
<1> DEFINE s == session[pty[k].id]
<1>1. s \in Ptys /\ pty[s].id = pty[k].id /\ pty[s].process = "running"
  BY DEF TerminalsInv, TerminalsTypeOK, MapInv
<1> QED
  BY <1>1 DEF TerminalsInv, MapInv

\* What is handed out keeps what is said of the screens.
LEMMA GivenKeeps ==
  ASSUME TerminalsInv, NEW k \in Ptys, NEW ended \in BOOLEAN, Alive(k),
         screen' = Given(k, ended), crossed' = crossed,
         pty'[k].flushed = pty[k].made, pty'[k].made = pty[k].made,
         ended => pty'[k].process = "exited",
         \A j \in Ptys \ {k} : pty'[j] = pty[j],
         \A t \in Terms : subscribers'[t] # {} =>
           subscribers'[t] = subscribers[t] /\ session'[t] = session[t]
  PROVE  ScreenInv'
<1> USE NumberedPtys
<1>m. MaxOutput \in Nat /\ Scrollback \in Nat
  BY TerminalsAssumption
<1>p. /\ pty[k].id \in Terms /\ pty[k].made \in Nat /\ pty[k].flushed \in Nat
      /\ pty[k].flushed <= pty[k].made /\ pty[k].process # "exited"
  BY <1>m DEF TerminalsInv, TerminalsTypeOK, Alive
<1> SUFFICES ASSUME NEW w \in Screens, NEW t \in Terms
             PROVE  /\ w \in subscribers'[t] =>
                         /\ screen'[w][t].pty = session'[t]
                         /\ screen'[w][t].upto >= pty'[session'[t]].flushed
                         /\ screen'[w][t].upto <= pty'[session'[t]].made
                         /\ screen'[w][t].from # 0 =>
                              screen'[w][t].upto - screen'[w][t].from >= Scrollback
                    /\ screen'[w][t].ended /\ ~ screen'[w][t].foreign =>
                         /\ screen'[w][t].pty \in Ptys
                         /\ pty'[screen'[w][t].pty].process = "exited"
                         /\ screen'[w][t].upto = pty'[screen'[w][t].pty].made
                    /\ screen'[w][t].foreign => screen'[w][t].pty \in crossed'
  BY DEF ScreenInv
<1>r. PICK r \in ScreenRecords : r = screen[w][t]
  BY DEF TerminalsInv, TerminalsTypeOK, ScreenRecords
<1>v. /\ r.from \in Nat /\ r.upto \in Nat
      /\ w \in subscribers[t] =>
           /\ r.pty = session[t] /\ r.upto >= pty[session[t]].flushed
           /\ r.upto <= pty[session[t]].made
           /\ r.from # 0 => r.upto - r.from >= Scrollback
      /\ r.ended /\ ~ r.foreign =>
           r.pty \in Ptys /\ pty[r.pty].process = "exited" /\ r.upto = pty[r.pty].made
      /\ r.foreign => r.pty \in crossed
  BY <1>m, <1>r DEF TerminalsInv, ScreenInv, ScreenRecords
<1>w. w \in subscribers'[t] => w \in subscribers[t] /\ session'[t] = session[t]
                               /\ session[t] \in Ptys
  BY DEF TerminalsInv, TerminalsTypeOK, WatchInv
<1>1. CASE t = pty[k].id /\ w \in Watching(t)
  <2>1. w \in subscribers[t] /\ r.pty = session[t] /\ session[t] \in Ptys
    BY <1>1, <1>v DEF Watching, TerminalsInv, TerminalsTypeOK, WatchInv
  <2>n. PICK n \in ScreenRecords : n = Sent(r, k, ended)
    BY <1>r, SentScreen DEF TerminalsInv
  <2>2. /\ screen'[w][t] = n /\ n.pty = r.pty /\ n.from = r.from /\ n.ended = ended
        /\ r.pty # k => n.foreign /\ n.upto = r.upto
        /\ r.pty = k =>
             /\ n.foreign = r.foreign
             /\ n.upto = IF r.upto >= pty[k].flushed THEN pty[k].made ELSE r.upto
    BY <1>1, <1>r, <2>n, SentScreen, GivenScreens DEF TerminalsInv
  <2>3. CASE r.pty = k
    <3>1. n.upto = pty[k].made \/ n.upto = r.upto
      BY <2>2, <2>3
    <3>2. n.upto = pty[k].made
      BY <1>v, <2>1, <2>2, <2>3
    <3>3. n.from # 0 => n.upto - n.from >= Scrollback
      <4>1. r.upto <= pty[k].made
        BY <1>v, <2>1, <2>3
      <4> QED
        BY <1>m, <1>p, <1>v, <2>1, <2>2, <3>2, <4>1
    <3> QED
      BY <1>p, <1>v, <1>w, <2>1, <2>2, <2>3, <3>2, <3>3
  <2>4. CASE r.pty # k
    <3>1. session[t] \in crossed
      BY <1>1, <2>1, <2>4, OtherPty
    <3>2. pty'[session[t]] = pty[session[t]]
      BY <2>1, <2>4
    <3> QED
      BY <1>v, <1>w, <2>1, <2>2, <2>4, <3>1, <3>2
  <2> QED
    BY <2>3, <2>4
<1>2. CASE ~ (t = pty[k].id /\ w \in Watching(t))
  <2>1. screen'[w][t] = r
    BY <1>2, <1>r, GivenScreens DEF TerminalsInv
  <2>2. w \in subscribers'[t] => session[t] # k
    <3> SUFFICES ASSUME w \in subscribers'[t], session[t] = k PROVE FALSE
      OBVIOUS
    <3>1. pty[k].id = t /\ w \in Watching(t)
      BY <1>w DEF TerminalsInv, MapInv, WatchInv, Watching
    <3> QED
      BY <1>2, <3>1
  <2>3. \A j \in Ptys : pty[j].process = "exited" => pty'[j] = pty[j]
    BY <1>p
  <2> QED
    BY <1>v, <1>w, <2>1, <2>2, <2>3
<1> QED
  BY <1>1, <1>2

\* A screen that nothing was sent to yet.
LEMMA BlankOf ==
  ASSUME NEW k \in Ptys
  PROVE  LET b == [Blank EXCEPT !.pty = k] IN
           /\ b \in ScreenRecords /\ b.pty = k /\ b.from = 0 /\ b.upto = 0
           /\ ~ b.ended /\ ~ b.foreign
<1>b. PICK b : b = [Blank EXCEPT !.pty = k]
  OBVIOUS
<1>1. b = [pty |-> k, from |-> 0, upto |-> 0, ended |-> FALSE, foreign |-> FALSE]
  BY <1>b DEF Blank
<1>2. 0 \in 0..MaxOutput
  BY TerminalsAssumption
<1>3. b \in ScreenRecords
  BY <1>1, <1>2 DEF ScreenRecords
<1>4. b.pty = k /\ b.from = 0 /\ b.upto = 0 /\ ~ b.ended /\ ~ b.foreign
  BY <1>1
<1> QED
  BY <1>b, <1>3, <1>4

\* What the scrollback of a PTY shows.
LEMMA ScrolledOf ==
  ASSUME TerminalsTypeOK, NEW k \in Ptys
  PROVE  /\ Scrolled(k) \in ScreenRecords
         /\ Scrolled(k).pty = k /\ Scrolled(k).upto = pty[k].made
         /\ ~ Scrolled(k).ended /\ ~ Scrolled(k).foreign
         /\ Scrolled(k).from # 0 => Scrolled(k).upto - Scrolled(k).from >= Scrollback
<1>1. /\ MaxOutput \in Nat /\ Scrollback \in Nat /\ pty[k].made \in 0..MaxOutput
  BY TerminalsAssumption DEF TerminalsTypeOK
<1> DEFINE f == IF pty[k].made > Scrollback THEN pty[k].made - Scrollback ELSE 0
<1>2. f \in 0..MaxOutput /\ (f # 0 => pty[k].made - f = Scrollback)
  BY <1>1
<1>3. Scrolled(k) = [Blank EXCEPT !.pty = k, !.upto = pty[k].made, !.from = f]
  BY DEF Scrolled
<1> HIDE DEF f
<1>4. /\ Scrolled(k).pty = k /\ Scrolled(k).upto = pty[k].made /\ Scrolled(k).from = f
      /\ Scrolled(k).ended = FALSE /\ Scrolled(k).foreign = FALSE
  BY <1>3 DEF Blank
<1>5. Scrolled(k) =
        [pty |-> k, from |-> f, upto |-> pty[k].made, ended |-> FALSE, foreign |-> FALSE]
  BY <1>3 DEF Blank
<1>6. Scrolled(k) \in ScreenRecords
  BY <1>1, <1>2, <1>5 DEF ScreenRecords
<1>7. f # 0 => pty[k].made - f >= Scrollback
  BY <1>1, <1>2
<1> QED
  BY <1>4, <1>6, <1>7

\* Every step keeps the invariant.
LEMMA TerminalsStep ==
  ASSUME TerminalsInv, [TerminalsNext]_terminalVars
  PROVE  TerminalsInv'
<1> USE NumberedPtys
<1>m. MaxOutput \in Nat
  BY TerminalsAssumption
<1>k. Scrollback \in Nat
  BY TerminalsAssumption
<1>1. ASSUME NEW k \in Ptys, Output(k) PROVE TerminalsInv'
  <2>1. TerminalsTypeOK'
    BY <1>1, <1>m DEF Output, TerminalsInv, TerminalsTypeOK
  <2>2. MapInv'
    BY <1>1, <1>m DEF Output, TerminalsInv, TerminalsTypeOK, MapInv, Alive
  <2>3. WatchInv'
    BY <1>1 DEF Output, TerminalsInv, WatchInv
  <2>4. ScreenInv'
    <3>1. /\ screen' = screen /\ subscribers' = subscribers /\ session' = session
          /\ crossed' = crossed /\ pty[k].process # "exited"
          /\ pty'[k].flushed = pty[k].flushed /\ pty'[k].made = pty[k].made + 1
          /\ \A j \in Ptys \ {k} : pty'[j] = pty[j]
      BY <1>1 DEF Output, TerminalsInv, TerminalsTypeOK
    <3>2. \A j \in Ptys :
            /\ pty'[j].flushed = pty[j].flushed /\ pty'[j].made >= pty[j].made
            /\ pty[j].process = "exited" => pty'[j] = pty[j]
      BY <1>m, <3>1 DEF TerminalsInv, TerminalsTypeOK
    <3>3. \A t \in Terms, w \in Screens : w \in subscribers[t] => session[t] \in Ptys
      BY DEF TerminalsInv, TerminalsTypeOK, WatchInv
    <3>4. \A j \in Ptys : pty[j].made \in Nat /\ pty'[j].made \in Nat
      BY <1>m, <2>1 DEF TerminalsInv, TerminalsTypeOK
    <3>5. \A t \in Terms, w \in Screens : screen[w][t].upto \in Nat
      BY <1>m DEF TerminalsInv, TerminalsTypeOK
    <3>6. \A j \in Ptys : pty'[j].process = pty[j].process
      BY <1>1, <3>1 DEF Output, TerminalsInv, TerminalsTypeOK
    <3>7. ASSUME NEW w \in Screens, NEW t \in Terms, w \in subscribers'[t]
          PROVE  /\ screen'[w][t].pty = session'[t]
                 /\ screen'[w][t].upto >= pty'[session'[t]].flushed
                 /\ screen'[w][t].upto <= pty'[session'[t]].made
                 /\ screen'[w][t].from # 0 =>
                      screen'[w][t].upto - screen'[w][t].from >= Scrollback
      <4>1. /\ screen[w][t].pty = session[t] /\ screen[w][t].upto >= pty[session[t]].flushed
            /\ screen[w][t].upto <= pty[session[t]].made
            /\ screen[w][t].from # 0 => screen[w][t].upto - screen[w][t].from >= Scrollback
        BY <3>1, <3>7 DEF TerminalsInv, ScreenInv
      <4>2. session[t] \in Ptys
        BY <3>1, <3>3, <3>7
      <4>3. screen[w][t].upto <= pty'[session[t]].made
        <5>1. PICK j \in Ptys : j = session[t]
          BY <4>2
        <5>2. /\ pty'[j].made >= pty[j].made /\ pty[j].made \in Nat /\ pty'[j].made \in Nat
              /\ screen[w][t].upto \in Nat /\ screen[w][t].upto <= pty[j].made
          <6>1. screen[w][t].upto \in Nat /\ screen[w][t].upto <= pty[j].made
            BY <3>5, <4>1, <5>1
          <6>2. pty'[j].made >= pty[j].made /\ pty[j].made \in Nat /\ pty'[j].made \in Nat
            BY <3>2, <3>4, <5>1
          <6> QED
            BY <6>1, <6>2
        <5>3. screen[w][t].upto <= pty'[j].made
          BY <5>2
        <5> QED
          BY <5>1, <5>3
      <4> QED
        BY <3>1, <3>2, <4>1, <4>2, <4>3
    <3>8. ASSUME NEW w \in Screens, NEW t \in Terms,
                 screen'[w][t].ended, ~ screen'[w][t].foreign
          PROVE  /\ screen'[w][t].pty \in Ptys
                 /\ pty'[screen'[w][t].pty].process = "exited"
                 /\ screen'[w][t].upto = pty'[screen'[w][t].pty].made
      <4>1. /\ screen[w][t].pty \in Ptys /\ pty[screen[w][t].pty].process = "exited"
            /\ screen[w][t].upto = pty[screen[w][t].pty].made
        BY <3>1, <3>8 DEF TerminalsInv, ScreenInv
      <4> QED
        BY <3>1, <3>2, <4>1
    <3>9. \A w \in Screens, t \in Terms :
            screen'[w][t].foreign => screen'[w][t].pty \in crossed'
      BY <3>1 DEF TerminalsInv, ScreenInv
    <3> QED
      BY <3>7, <3>8, <3>9 DEF ScreenInv
  <2> QED
    BY <2>1, <2>2, <2>3, <2>4 DEF TerminalsInv
<1>2. ASSUME NEW k \in Ptys, Flush(k) PROVE TerminalsInv'
  <2>1. TerminalsTypeOK'
    <3>1. pty'[k].flushed <= pty'[k].made /\ pty' \in [Ptys -> PtyRecords]
          /\ \A j \in Ptys \ {k} : pty'[j] = pty[j]
      BY <1>2, <1>m DEF Flush, TerminalsInv, TerminalsTypeOK, PtyRecords
    <3>2. screen' \in [Screens -> [Terms -> ScreenRecords]]
      BY <1>2, GivenScreens DEF Flush, TerminalsInv
    <3> QED
      BY <1>2, <3>1, <3>2 DEF Flush, TerminalsInv, TerminalsTypeOK, PtyRecords, ScreenRecords
  <2>2. MapInv'
    BY <1>2 DEF Flush, TerminalsInv, TerminalsTypeOK, MapInv, Alive
  <2>3. WatchInv'
    BY <1>2 DEF Flush, TerminalsInv, WatchInv
  <2>4. ScreenInv'
    <3>1. Alive(k)
      <4>1. pty[k].flushed # pty[k].made
        BY <1>2, <1>m DEF Flush, TerminalsInv, TerminalsTypeOK
      <4> QED
        BY <4>1 DEF TerminalsInv, TerminalsTypeOK, MapInv, Alive
    <3>2. /\ screen' = Given(k, FALSE) /\ crossed' = crossed
          /\ pty'[k].flushed = pty[k].made /\ pty'[k].made = pty[k].made
          /\ \A j \in Ptys \ {k} : pty'[j] = pty[j]
          /\ subscribers' = subscribers /\ session' = session
      BY <1>2 DEF Flush, TerminalsInv, TerminalsTypeOK
    <3> QED
      BY <3>1, <3>2, GivenKeeps
  <2> QED
    BY <2>1, <2>2, <2>3, <2>4 DEF TerminalsInv
<1>3. ASSUME NEW k \in Ptys, Exit(k) PROVE TerminalsInv'
  <2>1. TerminalsTypeOK'
    <3>1. pty'[k].flushed <= pty'[k].made /\ pty' \in [Ptys -> PtyRecords]
          /\ \A j \in Ptys \ {k} : pty'[j] = pty[j]
      <4> DEFINE n == [pty[k] EXCEPT !.process = "exited", !.flushed = pty[k].made]
      <4>1. n \in PtyRecords /\ n.flushed <= n.made
        <5>1. pty[k] \in PtyRecords
          BY DEF TerminalsInv, TerminalsTypeOK, PtyRecords
        <5>2. pty[k].made \in Int /\ n.flushed = pty[k].made /\ n.made = pty[k].made
          BY <1>m, <5>1 DEF PtyRecords
        <5>3. n \in PtyRecords
          BY <5>1 DEF PtyRecords
        <5> QED
          BY <5>2, <5>3
      <4>2. pty' = [pty EXCEPT ![k] = n] /\ pty \in [Ptys -> PtyRecords]
        BY <1>3 DEF Exit, TerminalsInv, TerminalsTypeOK, PtyRecords
      <4> HIDE DEF n
      <4> QED
        BY <4>1, <4>2
    <3>2. screen' \in [Screens -> [Terms -> ScreenRecords]]
      BY <1>3, GivenScreens DEF Exit, ToldExit, TerminalsInv
    <3>3. /\ session' \in [Terms -> Ptys \cup {0}]
          /\ subscribers' \in [Terms -> SUBSET Screens] /\ listening' \subseteq Terms
          /\ connected' \subseteq Screens
      BY <1>3 DEF Exit, TerminalsInv, TerminalsTypeOK
    <3>4. \A j \in Ptys : pty'[j].flushed <= pty'[j].made
      BY <3>1 DEF TerminalsInv, TerminalsTypeOK
    <3>5. crossed' \subseteq Ptys
      BY <1>3 DEF Exit, TerminalsInv, TerminalsTypeOK
    <3> QED
      BY <3>1, <3>2, <3>3, <3>4, <3>5 DEF TerminalsTypeOK, PtyRecords, ScreenRecords
  <2>2. MapInv'
    <3>1. /\ pty'[k].id = pty[k].id /\ pty'[k].process = "exited"
          /\ pty'[k].flushed = pty[k].made /\ pty'[k].made = pty[k].made
          /\ \A j \in Ptys \ {k} : pty'[j] = pty[j]
          /\ session' = [session EXCEPT ![pty[k].id] = 0] /\ crossed' = crossed
          /\ session \in [Terms -> Ptys \cup {0}] /\ Alive(k)
          /\ \A j \in Ptys : pty[j].id \in Terms
      BY <1>3 DEF Exit, Alive, TerminalsInv, TerminalsTypeOK
    <3>2. \A t \in Terms : session'[t] # 0 =>
            t # pty[k].id /\ session'[t] = session[t] /\ session[t] \in Ptys \ {k}
      BY <3>1 DEF TerminalsInv, MapInv
    <3>3. ASSUME NEW j \in Ptys, pty'[j].process = "running", j \notin crossed'
          PROVE  /\ session'[pty'[j].id] = j
                 /\ \A i \in Ptys \ {j} : Alive(i)' => pty'[i].id # pty'[j].id
      <4>1. j # k /\ pty'[j] = pty[j]
        BY <3>1, <3>3
      <4>2. session[pty[j].id] = j /\ \A i \in Ptys \ {j} : Alive(i) => pty[i].id # pty[j].id
        BY <3>1, <3>3, <4>1 DEF TerminalsInv, MapInv
      <4> QED
        BY <3>1, <4>1, <4>2 DEF Alive
    <3>4. ASSUME NEW t \in Terms, session'[t] # 0
          PROVE  pty'[session'[t]].id = t /\ pty'[session'[t]].process = "running"
      <4>1. session'[t] = session[t] /\ session[t] \in Ptys \ {k}
        BY <3>2, <3>4
      <4>2. pty[session[t]].id = t /\ pty[session[t]].process = "running"
        BY <3>4, <4>1 DEF TerminalsInv, MapInv
      <4>3. pty'[session[t]] = pty[session[t]]
        BY <3>1, <4>1
      <4> QED
        BY <4>1, <4>2, <4>3
    <3>5. ASSUME NEW j \in Ptys
          PROVE  /\ pty'[j].process = "exited" => pty'[j].flushed = pty'[j].made
                 /\ pty'[j].process = "none" => pty'[j].flushed = pty'[j].made /\ j \notin crossed'
      <4>1. CASE j = k
        BY <3>1, <4>1
      <4>2. CASE j # k
        <5>1. pty'[j] = pty[j] /\ crossed' = crossed
          BY <3>1, <4>2
        <5> QED
          BY <5>1 DEF TerminalsInv, MapInv
      <4> QED
        BY <4>1, <4>2
    <3> QED
      BY <3>3, <3>4, <3>5 DEF MapInv
  <2>3. WatchInv'
    BY <1>3 DEF Exit, TerminalsInv, TerminalsTypeOK, WatchInv
  <2>4. ScreenInv'
    <3>1. Alive(k) /\ screen' = Given(k, TRUE) /\ crossed' = crossed
      BY <1>3 DEF Exit, ToldExit, Alive
    <3>2. /\ pty'[k].flushed = pty[k].made /\ pty'[k].made = pty[k].made
          /\ pty'[k].process = "exited"
          /\ \A j \in Ptys \ {k} : pty'[j] = pty[j]
      BY <1>3 DEF Exit, TerminalsInv, TerminalsTypeOK
    <3>3. ASSUME NEW t \in Terms, subscribers'[t] # {}
          PROVE  subscribers'[t] = subscribers[t] /\ session'[t] = session[t]
      <4>1. t # pty[k].id
        BY <1>3, <3>3 DEF Exit, TerminalsInv, TerminalsTypeOK, WatchInv
      <4> QED
        BY <1>3, <4>1 DEF Exit, TerminalsInv, TerminalsTypeOK
    <3> QED
      BY <3>1, <3>2, <3>3, GivenKeeps
  <2> QED
    BY <2>1, <2>2, <2>3, <2>4 DEF TerminalsInv
<1>4. ASSUME NEW t \in Terms, Close(t) PROVE TerminalsInv'
  <2>0. pty' = Killed({session[t]})
    BY <1>4 DEF Close, Killed
  <2>k. /\ pty' \in [Ptys -> PtyRecords]
        /\ \A k \in Ptys :
             /\ pty'[k].id = pty[k].id /\ pty'[k].made = pty[k].made
             /\ pty'[k].process = IF k = session[t] THEN "killed" ELSE pty[k].process
             /\ pty'[k].flushed = IF k = session[t] THEN pty[k].made ELSE pty[k].flushed
             /\ pty'[k].flushed <= pty'[k].made
    <3>1. \A k \in Ptys : k \in {session[t]} <=> k = session[t]
      OBVIOUS
    <3> QED
      BY <2>0, <3>1, KilledPtys DEF TerminalsInv
  <2>1. TerminalsTypeOK'
    BY <1>4, <2>k DEF Close, TerminalsInv, TerminalsTypeOK, PtyRecords
  <2>s. /\ session' = [session EXCEPT ![t] = 0] /\ session \in [Terms -> Ptys \cup {0}]
        /\ \A k \in Ptys : pty[k].id \in Terms
    BY <1>4 DEF Close, TerminalsInv, TerminalsTypeOK
  <2>2. MapInv'
    <3>1. ASSUME NEW u \in Terms, session'[u] # 0
          PROVE  pty'[session'[u]].id = u /\ pty'[session'[u]].process = "running"
      <4>1. u # t /\ session'[u] = session[u] /\ session[u] \in Ptys
        BY <2>s, <3>1
      <4>2. pty[session[u]].id = u /\ pty[session[u]].process = "running"
        BY <3>1, <4>1 DEF TerminalsInv, MapInv
      <4>3. session[u] # session[t]
        BY <4>1, <4>2 DEF TerminalsInv, MapInv
      <4> QED
        BY <2>k, <4>1, <4>2, <4>3
    <3>2. ASSUME NEW k \in Ptys, pty'[k].process = "running", k \notin crossed'
          PROVE  /\ session'[pty'[k].id] = k
                 /\ \A j \in Ptys \ {k} : Alive(j)' => pty'[j].id # pty'[k].id
      <4>1. k # session[t] /\ pty[k].process = "running" /\ k \notin crossed
        <5>1. k # session[t]
          BY <2>k, <3>2
        <5> QED
          BY <1>4, <2>k, <3>2, <5>1 DEF Close
      <4>2. /\ session[pty[k].id] = k
            /\ \A j \in Ptys \ {k} : Alive(j) => pty[j].id # pty[k].id
        BY <4>1 DEF TerminalsInv, MapInv
      <4>3. \A j \in Ptys : Alive(j)' => Alive(j)
        BY <2>k DEF Alive, TerminalsInv, MapInv
      <4> QED
        BY <2>k, <2>s, <4>1, <4>2, <4>3
    <3>3. ASSUME NEW k \in Ptys
          PROVE  /\ pty'[k].process = "exited" => pty'[k].flushed = pty'[k].made
                 /\ pty'[k].process = "none" => pty'[k].flushed = pty'[k].made /\ k \notin crossed'
      <4>1. crossed' = crossed
        BY <1>4 DEF Close
      <4>2. CASE k = session[t]
        BY <2>k, <4>2
      <4>3. CASE k # session[t]
        BY <2>k, <4>1, <4>3 DEF TerminalsInv, MapInv
      <4> QED
        BY <4>2, <4>3
    <3> QED
      BY <3>1, <3>2, <3>3 DEF MapInv
  <2>3. WatchInv'
    BY <1>4 DEF Close, TerminalsInv, TerminalsTypeOK, WatchInv
  <2>4. ScreenInv'
    <3>1. ASSUME NEW v \in Screens, NEW u \in Terms, v \in subscribers'[u]
          PROVE  /\ screen'[v][u].pty = session'[u]
                 /\ screen'[v][u].upto >= pty'[session'[u]].flushed
                 /\ screen'[v][u].upto <= pty'[session'[u]].made
                 /\ screen'[v][u].from # 0 =>
                      screen'[v][u].upto - screen'[v][u].from >= Scrollback
      <4>1. u # t /\ v \in subscribers[u] /\ screen' = screen
        BY <1>4, <3>1 DEF Close, TerminalsInv, TerminalsTypeOK
      <4>2. session'[u] = session[u] /\ session[u] \in Ptys
        BY <2>s, <4>1 DEF TerminalsInv, WatchInv
      <4>3. session[u] # session[t]
        BY <4>1, <4>2 DEF TerminalsInv, MapInv
      <4>4. /\ screen[v][u].pty = session[u]
            /\ screen[v][u].upto >= pty[session[u]].flushed
            /\ screen[v][u].upto <= pty[session[u]].made
            /\ screen[v][u].from # 0 => screen[v][u].upto - screen[v][u].from >= Scrollback
        BY <4>1 DEF TerminalsInv, ScreenInv
      <4>5. /\ pty'[session[u]].flushed = pty[session[u]].flushed
            /\ pty'[session[u]].made = pty[session[u]].made
        BY <2>k, <4>2, <4>3
      <4> QED
        BY <4>1, <4>2, <4>4, <4>5
    <3>2. ASSUME NEW v \in Screens, NEW u \in Terms,
                 screen'[v][u].ended, ~ screen'[v][u].foreign
          PROVE  /\ screen'[v][u].pty \in Ptys
                 /\ pty'[screen'[v][u].pty].process = "exited"
                 /\ screen'[v][u].upto = pty'[screen'[v][u].pty].made
      <4> DEFINE k == screen[v][u].pty
      <4>1. /\ screen' = screen /\ k \in Ptys /\ pty[k].process = "exited"
            /\ screen[v][u].upto = pty[k].made
        BY <1>4, <3>2 DEF Close, TerminalsInv, ScreenInv
      <4>2. k # session[t]
        BY <4>1 DEF TerminalsInv, MapInv
      <4> HIDE DEF k
      <4>3. pty'[k].process = "exited" /\ screen[v][u].upto = pty'[k].made
        BY <2>k, <4>1, <4>2
      <4> QED
        BY <4>1, <4>3 DEF k
    <3>3. \A v \in Screens, u \in Terms :
            screen'[v][u].foreign => screen'[v][u].pty \in crossed'
      BY <1>4 DEF Close, TerminalsInv, ScreenInv
    <3> QED
      BY <3>1, <3>2, <3>3 DEF ScreenInv
  <2> QED
    BY <2>1, <2>2, <2>3, <2>4 DEF TerminalsInv
<1>5. ASSUME NEW w \in Screens, NEW t \in Terms, Reopen(w, t) PROVE TerminalsInv'
  <2>1. TerminalsTypeOK'
    <3>1. Scrolled(session[t]) \in ScreenRecords
      BY <1>5, ScrolledOf DEF Reopen, TerminalsInv, TerminalsTypeOK
    <3> QED
      BY <1>5, <3>1 DEF Reopen, Subscribed, ShowScrollback, TerminalsInv, TerminalsTypeOK,
         ScreenRecords
  <2>2. MapInv'
    BY <1>5 DEF Reopen, TerminalsInv, MapInv, Alive
  <2>3. WatchInv'
    BY <1>5 DEF Reopen, Subscribed, TerminalsInv, TerminalsTypeOK, WatchInv
  <2>4. ScreenInv'
    <3> DEFINE n == Scrolled(session[t])
    <3>1. /\ n.pty = session[t] /\ ~ n.ended /\ ~ n.foreign /\ n.upto = pty[session[t]].made
          /\ n.from # 0 => n.upto - n.from >= Scrollback
      BY <1>5, ScrolledOf DEF Reopen, TerminalsInv, TerminalsTypeOK
    <3>0. /\ n.upto >= pty[session[t]].flushed
          /\ n.upto <= pty[session[t]].made
      <4>1. session[t] \in Ptys
        BY <1>5 DEF Reopen, TerminalsInv, TerminalsTypeOK
      <4>t. \A k \in Ptys : pty[k].made \in Nat /\ pty[k].flushed <= pty[k].made
        BY <1>m DEF TerminalsInv, TerminalsTypeOK
      <4>2. pty[session[t]].made \in Nat /\ pty[session[t]].flushed <= pty[session[t]].made
        BY <4>1, <4>t
      <4> HIDE DEF n
      <4> QED
        BY <3>1, <4>2
    <3>2. \A v \in Screens, u \in Terms :
            screen'[v][u] = IF v = w /\ u = t THEN n ELSE screen[v][u]
      BY <1>5 DEF Reopen, ShowScrollback, TerminalsInv, TerminalsTypeOK
    <3>3. \A v \in Screens, u \in Terms :
            v \in subscribers'[u] => (v = w /\ u = t) \/ v \in subscribers[u]
      BY <1>5 DEF Reopen, Subscribed, TerminalsInv, TerminalsTypeOK
    <3> HIDE DEF n
    <3> QED
      BY <1>5, <3>0, <3>1, <3>2, <3>3 DEF Reopen, TerminalsInv, ScreenInv
  <2> QED
    BY <2>1, <2>2, <2>3, <2>4 DEF TerminalsInv
<1>6. ASSUME NEW w \in Screens, NEW t \in Terms, Open(w, t) PROVE TerminalsInv'
  <2> DEFINE older == {j \in Ptys : pty[j].id = t /\ Alive(j)}
  <2>1. PICK k \in Free :
          /\ session' = [session EXCEPT ![t] = k]
          /\ pty' = [pty EXCEPT ![k] =
               [id |-> t, process |-> "running", made |-> 0, flushed |-> 0]]
          /\ screen' = [screen EXCEPT ![w][t] = [Blank EXCEPT !.pty = k]]
          /\ crossed' = IF older # {} THEN crossed \cup {k} ELSE crossed
    BY <1>6 DEF Open, Alive
  <2>2. k \in Ptys /\ pty[k].process = "none" /\ k \notin crossed /\ k # 0
    BY DEF Free, TerminalsInv, MapInv
  <2>4. subscribers[t] = {} /\ session[t] = 0
    BY <1>6 DEF Open, TerminalsInv, WatchInv
  <2>p. /\ pty'[k].id = t /\ pty'[k].process = "running" /\ pty'[k].made = 0
        /\ pty'[k].flushed = 0 /\ \A j \in Ptys \ {k} : pty'[j] = pty[j]
        /\ session'[t] = k /\ \A u \in Terms \ {t} : session'[u] = session[u]
        /\ \A j \in Ptys : pty[j].id \in Terms
    BY <2>1, <2>2 DEF TerminalsInv, TerminalsTypeOK
  <2>r. PICK r \in ScreenRecords :
          /\ r = [Blank EXCEPT !.pty = k] /\ r.pty = k /\ r.from = 0 /\ r.upto = 0
          /\ ~ r.ended /\ ~ r.foreign
    BY <2>2, BlankOf
  <2>w. \A v \in Screens, u \in Terms :
          screen'[v][u] = IF v = w /\ u = t THEN r ELSE screen[v][u]
    BY <2>1, <2>r DEF TerminalsInv, TerminalsTypeOK
  <2>5. TerminalsTypeOK'
    <3>1. screen' = [screen EXCEPT ![w][t] = r]
      BY <2>1, <2>r
    <3>2. screen' \in [Screens -> [Terms -> ScreenRecords]]
      BY <3>1 DEF TerminalsInv, TerminalsTypeOK, ScreenRecords
    <3> QED
      BY <1>6, <1>m, <2>1, <2>2, <3>2 DEF Open, Subscribed, TerminalsInv, TerminalsTypeOK,
         ScreenRecords
  <2>6. MapInv'
    <3>1. ASSUME NEW u \in Terms, session'[u] # 0
          PROVE  pty'[session'[u]].id = u /\ pty'[session'[u]].process = "running"
      <4>1. CASE u = t
        BY <2>p, <4>1
      <4>2. CASE u # t
        <5>1. session[u] # k /\ session[u] \in Ptys /\ session'[u] = session[u]
          <6>1. session'[u] = session[u] /\ session[u] # 0
            BY <2>p, <3>1, <4>2
          <6>2. session[u] \in Ptys /\ pty[session[u]].process = "running"
            BY <6>1 DEF TerminalsInv, TerminalsTypeOK, MapInv
          <6> QED
            BY <2>2, <6>1, <6>2
        <5>2. pty'[session[u]] = pty[session[u]] /\ session[u] # 0
          BY <2>p, <3>1, <5>1
        <5>3. pty[session[u]].id = u /\ pty[session[u]].process = "running"
          BY <5>2 DEF TerminalsInv, MapInv
        <5> QED
          BY <5>1, <5>2, <5>3
      <4> QED
        BY <4>1, <4>2
    <3>2. ASSUME NEW j \in Ptys
          PROVE  /\ pty'[j].process = "exited" => pty'[j].flushed = pty'[j].made
                 /\ pty'[j].process = "none" =>
                      pty'[j].flushed = pty'[j].made /\ j \notin crossed'
      BY <2>1, <2>p DEF TerminalsInv, MapInv
    <3>3. ASSUME NEW j \in Ptys, pty'[j].process = "running", j \notin crossed'
          PROVE  /\ session'[pty'[j].id] = j
                 /\ \A i \in Ptys \ {j} : Alive(i)' => pty'[i].id # pty'[j].id
      <4>1. CASE j = k
        <5>1. older = {}
          BY <2>1, <3>3, <4>1
        <5>2. \A i \in Ptys \ {k} : Alive(i)' => pty'[i].id # t
          BY <2>p, <5>1 DEF Alive
        <5> QED
          BY <2>p, <4>1, <5>2
      <4>2. CASE j # k
        <5>1. pty'[j] = pty[j] /\ j \notin crossed
          BY <2>1, <2>p, <3>3, <4>2
        <5>2. /\ session[pty[j].id] = j
              /\ \A i \in Ptys \ {j} : Alive(i) => pty[i].id # pty[j].id
          BY <3>3, <5>1 DEF TerminalsInv, MapInv
        <5>3. pty[j].id # t
          BY <2>4, <5>2, NumberedPtys
        <5> QED
          BY <2>p, <5>1, <5>2, <5>3 DEF Alive
      <4> QED
        BY <4>1, <4>2
    <3> QED
      BY <3>1, <3>2, <3>3 DEF MapInv
  <2>7. WatchInv'
    <3>1. /\ subscribers' = [subscribers EXCEPT ![t] = @ \cup {w}]
          /\ listening' = listening \cup {t} /\ connected' = connected /\ w \in connected
          /\ subscribers \in [Terms -> SUBSET Screens]
      BY <1>6 DEF Open, Subscribed, TerminalsInv, TerminalsTypeOK
    <3>2. ASSUME NEW u \in Terms
          PROVE  /\ subscribers'[u] \subseteq connected'
                 /\ u \in listening' <=> subscribers'[u] # {}
                 /\ subscribers'[u] # {} => session'[u] # 0
      <4>1. CASE u = t
        BY <2>2, <2>p, <2>4, <3>1, <4>1
      <4>2. CASE u # t
        BY <2>p, <3>1, <4>2 DEF TerminalsInv, WatchInv
      <4> QED
        BY <4>1, <4>2
    <3> QED
      BY <3>2 DEF WatchInv
  <2>8. ScreenInv'
    <3>1. \A v \in Screens, u \in Terms : v \in subscribers'[u] =>
            \/ v = w /\ u = t
            \/ u # t /\ v \in subscribers[u] /\ session[u] \in Ptys \ {k}
      BY <1>6, <2>2, <2>4 DEF Open, Subscribed, TerminalsInv, TerminalsTypeOK, WatchInv, MapInv
    <3>2. \A j \in Ptys : pty[j].process = "exited" => pty'[j] = pty[j]
      BY <2>2, <2>p
    <3>3. crossed \subseteq crossed'
      BY <2>1
    <3>4. ASSUME NEW v \in Screens, NEW u \in Terms, v \in subscribers'[u]
          PROVE  /\ screen'[v][u].pty = session'[u]
                 /\ screen'[v][u].upto >= pty'[session'[u]].flushed
                 /\ screen'[v][u].upto <= pty'[session'[u]].made
                 /\ screen'[v][u].from # 0 =>
                      screen'[v][u].upto - screen'[v][u].from >= Scrollback
      <4>1. CASE v = w /\ u = t
        <5>1. screen'[v][u] = r /\ session'[u] = k
          BY <2>p, <2>w, <4>1
        <5>2. pty'[k].flushed = 0 /\ pty'[k].made = 0 /\ r.upto = 0 /\ r.from = 0 /\ r.pty = k
          BY <2>p, <2>r
        <5> QED
          BY <5>1, <5>2
      <4>2. CASE ~ (v = w /\ u = t)
        <5>1. u # t /\ v \in subscribers[u] /\ session[u] \in Ptys \ {k}
          BY <3>1, <3>4, <4>2
        <5>2. /\ session'[u] = session[u] /\ pty'[session[u]] = pty[session[u]]
              /\ screen'[v][u] = screen[v][u]
          BY <2>p, <2>w, <5>1
        <5> QED
          BY <5>1, <5>2 DEF TerminalsInv, ScreenInv
      <4> QED
        BY <4>1, <4>2
    <3>5. ASSUME NEW v \in Screens, NEW u \in Terms,
                 screen'[v][u].ended, ~ screen'[v][u].foreign
          PROVE  /\ screen'[v][u].pty \in Ptys
                 /\ pty'[screen'[v][u].pty].process = "exited"
                 /\ screen'[v][u].upto = pty'[screen'[v][u].pty].made
      <4>1. screen'[v][u] = screen[v][u]
        BY <2>r, <2>w, <3>5
      <4>2. /\ screen[v][u].pty \in Ptys /\ pty[screen[v][u].pty].process = "exited"
            /\ screen[v][u].upto = pty[screen[v][u].pty].made
        BY <3>5, <4>1 DEF TerminalsInv, ScreenInv
      <4> QED
        BY <3>2, <4>1, <4>2
    <3>6. ASSUME NEW v \in Screens, NEW u \in Terms, screen'[v][u].foreign
          PROVE  screen'[v][u].pty \in crossed'
      <4>1. screen'[v][u] = screen[v][u]
        BY <2>r, <2>w, <3>6
      <4> QED
        BY <3>3, <3>6, <4>1 DEF TerminalsInv, ScreenInv
    <3> QED
      BY <3>4, <3>5, <3>6 DEF ScreenInv
  <2> QED
    BY <2>5, <2>6, <2>7, <2>8 DEF TerminalsInv
<1>7. ASSUME NEW w \in Screens, NEW t \in Terms, OpenFails(w, t) PROVE TerminalsInv'
  <2>1. TerminalsTypeOK'
    BY <1>7, <1>m DEF OpenFails, TerminalsInv, TerminalsTypeOK
  <2>2. MapInv'
    BY <1>7 DEF OpenFails, TerminalsInv, MapInv, Alive
  <2>3. WatchInv'
    BY <1>7 DEF OpenFails, TerminalsInv, TerminalsTypeOK, WatchInv
  <2>4. ScreenInv'
    BY <1>7 DEF OpenFails, TerminalsInv, TerminalsTypeOK, ScreenInv
  <2> QED
    BY <2>1, <2>2, <2>3, <2>4 DEF TerminalsInv
<1>8. ASSUME NEW w \in Screens, Connect(w) PROVE TerminalsInv'
  BY <1>8 DEF Connect, TerminalsInv, TerminalsTypeOK, MapInv, Alive, WatchInv, ScreenInv
<1>9. ASSUME NEW w \in Screens, Disconnect(w) PROVE TerminalsInv'
  <2> DEFINE S == Reaped(connected \ {w})
  <2>0. pty' = Killed(S)
    BY <1>9 DEF Disconnect, Killed
  <2>k. /\ pty' \in [Ptys -> PtyRecords]
        /\ \A k \in Ptys :
             /\ pty'[k].id = pty[k].id /\ pty'[k].made = pty[k].made
             /\ pty'[k].process = IF k \in S THEN "killed" ELSE pty[k].process
             /\ pty'[k].flushed = IF k \in S THEN pty[k].made ELSE pty[k].flushed
             /\ pty'[k].flushed <= pty'[k].made
    BY <2>0, KilledPtys DEF TerminalsInv
  <2>s. IF connected = {w} THEN S = {session[t] : t \in Terms} ELSE S = {}
    BY <1>9 DEF Disconnect, Reaped
  <2> HIDE DEF S
  <2>w. /\ screen' \in [Screens -> [Terms -> ScreenRecords]]
        /\ \A v \in Screens, t \in Terms :
             screen'[v][t] = IF v = w THEN Blank ELSE screen[v][t]
    <3>1. screen \in [Screens -> [Terms -> ScreenRecords]] /\ Blank \in ScreenRecords
      BY <1>m DEF TerminalsInv, TerminalsTypeOK, ScreenRecords, Blank
    <3>2. screen' = [screen EXCEPT ![w] = [t \in Terms |-> Blank]]
      BY <1>9 DEF Disconnect
    <3> QED
      BY <3>1, <3>2
  <2>1. TerminalsTypeOK'
    BY <1>9, <2>k, <2>w DEF Disconnect, TerminalsInv, TerminalsTypeOK, PtyRecords, ScreenRecords
  <2>2. MapInv'
    <3>0. /\ crossed' = crossed /\ \A j \in Ptys : Alive(j)' => Alive(j)
          /\ \A j \in Ptys : j \in S => pty[j].process = "running"
      <4>1. \A j \in Ptys : j \in S => pty[j].process = "running"
        BY <2>s DEF TerminalsInv, TerminalsTypeOK, MapInv
      <4> QED
        BY <1>9, <2>k, <4>1 DEF Disconnect, Alive
    <3>1. ASSUME NEW j \in Ptys
          PROVE  /\ pty'[j].process = "exited" => pty'[j].flushed = pty'[j].made
                 /\ pty'[j].process = "none" =>
                      pty'[j].flushed = pty'[j].made /\ j \notin crossed'
      BY <2>k, <3>0 DEF TerminalsInv, MapInv
    <3>2. ASSUME NEW t \in Terms, session'[t] # 0
          PROVE  pty'[session'[t]].id = t /\ pty'[session'[t]].process = "running"
      <4>1. S = {} /\ session' = session /\ session[t] \in Ptys
        BY <1>9, <2>s, <3>2 DEF Disconnect, TerminalsInv, TerminalsTypeOK
      <4> QED
        BY <2>k, <3>2, <4>1 DEF TerminalsInv, MapInv
    <3>3. ASSUME NEW j \in Ptys, pty'[j].process = "running", j \notin crossed'
          PROVE  /\ session'[pty'[j].id] = j
                 /\ \A i \in Ptys \ {j} : Alive(i)' => pty'[i].id # pty'[j].id
      <4>1. j \notin S /\ pty[j].process = "running" /\ j \notin crossed
        BY <2>k, <3>0, <3>3
      <4>2. /\ session[pty[j].id] = j /\ pty[j].id \in Terms
            /\ \A i \in Ptys \ {j} : Alive(i) => pty[i].id # pty[j].id
        BY <4>1 DEF TerminalsInv, TerminalsTypeOK, MapInv
      <4>3. S = {} /\ session' = session
        BY <1>9, <2>s, <4>1, <4>2 DEF Disconnect
      <4> QED
        BY <2>k, <3>0, <4>2, <4>3
    <3> QED
      BY <3>1, <3>2, <3>3 DEF MapInv
  <2>3. WatchInv'
    BY <1>9 DEF Disconnect, TerminalsInv, TerminalsTypeOK, WatchInv
  <2>4. ScreenInv'
    <3>1. \A k \in Ptys : k \in S => pty[k].process = "running"
      BY <2>s DEF TerminalsInv, TerminalsTypeOK, MapInv
    <3>2. \A t \in Terms : subscribers'[t] # {} => S = {} /\ session' = session
      BY <1>9, <2>s DEF Disconnect, TerminalsInv, TerminalsTypeOK, WatchInv
    <3>3. \A v \in Screens, t \in Terms :
            v \in subscribers'[t] => v # w /\ v \in subscribers[t]
      BY <1>9 DEF Disconnect, TerminalsInv, TerminalsTypeOK
    <3>4. ASSUME NEW v \in Screens, NEW t \in Terms, v \in subscribers'[t]
          PROVE  /\ screen'[v][t].pty = session'[t]
                 /\ screen'[v][t].upto >= pty'[session'[t]].flushed
                 /\ screen'[v][t].upto <= pty'[session'[t]].made
                 /\ screen'[v][t].from # 0 =>
                      screen'[v][t].upto - screen'[v][t].from >= Scrollback
      <4>1. session[t] \in Ptys
        BY <3>3, <3>4 DEF TerminalsInv, TerminalsTypeOK, WatchInv
      <4>2. /\ session' = session /\ pty'[session[t]].flushed = pty[session[t]].flushed
            /\ pty'[session[t]].made = pty[session[t]].made
        BY <2>k, <3>2, <3>4, <4>1
      <4>3. screen'[v][t] = screen[v][t] /\ v \in subscribers[t]
        BY <2>w, <3>3, <3>4
      <4> QED
        BY <4>1, <4>2, <4>3 DEF TerminalsInv, ScreenInv
    <3>5. ASSUME NEW v \in Screens, NEW t \in Terms,
                 screen'[v][t].ended, ~ screen'[v][t].foreign
          PROVE  /\ screen'[v][t].pty \in Ptys
                 /\ pty'[screen'[v][t].pty].process = "exited"
                 /\ screen'[v][t].upto = pty'[screen'[v][t].pty].made
      <4>1. v # w
        BY <2>w, <3>5 DEF Blank
      <4>2. screen'[v][t] = screen[v][t]
        BY <2>w, <4>1
      <4> DEFINE k == screen[v][t].pty
      <4>3. k \in Ptys /\ pty[k].process = "exited" /\ screen[v][t].upto = pty[k].made
        BY <3>5, <4>2 DEF TerminalsInv, ScreenInv
      <4> HIDE DEF k
      <4>4. pty'[k].process = "exited" /\ screen[v][t].upto = pty'[k].made
        BY <2>k, <3>1, <4>3
      <4> QED
        BY <4>2, <4>3, <4>4 DEF k
    <3>6. \A v \in Screens, t \in Terms :
            screen'[v][t].foreign => screen'[v][t].pty \in crossed'
      BY <1>9, <2>w DEF Disconnect, Blank, TerminalsInv, ScreenInv
    <3> QED
      BY <3>4, <3>5, <3>6 DEF ScreenInv
  <2> QED
    BY <2>1, <2>2, <2>3, <2>4 DEF TerminalsInv
<1>10. CASE UNCHANGED terminalVars
  BY <1>10 DEF terminalVars, TerminalsInv, TerminalsTypeOK, MapInv, Alive, WatchInv, ScreenInv
<1> QED
  BY <1>1, <1>2, <1>3, <1>4, <1>5, <1>6, <1>7, <1>8, <1>9, <1>10 DEF TerminalsNext

\* The first state satisfies the invariant.
LEMMA TerminalsStart == TerminalsInit => TerminalsInv
<1> SUFFICES ASSUME TerminalsInit PROVE TerminalsInv
  OBVIOUS
<1> DEFINE T == CHOOSE t \in Terms : TRUE
<1>1. T \in Terms
  BY TerminalsAssumption
<1>m. MaxOutput \in Nat /\ 0 \in 0..MaxOutput
  BY TerminalsAssumption
<1>2. pty \in [Ptys -> [id : {T}, process : {"none"}, made : {0}, flushed : {0}]]
  BY DEF TerminalsInit
<1> HIDE DEF T
<1>3. /\ pty \in [Ptys -> PtyRecords]
      /\ \A k \in Ptys : /\ pty[k].process = "none" /\ pty[k].flushed <= pty[k].made
                        /\ pty[k].flushed = pty[k].made
  BY <1>1, <1>2, <1>m DEF PtyRecords
<1>4. /\ screen \in [Screens -> [Terms -> ScreenRecords]]
      /\ \A w \in Screens, t \in Terms : ~ screen[w][t].ended /\ ~ screen[w][t].foreign
  BY <1>m DEF TerminalsInit, Blank, ScreenRecords
<1>5. TerminalsTypeOK
  BY <1>3, <1>4 DEF TerminalsInit, TerminalsTypeOK, PtyRecords, ScreenRecords
<1> QED
  BY NumberedPtys, <1>3, <1>4, <1>5 DEF TerminalsInit, TerminalsInv, MapInv, WatchInv, ScreenInv

\* A web that is subscribed to a terminal has what its shell has handed out, and
\* nothing of another one's unless the id was opened before that one had exited
\* (pty-manager.ts, terminal-handlers.ts), for any number of webs, terminals and shells
\* and any scrollback.
THEOREM TerminalsShowAllHolds == TerminalsSpec => []TerminalsShowAll
<1>1. TerminalsInv => TerminalsShowAll
  BY DEF TerminalsInv, ScreenInv, WatchInv, TerminalsShowAll
<1>2. TerminalsInv /\ [TerminalsNext]_terminalVars => TerminalsInv'
  BY TerminalsStep
<1> QED
  BY <1>1, <1>2, TerminalsStart, PTL DEF TerminalsSpec

\* Every running shell is in the map but those that were opened before an older one of
\* their id had exited, and listeners stand where somebody watches.
THEOREM NoShellForgottenHolds == TerminalsSpec => []NoShellForgotten
<1>1. TerminalsInv => NoShellForgotten
  BY DEF TerminalsInv, MapInv, WatchInv, NoShellForgotten
<1>2. TerminalsInv /\ [TerminalsNext]_terminalVars => TerminalsInv'
  BY TerminalsStep
<1> QED
  BY <1>1, <1>2, TerminalsStart, PTL DEF TerminalsSpec

--------------------------------------------------------------------------------
\* Uploads.

\* The types of an upload.
UploadRecords ==
  [entry : {"none", "active", "ending", "over"}, file : Variants, overwrite : BOOLEAN,
   sent : 0..Chunks, got : Seq(Nat), stream : {"none", "opening", "open", "closed"},
   put : 0..Chunks, told : {"none", "ready", "error"}]

\* An upload in activeUploads, and one that may still empty its file.
Active(u) == upload[u].entry \in {"active", "ending"}
Busy(u) == Active(u) \/ upload[u].stream = "opening"

\* The chunks of an upload, in order, as its handler got them and as its stream
\* has written them.
Counted(n) == [i \in 1..n |-> i]
Written(u, n) == [i \in 1..n |-> <<u, i>>]

\* Where an upload stands, and what its open stream has made of a file it has for
\* itself.
UploadInv(u) ==
  /\ upload[u].got = Counted(upload[u].sent) /\ upload[u].put <= upload[u].sent
  /\ upload[u].entry = "none" => upload[u].stream = "none" /\ upload[u].told = "none"
  /\ Active(u) => upload[u].stream \in {"opening", "open"} /\ upload[u].told = "none"
  /\ upload[u].entry = "over" => upload[u].stream \in {"opening", "closed"}
  /\ upload[u].told = "ready" =>
       upload[u].entry = "over" /\ (upload[u].stream = "closed" \/ u \in torn)
  /\ upload[u].stream = "opening" => upload[u].put = 0
  /\ upload[u].stream = "open" =>
       /\ Active(u)
       /\ upload[u].file \notin shared =>
            /\ u \in linked /\ upload[u].file \in exists
            /\ disk[upload[u].file] = Written(u, upload[u].put)

\* Two uploads that have to do with one file at once share it.
Apart ==
  \A u, v \in Uploads :
    Busy(u) /\ Busy(v) /\ u # v /\ upload[u].file = upload[v].file => upload[u].file \in shared
SharedByTwo ==
  \A f \in shared : \E u, v \in Uploads :
    /\ u # v /\ upload[u].entry # "none" /\ upload[v].entry # "none"
    /\ upload[u].file = f /\ upload[v].file = f

\* What stands under a name that no stream writes and no two shared.
Stands(f) ==
  \/ disk[f] = <<>>
  \/ f = 0 /\ disk[f] = Original
  \/ f \in exists /\ \E u \in Uploads :
       /\ upload[u].told = "ready" /\ upload[u].file = f
       /\ u \in torn \/ disk[f] = Received(u)
Untouched(u) ==
  u \notin torn /\ upload[u].told = "ready"
    /\ (\A v \in Uploads \ {u} : upload[v].entry # "none" => upload[v].file # upload[u].file)
    => upload[u].file \in exists /\ disk[upload[u].file] = Received(u)

\* No file is longer than the chunks of one.
Short(f) == \E m \in 0..Chunks : DOMAIN disk[f] = 1..m /\ Len(disk[f]) = m

\* The invariant.
FilesInv ==
  /\ "original" \notin Uploads
  /\ upload \in [Uploads -> UploadRecords] /\ DOMAIN disk = Variants /\ exists \subseteq Variants
  /\ linked \subseteq Uploads /\ shared \subseteq Variants /\ torn \subseteq Uploads
  /\ \A u \in Uploads : UploadInv(u) /\ Untouched(u)
  /\ Apart /\ SharedByTwo
  /\ \A f \in Variants : Short(f)
  /\ \A f \in Variants \ shared :
       (\A u \in Uploads : upload[u].file = f => upload[u].stream # "open") => Stands(f)
  /\ disk[0] = Original =>
       0 \in exists /\ \A u \in Uploads : Writes(u, 0) => upload[u].overwrite

\* The original file is neither empty nor one a stream has written to.
LEMMA OriginalIsOther ==
  ASSUME "original" \notin Uploads
  PROVE  /\ Original # <<>> /\ Len(Original) = 1 /\ DOMAIN Original = 1..1
         /\ \A u \in Uploads : \A n \in Nat : Original[1] # <<u, n>>
<1>1. Len(Original) = 1 /\ DOMAIN Original = 1..1 /\ Original[1] = <<"original", 1>>
  BY DEF Original
<1>2. Original # <<>>
  BY <1>1
<1>3. ASSUME NEW u \in Uploads, NEW n \in Nat, Original[1] = <<u, n>> PROVE FALSE
  <2>1. <<u, n>>[1] = <<"original", 1>>[1]
    BY <1>1, <1>3
  <2> QED
    BY <2>1
<1> QED
  BY <1>1, <1>2, <1>3

\* What the handlers and streams make of sequences of chunks.
LEMMA ChunkSequences ==
  ASSUME NEW u, NEW n \in Nat
  PROVE  /\ Counted(n) \in Seq(Nat) /\ Len(Counted(n)) = n
         /\ Append(Counted(n), n + 1) = Counted(n + 1)
         /\ Len(Written(u, n)) = n /\ Written(u, 0) = <<>> /\ Counted(0) = <<>>
         /\ \A i \in 1..n : Counted(n)[i] = i /\ Written(u, n)[i] = <<u, i>>
BY DEF Counted, Written

\* What an upload received is what its stream has written when it has written all.
LEMMA ReceivedChunks ==
  ASSUME FilesInv, NEW u \in Uploads
  PROVE  Received(u) = Written(u, upload[u].sent)
<1>1. upload[u].got = Counted(upload[u].sent) /\ upload[u].sent \in Nat
  BY FileTransferAssumption DEF FilesInv, UploadInv, UploadRecords
<1> QED
  BY <1>1, ChunkSequences DEF Received, Written

\* An empty file is short.
LEMMA EmptyIsShort ==
  ASSUME NEW f, disk'[f] = <<>>
  PROVE  Short(f)'
<1>1. 0 \in 0..Chunks /\ DOMAIN <<>> = 1..0 /\ Len(<<>>) = 0
  BY FileTransferAssumption
<1> QED
  BY <1>1 DEF Short

\* A step of one busy upload, which changes nothing but that upload's file.
LEMMA OneUpload ==
  ASSUME FilesInv, NEW u \in Uploads, NEW n \in UploadRecords, Busy(u),
         upload' = [upload EXCEPT ![u] = n],
         n.file = upload[u].file, n.entry # "none",
         n.entry \in {"active", "ending"} =>
           Active(u) /\ n.overwrite = upload[u].overwrite,
         DOMAIN disk' = Variants, exists' \subseteq Variants,
         \A g \in Variants \ {n.file} :
           disk'[g] = disk[g] /\ (g \in exists' <=> g \in exists),
         shared' = shared, linked' \subseteq Uploads,
         \A v \in Uploads \ {u} : upload[v].file # n.file => (v \in linked' <=> v \in linked),
         torn \subseteq torn', torn' \subseteq torn \cup {u},
         UploadInv(u)', Untouched(u)', Short(n.file)',
         n.stream # "open" /\ n.file \notin shared => Stands(n.file)',
         n.file = 0 /\ disk'[0] = Original => disk[0] = Original /\ 0 \in exists'
  PROVE  FilesInv'
<1> DEFINE f == n.file
<1>1. /\ upload \in [Uploads -> UploadRecords] /\ upload'[u] = n
      /\ \A v \in Uploads \ {u} : upload'[v] = upload[v]
      /\ f \in Variants /\ upload[u].file = f
  BY DEF FilesInv, UploadRecords
<1>2. upload[u].entry # "none"
  BY DEF Busy, Active, FilesInv, UploadInv
<1>3. ASSUME NEW v \in Uploads \ {u}, Busy(v), upload[v].file = f PROVE f \in shared
  BY <1>1, <1>3 DEF FilesInv, Apart
<1>4. ASSUME NEW v \in Uploads PROVE UploadInv(v)' /\ Untouched(v)'
  <2>1. CASE v = u
    BY <2>1
  <2>2. CASE v # u
    <3>1. upload'[v] = upload[v] /\ upload[v].file \in Variants /\ UploadInv(v) /\ Untouched(v)
      BY <1>1, <2>2 DEF FilesInv, UploadRecords
    <3>t. v \in torn' <=> v \in torn
      BY <2>2
    <3>2. UploadInv(v)'
      <4>1. upload[v].stream = "open" /\ upload[v].file \notin shared =>
              Active(v) /\ upload[v].file # f
        BY <1>3, <2>2, <3>1 DEF UploadInv, Busy
      <4>2. upload[v].file # f =>
              /\ disk'[upload[v].file] = disk[upload[v].file]
              /\ upload[v].file \in exists' <=> upload[v].file \in exists
              /\ v \in linked' <=> v \in linked
        BY <2>2, <3>1
      <4> QED
        BY <3>1, <3>t, <4>1, <4>2 DEF UploadInv, Active
    <3>3. Untouched(v)'
      <4>1. ASSUME \A w \in Uploads \ {v} :
                     upload'[w].entry # "none" => upload'[w].file # upload'[v].file
            PROVE  /\ upload[v].file # f
                   /\ \A w \in Uploads \ {v} :
                        upload[w].entry # "none" => upload[w].file # upload[v].file
        <5>1. upload[v].file # f
          BY <1>1, <2>2, <3>1, <4>1
        <5>2. ASSUME NEW w \in Uploads \ {v}, upload[w].entry # "none"
              PROVE  upload[w].file # upload[v].file
          <6>1. CASE w = u
            BY <1>1, <5>1, <6>1
          <6>2. CASE w # u
            BY <1>1, <3>1, <4>1, <5>2, <6>2
          <6> QED
            BY <6>1, <6>2
        <5> QED
          BY <5>1, <5>2
      <4> QED
        BY <3>1, <3>t, <4>1 DEF Untouched, Received
    <3> QED
      BY <3>2, <3>3
  <2> QED
    BY <2>1, <2>2
<1>5. Apart' /\ SharedByTwo'
  <2>1. Busy(u)' => Busy(u)
    OBVIOUS
  <2>2. \A v \in Uploads : Busy(v)' => Busy(v) /\ upload'[v].file = upload[v].file
    BY <1>1, <2>1 DEF Busy, Active
  <2>3. \A v \in Uploads :
          /\ upload'[v].file = upload[v].file
          /\ upload[v].entry # "none" => upload'[v].entry # "none"
    BY <1>1
  <2>4. Apart'
    BY <2>2, <2>3 DEF Apart, FilesInv
  <2>5. SharedByTwo'
    BY <2>3 DEF SharedByTwo, FilesInv
  <2> QED
    BY <2>4, <2>5
<1>6. ASSUME NEW g \in Variants \ shared,
             \A v \in Uploads : upload'[v].file = g => upload'[v].stream # "open"
      PROVE  Stands(g)'
  <2>1. CASE g = f
    BY <1>1, <1>6, <2>1
  <2>2. CASE g # f
    <3>1. \A v \in Uploads : upload[v].file = g => v # u /\ upload'[v] = upload[v]
      BY <1>1, <2>2
    <3>2. Stands(g)
      BY <1>6, <3>1 DEF FilesInv
    <3>3. disk'[g] = disk[g] /\ (g \in exists' <=> g \in exists)
      BY <2>2
    <3> QED
      <4>1. ASSUME NEW v \in Uploads, upload[v].told = "ready", upload[v].file = g,
                   v \in torn \/ disk[g] = Received(v)
            PROVE  /\ upload'[v].told = "ready" /\ upload'[v].file = g
                   /\ v \in torn' \/ disk'[g] = Received(v)'
        BY <3>1, <3>3, <4>1 DEF Received
      <4> QED
        BY <3>2, <3>3, <4>1 DEF Stands
  <2> QED
    BY <2>1, <2>2
<1>7. ASSUME disk'[0] = Original
      PROVE  0 \in exists' /\ \A v \in Uploads : Writes(v, 0)' => upload'[v].overwrite
  <2>0. 0 \in Variants
    BY FileTransferAssumption DEF Variants
  <2>1. disk[0] = Original /\ 0 \in exists'
    <3>1. CASE f = 0
      BY <1>7, <3>1
    <3>2. CASE f # 0
      BY <1>7, <2>0, <3>2 DEF FilesInv
    <3> QED
      BY <3>1, <3>2
  <2>2. \A v \in Uploads : Writes(v, 0)' =>
          Writes(v, 0) /\ upload'[v].overwrite = upload[v].overwrite
    BY <1>1 DEF Writes, Active
  <2> QED
    BY <2>1, <2>2 DEF FilesInv
<1>8. upload' \in [Uploads -> UploadRecords] /\ torn' \subseteq Uploads
  BY <1>1 DEF FilesInv
<1>9. ASSUME NEW g \in Variants PROVE Short(g)'
  <2>1. CASE g # f
    <3>1. Short(g) /\ disk'[g] = disk[g]
      BY <2>1 DEF FilesInv
    <3> QED
      BY <3>1 DEF Short
  <2> QED
    BY <2>1
<1> QED
  BY <1>4, <1>5, <1>6, <1>7, <1>8, <1>9 DEF FilesInv

\* What nobody's stream writes stays as it is when a step changes no file.
LEMMA StandsOn ==
  ASSUME FilesInv, NEW u \in Uploads, NEW n \in UploadRecords, Busy(u),
         upload' = [upload EXCEPT ![u] = n], UNCHANGED <<disk, exists, shared>>,
         n.file = upload[u].file, upload[u].told # "ready", torn \subseteq torn',
         upload[u].stream # "open", n.file \notin shared
  PROVE  Stands(n.file)'
<1>1. upload \in [Uploads -> UploadRecords] /\ n.file \in Variants
  BY DEF FilesInv, UploadRecords
<1>2. \A v \in Uploads \ {u} : upload[v].stream = "open" => upload[v].file # n.file
  BY DEF FilesInv, UploadInv, Apart, Busy
<1>3. Stands(n.file)
  BY <1>1, <1>2 DEF FilesInv
<1>4. \A v \in Uploads : upload[v].told = "ready" => upload'[v] = upload[v]
  BY <1>1
<1> QED
  BY <1>3, <1>4 DEF Stands, Received

\* Every step keeps the invariant.
LEMMA FileStep ==
  ASSUME FilesInv, [FileNext]_fileVars
  PROVE  FilesInv'
<1>a. /\ Chunks \in Nat \ {0} /\ MaxVariants \in Nat
      /\ "original" \notin Uploads
      /\ upload \in [Uploads -> UploadRecords] /\ DOMAIN disk = Variants
      /\ exists \subseteq Variants /\ linked \subseteq Uploads /\ torn \subseteq Uploads
      /\ shared \subseteq Variants
  BY FileTransferAssumption DEF FilesInv
<1>o. UNCHANGED <<disk, exists>> /\ disk'[0] = Original => disk[0] = Original /\ 0 \in exists'
  BY DEF FilesInv
<1>h. ASSUME NEW f \in Variants, disk'[f] = disk[f] PROVE Short(f)'
  BY <1>h DEF FilesInv, Short
<1>s. ASSUME UNCHANGED <<disk, exists, upload, linked, shared, torn>> PROVE FilesInv'
  <2>1. \A u \in Uploads : UploadInv(u)' /\ Untouched(u)'
    BY <1>s DEF FilesInv, UploadInv, Untouched, Active, Received
  <2>2. Apart' /\ SharedByTwo'
    BY <1>s DEF FilesInv, Apart, SharedByTwo, Busy, Active
  <2>3. \A f \in Variants : (Stands(f) => Stands(f)') /\ Short(f)'
    BY <1>s DEF FilesInv, Stands, Short, Received
  <2> QED
    BY <1>s, <2>1, <2>2, <2>3 DEF FilesInv, Writes
\* The steps that leave the files alone.
<1>q. ASSUME NEW u \in Uploads, NEW n \in UploadRecords, Active(u),
             upload' = [upload EXCEPT ![u] = n], UNCHANGED <<disk, exists, linked, shared, torn>>,
             n.file = upload[u].file, n.overwrite = upload[u].overwrite,
             n.entry \in {"active", "ending"}, n.stream = upload[u].stream,
             n.told = "none", n.put = upload[u].put, n.got = Counted(n.sent),
             n.put <= n.sent
      PROVE  FilesInv'
  <2>1. upload'[u] = n /\ UploadInv(u) /\ n.file \in Variants
    BY <1>q, <1>a DEF FilesInv, UploadRecords
  <2>2. UploadInv(u)'
    BY <1>q, <2>1 DEF UploadInv, Active
  <2>3. Untouched(u)' /\ Short(n.file)'
    BY <1>q, <1>h, <2>1 DEF Untouched
  <2>4. n.stream # "open" /\ n.file \notin shared => Stands(n.file)'
    <3>1. upload[u].told # "ready"
      BY <1>q, <2>1 DEF UploadInv
    <3> QED
      BY <1>q, <3>1, StandsOn DEF Busy
  <2>5. n.file = 0 /\ disk'[0] = Original => disk[0] = Original /\ 0 \in exists'
    BY <1>q, <1>o
  <2> QED
    BY <1>a, <1>q, <2>2, <2>3, <2>4, <2>5, OneUpload DEF Busy
<1>1. ASSUME NEW u \in Uploads, NEW overwrite \in BOOLEAN, UploadStart(u, overwrite)
      PROVE  FilesInv'
  <2>1. PICK f \in FinalNames(overwrite) :
          /\ upload' = [upload EXCEPT ![u] =
               [NoUpload EXCEPT !.entry = "active", !.file = f, !.overwrite = overwrite,
                                !.stream = "opening"]]
          /\ shared' = IF \E v \in Uploads : Writes(v, f) \/ Opens(v, f)
                        THEN shared \cup {f} ELSE shared
    BY <1>1 DEF UploadStart
  <2> DEFINE n == [NoUpload EXCEPT !.entry = "active", !.file = f,
                                   !.overwrite = overwrite, !.stream = "opening"]
  <2>2. f \in Variants /\ (~ overwrite => f \notin exists)
    BY <1>a DEF FinalNames, Variants
  <2>3. /\ n \in UploadRecords /\ n.entry = "active" /\ n.file = f
        /\ n.overwrite = overwrite /\ n.stream = "opening" /\ n.sent = 0 /\ n.put = 0
        /\ n.got = Counted(0) /\ n.told = "none"
    <3>1. Counted(0) = <<>> /\ Counted(0) \in Seq(Nat) /\ 0 \in 0..Chunks
      <4>1. 0 \in Nat
        OBVIOUS
      <4> QED
        BY <1>a, <4>1, ChunkSequences
    <3>2. /\ n.entry = "active" /\ n.file = f /\ n.overwrite = overwrite
          /\ n.stream = "opening" /\ n.sent = 0 /\ n.put = 0 /\ n.got = <<>>
          /\ n.told = "none"
      BY DEF NoUpload
    <3>3. NoUpload \in UploadRecords
      BY <1>a, <3>1 DEF NoUpload, UploadRecords, Variants
    <3>4. n \in UploadRecords
      BY <2>2, <3>3 DEF UploadRecords
    <3> QED
      BY <3>1, <3>2, <3>4
  <2>4. /\ upload' = [upload EXCEPT ![u] = n] /\ upload[u].entry = "none"
        /\ UNCHANGED <<disk, exists, linked, torn>>
    BY <1>1, <2>1 DEF UploadStart
  <2> HIDE DEF n
  <2>5. upload'[u] = n /\ \A v \in Uploads \ {u} : upload'[v] = upload[v]
    BY <1>a, <2>4
  <2>6. upload[u].stream = "none" /\ upload[u].told = "none"
    BY <2>4 DEF FilesInv, UploadInv
  <2>c. shared \subseteq shared' /\ shared' \subseteq shared \cup {f}
    BY <2>1
  <2>7. ASSUME NEW v \in Uploads PROVE UploadInv(v)' /\ Untouched(v)'
    <3>1. CASE v = u
      BY <2>3, <2>5, <3>1 DEF UploadInv, Untouched, Active
    <3>2. CASE v # u
      <4>1. UploadInv(v)'
        BY <2>4, <2>5, <2>c, <3>2 DEF FilesInv, UploadInv, Active
      <4>2. Untouched(v)'
        BY <2>4, <2>5, <3>2 DEF FilesInv, Untouched, Received
      <4> QED
        BY <4>1, <4>2
    <3> QED
      BY <3>1, <3>2
  <2>8. Apart'
    <3>1. \A v \in Uploads : Busy(v) /\ upload[v].file = f => f \in shared'
      BY <2>1 DEF Busy, Active, Writes, Opens
    <3>2. Busy(u)' /\ \A v \in Uploads \ {u} :
            /\ upload'[v].file = upload[v].file
            /\ Busy(v)' <=> Busy(v)
      BY <2>3, <2>5 DEF Busy, Active
    <3>3. upload'[u].file = f
      BY <2>3, <2>5
    <3> QED
      BY <2>c, <3>1, <3>2, <3>3 DEF Apart, FilesInv
  <2>s. SharedByTwo'
    <3>1. ASSUME NEW g \in shared
          PROVE  \E v, w \in Uploads :
                   /\ v # w /\ upload'[v].entry # "none" /\ upload'[w].entry # "none"
                   /\ upload'[v].file = g /\ upload'[w].file = g
      <4>1. PICK v, w \in Uploads :
              /\ v # w /\ upload[v].entry # "none" /\ upload[w].entry # "none"
              /\ upload[v].file = g /\ upload[w].file = g
        BY <3>1 DEF FilesInv, SharedByTwo
      <4> QED
        BY <2>4, <2>5, <4>1
    <3>2. ASSUME f \notin shared, f \in shared'
          PROVE  \E v, w \in Uploads :
                   /\ v # w /\ upload'[v].entry # "none" /\ upload'[w].entry # "none"
                   /\ upload'[v].file = f /\ upload'[w].file = f
      <4>1. PICK v \in Uploads : Writes(v, f) \/ Opens(v, f)
        BY <2>1, <3>2
      <4>2. v # u /\ upload[v].file = f /\ upload[v].entry # "none"
        BY <2>4, <2>6, <4>1 DEF Writes, Opens, FilesInv, UploadInv
      <4> QED
        BY <2>3, <2>5, <4>2
    <3> QED
      BY <2>c, <3>1, <3>2 DEF SharedByTwo
  <2>9. ASSUME NEW g \in Variants \ shared',
               \A v \in Uploads : upload'[v].file = g => upload'[v].stream # "open"
        PROVE  Stands(g)'
    <3>1. \A v \in Uploads : upload[v].file = g => upload[v].stream # "open"
      BY <2>5, <2>6, <2>9
    <3>2. Stands(g)
      BY <2>c, <3>1 DEF FilesInv
    <3>3. \A v \in Uploads : upload[v].told = "ready" => upload'[v] = upload[v]
      BY <2>5, <2>6
    <3> QED
      BY <2>4, <3>2, <3>3 DEF Stands, Received
  <2>10. ASSUME disk'[0] = Original
         PROVE  0 \in exists' /\ \A v \in Uploads : Writes(v, 0)' => upload'[v].overwrite
    <3>1. 0 \in exists /\ \A v \in Uploads : Writes(v, 0) => upload[v].overwrite
      BY <2>4, <2>10 DEF FilesInv
    <3> QED
      BY <2>2, <2>3, <2>4, <2>5, <3>1 DEF Writes
  <2>11. /\ upload' \in [Uploads -> UploadRecords] /\ shared' \subseteq Variants
         /\ \A g \in Variants : Short(g)'
    BY <1>a, <1>h, <2>2, <2>3, <2>4, <2>c
  <2> QED
    BY <1>a, <2>4, <2>7, <2>8, <2>s, <2>9, <2>10, <2>11 DEF FilesInv
<1>2. ASSUME NEW u \in Uploads, FileOpens(u) PROVE FilesInv'
  <2>n. PICK n : n = [upload[u] EXCEPT !.stream = IF upload[u].entry = "over" THEN "closed" ELSE "open"]
    OBVIOUS
  <2>0. upload[u] \in UploadRecords /\ UploadInv(u) /\ Untouched(u)
    BY <1>a DEF FilesInv
  <2>1. /\ n \in UploadRecords /\ n.file = upload[u].file /\ n.overwrite = upload[u].overwrite
        /\ n.entry = upload[u].entry /\ n.sent = upload[u].sent /\ n.got = upload[u].got
        /\ n.put = upload[u].put /\ n.told = upload[u].told
        /\ n.stream = IF upload[u].entry = "over" THEN "closed" ELSE "open"
    BY <2>0, <2>n DEF UploadRecords
  <2>2. /\ upload' = [upload EXCEPT ![u] = n] /\ upload[u].stream = "opening"
        /\ disk' = [disk EXCEPT ![n.file] = <<>>] /\ exists' = exists \cup {n.file}
        /\ linked' = (IF n.entry = "over" THEN linked ELSE linked \cup {u})
        /\ UNCHANGED <<shared, torn>>
    BY <1>2, <1>a, <2>1, <2>n DEF FileOpens
  <2>3. /\ n.file \in Variants /\ upload'[u] = n /\ disk'[n.file] = <<>>
        /\ n.entry # "none" /\ n.put = 0 /\ (n.told = "ready" => u \in torn)
    BY <1>a, <2>0, <2>1, <2>2 DEF UploadRecords, UploadInv
  <2>4. UploadInv(u)'
    <3>1. Written(u, 0) = <<>>
      <4>1. 0 \in Nat
        OBVIOUS
      <4> QED
        BY <4>1, ChunkSequences
    <3>2. n.put <= n.sent /\ n.got = Counted(n.sent)
      BY <2>0, <2>1 DEF UploadInv
    <3>3. n.file \in exists' /\ (n.entry # "over" => u \in linked')
      BY <2>2
    <3>4. /\ n.entry = "over" => n.stream = "closed"
          /\ n.entry # "over" => n.stream = "open" /\ n.entry \in {"active", "ending"}
          /\ n.entry \in {"active", "ending"} => n.told = "none"
          /\ n.told = "ready" => n.entry = "over"
      BY <2>0, <2>1, <2>2 DEF UploadInv, Active, UploadRecords
    <3> QED
      BY <2>2, <2>3, <3>1, <3>2, <3>3, <3>4 DEF UploadInv, Active
  <2>5. Untouched(u)' /\ Stands(n.file)' /\ Short(n.file)'
    BY <2>2, <2>3, EmptyIsShort DEF Untouched, Stands
  <2>6. disk'[n.file] # Original
    BY <1>a, <2>3, OriginalIsOther
  <2>7. /\ DOMAIN disk' = Variants /\ exists' \subseteq Variants
        /\ \A g \in Variants \ {n.file} :
             disk'[g] = disk[g] /\ (g \in exists' <=> g \in exists)
        /\ linked' \subseteq Uploads
        /\ \A v \in Uploads \ {u} : v \in linked' <=> v \in linked
    BY <1>a, <2>2, <2>3
  <2>8. Busy(u) /\ (n.entry \in {"active", "ending"} => Active(u))
    BY <2>1, <2>2 DEF Busy, Active
  <2> QED
    BY <1>a, <2>1, <2>2, <2>3, <2>4, <2>5, <2>6, <2>7, <2>8, OneUpload
<1>3. ASSUME NEW u \in Uploads, UploadChunk(u) PROVE FilesInv'
  <2>0. upload[u] \in UploadRecords /\ UploadInv(u)
    BY <1>a DEF FilesInv
  <2> DEFINE n == [upload[u] EXCEPT !.sent = upload[u].sent + 1,
                      !.got = Append(upload[u].got, upload[u].sent + 1)]
  <2>1. /\ upload[u].sent \in Nat /\ upload[u].sent + 1 \in 0..Chunks
        /\ upload[u].put \in Nat
    BY <1>3, <1>a, <2>0 DEF UploadChunk, UploadRecords
  <2>2. /\ Append(upload[u].got, upload[u].sent + 1) = Counted(upload[u].sent + 1)
        /\ Counted(upload[u].sent + 1) \in Seq(Nat)
    <3>1. upload[u].got = Counted(upload[u].sent) /\ upload[u].sent + 1 \in Nat
      BY <2>0, <2>1 DEF UploadInv
    <3>2. Append(Counted(upload[u].sent), upload[u].sent + 1) = Counted(upload[u].sent + 1)
      BY <2>1, ChunkSequences
    <3>3. Counted(upload[u].sent + 1) \in Seq(Nat)
      BY <3>1, ChunkSequences
    <3> QED
      BY <3>1, <3>2, <3>3
  <2>3. /\ n \in UploadRecords /\ n.file = upload[u].file /\ n.overwrite = upload[u].overwrite
        /\ n.entry = upload[u].entry /\ n.sent = upload[u].sent + 1
        /\ n.got = Counted(n.sent) /\ n.put = upload[u].put /\ n.told = upload[u].told
        /\ n.stream = upload[u].stream
    BY <2>0, <2>1, <2>2 DEF UploadRecords
  <2>4. upload' = [upload EXCEPT ![u] = n]
    BY <1>3, <1>a, <2>0 DEF UploadChunk, UploadRecords
  <2> HIDE DEF n
  <2>5. Active(u) /\ n.entry = "active" /\ n.told = "none" /\ n.put <= n.sent
    BY <1>3, <2>0, <2>1, <2>3 DEF UploadChunk, Active, UploadInv
  <2> QED
    BY <1>3, <1>q, <2>3, <2>4, <2>5 DEF UploadChunk
<1>4. ASSUME NEW u \in Uploads, UploadComplete(u) PROVE FilesInv'
  <2>0. upload[u] \in UploadRecords /\ UploadInv(u)
    BY <1>a DEF FilesInv
  <2> DEFINE n == [upload[u] EXCEPT !.entry = "ending"]
  <2>1. /\ n \in UploadRecords /\ n.file = upload[u].file /\ n.overwrite = upload[u].overwrite
        /\ n.entry = "ending" /\ n.sent = upload[u].sent
        /\ n.got = Counted(n.sent) /\ n.put = upload[u].put /\ n.told = upload[u].told
        /\ n.stream = upload[u].stream
    BY <2>0 DEF UploadRecords, UploadInv
  <2>2. upload' = [upload EXCEPT ![u] = n]
    BY <1>4, <1>a, <2>0 DEF UploadComplete, UploadRecords
  <2> HIDE DEF n
  <2>3. Active(u) /\ n.told = "none" /\ n.put <= n.sent
    BY <1>4, <2>0, <2>1 DEF UploadComplete, Active, UploadInv
  <2> QED
    BY <1>4, <1>q, <2>1, <2>2, <2>3 DEF UploadComplete
<1>5. ASSUME NEW u \in Uploads, StreamWrites(u) PROVE FilesInv'
  <2>0. upload[u] \in UploadRecords /\ UploadInv(u)
    BY <1>a DEF FilesInv
  <2>f. PICK f : f = upload[u].file
    OBVIOUS
  <2>a. PICK at : at = upload[u].put + 1
    OBVIOUS
  <2>n. PICK n : n = [upload[u] EXCEPT !.put = at]
    OBVIOUS
  <2>e. PICK new : new =
          [i \in 1..(IF at > Len(disk[f]) THEN at ELSE Len(disk[f])) |->
             IF i = at THEN <<u, upload[u].got[at]>>
             ELSE IF i <= Len(disk[f]) THEN disk[f][i] ELSE <<>>]
    OBVIOUS
  <2>1. /\ upload[u].sent \in Nat /\ upload[u].put \in Nat /\ at \in Nat /\ 1 <= at
        /\ at <= upload[u].sent /\ at \in 0..Chunks /\ upload[u].got[at] = at
    <3>1. /\ upload[u].sent \in 0..Chunks /\ upload[u].put \in 0..Chunks
          /\ upload[u].got = Counted(upload[u].sent) /\ upload[u].put < Len(upload[u].got)
      BY <1>5, <2>0 DEF StreamWrites, UploadRecords, UploadInv
    <3>2. upload[u].sent \in Nat /\ upload[u].put \in Nat
      BY <1>a, <3>1
    <3>3. Len(Counted(upload[u].sent)) = upload[u].sent
      BY <3>2, ChunkSequences
    <3>4. /\ at \in 1..upload[u].sent /\ at \in Nat /\ at <= upload[u].sent
          /\ at \in 0..Chunks /\ 1 <= at
      BY <1>a, <2>a, <3>1, <3>2, <3>3
    <3>5. Counted(upload[u].sent)[at] = at
      BY <3>4 DEF Counted
    <3> QED
      BY <3>1, <3>2, <3>4, <3>5
  <2>2. /\ upload[u].stream = "open" /\ Active(u) /\ f \in Variants /\ upload[u].told = "none"
        /\ f \notin shared => u \in linked /\ f \in exists /\ disk[f] = Written(u, upload[u].put)
    BY <1>5, <2>0, <2>f DEF StreamWrites, UploadInv, UploadRecords
  <2>3. f \notin shared => new = Written(u, at)
    <3> SUFFICES ASSUME f \notin shared PROVE new = Written(u, at)
      OBVIOUS
    <3>p. PICK k \in Nat : k = upload[u].put
      BY <2>1
    <3>w. disk[f] = Written(u, k)
      BY <2>2, <3>p
    <3>1. Len(disk[f]) = k /\ \A i \in 1..k : disk[f][i] = <<u, i>>
      <4>1. Len(Written(u, k)) = k /\ \A i \in 1..k : Written(u, k)[i] = <<u, i>>
        BY ChunkSequences
      <4> QED
        BY <3>w, <4>1
    <3>2. at = k + 1 /\ upload[u].got[at] = at
      BY <2>1, <2>a, <3>p
    <3>3. new = [i \in 1..at |-> IF i = at THEN <<u, at>> ELSE IF i <= k THEN disk[f][i] ELSE <<>>]
      BY <2>e, <3>1, <3>2
    <3>4. \A i \in 1..at : i # at => i \in 1..k /\ i <= k
      BY <3>2
    <3>5. \A i \in 1..at :
            (IF i = at THEN <<u, at>> ELSE IF i <= k THEN disk[f][i] ELSE <<>>) = <<u, i>>
      BY <3>1, <3>4
    <3> QED
      BY <3>3, <3>5 DEF Written
  <2>l. \E m \in 0..Chunks : at <= m /\ DOMAIN new = 1..m /\ Len(new) = m
    <3>1. PICK m \in 0..Chunks : DOMAIN disk[f] = 1..m /\ Len(disk[f]) = m
      BY <2>2 DEF FilesInv, Short
    <3>2. PICK k : k = IF at > m THEN at ELSE m
      OBVIOUS
    <3>3. k \in 0..Chunks /\ at <= k /\ k \in Nat
      BY <1>a, <2>1, <3>2
    <3>4. DOMAIN new = 1..k
      BY <2>e, <3>1, <3>2
    <3>5. new = [i \in 1..k |-> new[i]]
      BY <2>e, <3>4
    <3>6. Len(new) = k
      BY <3>3, <3>5
    <3> QED
      BY <3>3, <3>4, <3>6
  <2>o. new # Original
    <3> SUFFICES ASSUME new = Original PROVE FALSE
      OBVIOUS
    <3>1. Len(Original) = 1 /\ \A v \in Uploads : \A k \in Nat : Original[1] # <<v, k>>
      BY <1>a, OriginalIsOther
    <3>2. at = 1 /\ DOMAIN new = 1..1
      <4>1. PICK m \in 0..Chunks : at <= m /\ DOMAIN new = 1..m /\ Len(new) = m
        BY <2>l
      <4>2. m = 1
        BY <3>1, <4>1
      <4> QED
        BY <1>a, <2>1, <4>1, <4>2
    <3>3. new[at] = <<u, upload[u].got[at]>>
      BY <2>e, <3>2
    <3> QED
      BY <2>1, <3>1, <3>2, <3>3
  <2>4. /\ n \in UploadRecords /\ n.file = f /\ n.overwrite = upload[u].overwrite
        /\ n.entry = upload[u].entry /\ n.sent = upload[u].sent /\ n.got = upload[u].got
        /\ n.put = at /\ n.told = upload[u].told /\ n.stream = "open"
    BY <2>0, <2>1, <2>2, <2>f, <2>n DEF UploadRecords
  <2>5. /\ upload' = [upload EXCEPT ![u] = n]
        /\ disk' = (IF u \in linked THEN [disk EXCEPT ![f] = new] ELSE disk)
        /\ UNCHANGED <<exists, linked, shared, torn>>
    BY <1>5, <1>a, <2>0, <2>f, <2>a, <2>n, <2>e DEF StreamWrites, UploadRecords
  <2>6. /\ upload'[u] = n /\ disk'[f] = (IF u \in linked THEN new ELSE disk[f])
        /\ DOMAIN disk' = Variants
        /\ \A g \in Variants \ {f} : disk'[g] = disk[g]
    BY <1>a, <2>2, <2>5
  <2>7. UploadInv(u)'
    <3>1. f \notin shared' => u \in linked' /\ f \in exists' /\ disk'[f] = Written(u, at)
      BY <2>2, <2>3, <2>5, <2>6
    <3>2. n.put <= n.sent /\ n.got = Counted(n.sent) /\ n.entry \in {"active", "ending"}
      BY <2>0, <2>1, <2>2, <2>4 DEF UploadInv, Active
    <3> QED
      BY <2>2, <2>4, <2>6, <3>1, <3>2 DEF UploadInv, Active
  <2>8. Untouched(u)' /\ n.entry # "none" /\ Short(f)'
    <3>1. n.told = "none" /\ n.entry # "none"
      BY <2>2, <2>4 DEF Active
    <3>2. Untouched(u)'
      BY <2>6, <3>1 DEF Untouched
    <3>3. ASSUME u \in linked PROVE Short(f)'
      <4>1. disk'[f] = new
        BY <2>6, <3>3
      <4> QED
        BY <2>l, <4>1 DEF Short
    <3>4. ASSUME u \notin linked PROVE Short(f)'
      <4>1. disk'[f] = disk[f] /\ f \in Variants
        BY <2>2, <2>6, <3>4
      <4> QED
        BY <1>h, <4>1
    <3> QED
      BY <3>1, <3>2, <3>3, <3>4
  <2>9. f = 0 /\ disk'[0] = Original => disk[0] = Original /\ 0 \in exists'
    BY <2>5, <2>6, <2>o DEF FilesInv
  <2> QED
    BY <1>a, <2>f, <2>2, <2>4, <2>5, <2>6, <2>7, <2>8, <2>9, OneUpload DEF Busy, Active
<1>6. ASSUME NEW u \in Uploads, UploadEnds(u) PROVE FilesInv'
  <2>0. upload[u] \in UploadRecords /\ UploadInv(u)
    BY <1>a DEF FilesInv
  <2>1. /\ upload[u].entry = "ending" /\ upload[u].stream = "open"
        /\ upload[u].put = upload[u].sent /\ upload[u].sent \in Nat
        /\ upload[u].file \notin shared =>
             upload[u].file \in exists /\ disk[upload[u].file] = Received(u)
    <3>1. upload[u].sent \in Nat /\ upload[u].got = Counted(upload[u].sent)
      BY <1>a, <2>0 DEF UploadRecords, UploadInv
    <3>2. Len(upload[u].got) = upload[u].sent
      BY <3>1, ChunkSequences
    <3> QED
      BY <1>6, <2>0, <3>1, <3>2, ReceivedChunks DEF UploadEnds, StreamDone, UploadInv
  <2>n. PICK n : n = [upload[u] EXCEPT !.entry = "over", !.stream = "closed",
                        !.told = IF upload[u].file \in exists THEN "ready" ELSE "error"]
    OBVIOUS
  <2>2. /\ n \in UploadRecords /\ n.file = upload[u].file /\ n.overwrite = upload[u].overwrite
        /\ n.entry = "over" /\ n.sent = upload[u].sent /\ n.got = upload[u].got
        /\ n.put = upload[u].put /\ n.stream = "closed"
        /\ n.told = IF upload[u].file \in exists THEN "ready" ELSE "error"
    BY <2>0, <2>n DEF UploadRecords
  <2>3. /\ upload' = [upload EXCEPT ![u] = n] /\ linked' = linked \ {u}
        /\ UNCHANGED <<disk, exists, shared, torn>>
    BY <1>6, <1>a, <2>0, <2>1, <2>n DEF UploadEnds, UploadRecords
  <2>4. upload'[u] = n /\ n.file \in Variants
    BY <1>a, <2>2, <2>3 DEF UploadRecords
  <2>5. UploadInv(u)'
    BY <2>0, <2>2, <2>4 DEF UploadInv, Active
  <2>r. Received(u)' = Received(u)
    BY <2>2, <2>4 DEF Received
  <2>6. n.file \notin shared => Stands(n.file)'
    BY <2>1, <2>2, <2>3, <2>4, <2>r DEF Stands
  <2>7. Untouched(u)' /\ Short(n.file)'
    <3>1. Short(n.file)'
      BY <1>h, <2>3, <2>4
    <3>2. ASSUME \A v \in Uploads \ {u} : upload'[v].entry # "none" => upload'[v].file # n.file
          PROVE  n.file \notin shared
      <4>1. \A v \in Uploads \ {u} : upload[v].entry # "none" => upload[v].file # n.file
        BY <1>a, <2>3, <3>2
      <4> QED
        BY <4>1 DEF FilesInv, SharedByTwo
    <3> QED
      BY <2>1, <2>2, <2>3, <2>4, <2>r, <3>1, <3>2 DEF Untouched
  <2>8. Busy(u) /\ (n.file = 0 /\ disk'[0] = Original => disk[0] = Original /\ 0 \in exists')
    BY <1>o, <2>1, <2>3 DEF Busy, Active
  <2>9. /\ DOMAIN disk' = Variants /\ exists' \subseteq Variants /\ linked' \subseteq Uploads
        /\ \A g \in Variants \ {n.file} :
             disk'[g] = disk[g] /\ (g \in exists' <=> g \in exists)
        /\ \A v \in Uploads \ {u} : v \in linked' <=> v \in linked
    BY <1>a, <2>3
  <2> QED
    BY <1>a, <2>2, <2>3, <2>5, <2>6, <2>7, <2>8, <2>9, OneUpload
\* What an upload with a destroyed stream is.
<1>d. ASSUME NEW u \in Uploads, NEW told \in {"none", "ready", "error"},
             NEW n, n = Dropped(upload[u], told)
      PROVE  /\ n \in UploadRecords /\ n.entry = "over" /\ n.file = upload[u].file
             /\ n.told = told /\ n.sent = 0 /\ n.put = 0 /\ n.got = Counted(0)
             /\ n.stream = IF upload[u].stream = "opening" THEN "opening" ELSE "closed"
  <2>1. upload[u].file \in Variants
    BY <1>a DEF UploadRecords
  <2>2. Counted(0) = <<>> /\ Counted(0) \in Seq(Nat) /\ 0 \in 0..Chunks /\ 0 \in Variants
    <3>1. 0 \in Nat
      OBVIOUS
    <3> QED
      BY <1>a, <3>1, ChunkSequences DEF Variants
  <2>3. NoUpload \in UploadRecords
    BY <2>2 DEF NoUpload, UploadRecords
  <2>4. /\ n.entry = "over" /\ n.file = upload[u].file /\ n.told = told /\ n.sent = 0
        /\ n.put = 0 /\ n.got = <<>>
        /\ n.stream = IF upload[u].stream = "opening" THEN "opening" ELSE "closed"
    BY <1>d DEF Dropped, NoUpload
  <2>5. n \in UploadRecords
    BY <1>d, <2>1, <2>3 DEF Dropped, UploadRecords
  <2> QED
    BY <2>2, <2>4, <2>5
<1>7. ASSUME NEW u \in Uploads, UploadCancel(u) PROVE FilesInv'
  <2>0. upload[u] \in UploadRecords /\ UploadInv(u)
    BY <1>a DEF FilesInv
  <2> DEFINE told == IF upload[u].entry = "ending" THEN "error" ELSE "none"
  <2>n. PICK n : n = Dropped(upload[u], told)
    OBVIOUS
  <2>1. /\ n \in UploadRecords /\ n.entry = "over" /\ n.file = upload[u].file
        /\ n.told # "ready" /\ n.sent = 0 /\ n.put = 0 /\ n.got = Counted(0)
        /\ n.stream = IF upload[u].stream = "opening" THEN "opening" ELSE "closed"
    <3>1. told \in {"none", "ready", "error"} /\ told # "ready"
      OBVIOUS
    <3> HIDE DEF told
    <3> QED
      BY <1>d, <2>n, <3>1
  <2>2. /\ upload' = [upload EXCEPT ![u] = n] /\ Active(u)
        /\ disk' = [disk EXCEPT ![n.file] = <<>>] /\ exists' = exists \ {n.file}
        /\ linked' = {v \in linked : upload[v].file # n.file} /\ UNCHANGED <<shared, torn>>
    BY <1>7, <2>1, <2>n DEF UploadCancel, Active
  <2>3. n.file \in Variants /\ upload'[u] = n /\ disk'[n.file] = <<>>
    BY <1>a, <2>0, <2>1, <2>2 DEF UploadRecords
  <2>4. UploadInv(u)'
    BY <2>1, <2>3 DEF UploadInv, Active
  <2>5. Untouched(u)' /\ Stands(n.file)' /\ disk'[n.file] # Original /\ Short(n.file)'
    <3>1. Untouched(u)'
      BY <2>1, <2>3 DEF Untouched
    <3>2. Stands(n.file)' /\ Short(n.file)'
      BY <2>3, EmptyIsShort DEF Stands
    <3>3. Original # <<>>
      BY <1>a, OriginalIsOther
    <3> QED
      BY <2>3, <3>1, <3>2, <3>3
  <2>6. /\ DOMAIN disk' = Variants /\ exists' \subseteq Variants /\ linked' \subseteq Uploads
        /\ \A g \in Variants \ {n.file} :
             disk'[g] = disk[g] /\ (g \in exists' <=> g \in exists)
        /\ \A v \in Uploads \ {u} : upload[v].file # n.file => (v \in linked' <=> v \in linked)
    BY <1>a, <2>2, <2>3
  <2>7. Busy(u)
    BY <2>2 DEF Busy
  <2> QED
    BY <1>a, <2>1, <2>2, <2>4, <2>5, <2>6, <2>7, OneUpload
<1>l. ASSUME NEW u \in Uploads, LateChunk(u) PROVE FilesInv'
  <2>0. upload[u] \in UploadRecords /\ UploadInv(u)
    BY <1>a DEF FilesInv
  <2> DEFINE told == IF upload[u].file \in exists THEN "ready" ELSE "error"
  <2>n. PICK n : n = Dropped(upload[u], told)
    OBVIOUS
  <2>1. /\ n \in UploadRecords /\ n.entry = "over" /\ n.file = upload[u].file
        /\ n.told = told /\ n.sent = 0 /\ n.put = 0 /\ n.got = Counted(0)
        /\ n.stream = IF upload[u].stream = "opening" THEN "opening" ELSE "closed"
    <3>1. told \in {"none", "ready", "error"}
      OBVIOUS
    <3> HIDE DEF told
    <3> QED
      BY <1>d, <2>n, <3>1
  <2>2. /\ upload' = [upload EXCEPT ![u] = n] /\ Active(u) /\ linked' = linked \ {u}
        /\ torn' = torn \cup {u} /\ UNCHANGED <<disk, exists, shared>>
    BY <1>l, <2>n DEF LateChunk, Active
  <2>3. n.file \in Variants /\ upload'[u] = n /\ upload[u].told = "none"
    BY <1>a, <2>0, <2>1, <2>2 DEF UploadRecords, UploadInv
  <2>4. UploadInv(u)'
    BY <2>1, <2>2, <2>3 DEF UploadInv, Active
  <2>5. Untouched(u)' /\ Short(n.file)'
    BY <1>h, <2>2, <2>3 DEF Untouched
  <2>6. ASSUME n.file \notin shared PROVE Stands(n.file)'
    <3>1. CASE n.file \in exists
      BY <2>1, <2>2, <2>3, <3>1 DEF Stands
    <3>2. CASE n.file \notin exists
      <4>1. upload[u].stream # "open"
        BY <2>0, <2>1, <2>6, <3>2 DEF UploadInv
      <4> QED
        BY <2>1, <2>2, <2>3, <2>6, <4>1, StandsOn DEF Busy
    <3> QED
      BY <3>1, <3>2
  <2>7. Busy(u) /\ (n.file = 0 /\ disk'[0] = Original => disk[0] = Original /\ 0 \in exists')
    BY <1>o, <2>2 DEF Busy
  <2>8. /\ DOMAIN disk' = Variants /\ exists' \subseteq Variants /\ linked' \subseteq Uploads
        /\ \A g \in Variants \ {n.file} :
             disk'[g] = disk[g] /\ (g \in exists' <=> g \in exists)
        /\ \A v \in Uploads \ {u} : v \in linked' <=> v \in linked
    BY <1>a, <2>2
  <2> HIDE DEF told
  <2> QED
    BY <1>a, <2>1, <2>2, <2>4, <2>5, <2>6, <2>7, <2>8, OneUpload
<1>8. ASSUME NEW d \in Downloads,
             DownloadStart(d) \/ DownloadChunk(d) \/ DownloadEnds(d) \/ DownloadCancel(d)
      PROVE  FilesInv'
  BY <1>8, <1>s DEF DownloadStart, DownloadChunk, DownloadEnds, DownloadCancel
<1>9. CASE UNCHANGED fileVars
  BY <1>9, <1>s DEF fileVars
<1> QED
  BY <1>1, <1>2, <1>3, <1>4, <1>5, <1>6, <1>7, <1>l, <1>8, <1>9 DEF FileNext

\* The first state satisfies the invariant.
LEMMA FilesStart == "original" \notin Uploads /\ FileInit => FilesInv
<1> SUFFICES ASSUME "original" \notin Uploads, FileInit PROVE FilesInv
  OBVIOUS
<1>1. PICK there \in BOOLEAN :
        /\ exists = IF there THEN {0} ELSE {}
        /\ disk = [f \in Variants |-> IF there /\ f = 0 THEN Original ELSE <<>>]
  BY DEF FileInit
<1>2. 0 \in Variants /\ Original # <<>> /\ 0 \in 0..Chunks /\ 1 \in 0..Chunks
  BY OriginalIsOther, FileTransferAssumption DEF Variants
<1>3. /\ upload = [u \in Uploads |-> NoUpload] /\ NoUpload \in UploadRecords
      /\ NoUpload.got = Counted(0) /\ linked = {} /\ shared = {} /\ torn = {}
  BY <1>2, ChunkSequences DEF FileInit, NoUpload, UploadRecords
<1>4. \A u \in Uploads : UploadInv(u) /\ Untouched(u)
  <2>1. ASSUME NEW u \in Uploads PROVE UploadInv(u) /\ Untouched(u)
    <3>1. upload[u] = NoUpload
      BY <1>3
    <3>2. upload[u].got = Counted(upload[u].sent)
      BY <1>3, <3>1 DEF NoUpload
    <3> QED
      BY <3>1, <3>2 DEF UploadInv, Untouched, Active, NoUpload
  <2> QED
    BY <2>1
<1>5. Apart /\ SharedByTwo /\ \A f \in Variants : Stands(f)
  BY <1>1, <1>3 DEF Apart, SharedByTwo, Busy, Active, NoUpload, Stands
<1>6. disk[0] = Original =>
        0 \in exists /\ \A u \in Uploads : Writes(u, 0) => upload[u].overwrite
  BY <1>1, <1>2, <1>3 DEF Writes, NoUpload
<1>7. ASSUME NEW f \in Variants PROVE Short(f)
  <2>1. DOMAIN <<>> = 1..0 /\ Len(<<>>) = 0
    OBVIOUS
  <2>2. disk[f] \in {<<>>, Original}
    BY <1>1
  <2>3. Len(Original) = 1 /\ DOMAIN Original = 1..1
    BY OriginalIsOther
  <2> QED
    BY <1>2, <2>1, <2>2, <2>3 DEF Short
<1>8. exists \subseteq Variants
  BY <1>1, <1>2
<1> QED
  BY <1>1, <1>3, <1>4, <1>5, <1>6, <1>7, <1>8 DEF FilesInv

\* What the invariant says of the files.
LEMMA FilesWhole == FilesInv => UploadsIntact
<1> SUFFICES ASSUME FilesInv PROVE UploadsIntact
  OBVIOUS
<1>1. ASSUME NEW f \in Variants \ shared, disk[f] \notin {<<>>, Original},
             \A u \in Uploads : ~ Writes(u, f)
      PROVE  f \in exists /\ \E u \in Uploads :
               /\ upload[u].told = "ready" /\ upload[u].file = f
               /\ u \in torn \/ disk[f] = Received(u)
  <2>1. \A u \in Uploads : upload[u].file = f => upload[u].stream # "open"
    BY <1>1 DEF FilesInv, UploadInv, Active, Writes
  <2>2. Stands(f)
    BY <2>1 DEF FilesInv
  <2> QED
    BY <1>1, <2>2 DEF Stands
<1> QED
  BY <1>1 DEF FilesInv, Untouched, UploadsIntact

\* What stands under a name nobody writes is what was there or what an announced upload
\* had received (file-upload-handler.ts), for any number of uploads, chunks and names,
\* but where two uploads had the name at once or a chunk came after the completion.
THEOREM UploadsIntactHolds == "original" \notin Uploads /\ FileSpec => []UploadsIntact
<1>1. FilesInv /\ [FileNext]_fileVars => FilesInv'
  BY FileStep
<1> QED
  BY <1>1, FilesStart, FilesWhole, PTL DEF FileSpec

--------------------------------------------------------------------------------
\* Merges.

\* A stash.
StashRecords == [by : Merges \cup {"user"}, tagged : BOOLEAN, edits : SUBSET Edits]

\* The invariant.
MergeInv ==
  /\ made \subseteq Edits /\ tree \subseteq Edits /\ stashes \in Seq(StashRecords)
  /\ NoEditLost

\* Where the elements of a concatenation come from.
LEMMA Concatenated ==
  ASSUME NEW S, NEW a \in Seq(S), NEW b \in Seq(S)
  PROVE  /\ a \o b \in Seq(S) /\ Len(a \o b) = Len(a) + Len(b)
         /\ \A j \in 1..Len(a \o b) : (a \o b)[j] = IF j <= Len(a) THEN a[j] ELSE b[j - Len(a)]
OBVIOUS

\* What is left of a sequence without one element.
LEMMA WithoutOne ==
  ASSUME NEW S, NEW s \in Seq(S), NEW i \in 1..Len(s)
  PROVE  /\ RemoveAt(s, i) \in Seq(S)
         /\ \A j \in 1..Len(s) \ {i} :
              \E k \in 1..Len(RemoveAt(s, i)) : RemoveAt(s, i)[k] = s[j]
<1> DEFINE a == SubSeq(s, 1, i - 1)
           b == SubSeq(s, i + 1, Len(s))
<1>1. /\ a \in Seq(S) /\ Len(a) = i - 1 /\ \A k \in 1..(i - 1) : a[k] = s[k]
      /\ b \in Seq(S) /\ Len(b) = Len(s) - i /\ \A k \in 1..(Len(s) - i) : b[k] = s[i + k]
  OBVIOUS
<1>2. RemoveAt(s, i) = a \o b
  BY DEF RemoveAt
<1> HIDE DEF a, b
<1>3. /\ a \o b \in Seq(S) /\ Len(a \o b) = Len(s) - 1
      /\ \A k \in 1..(Len(s) - 1) :
           (a \o b)[k] = IF k <= i - 1 THEN a[k] ELSE b[k - (i - 1)]
  <2>1. /\ a \o b \in Seq(S) /\ Len(a \o b) = Len(a) + Len(b)
        /\ \A k \in 1..Len(a \o b) :
             (a \o b)[k] = IF k <= Len(a) THEN a[k] ELSE b[k - Len(a)]
    BY <1>1, Concatenated
  <2>2. Len(a) + Len(b) = Len(s) - 1
    BY <1>1
  <2> QED
    BY <1>1, <2>1, <2>2
<1>4. ASSUME NEW j \in 1..Len(s) \ {i}
      PROVE  \E k \in 1..Len(a \o b) : (a \o b)[k] = s[j]
  <2>1. CASE j < i
    <3>1. j \in 1..Len(a \o b) /\ j <= i - 1 /\ j \in 1..(i - 1)
      BY <1>3, <2>1
    <3>2. (a \o b)[j] = a[j] /\ a[j] = s[j]
      BY <1>1, <1>3, <3>1
    <3> QED
      BY <3>1, <3>2
  <2>2. CASE j > i
    <3>1. j - 1 \in 1..Len(a \o b) /\ ~ (j - 1 <= i - 1) /\ j - i \in 1..(Len(s) - i)
      BY <1>3, <2>2
    <3>2. (a \o b)[j - 1] = b[j - i]
      <4>1. (a \o b)[j - 1] = b[(j - 1) - (i - 1)]
        BY <1>3, <3>1
      <4>2. (j - 1) - (i - 1) = j - i
        BY <3>1
      <4> QED
        BY <4>1, <4>2
    <3>3. b[j - i] = s[j]
      BY <1>1, <3>1
    <3> QED
      BY <3>1, <3>2, <3>3
  <2> QED
    BY <2>1, <2>2
<1> QED
  BY <1>2, <1>3, <1>4

\* Every step keeps every edit.
LEMMA MergeKeeps ==
  ASSUME MergeInv, [MergeNext]_mergeVars
  PROVE  MergeInv'
<1>0. /\ made \subseteq Edits /\ tree \subseteq Edits /\ stashes \in Seq(StashRecords)
      /\ Blocking \subseteq Edits
  BY MergeAssumption DEF MergeInv
<1>u. ASSUME UNCHANGED <<made, tree, stashes>> PROVE MergeInv'
  BY <1>u DEF MergeInv, NoEditLost
<1>1. ASSUME NEW e \in Edits, UserEdits(e) PROVE MergeInv'
  BY <1>1 DEF UserEdits, MergeInv, NoEditLost
<1>2. ASSUME NEW gone \in SUBSET Blocking, BlockersDiscarded(gone) PROVE MergeInv'
  BY <1>0, <1>2 DEF BlockersDiscarded, MergeInv, NoEditLost
<1>3. ASSUME NEW m \in Merges, StashPushed(m) PROVE MergeInv'
  <2>1. CASE tree # {} /\ unmerged = "none"
    <3> DEFINE new == [by |-> m, tagged |-> TRUE, edits |-> tree]
    <3>1. stashes' = <<new>> \o stashes /\ tree' = {} /\ made' = made
      BY <1>3, <2>1 DEF StashPushed
    <3>2. new \in StashRecords /\ new.edits = tree
      BY <1>0 DEF StashRecords
    <3> HIDE DEF new
    <3>3. /\ stashes' \in Seq(StashRecords) /\ Len(stashes') = Len(stashes) + 1
          /\ stashes'[1] = new /\ \A i \in 1..Len(stashes) : stashes'[i + 1] = stashes[i]
      BY <1>0, <3>1, <3>2
    <3>4. /\ 1 \in 1..Len(stashes')
          /\ \A i \in 1..Len(stashes) : i + 1 \in 1..Len(stashes')
      BY <1>0, <3>3
    <3>5. ASSUME NEW e \in made PROVE \E i \in 1..Len(stashes') : e \in stashes'[i].edits
      BY <3>2, <3>3, <3>4 DEF MergeInv, NoEditLost
    <3> QED
      BY <1>0, <3>1, <3>3, <3>5 DEF MergeInv, NoEditLost
  <2>2. CASE ~ (tree # {} /\ unmerged = "none")
    BY <1>3, <1>u, <2>2 DEF StashPushed
  <2> QED
    BY <2>1, <2>2
<1>4. ASSUME NEW m \in Merges, StashPopped(m) PROVE MergeInv'
  <2>1. PICK i : i = request[m].ref
    OBVIOUS
  <2>2. CASE /\ PopFits(i) /\ tree' = tree \cup stashes[i].edits
             /\ stashes' = RemoveAt(stashes, i)
    <3>1. /\ i \in 1..Len(stashes) /\ stashes[i].edits \subseteq Edits /\ made' = made
      <4>1. i \in 1..Len(stashes) /\ made' = made
        BY <1>4, <2>2 DEF PopFits, StashPopped
      <4>2. stashes[i] \in StashRecords
        BY <1>0, <4>1
      <4> QED
        BY <4>1, <4>2 DEF StashRecords
    <3>2. /\ stashes' \in Seq(StashRecords)
          /\ \A j \in 1..Len(stashes) \ {i} :
               \E k \in 1..Len(stashes') : stashes'[k] = stashes[j]
      BY <1>0, <2>2, <3>1, WithoutOne
    <3>3. NoEditLost'
      <4> SUFFICES ASSUME NEW e \in made, e \notin tree'
                   PROVE  \E k \in 1..Len(stashes') : e \in stashes'[k].edits
        BY <3>1 DEF NoEditLost
      <4>1. PICK j \in 1..Len(stashes) : e \in stashes[j].edits
        BY <2>2 DEF MergeInv, NoEditLost
      <4>2. j # i
        BY <2>2, <4>1
      <4> QED
        BY <3>2, <4>1, <4>2
    <3> QED
      BY <1>0, <2>2, <3>1, <3>2, <3>3 DEF MergeInv
  <2>3. CASE tree' = tree /\ stashes' = stashes
    BY <1>4, <1>u, <2>3 DEF StashPopped
  <2> QED
    BY <1>4, <2>1, <2>2, <2>3 DEF StashPopped, TreeAfter
<1>5. ASSUME NEW m \in Merges,
             \/ \E b \in Branches, first \in BOOLEAN : MergeRequested(m, b, first)
             \/ StashTaken(m) \/ MergeRefused(m)
             \/ \E s \in {"merge", "squash", "rebase"} : MergeSucceeds(m, s) \/ MergeConflicts(m, s)
             \/ StashListed(m) \/ CleanedUp(m) \/ StashAskedBack(m)
      PROVE  MergeInv'
  BY <1>5, <1>u DEF MergeRequested, StashTaken, MergeRefused, MergeSucceeds, MergeConflicts,
                    StashListed, CleanedUp, StashAskedBack
<1>6. CASE MergeAborted \/ MergeCompleted \/ UNCHANGED mergeVars
  BY <1>6, <1>u DEF MergeAborted, MergeCompleted, mergeVars
<1> QED
  BY <1>1, <1>2, <1>3, <1>4, <1>5, <1>6 DEF MergeNext

\* The first state satisfies the invariant.
LEMMA MergeStart == MergeInit => MergeInv
<1> SUFFICES ASSUME MergeInit PROVE MergeInv
  OBVIOUS
<1>1. [by |-> "user", tagged |-> FALSE, edits |-> {}] \in StashRecords
  BY DEF StashRecords
<1>2. stashes \in Seq(StashRecords)
  <2>1. CASE stashes = <<>>
    BY <2>1
  <2>2. CASE stashes = <<[by |-> "user", tagged |-> FALSE, edits |-> {}]>>
    BY <1>1, <2>2
  <2> QED
    BY <2>1, <2>2 DEF MergeInit
<1> QED
  BY <1>2 DEF MergeInit, MergeInv, NoEditLost

\* What the user changed in the main worktree is in its tree or in a stash until he
\* discards it (git-worktree-handlers.ts), for any number of merges and edits.
THEOREM NoEditLostHolds == MergeSpec => []NoEditLost
<1>1. MergeInv /\ [MergeNext]_mergeVars => MergeInv'
  BY MergeKeeps
<1>2. MergeInv => NoEditLost
  BY DEF MergeInv
<1> QED
  BY <1>1, <1>2, MergeStart, PTL DEF MergeSpec

--------------------------------------------------------------------------------
\* Grades.

\* A quotient lies between a and b when the dividend does, in terms of the divisor.
LEMMA QuotientBetween ==
  ASSUME NEW x \in Int, NEW m \in Nat, m > 0, NEW a \in Int, NEW b \in Int,
         a * m <= x, x < (b + 1) * m
  PROVE  x \div m \in a..b
<1> DEFINE q == x \div m
<1>1. q \in Int /\ q * m <= x /\ x < (q + 1) * m
  OBVIOUS
<1> HIDE DEF q
<1>2. ASSUME q < a PROVE FALSE
  <2>1. q + 1 <= a
    BY <1>1, <1>2
  <2>2. (q + 1) * m <= a * m
    BY <1>1, <2>1
  <2> QED
    BY <1>1, <2>2
<1>3. ASSUME q > b PROVE FALSE
  <2>1. b + 1 <= q
    BY <1>1, <1>3
  <2>2. (b + 1) * m <= q * m
    BY <1>1, <2>1
  <2> QED
    BY <1>1, <2>2
<1>4. q \in a..b
  BY <1>1, <1>2, <1>3
<1> QED
  BY <1>4 DEF q

\* A position within a band, and the letters.
Positions == {p \in Nat \X Nat : p[1] <= p[2] /\ p[2] > 0}
Letters == F..A

\* Every position in the band of a letter is a score of that letter.
LEMMA BandScore ==
  ASSUME NEW l \in Letters, NEW num \in Nat, NEW den \in Nat, num <= den, den > 0
  PROVE  /\ ScoreInBand(l, num, den) \in BandBottom[l]..BandTop[l]
         /\ ScoreInBand(l, num, den) \in 0..100
<1> DEFINE X(bot, top) == 2 * (bot * den + (top - bot) * num) + den
<1>1. ASSUME NEW bot \in 0..100, NEW top \in 0..100, bot <= top
      PROVE  X(bot, top) \div (2 * den) \in bot..top
  <2>1. bot * den \in Nat /\ (top - bot) * num \in Nat /\ (top - bot) * num <= (top - bot) * den
    <3>1. PICK w \in Nat, d \in Nat : w = top - bot /\ den = num + d
      <4>1. den - num \in Nat /\ den = num + (den - num) /\ top - bot \in Nat
        BY <1>1
      <4> QED
        BY <4>1
    <3>2. w * num \in Nat /\ w * d \in Nat /\ w * (num + d) = w * num + w * d
      OBVIOUS
    <3>3. bot * den \in Nat
      OBVIOUS
    <3> QED
      BY <3>1, <3>2, <3>3
  <2>2. (top - bot) * den = top * den - bot * den
    OBVIOUS
  <2>3. bot * (2 * den) = 2 * (bot * den) /\ (top + 1) * (2 * den) = 2 * (top * den) + 2 * den
    OBVIOUS
  <2>4. /\ X(bot, top) \in Int /\ bot * (2 * den) <= X(bot, top)
        /\ X(bot, top) < (top + 1) * (2 * den)
    BY <2>1, <2>2, <2>3
  <2>5. 2 * den \in Nat /\ 2 * den > 0
    OBVIOUS
  <2> HIDE DEF X
  <2> QED
    BY <2>4, <2>5, QuotientBetween
<1>2. /\ BandBottom[l] \in 0..100 /\ BandTop[l] \in 0..100 /\ BandBottom[l] <= BandTop[l]
  BY DEF Letters, F, A, BandBottom, BandTop
<1>3. ScoreInBand(l, num, den) = X(BandBottom[l], BandTop[l]) \div (2 * den)
  BY DEF ScoreInBand
<1> HIDE DEF X
<1>4. ScoreInBand(l, num, den) \in BandBottom[l]..BandTop[l]
  BY <1>1, <1>2, <1>3
<1> QED
  BY <1>2, <1>4

\* Every score has its one grade.
LEMMA GradeOfScore ==
  ASSUME NEW s \in 0..100
  PROVE  ScoreToGrade(s) \in 0..11 /\ InGrade(s, ScoreToGrade(s))
<1>1. \E g \in 0..11 : InGrade(s, g)
  BY DEF InGrade, GradeLow
<1> QED
  BY <1>1 DEF ScoreToGrade

\* A score in the band of a letter has a grade of that letter.
LEMMA LetterOfBand ==
  ASSUME NEW l \in Letters, NEW s \in 0..100, s \in BandBottom[l]..BandTop[l]
  PROVE  Letter(ScoreToGrade(s)) = l
<1>1. PICK g \in 0..11 : g = ScoreToGrade(s) /\ InGrade(s, g)
  BY GradeOfScore
<1>2. Letter(g) = l
  BY <1>1 DEF Letters, InGrade, GradeLow, Letter, F, A, BandBottom, BandTop
<1> QED
  BY <1>1, <1>2

--------------------------------------------------------------------------------
\* The ladders: more findings, or the same, never reach a higher step.
Steps == {s \in Nat \X Nat \X Nat : 0 < s[1] /\ s[1] < s[2] /\ s[2] < s[3]}

\* The letter of a ladder is that of the first step the count stays under.
LEMMA LadderStep ==
  ASSUME NEW n \in Nat, NEW unit \in Nat, unit > 0,
         NEW s1 \in Nat, NEW s2 \in Nat, NEW s3 \in Nat, 0 < s1, s1 < s2, s2 < s3,
         NEW closed \in BOOLEAN
  PROVE  LET b == Ladder(n, unit, <<s1, s2, s3>>, closed)
         IN  /\ b.letter \in Letters /\ b.num \in Nat /\ b.den \in Nat
             /\ b.num <= b.den /\ b.den > 0
             /\ b.letter = IF Under(n, unit, s1, closed) THEN A
                           ELSE IF Under(n, unit, s2, closed) THEN B
                           ELSE IF Under(n, unit, s3, closed) THEN C ELSE F
<1>1. PICK p1 \in Nat, p2 \in Nat, p3 \in Nat, d2 \in Nat, d3 \in Nat :
        /\ p1 = s1 * unit /\ p2 = s2 * unit /\ p3 = s3 * unit
        /\ d2 = (s2 - s1) * unit /\ d3 = (s3 - s2) * unit
        /\ p1 > 0 /\ d2 > 0 /\ d3 > 0 /\ p2 = p1 + d2 /\ p3 = p2 + d3
  <2>1. PICK e2 \in Nat, e3 \in Nat : e2 = s2 - s1 /\ e3 = s3 - s2 /\ e2 > 0 /\ e3 > 0
    <3>1. s2 - s1 \in Nat /\ s3 - s2 \in Nat /\ s2 - s1 > 0 /\ s3 - s2 > 0
      OBVIOUS
    <3> QED
      BY <3>1
  <2>2. s1 * unit \in Nat /\ s1 * unit > 0
    OBVIOUS
  <2>3. e2 * unit \in Nat /\ e2 * unit > 0 /\ e3 * unit \in Nat /\ e3 * unit > 0
    BY <2>1
  <2>4. s2 = s1 + e2 /\ s3 = s2 + e3
    BY <2>1
  <2>5. s2 * unit = s1 * unit + e2 * unit /\ s3 * unit = s2 * unit + e3 * unit
    BY <2>4
  <2> QED
    BY <2>1, <2>2, <2>3, <2>5
<1> DEFINE U(step) == IF closed THEN 2 * n <= step ELSE 2 * n < step
<1>2. /\ Under(n, unit, s1, closed) <=> U(p1)
      /\ Under(n, unit, s2, closed) <=> U(p2)
      /\ Under(n, unit, s3, closed) <=> U(p3)
  BY <1>1 DEF Under
<1>3. Ladder(n, unit, <<s1, s2, s3>>, closed) =
        CASE U(p1) -> [letter |-> A, num |-> p1 - 2 * n, den |-> p1]
          [] ~ U(p1) /\ U(p2) -> [letter |-> B, num |-> p2 - 2 * n, den |-> d2]
          [] ~ U(p2) /\ U(p3) -> [letter |-> C, num |-> p3 - 2 * n, den |-> d3]
          [] ~ U(p3) -> [letter |-> F, num |-> p3, den |-> 2 * n]
  BY <1>1, <1>2 DEF Ladder
<1>4. A \in Letters /\ B \in Letters /\ C \in Letters /\ F \in Letters
  BY DEF Letters, A, B, C, F
<1>5. CASE U(p1)
  <2>1. ~ (~ U(p1) /\ U(p2)) /\ ~ (~ U(p2) /\ U(p3)) /\ ~ ~ U(p3)
    BY <1>1, <1>5
  <2>2. Ladder(n, unit, <<s1, s2, s3>>, closed) = [letter |-> A, num |-> p1 - 2 * n, den |-> p1]
    BY <1>3, <1>5, <2>1
  <2>3. p1 - 2 * n \in Nat /\ p1 - 2 * n <= p1
    BY <1>1, <1>5
  <2> QED
    BY <1>1, <1>2, <1>4, <1>5, <2>2, <2>3
<1>6. CASE ~ U(p1) /\ U(p2)
  <2>1. ~ (~ U(p2) /\ U(p3)) /\ ~ ~ U(p3)
    BY <1>1, <1>6
  <2>2. Ladder(n, unit, <<s1, s2, s3>>, closed) = [letter |-> B, num |-> p2 - 2 * n, den |-> d2]
    BY <1>3, <1>6, <2>1
  <2>3. p2 - 2 * n \in Nat /\ p2 - 2 * n <= d2
    BY <1>1, <1>6
  <2> QED
    BY <1>1, <1>2, <1>4, <1>6, <2>2, <2>3
<1>7. CASE ~ U(p2) /\ U(p3)
  <2>1. ~ U(p1)
    BY <1>1, <1>7
  <2>2. Ladder(n, unit, <<s1, s2, s3>>, closed) = [letter |-> C, num |-> p3 - 2 * n, den |-> d3]
    BY <1>3, <1>7, <2>1
  <2>3. p3 - 2 * n \in Nat /\ p3 - 2 * n <= d3
    BY <1>1, <1>7
  <2> QED
    BY <1>1, <1>2, <1>4, <1>7, <2>1, <2>2, <2>3
<1>8. CASE ~ U(p3)
  <2>1. ~ U(p1) /\ ~ U(p2)
    BY <1>1, <1>8
  <2>2. Ladder(n, unit, <<s1, s2, s3>>, closed) = [letter |-> F, num |-> p3, den |-> 2 * n]
    BY <1>3, <1>8, <2>1
  <2>3. p3 <= 2 * n /\ 2 * n > 0
    BY <1>1, <1>8
  <2> QED
    BY <1>1, <1>2, <1>4, <1>8, <2>1, <2>2, <2>3
<1> QED
  BY <1>5, <1>6, <1>7, <1>8

\* A step that a count stays under, a smaller one does too.
LEMMA MoreReachesNoStep ==
  ASSUME NEW n \in Nat, NEW m \in Nat, n <= m, NEW unit \in Nat, NEW s \in Nat,
         NEW closed \in BOOLEAN, Under(m, unit, s, closed)
  PROVE  Under(n, unit, s, closed)
BY DEF Under

\* The bands of the ladders, and findings by severity.
Bands == {b \in [letter : Letters, num : Nat, den : Nat] : b.num <= b.den /\ b.den > 0}
Counts == [Severities -> Nat]

\* A ladder puts every count in a band, and a larger count in none better.
LEMMA LadderBand ==
  ASSUME NEW n \in Nat, NEW unit \in Nat, unit > 0,
         NEW s1 \in Nat, NEW s2 \in Nat, NEW s3 \in Nat, 0 < s1, s1 < s2, s2 < s3,
         NEW closed \in BOOLEAN
  PROVE  /\ Ladder(n, unit, <<s1, s2, s3>>, closed) \in Bands
         /\ \A m \in Nat : n <= m =>
              Ladder(m, unit, <<s1, s2, s3>>, closed).letter
                <= Ladder(n, unit, <<s1, s2, s3>>, closed).letter
<1> DEFINE b(m) == Ladder(m, unit, <<s1, s2, s3>>, closed)
           Rung(m) == IF Under(m, unit, s1, closed) THEN A
                      ELSE IF Under(m, unit, s2, closed) THEN B
                      ELSE IF Under(m, unit, s3, closed) THEN C ELSE F
<1>1. ASSUME NEW m \in Nat
      PROVE  /\ b(m).letter \in Letters /\ b(m).num \in Nat /\ b(m).den \in Nat
             /\ b(m).num <= b(m).den /\ b(m).den > 0 /\ b(m).letter = Rung(m)
  BY LadderStep
<1>2. b(n) \in [letter : Letters, num : Nat, den : Nat]
  <2>1. \E l, x, y : b(n) = [letter |-> l, num |-> x, den |-> y]
    BY DEF Ladder
  <2>2. PICK l, x, y : b(n) = [letter |-> l, num |-> x, den |-> y]
    BY <2>1
  <2> HIDE DEF b
  <2> QED
    BY <1>1, <2>2
<1>3. ASSUME NEW m \in Nat, n <= m PROVE b(m).letter <= b(n).letter
  <2>1. /\ Under(m, unit, s1, closed) => Under(n, unit, s1, closed)
        /\ Under(m, unit, s2, closed) => Under(n, unit, s2, closed)
        /\ Under(m, unit, s3, closed) => Under(n, unit, s3, closed)
    BY <1>3, MoreReachesNoStep
  <2>2. Rung(m) <= Rung(n)
    BY <2>1 DEF A, B, C, F
  <2> HIDE DEF b, Rung
  <2> QED
    BY <1>1, <2>2
<1> HIDE DEF b
<1>4. b(n) \in Bands
  BY <1>1, <1>2 DEF Bands
<1> QED
  BY <1>3, <1>4 DEF b

\* The band of the larger of two counts is no better.
Falls(n, m, unit, s, closed) ==
  /\ Ladder(n, unit, s, closed) \in Bands
  /\ Ladder(m, unit, s, closed).letter <= Ladder(n, unit, s, closed).letter

\* So it is for every ladder whose steps grow.
LEMMA LadderOfSteps ==
  ASSUME NEW n \in Nat, NEW m \in Nat, n <= m, NEW unit \in Nat, unit > 0, NEW s \in Steps
  PROVE  Falls(n, m, unit, s, TRUE) /\ Falls(n, m, unit, s, FALSE)
<1>1. PICK s1 \in Nat, s2 \in Nat, s3 \in Nat : s = <<s1, s2, s3>>
  BY DEF Steps
<1>2. 0 < s1 /\ s1 < s2 /\ s2 < s3
  BY <1>1 DEF Steps
<1>3. \A closed \in BOOLEAN : Falls(n, m, unit, <<s1, s2, s3>>, closed)
  BY <1>2, LadderBand DEF Falls
<1>4. Falls(n, m, unit, s, TRUE)
  BY <1>1, <1>3
<1>5. Falls(n, m, unit, s, FALSE)
  BY <1>1, <1>3
<1> QED
  BY <1>4, <1>5

\* The two bands of a number of findings.
Kilo(n) == 1000 * n

\* The bands of the two dimensions, of any number of findings and lines.
LEMMA BandOfFindings ==
  ASSUME NEW n \in Nat, NEW m \in Nat, n <= m, NEW lines \in Nat
  PROVE  /\ ReliabilityBand(n, lines) \in Bands /\ MaintainabilityBand(n, lines) \in Bands
         /\ ReliabilityBand(m, lines).letter <= ReliabilityBand(n, lines).letter
         /\ MaintainabilityBand(m, lines).letter <= MaintainabilityBand(n, lines).letter
<1>1. /\ <<4, 12, 30>> \in Steps /\ <<10, 30, 60>> \in Steps
      /\ <<3, 8, 16>> \in Steps /\ <<10, 20, 50>> \in Steps
  BY DEF Steps
<1>2. CASE lines < 5000
  <2>1. 1 \in Nat /\ 1 > 0
    OBVIOUS
  <2>2. Falls(n, m, 1, <<4, 12, 30>>, TRUE) /\ Falls(n, m, 1, <<10, 30, 60>>, TRUE)
    BY <1>1, <2>1, LadderOfSteps
  <2>3. \A k \in {n, m} :
          /\ ReliabilityBand(k, lines) = Ladder(k, 1, <<4, 12, 30>>, TRUE)
          /\ MaintainabilityBand(k, lines) = Ladder(k, 1, <<10, 30, 60>>, TRUE)
    BY <1>2 DEF ReliabilityBand, MaintainabilityBand
  <2> QED
    BY <2>2, <2>3, Zenon DEF Falls
<1>3. CASE ~ lines < 5000
  <2>1. Kilo(n) \in Nat /\ Kilo(m) \in Nat /\ Kilo(n) <= Kilo(m)
    BY DEF Kilo
  <2>2. lines > 0
    BY <1>3
  <2>3. /\ Falls(Kilo(n), Kilo(m), lines, <<3, 8, 16>>, FALSE)
        /\ Falls(Kilo(n), Kilo(m), lines, <<10, 20, 50>>, FALSE)
    BY <1>1, <2>1, <2>2, LadderOfSteps
  <2>4. \A k \in {n, m} :
          /\ ReliabilityBand(k, lines) = Ladder(Kilo(k), lines, <<3, 8, 16>>, FALSE)
          /\ MaintainabilityBand(k, lines) = Ladder(Kilo(k), lines, <<10, 20, 50>>, FALSE)
    BY <1>3 DEF ReliabilityBand, MaintainabilityBand, Kilo
  <2> QED
    BY <2>3, <2>4, Zenon DEF Falls
<1> QED
  BY <1>2, <1>3

\* A score made in the band of letter l, and the grade of it.
IsScore(s, l) == s \in 0..100 /\ Letter(ScoreToGrade(s)) = l

\* The score of a band is of its letter.
LEMMA ScoreOfBand ==
  ASSUME NEW l \in Letters, NEW num \in Nat, NEW den \in Nat, num <= den, den > 0
  PROVE  IsScore(ScoreInBand(l, num, den), l)
BY BandScore, LetterOfBand DEF IsScore

\* The worse of two letters, and the best one severe findings leave.
Worse(l, m) == IF l <= m THEN l ELSE m
Cap(n) == IF n["critical"] > 0 THEN F ELSE IF n["high"] > 0 THEN C ELSE A

\* A severe finding caps the letter of the ladder.
LEMMA CappedLetter ==
  ASSUME NEW n \in Counts, NEW b \in Bands
  PROVE  IsScore(Capped(n, b), Worse(Cap(n), b.letter))
<1>1. /\ b.letter \in Letters /\ b.num \in Nat /\ b.den \in Nat /\ b.num <= b.den /\ b.den > 0
      /\ n["critical"] \in Nat /\ n["high"] \in Nat
  BY DEF Bands, Counts, Severities
<1>2. /\ IsScore(ScoreInBand(F, 1, 2), F) /\ IsScore(ScoreInBand(C, 1, 2), C)
      /\ IsScore(ScoreInBand(b.letter, b.num, b.den), b.letter)
  <2>1. F \in Letters /\ C \in Letters
    BY DEF Letters, F, C, A
  <2> QED
    BY <1>1, <2>1, ScoreOfBand
<1>3. b.letter \in {F, C, B, A}
  BY <1>1 DEF Letters, F, C, B, A
<1>4. CASE n["critical"] > 0
  <2>1. CASE F < b.letter
    <3>1. Capped(n, b) = ScoreInBand(F, 1, 2) /\ Worse(Cap(n), b.letter) = F
      BY <1>3, <1>4, <2>1 DEF Capped, Worse, Cap, F, C, B, A
    <3> QED
      BY <1>2, <3>1
  <2>2. CASE ~ F < b.letter
    <3>1. Capped(n, b) = ScoreInBand(b.letter, b.num, b.den) /\ Worse(Cap(n), b.letter) = b.letter
      BY <1>3, <1>4, <2>2 DEF Capped, Worse, Cap, F, C, B, A
    <3> QED
      BY <1>2, <3>1
  <2> QED
    BY <2>1, <2>2
<1>5. CASE ~ n["critical"] > 0
  <2>1. n["critical"] = 0
    BY <1>1, <1>5
  <2>2. CASE n["high"] > 0 /\ C < b.letter
    <3>1. Capped(n, b) = ScoreInBand(C, 1, 2) /\ Worse(Cap(n), b.letter) = C
      BY <1>3, <2>1, <2>2 DEF Capped, Worse, Cap, F, C, B, A
    <3> QED
      BY <1>2, <3>1
  <2>3. CASE ~ (n["high"] > 0 /\ C < b.letter)
    <3>1. Capped(n, b) = ScoreInBand(b.letter, b.num, b.den) /\ Worse(Cap(n), b.letter) = b.letter
      BY <1>3, <2>1, <2>3 DEF Capped, Worse, Cap, F, C, B, A
    <3> QED
      BY <1>2, <3>1
  <2> QED
    BY <2>2, <2>3
<1> QED
  BY <1>4, <1>5

\* It is a letter.
LEMMA WorseLetter == \A l, m \in Letters : Worse(l, m) \in Letters
BY DEF Worse

\* The total of the findings is a number, zero only if each count is.
LEMMA TotalOf ==
  ASSUME NEW n \in Counts
  PROVE  /\ n["critical"] \in Nat /\ n["high"] \in Nat /\ n["medium"] \in Nat /\ n["low"] \in Nat
         /\ Total(n) \in Nat
         /\ Total(n) = 0 => n["critical"] = 0 /\ n["high"] = 0 /\ n["medium"] = 0 /\ n["low"] = 0
BY DEF Counts, Severities, Total

\* The letters of the dimensions.
SecurityLetter(n) ==
  IF n["critical"] > 0 \/ n["high"] > 0 THEN F
  ELSE IF n["medium"] > 0 THEN C
  ELSE IF n["low"] > 0 THEN B ELSE A
ReliabilityLetter(n, lines) ==
  IF Total(n) = 0 \/ OneLow(n) THEN A ELSE Worse(Cap(n), ReliabilityBand(Total(n), lines).letter)
MaintainabilityLetter(n, lines) ==
  IF Total(n) = 0 THEN A ELSE Worse(Cap(n), MaintainabilityBand(Total(n), lines).letter)

\* The full score is an A, one up to 55 an F.
LEMMA Extremes ==
  /\ IsScore(100, A)
  /\ \A s \in 0..55 : IsScore(s, F)
<1>1. IsScore(100, A)
  <2>1. 100 \in BandBottom[A]..BandTop[A] /\ 100 \in 0..100 /\ A \in Letters
    BY DEF BandBottom, BandTop, F, A, Letters
  <2> QED
    BY <2>1, LetterOfBand DEF IsScore
<1>2. ASSUME NEW s \in 0..55 PROVE IsScore(s, F)
  <2>1. s \in 0..100
    OBVIOUS
  <2>2. PICK g \in 0..11 : g = ScoreToGrade(s) /\ InGrade(s, g)
    BY <2>1, GradeOfScore
  <2>3. g = 0
    BY <2>2 DEF InGrade, GradeLow
  <2> QED
    BY <2>1, <2>2, <2>3 DEF IsScore, Letter, F
<1> QED
  BY <1>1, <1>2

\* The scores of the three dimensions are of their letters.
LEMMA SecurityScored ==
  ASSUME NEW n \in Counts
  PROVE  IsScore(SecurityScore(n), SecurityLetter(n)) /\ SecurityLetter(n) \in Letters
<1>1. /\ n["critical"] \in Nat /\ n["high"] \in Nat /\ n["medium"] \in Nat /\ n["low"] \in Nat
      /\ Total(n) = 0 <=> n["critical"] = 0 /\ n["high"] = 0 /\ n["medium"] = 0 /\ n["low"] = 0
  BY DEF Counts, Severities, Total
<1>2. F \in Letters /\ C \in Letters /\ B \in Letters /\ A \in Letters
  BY DEF F, C, B, A, Letters
<1>3. CASE Total(n) = 0
  <2>1. SecurityScore(n) = 100 /\ SecurityLetter(n) = A
    BY <1>1, <1>3 DEF SecurityScore, SecurityLetter
  <2> QED
    BY <1>2, <2>1, Extremes
<1>4. CASE Total(n) # 0 /\ n["critical"] > 0
  <2>1. SecurityScore(n) \in 0..55 /\ SecurityLetter(n) = F
    BY <1>1, <1>4 DEF SecurityScore, SecurityLetter
  <2> QED
    BY <1>2, <2>1, Extremes
<1>5. CASE Total(n) # 0 /\ ~ n["critical"] > 0 /\ n["high"] > 0
  <2>1. SecurityScore(n) = ScoreInBand(F, 1, 1 + n["high"]) /\ SecurityLetter(n) = F
    BY <1>1, <1>5 DEF SecurityScore, SecurityLetter
  <2>2. PICK k \in Nat : k = 1 + n["high"] /\ 1 <= k /\ k > 0
    BY <1>1
  <2>3. IsScore(ScoreInBand(F, 1, k), F)
    BY <1>2, <2>2, ScoreOfBand
  <2> QED
    BY <1>2, <2>1, <2>2, <2>3
<1>6. CASE Total(n) # 0 /\ ~ n["critical"] > 0 /\ ~ n["high"] > 0 /\ n["medium"] > 0
  <2>1. SecurityScore(n) = ScoreInBand(C, 1, 1 + n["medium"]) /\ SecurityLetter(n) = C
    BY <1>1, <1>6 DEF SecurityScore, SecurityLetter
  <2>2. PICK k \in Nat : k = 1 + n["medium"] /\ 1 <= k /\ k > 0
    BY <1>1
  <2>3. IsScore(ScoreInBand(C, 1, k), C)
    BY <1>2, <2>2, ScoreOfBand
  <2> QED
    BY <1>2, <2>1, <2>2, <2>3
<1>7. CASE Total(n) # 0 /\ ~ n["critical"] > 0 /\ ~ n["high"] > 0 /\ ~ n["medium"] > 0
  <2>1. SecurityScore(n) = ScoreInBand(B, 1, n["low"]) /\ SecurityLetter(n) = B /\ n["low"] > 0
    BY <1>1, <1>7 DEF SecurityScore, SecurityLetter
  <2>2. PICK k \in Nat : k = n["low"] /\ 1 <= k /\ k > 0
    BY <1>1, <2>1
  <2>3. IsScore(ScoreInBand(B, 1, k), B)
    BY <1>2, <2>2, ScoreOfBand
  <2> QED
    BY <1>2, <2>1, <2>2, <2>3
<1> QED
  BY <1>3, <1>4, <1>5, <1>6, <1>7

\* See SecurityScored.
LEMMA ReliabilityScored ==
  ASSUME NEW n \in Counts, NEW lines \in Nat
  PROVE  /\ IsScore(ReliabilityScore(n, lines), ReliabilityLetter(n, lines))
         /\ ReliabilityLetter(n, lines) \in Letters
<1>1. A \in Letters /\ Total(n) \in Nat /\ Cap(n) \in Letters
  BY TotalOf DEF F, C, A, Letters, Cap
<1>2. ReliabilityBand(Total(n), lines) \in Bands
  BY <1>1, BandOfFindings
<1>3. ReliabilityBand(Total(n), lines).letter \in Letters
  BY <1>2 DEF Bands
<1>4. CASE Total(n) = 0
  BY <1>1, <1>4, Extremes DEF ReliabilityScore, ReliabilityLetter
<1>5. CASE Total(n) # 0 /\ OneLow(n)
  <2>1. IsScore(ScoreInBand(A, 1, 2), A)
    BY <1>1, ScoreOfBand
  <2> QED
    BY <1>1, <1>5, <2>1 DEF ReliabilityScore, ReliabilityLetter
<1>6. CASE Total(n) # 0 /\ ~ OneLow(n)
  <2>1. /\ ReliabilityScore(n, lines) = Capped(n, ReliabilityBand(Total(n), lines))
        /\ ReliabilityLetter(n, lines) = Worse(Cap(n), ReliabilityBand(Total(n), lines).letter)
    BY <1>6 DEF ReliabilityScore, ReliabilityLetter
  <2> QED
    BY <1>1, <1>2, <1>3, <2>1, CappedLetter, WorseLetter, Zenon
<1> QED
  BY <1>4, <1>5, <1>6

\* See SecurityScored.
LEMMA MaintainabilityScored ==
  ASSUME NEW n \in Counts, NEW lines \in Nat
  PROVE  /\ IsScore(MaintainabilityScore(n, lines), MaintainabilityLetter(n, lines))
         /\ MaintainabilityLetter(n, lines) \in Letters
<1>1. A \in Letters /\ Total(n) \in Nat /\ Cap(n) \in Letters
  BY TotalOf DEF F, C, A, Letters, Cap
<1>2. MaintainabilityBand(Total(n), lines) \in Bands
  BY <1>1, BandOfFindings
<1>3. MaintainabilityBand(Total(n), lines).letter \in Letters
  BY <1>2 DEF Bands
<1>4. CASE Total(n) = 0
  BY <1>1, <1>4, Extremes DEF MaintainabilityScore, MaintainabilityLetter
<1>5. CASE Total(n) # 0
  <2>1. /\ MaintainabilityScore(n, lines) = Capped(n, MaintainabilityBand(Total(n), lines))
        /\ MaintainabilityLetter(n, lines) = Worse(Cap(n), MaintainabilityBand(Total(n), lines).letter)
    BY <1>5 DEF MaintainabilityScore, MaintainabilityLetter
  <2> QED
    BY <1>1, <1>2, <1>3, <2>1, CappedLetter, WorseLetter, Zenon
<1> QED
  BY <1>4, <1>5

\* More findings, of whatever severity, never give a better letter.
More(n, m) == \A s \in Severities : n[s] <= m[s]

\* More findings have a larger total.
LEMMA MoreOf ==
  ASSUME NEW n \in Counts, NEW m \in Counts, More(n, m)
  PROVE  /\ n["critical"] <= m["critical"] /\ n["high"] <= m["high"]
         /\ n["medium"] <= m["medium"] /\ n["low"] <= m["low"] /\ Total(n) <= Total(m)
<1>1. /\ n["critical"] <= m["critical"] /\ n["high"] <= m["high"]
      /\ n["medium"] <= m["medium"] /\ n["low"] <= m["low"]
  BY DEF More, Severities
<1> QED
  BY <1>1, TotalOf DEF Total

\* No letter rises with more findings.
LEMMA LettersFall ==
  ASSUME NEW n \in Counts, NEW m \in Counts, More(n, m), NEW lines \in Nat
  PROVE  /\ SecurityLetter(m) <= SecurityLetter(n)
         /\ ReliabilityLetter(m, lines) <= ReliabilityLetter(n, lines)
         /\ MaintainabilityLetter(m, lines) <= MaintainabilityLetter(n, lines)
<1>1. /\ n["critical"] <= m["critical"] /\ n["high"] <= m["high"]
      /\ n["medium"] <= m["medium"] /\ n["low"] <= m["low"] /\ Total(n) <= Total(m)
  BY MoreOf
<1>2. /\ n["critical"] \in Nat /\ n["high"] \in Nat /\ n["medium"] \in Nat /\ n["low"] \in Nat
      /\ m["critical"] \in Nat /\ m["high"] \in Nat /\ m["medium"] \in Nat /\ m["low"] \in Nat
      /\ Total(n) \in Nat /\ Total(m) \in Nat
  BY TotalOf
<1>3. SecurityLetter(m) <= SecurityLetter(n)
  BY <1>1, <1>2 DEF SecurityLetter, F, C, B, A
<1>4. Cap(m) <= Cap(n) /\ Cap(m) \in Letters /\ Cap(n) \in Letters
  BY <1>1, <1>2 DEF Cap, F, C, A, Letters
<1>5. /\ ReliabilityBand(Total(m), lines).letter <= ReliabilityBand(Total(n), lines).letter
      /\ MaintainabilityBand(Total(m), lines).letter <= MaintainabilityBand(Total(n), lines).letter
      /\ ReliabilityBand(Total(m), lines).letter \in Letters
      /\ ReliabilityBand(Total(n), lines).letter \in Letters
      /\ MaintainabilityBand(Total(m), lines).letter \in Letters
      /\ MaintainabilityBand(Total(n), lines).letter \in Letters
  <2>1. ASSUME NEW k \in Nat
        PROVE  /\ ReliabilityBand(k, lines).letter \in Letters
               /\ MaintainabilityBand(k, lines).letter \in Letters
    <3>1. ReliabilityBand(k, lines) \in Bands /\ MaintainabilityBand(k, lines) \in Bands
      BY BandOfFindings
    <3> QED
      BY <3>1 DEF Bands
  <2>2. /\ ReliabilityBand(Total(m), lines).letter <= ReliabilityBand(Total(n), lines).letter
        /\ MaintainabilityBand(Total(m), lines).letter <= MaintainabilityBand(Total(n), lines).letter
    BY <1>1, <1>2, BandOfFindings
  <2> QED
    BY <1>2, <2>1, <2>2
<1>6. /\ Worse(Cap(m), ReliabilityBand(Total(m), lines).letter)
           <= Worse(Cap(n), ReliabilityBand(Total(n), lines).letter)
      /\ Worse(Cap(m), MaintainabilityBand(Total(m), lines).letter)
           <= Worse(Cap(n), MaintainabilityBand(Total(n), lines).letter)
  BY <1>4, <1>5 DEF Worse, Letters, F, A
<1>7. ReliabilityLetter(m, lines) <= ReliabilityLetter(n, lines)
  <2>1. ReliabilityLetter(m, lines) \in Letters
    BY ReliabilityScored
  <2>2. CASE Total(n) = 0 \/ OneLow(n)
    BY <2>1, <2>2 DEF ReliabilityLetter, Letters, F, A
  <2>3. CASE ~ (Total(n) = 0 \/ OneLow(n))
    <3>1. ~ (Total(m) = 0 \/ OneLow(m))
      BY <1>1, <1>2, <2>3 DEF OneLow, Total
    <3> QED
      BY <1>6, <2>3, <3>1 DEF ReliabilityLetter
  <2> QED
    BY <2>2, <2>3
<1>8. MaintainabilityLetter(m, lines) <= MaintainabilityLetter(n, lines)
  <2>1. MaintainabilityLetter(m, lines) \in Letters
    BY MaintainabilityScored
  <2>2. CASE Total(n) = 0
    BY <2>1, <2>2 DEF MaintainabilityLetter, Letters, F, A
  <2>3. CASE Total(n) # 0
    <3>1. Total(m) # 0
      BY <1>1, <1>2, <2>3
    <3> QED
      BY <1>6, <2>3, <3>1 DEF MaintainabilityLetter
  <2> QED
    BY <2>2, <2>3
<1> QED
  BY <1>3, <1>7, <1>8

--------------------------------------------------------------------------------
\* The penalty of the architecture's findings, and the grades of a dimension.
Fallen(l, drop) == IF l >= drop THEN l - drop ELSE F
IsRating(d, l) ==
  d.grade \in 0..11 /\ d.score \in 0..100 /\ InGrade(d.score, d.grade) /\ Letter(d.grade) = l

\* A score moved to the anchor of its grade is of that grade.
LEMMA AnchorInGrade ==
  ASSUME NEW g \in 0..11, NEW s \in 0..100
  PROVE  AnchorScore(g, s) \in 0..100 /\ InGrade(AnchorScore(g, s), g)
BY DEF AnchorScore, InGrade, GradeLow

\* Grades have letters, in their order.
LEMMA LetterOfGrade == \A g \in 0..11 : Letter(g) \in Letters
BY DEF Letter, Letters, F, A

\* See LetterOfGrade.
LEMMA LetterMonotone == \A g, h \in 0..11 : g <= h => Letter(g) <= Letter(h)
BY DEF Letter

\* A score of a letter rates its dimension with that letter.
LEMMA RatedScore ==
  ASSUME NEW s, NEW l, IsScore(s, l)
  PROVE  IsRating(Rated(s), l)
<1>1. s \in 0..100 /\ Letter(ScoreToGrade(s)) = l
  BY DEF IsScore
<1>2. ScoreToGrade(s) \in 0..11 /\ InGrade(s, ScoreToGrade(s))
  BY <1>1, GradeOfScore
<1> QED
  BY <1>1, <1>2 DEF IsRating, Rated

\* A penalty takes whole letters.
LEMMA DroppedLetter ==
  \A g \in 0..11, k \in 0..2 :
    DropLetters(g, k) \in 0..11 /\ Letter(DropLetters(g, k)) = Fallen(Letter(g), k)
BY DEF DropLetters, Letter, Fallen, F

\* What is left is a rating again.
LEMMA PenaltyRates ==
  ASSUME NEW d, NEW l \in Letters, IsRating(d, l), NEW n \in Counts
  PROVE  IsRating(ArchPenalty(d, n), Fallen(l, ArchDrop(n)))
<1> DEFINE g == DropLetters(d.grade, ArchDrop(n))
           s == IF g = d.grade THEN d.score ELSE AnchorScore(g, d.score)
<1>1. /\ d.grade \in 0..11 /\ d.score \in 0..100 /\ InGrade(d.score, d.grade)
      /\ Letter(d.grade) = l
  BY DEF IsRating
<1>2. ArchDrop(n) \in 0..2
  BY DEF ArchDrop
<1>3. g \in 0..11 /\ Letter(g) = Fallen(l, ArchDrop(n))
  BY <1>1, <1>2, DroppedLetter
<1>4. s \in 0..100 /\ InGrade(s, g)
  <2> HIDE DEF g
  <2> QED
    BY <1>1, <1>3, AnchorInGrade
<1>5. ArchPenalty(d, n).grade = g /\ ArchPenalty(d, n).score = s
  BY DEF ArchPenalty
<1> HIDE DEF g, s
<1> QED
  BY <1>3, <1>4, <1>5 DEF IsRating

\* More findings about the architecture cost no fewer letters.
LEMMA DropGrows ==
  ASSUME NEW n \in Counts, NEW m \in Counts, More(n, m)
  PROVE  ArchDrop(n) \in 0..2 /\ ArchDrop(m) \in 0..2 /\ ArchDrop(n) <= ArchDrop(m)
BY MoreOf, TotalOf DEF ArchDrop

\* A lower letter and a larger penalty leave no better letter.
LEMMA FallenFalls ==
  \A l, k \in Letters, i, j \in 0..2 :
    k <= l /\ i <= j => /\ Fallen(k, j) <= Fallen(l, i) /\ Fallen(l, i) <= l
                        /\ Fallen(l, i) \in Letters
BY DEF Fallen, F, Letters, A

--------------------------------------------------------------------------------
\* The letter of each dimension once the architecture is charged for, and whether a
\* report rates it.
FinalLetter(r, d) ==
  CASE d = "security" -> SecurityLetter(r.found["security"])
    [] d = "reliability" -> ReliabilityLetter(r.found["bugs"], r.lines)
    [] d = "maintainability" ->
         Fallen(MaintainabilityLetter(Maintained(r), r.lines), ArchDrop(r.found["architecture"]))
RatesIt(r, d) ==
  \/ d = "security" /\ Total(r.found["security"]) > 0
  \/ d = "reliability" /\ Total(r.found["bugs"]) > 0
  \/ d = "maintainability" /\ r.toolRan

\* A report.
IsReport(r) ==
  /\ r.lines \in Nat /\ r.toolRan \in BOOLEAN
  /\ \A c \in Categories : r.found[c] \in Counts

\* What counts for maintainability are findings again.
LEMMA MaintainedCounts ==
  ASSUME NEW r, IsReport(r)
  PROVE  /\ Maintained(r) \in Counts
         /\ \A s \in Severities :
              Maintained(r)[s] = r.found["lint"][s] + r.found["architecture"][s]
<1>1. r.found["lint"] \in Counts /\ r.found["architecture"] \in Counts
  BY DEF IsReport, Categories
<1> QED
  BY <1>1 DEF Maintained, BothOf, Counts

\* Each dimension a report rates has its letter, and no other is rated.
LEMMA DimensionsRated ==
  ASSUME NEW r, IsReport(r)
  PROVE  /\ \A d : d \in DOMAIN Dimensions(r) <=> RatesIt(r, d)
         /\ \A d \in DOMAIN Dimensions(r) :
              IsRating(Dimensions(r)[d], FinalLetter(r, d)) /\ FinalLetter(r, d) \in Letters
<1>1. /\ r.lines \in Nat /\ r.toolRan \in BOOLEAN
      /\ r.found["security"] \in Counts /\ r.found["bugs"] \in Counts
      /\ r.found["architecture"] \in Counts /\ Maintained(r) \in Counts
  BY MaintainedCounts DEF IsReport, Categories
<1>2. \A d : d \in DOMAIN Dimensions(r) <=> RatesIt(r, d)
  BY DEF Dimensions, RatesIt
<1>3. ASSUME "security" \in DOMAIN Dimensions(r)
      PROVE  IsRating(Dimensions(r)["security"], FinalLetter(r, "security"))
             /\ FinalLetter(r, "security") \in Letters
  <2>1. Dimensions(r)["security"] = Rated(SecurityScore(r.found["security"]))
    BY <1>3 DEF Dimensions
  <2>2. FinalLetter(r, "security") = SecurityLetter(r.found["security"])
    BY DEF FinalLetter
  <2> QED
    BY <1>1, <2>1, <2>2, SecurityScored, RatedScore
<1>4. ASSUME "reliability" \in DOMAIN Dimensions(r)
      PROVE  IsRating(Dimensions(r)["reliability"], FinalLetter(r, "reliability"))
             /\ FinalLetter(r, "reliability") \in Letters
  <2>1. Dimensions(r)["reliability"] = Rated(ReliabilityScore(r.found["bugs"], r.lines))
    BY <1>4 DEF Dimensions
  <2>2. FinalLetter(r, "reliability") = ReliabilityLetter(r.found["bugs"], r.lines)
    BY DEF FinalLetter
  <2> QED
    BY <1>1, <2>1, <2>2, ReliabilityScored, RatedScore
<1>5. ASSUME "maintainability" \in DOMAIN Dimensions(r)
      PROVE  IsRating(Dimensions(r)["maintainability"], FinalLetter(r, "maintainability"))
             /\ FinalLetter(r, "maintainability") \in Letters
  <2> DEFINE l == MaintainabilityLetter(Maintained(r), r.lines)
             n == r.found["architecture"]
             d == Rated(MaintainabilityScore(Maintained(r), r.lines))
  <2>1. Dimensions(r)["maintainability"] = ArchPenalty(d, n)
    BY <1>5 DEF Dimensions
  <2>2. FinalLetter(r, "maintainability") = Fallen(l, ArchDrop(n))
    BY DEF FinalLetter
  <2>3. IsRating(d, l) /\ l \in Letters /\ n \in Counts
    BY <1>1, MaintainabilityScored, RatedScore
  <2> HIDE DEF d, l, n
  <2>4. IsRating(ArchPenalty(d, n), Fallen(l, ArchDrop(n)))
    BY <2>3, PenaltyRates
  <2>5. ArchDrop(n) \in 0..2
    BY DEF ArchDrop
  <2>6. Fallen(l, ArchDrop(n)) \in Letters
    BY <2>3, <2>5 DEF Fallen, Letters, F, A
  <2> QED
    BY <2>1, <2>2, <2>3, <2>4, <2>6
<1>6. \A d \in DOMAIN Dimensions(r) : d \in {"security", "reliability", "maintainability"}
  BY <1>2 DEF RatesIt
<1> QED
  BY <1>2, <1>3, <1>4, <1>5, <1>6

\* Of some dimensions one has the least value.
LEMMA LeastDimension ==
  ASSUME NEW D \in SUBSET {"security", "reliability", "maintainability"}, D # {},
         NEW f, \A d \in D : f[d] \in Nat
  PROVE  \E d \in D : \A e \in D : f[d] <= f[e]
<1>1. PICK x \in D : TRUE
  OBVIOUS
<1>2. PICK y \in D : \A e \in D : e \in {x, y} \/ f[y] <= f[e]
  OBVIOUS
<1> QED
  OBVIOUS

\* The whole is as good as its worst dimension.
LEMMA OverallIsWorst ==
  ASSUME NEW r, IsReport(r), DOMAIN Dimensions(r) # {}
  PROVE  LET all == Overall(Dimensions(r))
         IN  /\ all.grade \in 0..11 /\ InGrade(all.score, all.grade)
             /\ \E d \in DOMAIN Dimensions(r) : Letter(all.grade) = FinalLetter(r, d)
             /\ \A d \in DOMAIN Dimensions(r) : Letter(all.grade) <= FinalLetter(r, d)
<1> DEFINE dims == Dimensions(r)
           Worst(g) == /\ \E d \in DOMAIN dims : dims[d].grade = g
                       /\ \A d \in DOMAIN dims : g <= dims[d].grade
           Lowest(s) == /\ \E d \in DOMAIN dims : dims[d].score = s
                        /\ \A d \in DOMAIN dims : s <= dims[d].score
           g == CHOOSE x \in 0..11 : Worst(x)
           s == CHOOSE x \in 0..100 : Lowest(x)
<1>1. \A d \in DOMAIN dims : IsRating(dims[d], FinalLetter(r, d))
  BY DimensionsRated
<1>2. \A d \in DOMAIN dims : d \in {"security", "reliability", "maintainability"}
  BY DEF Dimensions
<1>3. \A d \in DOMAIN dims : /\ dims[d].grade \in 0..11 /\ dims[d].score \in 0..100
                             /\ Letter(dims[d].grade) = FinalLetter(r, d)
  BY <1>1 DEF IsRating
<1>4. Overall(dims) = [grade |-> g, score |-> AnchorScore(g, s)]
  BY DEF Overall
<1> HIDE DEF dims
<1>5. \E x \in 0..11 : Worst(x)
  <2>1. PICK D, f : D = DOMAIN dims /\ f = [d \in D |-> dims[d].grade]
    OBVIOUS
  <2>2. /\ D \in SUBSET {"security", "reliability", "maintainability"} /\ D # {}
        /\ \A d \in D : f[d] \in Nat /\ f[d] = dims[d].grade
    BY <1>2, <1>3, <2>1 DEF dims
  <2>3. PICK d \in D : \A e \in D : f[d] <= f[e]
    BY <2>2, LeastDimension
  <2> QED
    BY <1>3, <2>1, <2>2, <2>3
<1>6. \E x \in 0..100 : Lowest(x)
  <2>1. PICK D, f : D = DOMAIN dims /\ f = [d \in D |-> dims[d].score]
    OBVIOUS
  <2>2. /\ D \in SUBSET {"security", "reliability", "maintainability"} /\ D # {}
        /\ \A d \in D : f[d] \in Nat /\ f[d] = dims[d].score
    BY <1>2, <1>3, <2>1 DEF dims
  <2>3. PICK d \in D : \A e \in D : f[d] <= f[e]
    BY <2>2, LeastDimension
  <2> QED
    BY <1>3, <2>1, <2>2, <2>3
<1> HIDE DEF Worst, Lowest
<1>7. g \in 0..11 /\ Worst(g)
  BY <1>5
<1>8. s \in 0..100
  BY <1>6
<1> HIDE DEF g, s
<1>9. InGrade(AnchorScore(g, s), g)
  BY <1>7, <1>8, AnchorInGrade
<1>10. \E d \in DOMAIN dims : Letter(g) = FinalLetter(r, d)
  BY <1>3, <1>7 DEF Worst
<1>11. ASSUME NEW d \in DOMAIN dims PROVE Letter(g) <= FinalLetter(r, d)
  BY <1>3, <1>7, LetterMonotone DEF Worst
<1> QED
  BY <1>4, <1>7, <1>9, <1>10, <1>11 DEF dims

--------------------------------------------------------------------------------
\* One report with all the findings of another, and more: a dimension that was rated
\* still is, with a letter no better.
MoreFound(r, q) ==
  /\ q.lines = r.lines /\ q.toolRan = r.toolRan
  /\ \A c \in Categories : More(r.found[c], q.found[c])

\* So the letter of a dimension falls.
LEMMA DimensionFalls ==
  ASSUME NEW r, NEW q, IsReport(r), IsReport(q), MoreFound(r, q), NEW d \in DOMAIN Dimensions(r)
  PROVE  d \in DOMAIN Dimensions(q) /\ FinalLetter(q, d) <= FinalLetter(r, d)
<1>1. RatesIt(r, d) /\ d \in {"security", "reliability", "maintainability"}
  BY DimensionsRated DEF RatesIt
<1>2. /\ r.found["security"] \in Counts /\ q.found["security"] \in Counts
      /\ More(r.found["security"], q.found["security"])
      /\ r.found["bugs"] \in Counts /\ q.found["bugs"] \in Counts
      /\ More(r.found["bugs"], q.found["bugs"])
      /\ r.found["architecture"] \in Counts /\ q.found["architecture"] \in Counts
      /\ More(r.found["architecture"], q.found["architecture"])
      /\ r.found["lint"] \in Counts /\ q.found["lint"] \in Counts
      /\ More(r.found["lint"], q.found["lint"])
      /\ r.lines \in Nat /\ q.lines = r.lines /\ q.toolRan = r.toolRan
  BY DEF IsReport, MoreFound, Categories
<1>3. d \in DOMAIN Dimensions(q)
  <2>1. RatesIt(q, d)
    BY <1>1, <1>2, MoreOf, TotalOf DEF RatesIt
  <2> QED
    BY <2>1, DimensionsRated
<1>4. CASE d = "security"
  <2>1. /\ FinalLetter(r, d) = SecurityLetter(r.found["security"])
        /\ FinalLetter(q, d) = SecurityLetter(q.found["security"])
    BY <1>4 DEF FinalLetter
  <2> QED
    BY <1>2, <1>3, <2>1, LettersFall
<1>5. CASE d = "reliability"
  <2>1. /\ FinalLetter(r, d) = ReliabilityLetter(r.found["bugs"], r.lines)
        /\ FinalLetter(q, d) = ReliabilityLetter(q.found["bugs"], r.lines)
    BY <1>2, <1>5 DEF FinalLetter
  <2>2. ReliabilityLetter(q.found["bugs"], r.lines) <= ReliabilityLetter(r.found["bugs"], r.lines)
    BY <1>2, LettersFall
  <2> QED
    BY <1>2, <1>3, <2>1, <2>2
<1>6. CASE d = "maintainability"
  <2>1. Maintained(r) \in Counts /\ Maintained(q) \in Counts /\ More(Maintained(r), Maintained(q))
    BY <1>2, MaintainedCounts DEF More, Counts
  <2>2. MaintainabilityLetter(Maintained(q), r.lines) <= MaintainabilityLetter(Maintained(r), r.lines)
    BY <1>2, <2>1, LettersFall
  <2>3. /\ MaintainabilityLetter(Maintained(q), r.lines) \in Letters
        /\ MaintainabilityLetter(Maintained(r), r.lines) \in Letters
    BY <1>2, <2>1, MaintainabilityScored
  <2>4. /\ ArchDrop(r.found["architecture"]) \in 0..2 /\ ArchDrop(q.found["architecture"]) \in 0..2
        /\ ArchDrop(r.found["architecture"]) <= ArchDrop(q.found["architecture"])
    BY <1>2, DropGrows
  <2>5. /\ FinalLetter(r, d) =
             Fallen(MaintainabilityLetter(Maintained(r), r.lines), ArchDrop(r.found["architecture"]))
        /\ FinalLetter(q, d) =
             Fallen(MaintainabilityLetter(Maintained(q), r.lines), ArchDrop(q.found["architecture"]))
    BY <1>2, <1>6 DEF FinalLetter
  <2>6. Fallen(MaintainabilityLetter(Maintained(q), r.lines), ArchDrop(q.found["architecture"]))
          <= Fallen(MaintainabilityLetter(Maintained(r), r.lines), ArchDrop(r.found["architecture"]))
    BY <2>2, <2>3, <2>4, FallenFalls
  <2> QED
    BY <1>2, <1>3, <2>5, <2>6
<1> QED
  BY <1>1, <1>4, <1>5, <1>6

\* And the letter of the whole.
LEMMA LetterFallsWithMore ==
  ASSUME NEW r, NEW q, IsReport(r), IsReport(q), MoreFound(r, q)
  PROVE  LetterOf(q) <= LetterOf(r) /\ LetterOf(q) \in Letters /\ LetterOf(r) \in Letters
<1>1. \A g \in 0..11 : g # NotAvailable /\ Letter(g) \in Letters
  BY LetterOfGrade DEF NotAvailable
<1>2. \A x \in {r, q} : DOMAIN Dimensions(x) = {} => LetterOf(x) = A
  BY DEF LetterOf, Overall
<1>3. ASSUME NEW x \in {r, q}, DOMAIN Dimensions(x) # {}
      PROVE  /\ LetterOf(x) \in Letters
             /\ \E d \in DOMAIN Dimensions(x) : LetterOf(x) = FinalLetter(x, d)
             /\ \A d \in DOMAIN Dimensions(x) : LetterOf(x) <= FinalLetter(x, d)
  <2>1. PICK g : g = Overall(Dimensions(x)).grade
    OBVIOUS
  <2>2. /\ g \in 0..11
        /\ \E d \in DOMAIN Dimensions(x) : Letter(g) = FinalLetter(x, d)
        /\ \A d \in DOMAIN Dimensions(x) : Letter(g) <= FinalLetter(x, d)
    BY <1>3, <2>1, OverallIsWorst
  <2>3. LetterOf(x) = Letter(g)
    BY <1>1, <2>1, <2>2 DEF LetterOf
  <2> QED
    BY <1>1, <2>2, <2>3
<1>4. CASE DOMAIN Dimensions(r) = {}
  <2>1. LetterOf(r) = A
    BY <1>2, <1>4
  <2>2. LetterOf(q) \in Letters
    BY <1>2, <1>3 DEF Letters, A, F
  <2> QED
    BY <2>1, <2>2 DEF Letters, A, F
<1>5. CASE DOMAIN Dimensions(r) # {}
  <2>1. PICK d \in DOMAIN Dimensions(r) : LetterOf(r) = FinalLetter(r, d)
    BY <1>3, <1>5
  <2>2. d \in DOMAIN Dimensions(q) /\ FinalLetter(q, d) <= FinalLetter(r, d)
    BY DimensionFalls
  <2>3. LetterOf(q) <= FinalLetter(q, d) /\ LetterOf(q) \in Letters
    BY <1>3, <2>2
  <2>4. FinalLetter(q, d) \in Letters /\ FinalLetter(r, d) \in Letters
    BY <2>2, DimensionsRated
  <2> QED
    BY <2>1, <2>2, <2>3, <2>4 DEF Letters, F, A
<1>6. LetterOf(q) \in Letters /\ LetterOf(r) \in Letters
  BY <1>2, <1>3 DEF Letters, F, A
<1> QED
  BY <1>4, <1>5, <1>6

\* What a severe finding does to the letter of its dimension.
LEMMA SevereLetter ==
  ASSUME NEW n \in Counts, NEW lines \in Nat
  PROVE  /\ n["critical"] > 0 => /\ SecurityLetter(n) = F /\ ReliabilityLetter(n, lines) = F
                                 /\ MaintainabilityLetter(n, lines) = F
         /\ n["high"] > 0 => /\ SecurityLetter(n) <= C /\ ReliabilityLetter(n, lines) <= C
                             /\ MaintainabilityLetter(n, lines) <= C
         /\ n["medium"] > 0 => SecurityLetter(n) <= C
         /\ SecurityLetter(n) > C => Total(n) = n["low"]
<1>1. /\ n["critical"] \in Nat /\ n["high"] \in Nat /\ n["medium"] \in Nat /\ n["low"] \in Nat
      /\ Total(n) = n["critical"] + n["high"] + n["medium"] + n["low"] /\ Total(n) \in Nat
  BY TotalOf DEF Total
<1>2. /\ ReliabilityBand(Total(n), lines).letter \in Letters
      /\ MaintainabilityBand(Total(n), lines).letter \in Letters
  <2>1. ReliabilityBand(Total(n), lines) \in Bands /\ MaintainabilityBand(Total(n), lines) \in Bands
    BY <1>1, BandOfFindings
  <2> QED
    BY <2>1 DEF Bands
<1>3. n["critical"] > 0 \/ n["high"] > 0 => Total(n) # 0 /\ ~ OneLow(n)
  BY <1>1 DEF OneLow
<1>4. ASSUME n["critical"] > 0
      PROVE  /\ SecurityLetter(n) = F /\ ReliabilityLetter(n, lines) = F
             /\ MaintainabilityLetter(n, lines) = F
  <2>1. \A l \in Letters : Worse(Cap(n), l) = F
    BY <1>4 DEF Worse, Cap, Letters, F, A
  <2> QED
    BY <1>2, <1>3, <1>4, <2>1 DEF SecurityLetter, ReliabilityLetter, MaintainabilityLetter
<1>5. ASSUME n["high"] > 0
      PROVE  /\ SecurityLetter(n) <= C /\ ReliabilityLetter(n, lines) <= C
             /\ MaintainabilityLetter(n, lines) <= C
  <2>1. \A l \in Letters : Worse(Cap(n), l) <= C
    BY <1>1, <1>5 DEF Worse, Cap, Letters, F, A, C
  <2>2. SecurityLetter(n) <= C
    BY <1>5 DEF SecurityLetter, F, C
  <2> QED
    BY <1>2, <1>3, <1>5, <2>1, <2>2 DEF ReliabilityLetter, MaintainabilityLetter
<1>6. n["medium"] > 0 => SecurityLetter(n) <= C
  BY DEF SecurityLetter, F, C
<1>7. SecurityLetter(n) > C => Total(n) = n["low"]
  BY <1>1 DEF SecurityLetter, F, C
<1> QED
  BY <1>4, <1>5, <1>6, <1>7

\* A severe finding of any category that is rated shows in the letter of the whole.
LEMMA SevereShowsOf ==
  ASSUME NEW r, IsReport(r)
  PROVE  SevereShows(r)
<1> DEFINE dims == Dimensions(r)
           all == Overall(dims)
           Rates(c) == c \in {"security", "bugs"} \/ r.toolRan
<1>1. /\ r.lines \in Nat /\ r.toolRan \in BOOLEAN
      /\ r.found["security"] \in Counts /\ r.found["bugs"] \in Counts
      /\ r.found["architecture"] \in Counts /\ r.found["lint"] \in Counts
      /\ Maintained(r) \in Counts
  BY MaintainedCounts DEF IsReport, Categories
<1>2. /\ \A d : d \in DOMAIN dims <=> RatesIt(r, d)
      /\ \A d \in DOMAIN dims : IsRating(dims[d], FinalLetter(r, d)) /\ FinalLetter(r, d) \in Letters
  BY DimensionsRated
<1>3. ASSUME NEW d \in DOMAIN dims
      PROVE  /\ Letter(all.grade) <= FinalLetter(r, d) /\ Letter(all.grade) \in Letters
             /\ all.grade # NotAvailable /\ InGrade(all.score, all.grade)
  <2>1. /\ all.grade \in 0..11 /\ InGrade(all.score, all.grade)
        /\ Letter(all.grade) <= FinalLetter(r, d)
    BY <1>3, OverallIsWorst
  <2>2. all.grade # NotAvailable
    BY <2>1 DEF NotAvailable
  <2> QED
    BY <2>1, <2>2, LetterOfGrade
<1>4. DOMAIN dims = {} => all.grade = NotAvailable
  BY DEF Overall
<1> HIDE DEF dims, all
<1>5. ASSUME NEW c \in Categories, Rates(c)
      PROVE  /\ r.found[c]["critical"] > 0 => Letter(all.grade) = F
             /\ r.found[c]["high"] > 0 => Letter(all.grade) <= C
  <2>1. /\ r.found[c] \in Counts
        /\ r.found[c]["critical"] \in Nat /\ r.found[c]["high"] \in Nat
    BY TotalOf DEF IsReport
  <2>2. ASSUME r.found[c]["critical"] > 0 \/ r.found[c]["high"] > 0
        PROVE  \E d \in DOMAIN dims :
                 /\ r.found[c]["critical"] > 0 => FinalLetter(r, d) = F
                 /\ r.found[c]["high"] > 0 => FinalLetter(r, d) <= C
    <3>1. Total(r.found[c]) > 0
      BY <2>1, <2>2, TotalOf
    <3>2. CASE c = "security"
      <4>1. "security" \in DOMAIN dims
        BY <1>2, <3>1, <3>2 DEF RatesIt
      <4>2. FinalLetter(r, "security") = SecurityLetter(r.found[c])
        BY <3>2 DEF FinalLetter
      <4> QED
        BY <1>1, <2>1, <4>1, <4>2, SevereLetter
    <3>3. CASE c = "bugs"
      <4>1. "reliability" \in DOMAIN dims
        BY <1>2, <3>1, <3>3 DEF RatesIt
      <4>2. FinalLetter(r, "reliability") = ReliabilityLetter(r.found[c], r.lines)
        BY <3>3 DEF FinalLetter
      <4> QED
        BY <1>1, <2>1, <4>1, <4>2, SevereLetter
    <3>4. CASE c \in {"lint", "architecture"}
      <4> DEFINE l == MaintainabilityLetter(Maintained(r), r.lines)
                 n == r.found["architecture"]
                 k == Maintained(r)
      <4>1. "maintainability" \in DOMAIN dims
        BY <1>2, <1>5, <3>4 DEF RatesIt
      <4>2. FinalLetter(r, "maintainability") = Fallen(l, ArchDrop(n))
        BY DEF FinalLetter
      <4>3. l \in Letters /\ ArchDrop(n) \in 0..2
        BY <1>1, MaintainabilityScored DEF ArchDrop
      <4>4. Fallen(l, ArchDrop(n)) <= l /\ Fallen(l, ArchDrop(n)) \in Letters
        BY <4>3 DEF Fallen, Letters, F, A
      <4>5. \A s \in Severities : k[s] = r.found["lint"][s] + r.found["architecture"][s]
        BY MaintainedCounts
      <4>6. /\ r.found[c]["critical"] > 0 => k["critical"] > 0
            /\ r.found[c]["high"] > 0 => k["high"] > 0
        BY <1>1, <3>4, <4>5, TotalOf DEF Severities
      <4>7. /\ k["critical"] > 0 => l = F
            /\ k["high"] > 0 => l <= C
        BY <1>1, SevereLetter
      <4> HIDE DEF l, n, k
      <4>8. /\ r.found[c]["critical"] > 0 => FinalLetter(r, "maintainability") = F
            /\ r.found[c]["high"] > 0 => FinalLetter(r, "maintainability") <= C
        BY <4>2, <4>3, <4>4, <4>6, <4>7 DEF Letters, F, A, C
      <4> QED
        BY <4>1, <4>8
    <3> QED
      BY <3>2, <3>3, <3>4 DEF Categories
  <2>3. CASE ~ (r.found[c]["critical"] > 0 \/ r.found[c]["high"] > 0)
    BY <2>3
  <2>4. CASE r.found[c]["critical"] > 0 \/ r.found[c]["high"] > 0
    <3>1. PICK d \in DOMAIN dims :
            /\ r.found[c]["critical"] > 0 => FinalLetter(r, d) = F
            /\ r.found[c]["high"] > 0 => FinalLetter(r, d) <= C
      BY <2>2, <2>4
    <3>2. /\ Letter(all.grade) <= FinalLetter(r, d) /\ Letter(all.grade) \in Letters
          /\ FinalLetter(r, d) \in Letters
      BY <1>2, <1>3, <3>1
    <3> QED
      BY <3>1, <3>2 DEF Letters, F, A, C
  <2> QED
    BY <2>3, <2>4
<1>6. r.found["security"]["medium"] > 0 => Letter(all.grade) <= C
  <2> SUFFICES ASSUME r.found["security"]["medium"] > 0 PROVE Letter(all.grade) <= C
    OBVIOUS
  <2>1. "security" \in DOMAIN dims
    BY <1>1, <1>2, TotalOf DEF RatesIt
  <2>2. FinalLetter(r, "security") <= C
    BY <1>1, SevereLetter DEF FinalLetter
  <2>3. Letter(all.grade) <= FinalLetter(r, "security") /\ Letter(all.grade) \in Letters
        /\ FinalLetter(r, "security") \in Letters
    BY <1>2, <1>3, <2>1
  <2> QED
    BY <2>2, <2>3 DEF Letters, F, A, C
<1>7. \A d \in DOMAIN dims : InGrade(dims[d].score, dims[d].grade)
  BY <1>2 DEF IsRating
<1>8. all.grade # NotAvailable => InGrade(all.score, all.grade)
  BY <1>3, <1>4
<1>9. ASSUME GatePasses(r, dims)
      PROVE  /\ Total(r.found["security"]) = r.found["security"]["low"]
             /\ r.found["bugs"]["critical"] = 0
  <2>1. Total(r.found["security"]) = r.found["security"]["low"]
    <3>1. CASE "security" \in DOMAIN dims
      <4>1. FinalLetter(r, "security") > C
        BY <1>2, <1>9, <3>1 DEF GatePasses, IsRating
      <4>2. FinalLetter(r, "security") = SecurityLetter(r.found["security"])
        BY DEF FinalLetter
      <4> QED
        BY <1>1, <4>1, <4>2, SevereLetter
    <3>2. CASE "security" \notin DOMAIN dims
      BY <1>1, <1>2, <3>2, TotalOf DEF RatesIt
    <3> QED
      BY <3>1, <3>2
  <2>2. r.found["bugs"]["critical"] = 0
    <3>1. CASE "reliability" \in DOMAIN dims
      <4>1. FinalLetter(r, "reliability") > F
        BY <1>2, <1>9, <3>1 DEF GatePasses, IsRating
      <4>2. FinalLetter(r, "reliability") = ReliabilityLetter(r.found["bugs"], r.lines)
        BY DEF FinalLetter
      <4>3. ReliabilityLetter(r.found["bugs"], r.lines) # F
        BY <4>1, <4>2 DEF F
      <4>4. ~ r.found["bugs"]["critical"] > 0
        BY <1>1, <4>3, SevereLetter
      <4> QED
        BY <1>1, <4>4, TotalOf
    <3>2. CASE "reliability" \notin DOMAIN dims
      BY <1>1, <1>2, <3>2, TotalOf DEF RatesIt
    <3> QED
      BY <3>1, <3>2
  <2> QED
    BY <2>1, <2>2
<1> QED
  BY <1>5, <1>6, <1>7, <1>8, <1>9 DEF SevereShows, dims, all

--------------------------------------------------------------------------------
\* A finding more in a list of findings.
OneMore(f, c, s) == [f EXCEPT ![c][s] = @ + 1]

\* It counts in its category and severity, and in the sum.
LEMMA OneMoreFinding ==
  ASSUME NEW f \in Findings, NEW c \in Categories, NEW s \in Severities
  PROVE  /\ OneMore(f, c, s) \in Findings
         /\ \A k \in Categories, v \in Severities :
              /\ f[k][v] \in Nat
              /\ OneMore(f, c, s)[k][v] = IF k = c /\ v = s THEN f[k][v] + 1 ELSE f[k][v]
         /\ AllOf(OneMore(f, c, s)) = AllOf(f) + 1 /\ AllOf(f) \in Nat
<1> DEFINE g == OneMore(f, c, s)
<1>1. f \in [Categories -> Counts] /\ \A k \in Categories, v \in Severities : f[k][v] \in Nat
  BY DEF Findings, Counts
<1>2. g = [f EXCEPT ![c] = [f[c] EXCEPT ![s] = f[c][s] + 1]]
  BY <1>1 DEF OneMore
<1>3. [f[c] EXCEPT ![s] = f[c][s] + 1] \in Counts
  BY <1>1 DEF Counts
<1>4. g \in [Categories -> Counts]
  BY <1>1, <1>2, <1>3
<1>5. \A k \in Categories, v \in Severities :
        g[k][v] = IF k = c /\ v = s THEN f[k][v] + 1 ELSE f[k][v]
  BY <1>1, <1>2 DEF Counts
<1>6. /\ \A k \in Categories : Total(f[k]) \in Nat
      /\ \A k \in Categories \ {c} : Total(g[k]) = Total(f[k])
  BY <1>1, <1>2, TotalOf
<1>7. Total(g[c]) = Total(f[c]) + 1
  BY <1>1, <1>5 DEF Total, Severities
<1> HIDE DEF g
<1>8. AllOf(g) = AllOf(f) + 1 /\ AllOf(f) \in Nat
  <2>1. "security" \in Categories /\ "bugs" \in Categories /\ "lint" \in Categories
        /\ "architecture" \in Categories
    BY DEF Categories
  <2>2. CASE c = "security"
    BY <1>6, <1>7, <2>1, <2>2 DEF AllOf
  <2>3. CASE c = "bugs"
    BY <1>6, <1>7, <2>1, <2>3 DEF AllOf
  <2>4. CASE c = "lint"
    BY <1>6, <1>7, <2>1, <2>4 DEF AllOf
  <2>5. CASE c = "architecture"
    BY <1>6, <1>7, <2>1, <2>5 DEF AllOf
  <2> QED
    BY <2>2, <2>3, <2>4, <2>5 DEF Categories
<1> QED
  BY <1>1, <1>4, <1>5, <1>8 DEF g, Findings, Counts

\* What a report keeps of its scan: no more than was found, and all of it unless that is
\* more than a report keeps.
KeptOf(found, kept) ==
  /\ \A c \in Categories, s \in Severities : kept[c][s] <= found[c][s]
  /\ kept = found \/ (AllOf(found) > KeptFindings /\ ~ (AllOf(kept) < KeptFindings))

\* With what its tools tell, and that only a review has findings of one.
GradingInv ==
  /\ GradingTypeOK
  /\ report.available => report.installed
  /\ report.phase = "scan" => report.review = NoneFound
  /\ KeptOf(report.found, report.kept)

\* No finding is counted twice over.
LEMMA NothingFound ==
  /\ NoneFound \in Findings /\ AllOf(NoneFound) = 0
  /\ \A c \in Categories, s \in Severities : NoneFound[c][s] = 0
BY DEF NoneFound, Findings, AllOf, Total, Categories, Severities

\* Low findings of one category.
LEMMA LowFindings ==
  ASSUME NEW c \in Categories, NEW n \in Nat
  PROVE  /\ [NoneFound EXCEPT ![c]["low"] = n] \in Findings
         /\ AllOf([NoneFound EXCEPT ![c]["low"] = n]) = n
         /\ \A k \in Categories, v \in Severities : [NoneFound EXCEPT ![c]["low"] = n][k][v] =
              IF k = c /\ v = "low" THEN n ELSE 0
<1> DEFINE f == [NoneFound EXCEPT ![c]["low"] = n]
<1>1. /\ NoneFound \in [Categories -> Counts] /\ "low" \in Severities
      /\ \A k \in Categories, v \in Severities : NoneFound[k][v] = 0
  BY DEF NoneFound, Counts, Severities
<1>2. f = [NoneFound EXCEPT ![c] = [NoneFound[c] EXCEPT !["low"] = n]]
  BY <1>1
<1>3. [NoneFound[c] EXCEPT !["low"] = n] \in Counts
  BY <1>1 DEF Counts
<1>4. f \in [Categories -> Counts]
  BY <1>1, <1>2, <1>3
<1>5. \A k \in Categories, v \in Severities : f[k][v] = IF k = c /\ v = "low" THEN n ELSE 0
  BY <1>1, <1>2 DEF Counts
<1> HIDE DEF f
<1>6. \A k \in Categories : Total(f[k]) = IF k = c THEN n ELSE 0
  BY <1>5 DEF Total, Severities
<1>7. AllOf(f) = n
  <2>1. "security" \in Categories /\ "bugs" \in Categories /\ "lint" \in Categories
        /\ "architecture" \in Categories
    BY DEF Categories
  <2>2. CASE c = "security"
    BY <1>6, <2>1, <2>2 DEF AllOf
  <2>3. CASE c = "bugs"
    BY <1>6, <2>1, <2>3 DEF AllOf
  <2>4. CASE c = "lint"
    BY <1>6, <2>1, <2>4 DEF AllOf
  <2>5. CASE c = "architecture"
    BY <1>6, <2>1, <2>5 DEF AllOf
  <2> QED
    BY <2>2, <2>3, <2>4, <2>5 DEF Categories
<1> QED
  BY <1>4, <1>5, <1>7 DEF f, Findings, Counts

\* The first report has its type and the first of its findings.
LEMMA GradingStart == GradingInit => GradingInv
<1> SUFFICES ASSUME GradingInit PROVE GradingInv
  OBVIOUS
<1> DEFINE Low(c, n) == [NoneFound EXCEPT ![c]["low"] = n]
           Cut(n) == IF n <= KeptFindings THEN n ELSE KeptFindings
<1>1. PICK n \in LowsFound, l \in SourceLines, c \in Categories, i \in BOOLEAN, a \in BOOLEAN :
        /\ a => i
        /\ report = [phase |-> "scan", lines |-> l, found |-> Low(c, n), kept |-> Low(c, Cut(n)),
                     review |-> NoneFound, installed |-> i, available |-> a, added |-> 0]
  BY DEF GradingInit
<1>2. n \in Nat /\ l \in Nat /\ 0 \in 0..MaxAdded /\ KeptFindings \in Nat /\ Cut(n) \in Nat
  BY GradingAssumption
<1>3. /\ Low(c, n) \in Findings /\ AllOf(Low(c, n)) = n
      /\ Low(c, Cut(n)) \in Findings /\ AllOf(Low(c, Cut(n))) = Cut(n)
      /\ \A k \in Categories, v \in Severities :
           /\ Low(c, n)[k][v] = IF k = c /\ v = "low" THEN n ELSE 0
           /\ Low(c, Cut(n))[k][v] = IF k = c /\ v = "low" THEN Cut(n) ELSE 0
  <2>1. /\ Low(c, n) \in Findings /\ AllOf(Low(c, n)) = n
        /\ \A k \in Categories, v \in Severities :
             Low(c, n)[k][v] = IF k = c /\ v = "low" THEN n ELSE 0
    BY <1>2, LowFindings
  <2> DEFINE m == Cut(n)
  <2>2. m \in Nat
    BY <1>2
  <2> HIDE DEF m
  <2>3. /\ Low(c, m) \in Findings /\ AllOf(Low(c, m)) = m
        /\ \A k \in Categories, v \in Severities :
             Low(c, m)[k][v] = IF k = c /\ v = "low" THEN m ELSE 0
    BY <2>2, LowFindings
  <2> QED
    BY <2>1, <2>3 DEF m
<1>4. n <= KeptFindings => Low(c, Cut(n)) = Low(c, n)
  OBVIOUS
<1> HIDE DEF Low
<1>5. KeptOf(Low(c, n), Low(c, Cut(n)))
  <2>1. n \in Nat /\ KeptFindings \in Nat /\ Cut(n) \in Nat /\ Cut(n) <= n
        /\ (n > KeptFindings => ~ (Cut(n) < KeptFindings))
    BY <1>2
  <2> HIDE DEF Cut
  <2>2. \A k \in Categories, v \in Severities : Low(c, Cut(n))[k][v] <= Low(c, n)[k][v]
    BY <1>3, <2>1
  <2>3. Low(c, Cut(n)) = Low(c, n)
        \/ (AllOf(Low(c, n)) > KeptFindings /\ ~ (AllOf(Low(c, Cut(n))) < KeptFindings))
    BY <1>3, <1>4, <2>1
  <2> QED
    BY <2>2, <2>3 DEF KeptOf
<1> HIDE DEF Cut
<1>6. GradingTypeOK
  BY <1>1, <1>2, <1>3, NothingFound DEF GradingTypeOK
<1> QED
  BY <1>1, <1>5, <1>6 DEF GradingInv

\* A finding more of the scan is kept if there is room.
LEMMA FindKeeps ==
  ASSUME GradingInv, NEW c \in Categories, NEW s \in Severities, Find(c, s)
  PROVE  /\ GradingInv' /\ report'.found = OneMore(report.found, c, s)
         /\ UNCHANGED <<report.phase, report.lines, report.installed, report.available>>
<1> DEFINE room == AllOf(report.kept) < KeptFindings
           k == IF room THEN OneMore(report.kept, c, s) ELSE report.kept
<1>1. /\ report.found \in Findings /\ report.kept \in Findings /\ report.added + 1 \in 0..MaxAdded
      /\ KeptOf(report.found, report.kept) /\ KeptFindings \in Nat
  BY GradingAssumption DEF GradingInv, GradingTypeOK, Find
<1>2. report' = [report EXCEPT !.found = OneMore(report.found, c, s), !.added = report.added + 1,
                               !.kept = k]
  <2>1. report.kept = [report.kept EXCEPT ![c][s] = @]
    BY <1>1 DEF Findings
  <2> QED
    BY <2>1 DEF Find, GradingInv, GradingTypeOK, OneMore
<1>3. /\ OneMore(report.found, c, s) \in Findings /\ k \in Findings
      /\ AllOf(OneMore(report.found, c, s)) = AllOf(report.found) + 1
      /\ AllOf(report.found) \in Nat /\ AllOf(report.kept) \in Nat
  BY <1>1, OneMoreFinding
<1>4. KeptOf(OneMore(report.found, c, s), k)
  <2>1. \A x \in Categories, v \in Severities : k[x][v] <= OneMore(report.found, c, s)[x][v]
    <3> SUFFICES ASSUME NEW x \in Categories, NEW v \in Severities
                 PROVE  k[x][v] <= OneMore(report.found, c, s)[x][v]
      OBVIOUS
    <3>1. /\ report.kept[x][v] \in Nat /\ report.found[x][v] \in Nat
          /\ report.kept[x][v] <= report.found[x][v]
          /\ OneMore(report.found, c, s)[x][v] =
               IF x = c /\ v = s THEN report.found[x][v] + 1 ELSE report.found[x][v]
          /\ OneMore(report.kept, c, s)[x][v] =
               IF x = c /\ v = s THEN report.kept[x][v] + 1 ELSE report.kept[x][v]
      BY <1>1, OneMoreFinding DEF KeptOf
    <3> QED
      BY <3>1
  <2>2. CASE room
    <3>1. report.kept = report.found
      BY <1>1, <2>2 DEF KeptOf
    <3>2. k = OneMore(report.found, c, s)
      BY <2>2, <3>1
    <3> HIDE DEF k, room
    <3> QED
      BY <2>1, <3>2 DEF KeptOf
  <2>3. CASE ~ room
    <3>1. AllOf(report.found) + 1 > KeptFindings
      BY <1>1, <1>3, <2>3 DEF KeptOf
    <3> QED
      BY <1>3, <2>1, <2>3, <3>1 DEF KeptOf
  <2> QED
    BY <2>2, <2>3
<1> HIDE DEF k
<1>5. GradingTypeOK' /\ report'.found = OneMore(report.found, c, s) /\ report'.kept = k
      /\ UNCHANGED <<report.phase, report.lines, report.installed, report.available, report.review>>
  BY <1>1, <1>2, <1>3 DEF GradingInv, GradingTypeOK
<1> QED
  BY <1>4, <1>5 DEF GradingInv

\* A finding more of the review.
LEMMA AddFindingKeeps ==
  ASSUME GradingInv, NEW c \in Categories, NEW s \in Severities, AddFinding(c, s)
  PROVE  /\ GradingInv' /\ report'.review = OneMore(report.review, c, s)
         /\ report.phase = "review"
         /\ UNCHANGED <<report.phase, report.lines, report.found, report.kept,
                        report.installed, report.available>>
<1>1. report.review \in Findings /\ report.added + 1 \in 0..MaxAdded /\ report.phase = "review"
  BY GradingAssumption DEF GradingInv, GradingTypeOK, AddFinding
<1>2. report' = [report EXCEPT !.review = OneMore(report.review, c, s),
                               !.added = report.added + 1]
  BY DEF AddFinding, GradingInv, GradingTypeOK, OneMore
<1>3. OneMore(report.review, c, s) \in Findings
  BY <1>1, OneMoreFinding
<1>4. GradingTypeOK' /\ report'.review = OneMore(report.review, c, s)
      /\ UNCHANGED <<report.phase, report.lines, report.found, report.kept,
                     report.installed, report.available>>
  BY <1>1, <1>2, <1>3 DEF GradingInv, GradingTypeOK
<1> QED
  BY <1>1, <1>4 DEF GradingInv

\* A review begins with no findings of its own.
LEMMA ReviewKeeps ==
  ASSUME GradingInv, Review
  PROVE  /\ GradingInv' /\ report'.phase = "review" /\ report'.review = NoneFound
         /\ UNCHANGED <<report.lines, report.found, report.kept,
                        report.installed, report.available>>
<1>1. /\ GradingTypeOK' /\ report'.phase = "review" /\ report'.review = NoneFound
      /\ UNCHANGED <<report.lines, report.found, report.kept,
                     report.installed, report.available>>
  BY NothingFound DEF Review, GradingInv, GradingTypeOK
<1> QED
  BY <1>1 DEF GradingInv

\* Every step keeps the invariant.
LEMMA GradingStep == GradingInv /\ [GradingNext]_report => GradingInv'
<1>1. ASSUME GradingInv, UNCHANGED report PROVE GradingInv'
  BY <1>1 DEF GradingInv, GradingTypeOK
<1> QED
  BY <1>1, FindKeeps, AddFindingKeeps, ReviewKeeps DEF GradingNext

\* The record of a report.
ReportRecords ==
  [phase : {"scan", "review"}, lines : Nat, found : Findings, kept : Findings,
   review : Findings, installed : BOOLEAN, available : BOOLEAN, added : 0..MaxAdded]

\* What is rated, after a scan and after a review, are findings of the directory.
LEMMA RatedFindings ==
  ASSUME NEW r \in ReportRecords
  PROVE  /\ IsReport(RatedOf(r))
         /\ RatedOf(r).lines = r.lines
         /\ r.phase = "scan" => /\ RatedOf(r).found = r.found
                                /\ RatedOf(r).toolRan = r.installed
         /\ r.phase = "review" =>
              /\ RatedOf(r).toolRan = r.available
              /\ \A c \in Categories, s \in Severities :
                   RatedOf(r).found[c][s] = r.kept[c][s] + r.review[c][s]
<1>1. /\ r.phase \in {"scan", "review"} /\ r.lines \in Nat
      /\ r.found \in Findings /\ r.kept \in Findings /\ r.review \in Findings
      /\ r.installed \in BOOLEAN /\ r.available \in BOOLEAN
  BY DEF ReportRecords
<1>2. CASE r.phase = "scan"
  BY <1>1, <1>2 DEF RatedOf, IsReport, Findings, Counts
<1>3. CASE r.phase = "review"
  <2>1. \A c \in Categories, s \in Severities :
          /\ Merged(r)[c][s] = r.kept[c][s] + r.review[c][s]
          /\ r.kept[c][s] \in Nat /\ r.review[c][s] \in Nat
    BY <1>1 DEF Merged, BothOf, Findings
  <2>2. \A c \in Categories : Merged(r)[c] \in Counts
    BY <2>1 DEF Merged, BothOf, Counts
  <2> QED
    BY <1>1, <1>3, <2>1, <2>2 DEF RatedOf, IsReport
<1> QED
  BY <1>1, <1>2, <1>3

\* A critical finding in what the grade rates leaves no better letter than F, a high
\* one or a medium one of security none better than C, scores and grades agree, and
\* the gate passes over neither (quality-grading.ts), for any findings and any code; and
\* nothing that was found is left out of the rating, but what a review forgets of a scan
\* with more findings than a report keeps (quality-service.ts).
THEOREM SevereFindingsShowHolds == GradingSpec => []SevereFindingsShow
<1>1. GradingInv => SevereFindingsShow
  <2> SUFFICES ASSUME GradingInv PROVE SevereFindingsShow
    OBVIOUS
  <2>0. report \in ReportRecords
    BY DEF GradingInv, GradingTypeOK, ReportRecords
  <2>1. SevereShows(RatedOf(report))
    BY <2>0, RatedFindings, SevereShowsOf
  <2>2. ASSUME NEW c \in Categories, NEW s \in Severities,
               report.found[c][s] + report.review[c][s] > RatedOf(report).found[c][s]
        PROVE  report.phase = "review" /\ AllOf(report.found) > KeptFindings
    <3>1. report.found[c][s] \in Nat /\ report.phase \in {"scan", "review"}
      BY DEF GradingInv, GradingTypeOK, Findings
    <3>2. report.phase = "review"
      <4>1. ASSUME report.phase = "scan" PROVE FALSE
        <5>1. RatedOf(report).found[c][s] = report.found[c][s] /\ report.review[c][s] = 0
          BY <2>0, <4>1, RatedFindings, NothingFound DEF GradingInv
        <5> QED
          BY <2>2, <3>1, <5>1
      <4> QED
        BY <3>1, <4>1
    <3>3. report.kept # report.found
      <4>1. /\ RatedOf(report).found[c][s] = report.kept[c][s] + report.review[c][s]
            /\ report.review[c][s] \in Nat
        BY <2>0, <3>2, RatedFindings DEF GradingInv, GradingTypeOK, Findings
      <4> QED
        BY <2>2, <3>1, <4>1
    <3> QED
      BY <3>2, <3>3 DEF GradingInv, KeptOf
  <2> QED
    BY <2>1, <2>2 DEF SevereFindingsShow
<1> QED
  BY <1>1, GradingStart, GradingStep, PTL DEF GradingSpec

\* A step that does not forget has more rated after it.
LEMMA RatedGrows ==
  ASSUME GradingInv, GradingNext,
         Review => /\ report.review = NoneFound /\ ~ (AllOf(report.found) > KeptFindings)
                   /\ report.installed => report.available
  PROVE  MoreFound(RatedOf(report), RatedOf(report'))
<1>0. /\ report.phase \in {"scan", "review"}
      /\ \A k \in Categories, v \in Severities :
           report.found[k][v] \in Nat /\ report.kept[k][v] \in Nat /\ report.review[k][v] \in Nat
  BY DEF GradingInv, GradingTypeOK, Findings
<1>r. report \in ReportRecords
  BY DEF GradingInv, GradingTypeOK, ReportRecords
<1>1. ASSUME NEW c \in Categories, NEW s \in Severities, Find(c, s)
      PROVE  MoreFound(RatedOf(report), RatedOf(report'))
  <2>1. /\ report.phase = "scan" /\ report'.phase = "scan" /\ report'.lines = report.lines
        /\ report'.installed = report.installed /\ report'.found = OneMore(report.found, c, s)
    BY <1>1, FindKeeps DEF Find
  <2>2. /\ RatedOf(report) = [lines |-> report.lines, found |-> report.found,
                              toolRan |-> report.installed]
        /\ RatedOf(report') = [lines |-> report'.lines, found |-> report'.found,
                               toolRan |-> report'.installed]
    BY <2>1 DEF RatedOf
  <2>3. \A k \in Categories, v \in Severities : report.found[k][v] <= report'.found[k][v]
    <3>1. report.found \in Findings
      BY DEF GradingInv, GradingTypeOK
    <3>2. \A k \in Categories, v \in Severities :
            report'.found[k][v] = IF k = c /\ v = s THEN report.found[k][v] + 1 ELSE report.found[k][v]
      BY <2>1, <3>1, OneMoreFinding
    <3> QED
      BY <1>0, <3>2
  <2> QED
    BY <2>1, <2>2, <2>3 DEF MoreFound, More
<1>2. ASSUME NEW q, NEW u \in [Categories -> [Severities -> Nat]],
             q = [lines |-> report.lines, toolRan |-> report.available, found |->
                    [k \in Categories |-> BothOf(report.kept[k], u[k])]],
             RatedOf(report').lines = q.lines, RatedOf(report').found = q.found,
             RatedOf(report').toolRan = q.toolRan,
             \A k \in Categories, v \in Severities : report.review[k][v] <= u[k][v],
             report.phase = "scan" => /\ report.kept = report.found
                                      /\ report.installed = report.available
      PROVE  MoreFound(RatedOf(report), RatedOf(report'))
  <2>1. \A k \in Categories, v \in Severities : q.found[k][v] = report.kept[k][v] + u[k][v]
    BY <1>2 DEF BothOf
  <2>2. \A k \in Categories, v \in Severities : RatedOf(report).found[k][v] <= q.found[k][v]
    <3> SUFFICES ASSUME NEW k \in Categories, NEW v \in Severities
                 PROVE  RatedOf(report).found[k][v] <= q.found[k][v]
      OBVIOUS
    <3>1. u[k][v] \in Nat /\ report.review[k][v] <= u[k][v]
      BY <1>2
    <3>2. RatedOf(report).found[k][v] \in
            {report.kept[k][v], report.kept[k][v] + report.review[k][v]}
      BY <1>0, <1>2, <1>r, RatedFindings
    <3> QED
      BY <1>0, <2>1, <3>1, <3>2
  <2>3. q.lines = RatedOf(report).lines /\ q.toolRan = RatedOf(report).toolRan
    BY <1>0, <1>2, <1>r, RatedFindings
  <2> QED
    BY <1>2, <2>2, <2>3 DEF MoreFound, More
<1>3. ASSUME NEW c \in Categories, NEW s \in Severities, AddFinding(c, s)
      PROVE  MoreFound(RatedOf(report), RatedOf(report'))
  <2>1. /\ report.phase = "review" /\ report'.phase = "review" /\ report'.lines = report.lines
        /\ report'.kept = report.kept /\ report'.available = report.available
        /\ report'.review = OneMore(report.review, c, s) /\ report.review \in Findings
    BY <1>3, AddFindingKeeps DEF GradingInv, GradingTypeOK
  <2>2. /\ OneMore(report.review, c, s) \in [Categories -> [Severities -> Nat]]
        /\ \A k \in Categories, v \in Severities :
             report.review[k][v] <= OneMore(report.review, c, s)[k][v]
    <3>1. \A k \in Categories, v \in Severities :
            OneMore(report.review, c, s)[k][v] =
              IF k = c /\ v = s THEN report.review[k][v] + 1 ELSE report.review[k][v]
      BY <2>1, OneMoreFinding
    <3>2. OneMore(report.review, c, s) \in [Categories -> [Severities -> Nat]]
      BY <2>1, OneMoreFinding DEF Findings
    <3> QED
      BY <1>0, <3>1, <3>2
  <2>3. RatedOf(report') = [lines |-> report.lines, toolRan |-> report.available, found |->
          [k \in Categories |-> BothOf(report.kept[k], OneMore(report.review, c, s)[k])]]
    BY <2>1 DEF RatedOf, Merged
  <2> QED
    BY <1>2, <2>1, <2>2, <2>3
<1>4. ASSUME Review
      PROVE  MoreFound(RatedOf(report), RatedOf(report'))
  <2>1. /\ report'.phase = "review" /\ report'.lines = report.lines
        /\ report'.kept = report.kept /\ report'.available = report.available
        /\ report'.review = NoneFound /\ report.review = NoneFound
    BY <1>4, ReviewKeeps
  <2>2. NoneFound \in [Categories -> [Severities -> Nat]]
        /\ \A k \in Categories, v \in Severities : report.review[k][v] <= NoneFound[k][v]
    BY <1>0, <2>1, NothingFound DEF Findings
  <2>3. RatedOf(report') = [lines |-> report.lines, toolRan |-> report.available, found |->
          [k \in Categories |-> BothOf(report.kept[k], NoneFound[k])]]
    BY <2>1 DEF RatedOf, Merged
  <2>4. report.kept = report.found /\ report.installed = report.available
    BY <1>4 DEF GradingInv, GradingTypeOK, KeptOf
  <2> QED
    BY <1>2, <2>2, <2>3, <2>4
<1> QED
  BY <1>1, <1>3, <1>4 DEF GradingNext

\* No finding more raises the letter of a project, for any findings and sizes of the code
\* (quality-grading.ts). Only a review does, that replaces another one's findings, forgets
\* what was cut of the scan's, or leaves out a dimension of it (quality-service.ts).
THEOREM LetterNeverRisesHolds == GradingSpec => LetterNeverRises
<1> DEFINE Rises == LetterOf(RatedOf(report')) > LetterOf(RatedOf(report))
           Forgets == /\ report'.phase = "review" /\ report'.review = NoneFound
                      /\ \/ report.review # NoneFound
                         \/ AllOf(report.found) > KeptFindings
                         \/ report.installed /\ ~ report.available
<1>1. GradingInv /\ [GradingNext]_report => [Rises => Forgets]_report
  <2> SUFFICES ASSUME GradingInv, GradingNext, ~ Forgets PROVE ~ Rises
    OBVIOUS
  <2>1. GradingInv'
    BY GradingStep
  <2>2. IsReport(RatedOf(report)) /\ IsReport(RatedOf(report'))
    <3>1. report \in ReportRecords /\ report' \in ReportRecords
      BY <2>1 DEF GradingInv, GradingTypeOK, ReportRecords
    <3> QED
      BY <3>1, RatedFindings
  <2>3. MoreFound(RatedOf(report), RatedOf(report'))
    BY ReviewKeeps, RatedGrows
  <2>4. LetterOf(RatedOf(report')) <= LetterOf(RatedOf(report))
    BY <2>2, <2>3, LetterFallsWithMore
  <2>5. LetterOf(RatedOf(report')) \in Letters /\ LetterOf(RatedOf(report)) \in Letters
    BY <2>2, <2>3, LetterFallsWithMore
  <2> QED
    BY <2>4, <2>5 DEF Letters, F, A
<1> QED
  BY <1>1, GradingStart, GradingStep, PTL DEF GradingSpec, LetterNeverRises

--------------------------------------------------------------------------------
\* The whole workspace: its types, part by part.

\* Files: what stands under a name has no more than the chunks of a file, so a
\* download has none left to read after these.
DownloadRecords ==
  [phase : {"none", "streaming", "complete", "cancelled"}, chunks : 0..Chunks]
Downloading == download \in [Downloads -> DownloadRecords]

LEMMA FilesAreShort == ASSUME FilesInv PROVE Len(disk[0]) \in 0..Chunks
<1>1. 0 \in Variants
  BY FileTransferAssumption DEF Variants
<1> QED
  BY <1>1 DEF FilesInv, Short

\* Every step keeps the downloads within a file.
LEMMA DownloadStep ==
  ASSUME FilesInv, Downloading, [FileNext]_fileVars
  PROVE  Downloading'
<1>1. Chunks \in Nat /\ 0 \in 0..Chunks
  BY FileTransferAssumption
<1>2. ASSUME NEW d \in Downloads,
             DownloadStart(d) \/ DownloadChunk(d) \/ DownloadEnds(d) \/ DownloadCancel(d)
      PROVE  Downloading'
  <2>1. download[d] \in DownloadRecords
    BY DEF Downloading
  <2>2. DownloadChunk(d) => download[d].chunks + 1 \in 0..Chunks
    BY <1>1, <2>1, FilesAreShort DEF DownloadChunk, DownloadRecords
  <2>3. CASE DownloadChunk(d)
    <3>1. [download[d] EXCEPT !.chunks = @ + 1] \in DownloadRecords
      BY <2>1, <2>2, <2>3 DEF DownloadRecords
    <3> QED
      BY <2>3, <3>1 DEF DownloadChunk, Downloading
  <2>4. CASE DownloadStart(d)
    <3>1. [phase |-> "streaming", chunks |-> 0] \in DownloadRecords
      BY <1>1 DEF DownloadRecords
    <3> QED
      BY <2>4, <3>1 DEF DownloadStart, Downloading
  <2>5. CASE DownloadEnds(d) \/ DownloadCancel(d)
    <3>1. \A p \in {"complete", "cancelled"} : [phase |-> p, chunks |-> 0] \in DownloadRecords
      BY <1>1 DEF DownloadRecords
    <3> QED
      BY <2>5, <3>1 DEF DownloadEnds, DownloadCancel, Downloading
  <2> QED
    BY <1>2, <2>3, <2>4, <2>5
<1>3. ASSUME UNCHANGED download PROVE Downloading'
  BY <1>3 DEF Downloading
<1>4. ASSUME NEW u \in Uploads,
             \/ \E overwrite \in BOOLEAN : UploadStart(u, overwrite)
             \/ FileOpens(u) \/ UploadChunk(u) \/ LateChunk(u) \/ StreamWrites(u)
             \/ UploadComplete(u) \/ UploadEnds(u) \/ UploadCancel(u)
      PROVE  Downloading'
  <2>1. UNCHANGED download
    BY <1>4 DEF UploadStart, FileOpens, UploadChunk, LateChunk, StreamWrites,
                UploadComplete, UploadEnds, UploadCancel
  <2> QED
    BY <1>3, <2>1
<1>5. CASE UNCHANGED fileVars
  BY <1>3, <1>5 DEF fileVars
<1> QED
  BY <1>2, <1>4, <1>5 DEF FileNext

\* The types of uploads follow.
LEMMA FileTyped == ASSUME FilesInv, Downloading PROVE FileTypeOK
<1>1. ASSUME NEW u \in Uploads
      PROVE  /\ upload[u].entry \in {"none", "active", "ending", "over"}
             /\ upload[u].file \in Variants
             /\ upload[u].stream \in {"none", "opening", "open", "closed"}
             /\ upload[u].told \in {"none", "ready", "error"}
             /\ Len(upload[u].got) <= upload[u].sent /\ upload[u].put <= Len(upload[u].got)
  <2>1. /\ upload[u] \in UploadRecords /\ upload[u].got = Counted(upload[u].sent)
        /\ upload[u].put <= upload[u].sent
    BY DEF FilesInv, UploadInv
  <2>2. upload[u].sent \in Nat
    BY <2>1, FileTransferAssumption DEF UploadRecords
  <2>3. Len(upload[u].got) = upload[u].sent
    BY <2>1, <2>2, ChunkSequences
  <2> QED
    BY <2>1, <2>2, <2>3 DEF UploadRecords
<1> QED
  BY <1>1 DEF FilesInv, Downloading, DownloadRecords, FileTypeOK

\* Merges: each request has its record.
RequestRecords ==
  [at : {"none", "stash", "top", "merge", "pop", "popping", "cleanup", "done"},
   branch : Branches, stash : StashRecords \cup {NoStash}, ref : Nat,
   answer : {"none", "merged", "failed", "upToDate"}]
Requests ==
  /\ unmerged \in {"none", "merge", "squash", "pop"} /\ merged \subseteq Branches
  /\ request \in [Merges -> RequestRecords]

\* A step of one request.
LEMMA OneRequest ==
  ASSUME Requests, NEW m \in Merges, NEW n \in RequestRecords,
         request' = [request EXCEPT ![m] = n],
         unmerged' \in {"none", "merge", "squash", "pop"}, merged' \subseteq Branches
  PROVE  Requests'
BY DEF Requests

\* Every step keeps the requests.
LEMMA RequestsStep ==
  ASSUME MergeInv, Requests, [MergeNext]_mergeVars
  PROVE  Requests'
<1>1. ASSUME UNCHANGED request, merged' = merged,
             unmerged' \in {"none", "merge", "squash", "pop"}
      PROVE  Requests'
  BY <1>1 DEF Requests
<1>2. ASSUME NEW m \in Merges,
             \/ \E b \in Branches, first \in BOOLEAN : MergeRequested(m, b, first)
             \/ StashPushed(m) \/ StashTaken(m)
             \/ MergeRefused(m)
             \/ \E s \in {"merge", "squash", "rebase"} : MergeSucceeds(m, s) \/ MergeConflicts(m, s)
             \/ StashListed(m) \/ StashPopped(m) \/ CleanedUp(m) \/ StashAskedBack(m)
      PROVE  Requests'
  <2> DEFINE r == request[m]
  <2>1. /\ r \in RequestRecords /\ request \in [Merges -> RequestRecords]
        /\ unmerged \in {"none", "merge", "squash", "pop"} /\ merged \subseteq Branches
    BY DEF Requests
  <2>2. CASE \E b \in Branches, first \in BOOLEAN : MergeRequested(m, b, first)
    <3>1. PICK b \in Branches, first \in BOOLEAN : MergeRequested(m, b, first)
      BY <2>2
    <3> DEFINE n == [r EXCEPT !.at = IF first THEN "stash" ELSE "merge", !.branch = b]
    <3>2. n \in RequestRecords
      BY <2>1 DEF RequestRecords
    <3>3. request' = [request EXCEPT ![m] = n] /\ UNCHANGED <<unmerged, merged>>
      BY <3>1, <2>1 DEF MergeRequested
    <3> QED
      BY <2>1, <3>2, <3>3, OneRequest
  <2>3. CASE StashPushed(m)
    <3> DEFINE n == [r EXCEPT !.at = IF unmerged = "none" THEN "top" ELSE "merge"]
    <3>1. n \in RequestRecords
      BY <2>1 DEF RequestRecords
    <3>2. request' = [request EXCEPT ![m] = n] /\ UNCHANGED <<unmerged, merged>>
      BY <2>1, <2>3 DEF StashPushed
    <3> QED
      BY <2>1, <3>1, <3>2, OneRequest
  <2>4. CASE StashTaken(m)
    <3> DEFINE top == IF stashes # <<>> /\ Head(stashes).tagged THEN Head(stashes) ELSE NoStash
               n == [r EXCEPT !.at = "merge", !.stash = top]
    <3>1. top \in StashRecords \cup {NoStash}
      <4>1. stashes # <<>> => Head(stashes) \in StashRecords
        BY DEF MergeInv
      <4> QED
        BY <4>1
    <3> HIDE DEF top
    <3>2. n \in RequestRecords
      BY <2>1, <3>1 DEF RequestRecords
    <3>3. request' = [request EXCEPT ![m] = n] /\ UNCHANGED <<unmerged, merged>>
      BY <2>1, <2>4 DEF StashTaken, top
    <3> QED
      BY <2>1, <3>2, <3>3, OneRequest
  <2>5. CASE MergeRefused(m) \/ \E s \in {"merge", "squash", "rebase"} : MergeConflicts(m, s)
    <3> DEFINE n == [r EXCEPT !.at = "pop", !.answer = "failed"]
    <3>1. n \in RequestRecords
      BY <2>1 DEF RequestRecords
    <3>2. /\ request' = [request EXCEPT ![m] = n] /\ merged' = merged
          /\ unmerged' \in {"none", "merge", "squash", "pop"}
      BY <2>1, <2>5 DEF MergeRefused, MergeConflicts
    <3> QED
      BY <2>1, <3>1, <3>2, OneRequest
  <2>6. CASE \E s \in {"merge", "squash", "rebase"} : MergeSucceeds(m, s)
    <3> DEFINE n == [r EXCEPT !.at = IF r.branch \in merged THEN "pop" ELSE "cleanup",
                              !.answer = IF r.branch \in merged THEN "upToDate" ELSE "merged"]
    <3>1. n \in RequestRecords /\ r.branch \in Branches
      BY <2>1 DEF RequestRecords
    <3>2. /\ request' = [request EXCEPT ![m] = n] /\ merged' = merged \cup {r.branch}
          /\ unmerged' = unmerged
      BY <2>1, <2>6 DEF MergeSucceeds
    <3> QED
      BY <2>1, <3>1, <3>2, OneRequest
  <2>7. CASE StashListed(m)
    <3>1. CASE request' = [request EXCEPT ![m].at = "done"]
      <4>1. [r EXCEPT !.at = "done"] \in RequestRecords
        BY <2>1 DEF RequestRecords
      <4> QED
        BY <2>1, <2>7, <3>1, <4>1, OneRequest DEF StashListed
    <3>2. CASE \E i \in 1..Len(stashes) :
                 request' = [request EXCEPT ![m].at = "popping", ![m].ref = i]
      <4>1. PICK i \in 1..Len(stashes) :
              request' = [request EXCEPT ![m].at = "popping", ![m].ref = i]
        BY <3>2
      <4>2. i \in Nat
        BY DEF MergeInv
      <4> DEFINE n == [r EXCEPT !.at = "popping", !.ref = i]
      <4>3. n \in RequestRecords
        BY <2>1, <4>2 DEF RequestRecords
      <4>4. request' = [request EXCEPT ![m] = n] /\ UNCHANGED <<unmerged, merged>>
        BY <2>1, <2>7, <4>1 DEF StashListed
      <4> QED
        BY <2>1, <4>3, <4>4, OneRequest
    <3> QED
      BY <2>7, <3>1, <3>2 DEF StashListed
  <2>8. CASE StashPopped(m)
    <3> DEFINE n == [r EXCEPT !.at = "done", !.ref = 0]
    <3>1. n \in RequestRecords
      BY <2>1 DEF RequestRecords
    <3>2. /\ request' = [request EXCEPT ![m] = n] /\ merged' = merged
          /\ unmerged' \in {"none", "merge", "squash", "pop"}
      BY <2>1, <2>8 DEF StashPopped
    <3> QED
      BY <2>1, <3>1, <3>2, OneRequest
  <2>9. CASE CleanedUp(m) \/ StashAskedBack(m)
    <3>1. \A at \in {"done", "pop"} : [r EXCEPT !.at = at] \in RequestRecords
      BY <2>1 DEF RequestRecords
    <3>2. /\ \E at \in {"done", "pop"} : request' = [request EXCEPT ![m] = [r EXCEPT !.at = at]]
          /\ UNCHANGED <<unmerged, merged>>
      BY <2>1, <2>9 DEF CleanedUp, StashAskedBack
    <3> QED
      BY <2>1, <3>1, <3>2, OneRequest
  <2> QED
    BY <1>2, <2>2, <2>3, <2>4, <2>5, <2>6, <2>7, <2>8, <2>9
<1>3. CASE MergeAborted \/ MergeCompleted
  BY <1>1, <1>3 DEF MergeAborted, MergeCompleted
<1>4. ASSUME NEW e \in Edits, UserEdits(e) PROVE Requests'
  BY <1>1, <1>4 DEF UserEdits, Requests
<1>5. ASSUME NEW gone \in SUBSET Blocking, BlockersDiscarded(gone) PROVE Requests'
  BY <1>1, <1>5 DEF BlockersDiscarded, Requests
<1>6. CASE UNCHANGED mergeVars
  BY <1>1, <1>6 DEF mergeVars, Requests
<1> QED
  BY <1>2, <1>3, <1>4, <1>5, <1>6 DEF MergeNext

\* At first there is none.
LEMMA RequestsStart == MergeInit => Requests
<1> SUFFICES ASSUME MergeInit PROVE Requests
  OBVIOUS
<1> DEFINE b == CHOOSE x \in Branches : TRUE
<1>1. b \in Branches
  BY MergeAssumption
<1> HIDE DEF b
<1>2. [at |-> "none", branch |-> b, stash |-> NoStash, ref |-> 0, answer |-> "none"]
        \in RequestRecords
  BY <1>1 DEF RequestRecords
<1> QED
  BY <1>2 DEF MergeInit, Requests, b

\* With the stashes these are the types of a merge.
LEMMA MergeTyped == ASSUME MergeInv, Requests PROVE MergeTypeOK
<1>1. \A i \in 1..Len(stashes) : stashes[i] \in StashRecords
  BY DEF MergeInv
<1> QED
  BY <1>1 DEF MergeInv, Requests, RequestRecords, StashRecords, MergeTypeOK

\* Worktrees: what git is asked about, and what is watched, is one.
Placed ==
  /\ present \subseteq Worktrees
  /\ dirs \in [WTabs -> Worktrees \cup {"none", "project"}]
  /\ registry \in [WTabs -> Worktrees \cup {"none", "gone"}]
  /\ asked \in [WTabs -> SUBSET Commands]
  /\ watched \in [WTabs -> SUBSET Worktrees]
  /\ choice \in [WTabs -> Worktrees \cup {"none", "gone"}]

\* Every step keeps them.
LEMMA PlacedStep ==
  ASSUME Placed, [WorktreesNext]_worktreeVars
  PROVE  Placed'
<1> USE DEF Placed
<1>1. CASE ProcessRestarts
  BY <1>1 DEF ProcessRestarts
<1>2. ASSUME NEW w \in Worktrees, RemoveWorktree(w) PROVE Placed'
  BY <1>2 DEF RemoveWorktree
<1>3. ASSUME NEW t \in WTabs,
             SwitchToProject(t) \/ UnsetDirectory(t) \/ WatchStarts(t) \/ RemoveTab(t)
      PROVE  Placed'
  BY <1>3 DEF SwitchToProject, UnsetDirectory, WatchStarts, RemoveTab, Moved, UpdateTabWorktree
<1>4. ASSUME NEW t \in WTabs, NEW w \in Worktrees, SwitchEnds(t, w) PROVE Placed'
  BY <1>4 DEF SwitchEnds, UpdateTabWorktree
<1>5. ASSUME NEW t \in WTabs, NEW w \in Worktrees, CreateEnds(t, w) PROVE Placed'
  BY <1>5 DEF CreateEnds, Moved, UpdateTabWorktree
<1>6. ASSUME NEW t \in WTabs, Hydrate(t) PROVE Placed'
  BY <1>6 DEF Hydrate
<1>7. ASSUME NEW t \in WTabs, NEW w \in Worktrees, NEW changed \in BOOLEAN,
             WatchEnds(t, w, changed)
      PROVE  Placed'
  BY <1>7 DEF WatchEnds, UpdateTabWorktree
<1>8. ASSUME NEW t \in WTabs, NEW d \in Worktrees \cup {"project"}, SetDirectory(t, d)
      PROVE  Placed'
  BY <1>8 DEF SetDirectory
<1>9. ASSUME NEW t \in WTabs, NEW w \in Worktrees, SwitchStarts(t, w) PROVE Placed'
  BY <1>9, CommandsOf DEF SwitchStarts, Moved
<1>10. ASSUME NEW t \in WTabs, NEW w \in Worktrees, CreateStarts(t, w) PROVE Placed'
  BY <1>10, CommandsOf DEF CreateStarts
<1>11. CASE UNCHANGED worktreeVars
  BY <1>11 DEF worktreeVars
<1> QED
  BY <1>1, <1>2, <1>3, <1>4, <1>5, <1>6, <1>7, <1>8, <1>9, <1>10, <1>11 DEF WorktreesNext

\* Scans and reviews: what was found lately is within its limit, and an open entry
\* of the history is there.
History ==
  /\ orphaned \subseteq Paths
  /\ trend \in [entries : Seq(SUBSET Paths), open : BOOLEAN]
  /\ Len(trend.entries) <= MaxHistory
  /\ trend.open => trend.entries # <<>>

\* An entry is added or merged.
LEMMA HistoryAppended ==
  ASSUME History, NEW p \in Paths
  PROVE  /\ Appended(p) \in [entries : Seq(SUBSET Paths), open : BOOLEAN]
         /\ Len(Appended(p).entries) <= MaxHistory /\ Appended(p).entries # <<>>
<1> DEFINE s == trend.entries
           added == IF trend.open THEN [s EXCEPT ![Len(s)] = @ \cup {p}] ELSE Append(s, {p})
<1>1. /\ s \in Seq(SUBSET Paths) /\ Len(s) \in Nat /\ Len(s) <= MaxHistory
      /\ MaxHistory \in Nat /\ MaxHistory >= 1
  BY QualityRunsAssumption DEF History
<1>2. /\ added \in Seq(SUBSET Paths) /\ added # <<>> /\ Len(added) <= MaxHistory + 1
  <2>1. CASE trend.open
    <3>1. Len(s) \in 1..Len(s) /\ s[Len(s)] \cup {p} \in SUBSET Paths
      BY <1>1, <2>1 DEF History
    <3>2. [s EXCEPT ![Len(s)] = @ \cup {p}] \in Seq(SUBSET Paths)
          /\ Len([s EXCEPT ![Len(s)] = @ \cup {p}]) = Len(s)
      BY <1>1, <3>1
    <3> QED
      BY <1>1, <2>1, <3>1, <3>2
  <2>2. CASE ~ trend.open
    <3>1. {p} \in SUBSET Paths
      OBVIOUS
    <3>2. Append(s, {p}) \in Seq(SUBSET Paths) /\ Len(Append(s, {p})) = Len(s) + 1
      BY <1>1, <3>1
    <3> QED
      BY <1>1, <2>2, <3>2
  <2> QED
    BY <2>1, <2>2
<1>3. Appended(p) = [entries |-> IF Len(added) > MaxHistory THEN Tail(added) ELSE added,
                     open |-> TRUE]
  BY DEF Appended
<1> HIDE DEF added
<1>4. Len(added) > MaxHistory =>
        Tail(added) \in Seq(SUBSET Paths) /\ Len(Tail(added)) = Len(added) - 1
  BY <1>1, <1>2
<1>5. PICK e : e = IF Len(added) > MaxHistory THEN Tail(added) ELSE added
  OBVIOUS
<1>6. e \in Seq(SUBSET Paths) /\ Len(e) <= MaxHistory /\ e # <<>>
  <2>1. CASE Len(added) > MaxHistory
    <3>1. e \in Seq(SUBSET Paths) /\ Len(e) = Len(added) - 1 /\ Len(added) \in Nat
      BY <1>2, <1>4, <1>5, <2>1
    <3>2. Len(e) <= MaxHistory /\ Len(e) # 0
      BY <1>1, <1>2, <2>1, <3>1
    <3> QED
      BY <3>1, <3>2
  <2>2. CASE ~ Len(added) > MaxHistory
    <3>1. Len(added) \in Nat
      BY <1>2
    <3> QED
      BY <1>1, <1>2, <1>5, <2>2, <3>1
  <2> QED
    BY <2>1, <2>2
<1> QED
  BY <1>3, <1>5, <1>6

\* Every step keeps the history.
LEMMA HistoryStep ==
  ASSUME QualityInv, History, [QualityNext]_qualityVars
  PROVE  History'
<1>1. ASSUME orphaned' \subseteq Paths, UNCHANGED trend PROVE History'
  BY <1>1 DEF History
<1>2. CASE MinutePasses
  BY <1>2 DEF MinutePasses, History
<1>3. CASE LoadState \/ ProcessDies \/ UNCHANGED qualityVars
  BY <1>1, <1>3 DEF LoadState, ProcessDies, qualityVars, History
<1>4. ASSUME NEW p \in Paths, Cancel(p) PROVE History'
  BY <1>1, <1>4 DEF Cancel, History
<1>5. ASSUME NEW r \in Runs, NEW p \in Paths, ScanStarts(r, p) \/ ReviewStarts(r, p)
      PROVE  History'
  BY <1>1, <1>5 DEF ScanStarts, ReviewStarts, RecordActive, History
<1>6. ASSUME NEW r \in Runs, Live(r), Publish(r) PROVE History'
  <2>1. run[r].path \in Paths
    BY <1>6 DEF QualityInv, SlotsAreRuns
  <2>2. trend' = trend \/ trend' = Appended(run[r].path)
    BY <1>6 DEF Publish
  <2>3. orphaned' \subseteq Paths
    BY <1>6 DEF Publish, EndRun, History
  <2>4. CASE trend' = trend
    BY <1>1, <2>3, <2>4
  <2>5. CASE trend' = Appended(run[r].path)
    BY <2>1, <2>3, <2>5, HistoryAppended DEF History
  <2> QED
    BY <2>2, <2>4, <2>5
<1>7. ASSUME NEW r \in Runs, RunStep(r) PROVE History'
  <2>1. \/ Live(r) /\ Publish(r)
        \/ RunFails(r) \/ ScanRecorded(r)
        \/ UNCHANGED <<orphaned, trend>>
    BY <1>7 DEF RunStep, ScanEnds, Reviewed, Verified, Live
  <2>2. CASE RunFails(r) \/ ScanRecorded(r) \/ UNCHANGED <<orphaned, trend>>
    BY <1>1, <2>2 DEF RunFails, ScanRecorded, RecordActive, EndRun, History
  <2> QED
    BY <1>6, <2>1, <2>2
<1> QED
  BY <1>2, <1>3, <1>4, <1>5, <1>7 DEF QualityNext

\* At first it is empty.
LEMMA HistoryStart == QualityInit => History
BY QualityRunsAssumption DEF QualityInit, History

\* With the invariant of the runs these are the types of Quality.
LEMMA QualityTyped == ASSUME QualityInv, History PROVE QualityTypeOK
BY DEF QualityInv, Shapes, RunRecords, Reports, SlotsAreRuns, History, QualityTypeOK

--------------------------------------------------------------------------------
\* The parts side by side, of which one moves.
WorkspaceInv ==
  /\ TerminalsInv /\ FilesInv /\ Downloading /\ MergeInv /\ Requests /\ Placed
  /\ QualityInv /\ History /\ GradingInv

LEMMA WorkspaceWhole == WorkspaceInv => WorkIsWhole
<1> SUFFICES ASSUME WorkspaceInv PROVE WorkIsWhole
  OBVIOUS
<1>1. TerminalsTypeOK /\ TerminalsShowAll /\ NoShellForgotten
  BY DEF WorkspaceInv, TerminalsInv, MapInv, ScreenInv, WatchInv, TerminalsShowAll,
         NoShellForgotten
<1>2. FileTypeOK /\ UploadsIntact /\ MergeTypeOK
  BY FileTyped, FilesWhole, MergeTyped DEF WorkspaceInv
<1>3. WorktreesTypeOK
  BY DEF WorkspaceInv, Placed, WorktreesTypeOK
<1>4. QualityTypeOK /\ RecordsAgree /\ GradingTypeOK
  BY QualityTyped DEF WorkspaceInv, QualityInv, SlotsAreRuns, Recorded, RecordsAgree, GradingInv
<1> QED
  BY <1>1, <1>2, <1>3, <1>4 DEF WorkIsWhole, WorkspaceTypeOK

\* Whatever the webs do to a project (terminals, transfers, merges, worktrees, scans and
\* reviews), all is in its ranges and within its limits, and what they were told is so,
\* for every value of the constants. (No run is called "none", and no upload "original",
\* which are other things in the model.)
THEOREM WorkIsWholeHolds ==
  "original" \notin Uploads /\ "none" \notin Runs /\ WorkspaceSpec => []WorkIsWhole
<1> DEFINE Assumed == "original" \notin Uploads /\ "none" \notin Runs
<1>1. Assumed /\ WorkspaceInit => WorkspaceInv
  <2> SUFFICES ASSUME Assumed, WorkspaceInit PROVE WorkspaceInv
    OBVIOUS
  <2>1. TerminalsInv /\ FilesInv /\ MergeInv /\ Requests
    BY TerminalsStart, FilesStart, MergeStart, RequestsStart DEF WorkspaceInit
  <2>2. Downloading
    BY FileTransferAssumption DEF WorkspaceInit, FileInit, Downloading, DownloadRecords
  <2>3. Placed
    BY DEF WorkspaceInit, WorktreesInit, Placed
  <2>4. QualityInv /\ History /\ GradingInv
    BY QualityInitInv, HistoryStart, GradingStart DEF WorkspaceInit
  <2> QED
    BY <2>1, <2>2, <2>3, <2>4 DEF WorkspaceInv
<1>2. WorkspaceInv /\ [WorkspaceNext]_workspaceVars => WorkspaceInv'
  <2> SUFFICES ASSUME WorkspaceInv, [WorkspaceNext]_workspaceVars PROVE WorkspaceInv'
    OBVIOUS
  <2>1. /\ [TerminalsNext]_terminalVars /\ [FileNext]_fileVars /\ [MergeNext]_mergeVars
        /\ [WorktreesNext]_worktreeVars /\ [QualityNext]_qualityVars /\ [GradingNext]_report
    BY DEF WorkspaceNext, workspaceVars
  <2>2. TerminalsInv' /\ FilesInv' /\ Downloading'
    BY <2>1, TerminalsStep, FileStep, DownloadStep DEF WorkspaceInv
  <2>3. MergeInv' /\ Requests' /\ Placed'
    BY <2>1, MergeKeeps, RequestsStep, PlacedStep DEF WorkspaceInv
  <2>4. QualityInv' /\ History' /\ GradingInv'
    BY <2>1, QualityStep, HistoryStep, GradingStep DEF WorkspaceInv
  <2> QED
    BY <2>2, <2>3, <2>4 DEF WorkspaceInv
<1> QED
  BY <1>1, <1>2, WorkspaceWhole, PTL DEF WorkspaceSpec
================================================================================
