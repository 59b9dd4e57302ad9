----------------------------- MODULE QualityRuns -----------------------------
(* Scans and AI reviews of a project's directories (quality-handlers.ts,      *)
(* quality-review-agent.ts), one at a time for each directory, their record   *)
(* on disk (quality-persistence.ts) that survives the process, and the report *)
(* of each directory. What a scan finds is QualityGrading's.                  *)
EXTENDS Naturals, Sequences

CONSTANTS
  Runs,          \* scans and reviews
  Paths,         \* directories as the webs name them
  RootNames,     \* names of the project's directory, which share a report
  MaxHistory     \* MAX_HISTORY_ENTRIES

ASSUME QualityRunsAssumption == RootNames \subseteq Paths /\ MaxHistory \in Nat \ {0}

VARIABLES
  run,           \* each run: where it is, its kind, path, and what it read
  aborted,       \* runs whose controller was aborted
  slot,          \* OperationRegistry: the run that has each path
  active,        \* active-ops.json: the kind of run recorded for each path
  orphaned,      \* history: paths whose record a dead process left
  reports,       \* report file: the scan and the review it shows, if any
  trend          \* history.json: the paths of each entry; is the last one open?

qualityVars == <<run, aborted, slot, active, orphaned, reports, trend>>

\* slugify: every name of the root directory is one file.
File(p) == IF p \in RootNames THEN "root" ELSE p
Files == {File(p) : p \in Paths}
Kinds == {"scanning", "reviewing"}
NoReport == [scan |-> "none", review |-> "none"]
Idle == [at |-> "none", kind |-> "none", path |-> "none", read |-> NoReport]

QualityTypeOK ==
  /\ \A r \in Runs :
       /\ run[r].at \in {"none", "sizing", "scanning", "reviewing", "verifying", "done"}
       /\ run[r].kind \in Kinds \cup {"none"} /\ run[r].path \in Paths \cup {"none"}
  /\ aborted \subseteq Runs
  /\ \A p \in Paths : slot[p] \in Runs \cup {"none"} /\ active[p] \in Kinds \cup {"none"}
  /\ orphaned \subseteq Paths
  /\ \A f \in Files : {reports[f].scan, reports[f].review} \subseteq Runs \cup {"none"}
  /\ Len(trend.entries) <= MaxHistory

QualityInit ==
  /\ run = [r \in Runs |-> Idle] /\ aborted = {}
  /\ slot = [p \in Paths |-> "none"] /\ active = [p \in Paths |-> "none"]
  /\ orphaned = {} /\ reports = [f \in Files |-> NoReport]
  /\ trend = [entries |-> <<>>, open |-> FALSE]

\* OperationRegistry.start, and its refusal of a path that has a run.
Register(r, p, kind, at) ==
  /\ run[r].at = "none" /\ slot[p] = "none"
  /\ slot' = [slot EXCEPT ![p] = r]
  /\ run' = [run EXCEPT ![r] =
       [at |-> at, kind |-> kind, path |-> p, read |-> reports[File(p)]]]
RecordActive(p, kind) ==
  /\ active' = [active EXCEPT ![p] = kind]
  /\ orphaned' = orphaned \ {p}

\* handleScan up to its first await, which sizes the directory.
ScanStarts(r, p) ==
  /\ Register(r, p, "scanning", "sizing")
  /\ UNCHANGED <<aborted, active, orphaned, reports, trend>>
ScanRecorded(r) ==
  /\ run[r].at = "sizing"
  /\ run' = [run EXCEPT ![r].at = "scanning"]
  /\ RecordActive(run[r].path, "scanning")
  /\ UNCHANGED <<aborted, slot, reports, trend>>

\* qualityCodeReview: recorded at once, and the review reads the scan's findings.
ReviewStarts(r, p) ==
  /\ Register(r, p, "reviewing", "reviewing")
  /\ RecordActive(p, "reviewing")
  /\ UNCHANGED <<aborted, reports, trend>>

\* The finally of a handler: the slot and the record of its path are freed.
EndRun(r) ==
  /\ run' = [run EXCEPT ![r] = [Idle EXCEPT !.at = "done"]]
  /\ slot' = [slot EXCEPT ![run[r].path] = "none"]
  /\ active' = [active EXCEPT ![run[r].path] = "none"]
  /\ orphaned' = orphaned \ {run[r].path}
  /\ aborted' = aborted \ {r}

\* appendHistory: entries of one minute are merged, the oldest ones dropped.
Appended(p) ==
  LET n == Len(trend.entries)
      added == IF trend.open THEN [trend.entries EXCEPT ![n] = @ \cup {p}]
               ELSE Append(trend.entries, {p})
  IN [entries |-> IF Len(added) > MaxHistory THEN Tail(added) ELSE added, open |-> TRUE]
MinutePasses ==
  /\ trend.open /\ trend' = [trend EXCEPT !.open = FALSE]
  /\ UNCHANGED <<run, aborted, slot, active, orphaned, reports>>

\* Mutant: a review's results go to the report it read when it started.
OnReportRead(r) ==
  IF run[r].kind = "scanning" THEN [scan |-> r, review |-> "none"]
  ELSE IF run[r].read.scan = "none" THEN [reports[File(run[r].path)] EXCEPT !.review = r]
  ELSE [run[r].read EXCEPT !.review = r]

\* A scan's report has no review; persistReviewResults grades the report there is.
Published(r) ==
  IF run[r].kind = "scanning" THEN [scan |-> r, review |-> "none"]
  ELSE [reports[File(run[r].path)] EXCEPT !.review = r]
Publish(r) ==
  LET f == File(run[r].path)
  IN /\ reports' = [reports EXCEPT ![f] = Published(r)]
     /\ trend' = IF run[r].kind = "reviewing" /\ reports[f].scan = "none" THEN trend
                 ELSE Appended(run[r].path)
     /\ EndRun(r)

\* checkAborted before the last steps of runQualityScan, and the checks of
\* handleCodeReview after the verification.
Proceeds(r) == r \notin aborted
ScanEnds(r) ==
  /\ run[r].at = "scanning" /\ Proceeds(r)
  /\ Publish(r)
Reviewed(r) ==
  /\ run[r].at = "reviewing" /\ Proceeds(r)
  /\ \/ Publish(r)                               \* nothing to verify
     \/ /\ run' = [run EXCEPT ![r].at = "verifying"]
        /\ UNCHANGED <<aborted, slot, active, orphaned, reports, trend>>
Verified(r) ==
  /\ run[r].at = "verifying" /\ Proceeds(r)
  /\ Publish(r)

\* Mutant: the abort reaches no step, so a cancelled run goes on.
FailsUncancelled(r) ==
  /\ run[r].at \in {"scanning", "reviewing", "verifying"} /\ r \notin aborted
  /\ EndRun(r) /\ UNCHANGED <<reports, trend>>

\* It was cancelled, or a step of it throws.
RunFails(r) ==
  /\ run[r].at \in {"scanning", "reviewing", "verifying"}
  /\ EndRun(r) /\ UNCHANGED <<reports, trend>>

\* handleCancel, which the dispatch table lacks (handler.ts:160): the controller is
\* aborted and the record cleared; the path is
\* the run's until it ends.
SlotAfterCancel(p) == slot
Cancel(p) ==
  /\ slot[p] # "none" \/ active[p] # "none"
  /\ aborted' = IF slot[p] = "none" THEN aborted ELSE aborted \cup {slot[p]}
  /\ active' = [active EXCEPT ![p] = "none"]
  /\ orphaned' = orphaned \ {p}
  /\ slot' = SlotAfterCancel(p)
  /\ UNCHANGED <<run, reports, trend>>

\* handleLoadState: records without a run are reported to the web, and cleared.
LoadState ==
  LET orphans == {p \in Paths : active[p] # "none" /\ slot[p] = "none"}
  IN /\ orphans # {}
     /\ active' = [p \in Paths |-> IF p \in orphans THEN "none" ELSE active[p]]
     /\ orphaned' = orphaned \ orphans
     /\ UNCHANGED <<run, aborted, slot, reports, trend>>

\* The process dies, and its runs with it; the files stay.
Live(r) == run[r].at \notin {"none", "done"}
ProcessDies ==
  /\ \E r \in Runs : Live(r)
  /\ run' = [r \in Runs |-> IF Live(r) THEN [Idle EXCEPT !.at = "done"] ELSE run[r]]
  /\ aborted' = {} /\ slot' = [p \in Paths |-> "none"]
  /\ orphaned' = {p \in Paths : active[p] # "none"}
  /\ UNCHANGED <<active, reports, trend>>

RunStep(r) ==
  \/ ScanRecorded(r) \/ ScanEnds(r) \/ Reviewed(r) \/ Verified(r) \/ RunFails(r)
QualityNext ==
  \/ MinutePasses \/ LoadState \/ ProcessDies
  \/ \E p \in Paths : Cancel(p)
  \/ \E r \in Runs : RunStep(r) \/ \E p \in Paths : ScanStarts(r, p) \/ ReviewStarts(r, p)

\* Tools and the agent's process end, on their own or by their time limits.
QualityFairness == \A r \in Runs : WF_qualityVars(RunStep(r))

QualitySpec == QualityInit /\ [][QualityNext]_qualityVars /\ QualityFairness
-----------------------------------------------------------------------------
\* The record on disk tells the truth: a directory whose run is under way and not
\* cancelled is recorded with its kind, and a record without a run is one that a
\* process left when it died (what handleLoadState tells the user).
RecordsAgree ==
  \A p \in Paths :
    /\ \A r \in Runs : Live(r) /\ run[r].path = p =>
         /\ slot[p] = r
         /\ run[r].at # "sizing" /\ r \notin aborted => active[p] = run[r].kind
    /\ active[p] # "none" => slot[p] # "none" \/ p \in orphaned

\* A cancelled run publishes nothing, though it ends by itself much later; and
\* the report a review is added to is of the latest scan, whatever other name of
\* the directory that scan went by.
ResultsAreCurrent ==
  [][\A f \in Files : reports'[f] # reports[f] =>
       /\ {reports'[f].scan, reports'[f].review} \cap aborted = {}
       /\ reports'[f].scan # reports[f].scan =>
            \E r \in Runs : run[r].kind = "scanning" /\ reports'[f].scan = r /\ run'[r] # run[r]
    ]_qualityVars

\* Every run ends, and frees its directory.
RunsGetDone == \A r \in Runs : run[r].at # "none" ~> run[r].at = "done"
=============================================================================
