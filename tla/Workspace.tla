----------------------------- MODULE Workspace ------------------------------
(* What the webs do to the project's directory: terminals, files sent either  *)
(* way, merges into the main worktree, the worktree of each tab, and the runs *)
(* and grades of Quality. They share no state, so each behaviour is one of    *)
(* `part`.                                                                    *)
EXTENDS Terminals, FileTransfer, WorktreeMerge, TabWorktrees, QualityRuns, QualityGrading

VARIABLE part

workspaceVars == <<part, terminalVars, fileVars, mergeVars, worktreeVars, qualityVars, report>>

WorkspaceInit ==
  /\ TerminalsInit /\ FileInit /\ MergeInit /\ WorktreesInit /\ QualityInit /\ GradingInit
  /\ part \in {"terminals", "files", "merge", "worktrees", "quality", "grading"}
  /\ part # "files" => exists = {}
  /\ part # "merge" => stashes = <<>>
  /\ part # "grading" => /\ report.found = NoneFound /\ report.lines = 5000
                         /\ report.installed /\ report.available

WorkspaceNext ==
  /\ \/ part = "terminals" /\ TerminalsNext
     \/ part # "terminals" /\ UNCHANGED terminalVars
  /\ \/ part = "files" /\ FileNext
     \/ part # "files" /\ UNCHANGED fileVars
  /\ \/ part = "merge" /\ MergeNext
     \/ part # "merge" /\ UNCHANGED mergeVars
  /\ \/ part = "worktrees" /\ WorktreesNext
     \/ part # "worktrees" /\ UNCHANGED worktreeVars
  /\ \/ part = "quality" /\ QualityNext
     \/ part # "quality" /\ UNCHANGED qualityVars
  /\ \/ part = "grading" /\ GradingNext
     \/ part # "grading" /\ UNCHANGED report
  /\ UNCHANGED part

WorkspaceSpec ==
  /\ WorkspaceInit /\ [][WorkspaceNext]_workspaceVars
  /\ FileFairness /\ MergeFairness /\ QualityFairness

\* Every part keeps its fields in their ranges, counters within their limits.
WorkspaceTypeOK ==
  /\ TerminalsTypeOK /\ FileTypeOK /\ MergeTypeOK /\ WorktreesTypeOK
  /\ QualityTypeOK /\ GradingTypeOK

\* All is in its ranges, and what a web is told is what there is: its screens have the
\* output of a terminal, whose shell is known to the process; the files are what was
\* received of them; and the record of the scans and reviews is true.
WorkIsWhole ==
  /\ WorkspaceTypeOK
  /\ TerminalsShowAll /\ NoShellForgotten /\ UploadsIntact /\ RecordsAgree

\* Everything the user starts comes to an end: a transfer, a merge, a scan or a
\* review.
WorkEnds == TransfersEnd /\ MergesEnd /\ RunsGetDone
=============================================================================
