---------------------------- MODULE PlanExecutor ----------------------------
(***************************************************************************)
(* The plan executor of server/services/plan: it runs the issues of a      *)
(* board in waves, one headless agent per issue, and passes every issue an *)
(* agent finished through the AI review gate.  The state of an issue is    *)
(* the `status:` line of its markdown file, which the executor, the agents *)
(* and the web user all write.                                             *)
(*                                                                         *)
(* Node runs one callback at a time, so an action is the code between two  *)
(* awaits.  An awaited file operation takes effect in one step with the    *)
(* code that follows it up to the next await.                              *)
(***************************************************************************)
EXTENDS Naturals, FiniteSets

CONSTANTS
    Issues,          \* files of the board's backlog, epics included
    Epics,           \* those whose `type` is epic
    Children,        \* [Epics -> SUBSET Issues]
    BlockedBy,       \* [Issues -> SUBSET Issues]
    Ungated,         \* issues whose `review_gate` is none
    Priority,        \* [Issues -> Nat], 0 first
    ParallelLimits,  \* what max_parallel_agents may read, wave by wave
    Runs,            \* activations of runStart() that may be live at once
    InitStatuses,    \* issue statuses the board may start with
    AgentStatuses,   \* statuses an agent may report when it is finished
    UserStatuses,    \* statuses the web user may choose
    MaxEdits,        \* bound: edits by the web user
    MaxCrashes,      \* bound: crashes of the CLI
    NoEpic           \* the scope of a run that is not restricted to an epic

MAX_REVIEW_ATTEMPTS == 3
MAX_CONSECUTIVE_EMPTY_WAVES == 3

Terminal == {"done", "cancelled"}
Stale == {"in_progress", "in_review"}
Statuses == Terminal \cup Stale \cup {"todo"}

ASSUME ConstantsAssumption ==
    /\ IsFiniteSet(Issues) /\ Epics \subseteq Issues
    /\ Children \in [Epics -> SUBSET (Issues \ Epics)]
    /\ BlockedBy \in [Issues -> SUBSET Issues]
    /\ Ungated \subseteq Issues
    /\ Priority \in [Issues -> Nat]
    /\ ParallelLimits \subseteq 1..10
    /\ InitStatuses \subseteq Statuses
    /\ AgentStatuses \subseteq {"in_review", "done"}
    /\ UserStatuses \subseteq Statuses
    /\ MaxEdits \in Nat /\ MaxCrashes \in Nat
    /\ NoEpic \notin Issues

VARIABLES
    (* on disk *)
    disk,       \* [Issues -> status or "absent"]: the status line of each file
    quoted,     \* files whose status line reads `status: "..."`
    reviews,    \* [Issues -> Nat]: review files kept for the issue
    approved,   \* issues with a review file that says passed
    board,      \* status of the board: draft, active, completed or archived
    perms,      \* tool permissions are installed in .claude/settings.json
    (* the PlanExecutor object *)
    status,     \* "none" until getExecutor() has made the object
    shouldStop, shouldPause,
    epicScope,  \* context.epicScope, also what resume() replays
    ctl,        \* waveAbortController: none, live or aborted
    emitted,    \* which of 'complete' and 'error' were emitted since the start
    (* each activation of runStart *)
    pc,
    wave,       \* issues of the current wave (the ready ones, before it)
    left,       \* issues the current loop over issues has not come to
    cur,        \* the issue under review
    agents,     \* issues of the wave whose agent is running
    attached,   \* activations whose agents hold the current controller's signal
    killed,     \* activations whose agents' signal was aborted
    progress,   \* completedCount > 0
    zero,       \* consecutiveZeroCompletions
    (* bounds *)
    edits, crashes

diskVars == <<disk, quoted, reviews, approved, board>>
execVars == <<status, shouldStop, shouldPause, epicScope, emitted>>
ctlVars  == <<ctl, attached, killed>>
waveVars == <<wave, left, cur, agents, progress, zero>>
vars == <<diskVars, perms, execVars, ctlVars, pc, waveVars, edits, crashes>>

Lines == Statuses \cup {"absent"}
-----------------------------------------------------------------------------
(* Readiness (dependency-resolver, readiness-planner), of statuses d.        *)

InScope(d) == IF epicScope \in Epics /\ d[epicScope] # "absent"
              THEN Children[epicScope] ELSE Issues

\* Mutant: the blockers are not looked at.
ReadyIgnoringBlockers(d) ==
    {i \in (Issues \ Epics) \cap InScope(d) : d[i] = "todo"}

Ready(d) == {i \in (Issues \ Epics) \cap InScope(d) :
                /\ d[i] = "todo"
                /\ \A b \in BlockedBy[i] : d[b] \in Terminal}

Stuck(d) == {i \in Issues \ Epics : d[i] \in Stale}

\* What a restarted run takes back (recoverStaleIssues).  Mutant: reviews that
\* were cut short are forgotten.
RecoverableWork(d) == {i \in Issues \ Epics : d[i] = "in_progress"}
Recoverable(d) == {i \in Issues \ Epics : d[i] \in Stale}

\* Mutant: what is blocked counts as finished.
NothingReady(d) == Ready(d) = {} /\ Stuck(d) = {}
AllDone(d) == /\ \E i \in Issues : d[i] # "absent"
              /\ \A i \in Issues : d[i] \in Terminal \cup {"absent"}

CanLoad == board \in {"draft", "active"}

Activated == IF board = "draft" THEN "active" ELSE board

(* Epics follow their children (state-reconciler).                           *)
Present(d, e) == {c \in Children[e] : d[c] # "absent"}

EpicDone(d, e) == /\ d[e] \notin Terminal \cup {"absent"}
                  /\ Present(d, e) # {}
                  /\ \A c \in Present(d, e) : d[c] \in Terminal

EpicStarted(d, e) == /\ d[e] \notin Terminal \cup {"absent", "in_progress"}
                     /\ \E c \in Present(d, e) : d[c] \in Stale

Reconciled(d) == [i \in Issues |->
    IF i \in Epics THEN IF EpicDone(d, i) THEN "done"
                        ELSE IF EpicStarted(d, i) THEN "in_progress" ELSE d[i]
                   ELSE d[i]]

(* tryCompleteParentEpic, after issue i was edited.                          *)
ParentsDone(d, i) == [e \in Issues |->
    IF e \in Epics /\ i \in Children[e] /\ EpicDone(d, e) THEN "done" ELSE d[e]]
-----------------------------------------------------------------------------
(* Writing a status line: nothing happens when the file is gone, and the     *)
(* executor and the agents write the value without quotes.                   *)

Write(i, s) == /\ disk' = [disk EXCEPT ![i] = IF @ = "absent" THEN @ ELSE s]
               /\ quoted' = quoted \ {i}

(* What extractIssueStatus makes of the line: a quoted value keeps its       *)
(* quotes and equals no status.                                              *)
ReadsAs(i, S) == i \notin quoted /\ disk[i] \in S

TypeOK ==
    /\ disk \in [Issues -> Lines] /\ quoted \subseteq Issues
    /\ reviews \in [Issues -> Nat] /\ approved \subseteq Issues
    /\ board \in {"draft", "active", "completed", "archived"}
    /\ perms \in BOOLEAN
    /\ status \in {"none", "idle", "executing", "stopping", "paused", "complete", "error"}
    /\ shouldStop \in BOOLEAN /\ shouldPause \in BOOLEAN
    /\ epicScope \in Epics \cup {NoEpic}
    /\ ctl \in {"none", "live", "aborted"}
    /\ emitted \subseteq {"complete", "error"}
    /\ pc \in [Runs -> {"idle", "recover", "pick", "limit", "mark", "agents",
                        "reconcile", "review", "completeBoard"}]
    /\ wave \in [Runs -> SUBSET Issues] /\ left \in [Runs -> SUBSET Issues]
    /\ cur \in [Runs -> SUBSET Issues] /\ agents \in [Runs -> SUBSET Issues]
    /\ attached \subseteq Runs /\ killed \subseteq Runs
    /\ progress \in [Runs -> BOOLEAN]
    /\ zero \in [Runs -> 0 .. MAX_CONSECUTIVE_EMPTY_WAVES - 1]
    /\ edits \in 0..MaxEdits /\ crashes \in 0..MaxCrashes

Init ==
    /\ disk \in [Issues -> InitStatuses]
    /\ quoted = {} /\ approved = {}
    /\ reviews = [i \in Issues |-> 0]
    /\ board \in {"draft", "active"}
    /\ perms \in BOOLEAN
    /\ status = "none" /\ shouldStop = FALSE /\ shouldPause = FALSE
    /\ epicScope = NoEpic /\ emitted = {}
    /\ ctl = "none" /\ attached = {} /\ killed = {}
    /\ pc = [r \in Runs |-> "idle"]
    /\ wave = [r \in Runs |-> {}] /\ left = [r \in Runs |-> {}]
    /\ cur = [r \in Runs |-> {}] /\ agents = [r \in Runs |-> {}]
    /\ progress = [r \in Runs |-> FALSE] /\ zero = [r \in Runs |-> 0]
    /\ edits = 0 /\ crashes = 0
-----------------------------------------------------------------------------
(* runStart and runWaveLoop                                                  *)

(* The status a run ends with, when the loop returned res.                   *)
Verdict(res) ==
    CASE res \in {"stalled", "dead"} -> "error"
      [] res = "done" /\ shouldPause -> "paused"
      [] res = "done" /\ ~shouldPause /\ shouldStop -> "idle"
      [] OTHER -> "complete"

(* The end of runStart, after the loop emitted events.                       *)
Finish(r, res, events) ==
    /\ pc' = [pc EXCEPT ![r] = "idle"]
    /\ status' = Verdict(res)
    /\ emitted' = emitted \cup events
           \cup (IF res = "stalled" THEN {"error"} ELSE {})
           \cup (IF res = "done" /\ ~shouldPause /\ shouldStop
                 THEN {"complete"} ELSE {})
    /\ UNCHANGED <<shouldStop, shouldPause, epicScope>>

\* A fresh object's constructor restores the settings a crash left behind.
\* Mutant: it does not.
SettingsLeftAlone == perms
SettingsAtStart == perms /\ status # "none"

(* Up to the first file operation of the stale recovery.                     *)
Start(r, scope) ==
    /\ pc[r] = "idle" /\ status # "executing"
    /\ status' = "executing" /\ shouldStop' = FALSE /\ shouldPause' = FALSE
    /\ epicScope' = scope
    /\ perms' = SettingsAtStart
    /\ board' = Activated
    /\ pc' = [pc EXCEPT ![r] = IF CanLoad THEN "recover" ELSE "pick"]
    /\ left' = [left EXCEPT ![r] = IF CanLoad THEN Recoverable(disk) ELSE {}]
    /\ emitted' = IF CanLoad THEN {} ELSE {"error"}
    /\ zero' = [zero EXCEPT ![r] = 0]
    /\ UNCHANGED <<disk, quoted, reviews, approved, ctlVars, wave, cur, agents,
                   progress, edits, crashes>>

(* recoverStaleIssues goes by the statuses it loaded, one write at a time.   *)
Recover(r) ==
    /\ pc[r] = "recover"
    /\ \E i \in left[r] : /\ Write(i, "todo")
                         /\ left' = [left EXCEPT ![r] = @ \ {i}]
    /\ UNCHANGED <<reviews, approved, board, perms, execVars, ctlVars, pc, wave,
                   cur, agents, progress, zero, edits, crashes>>

EnterLoop(r) ==
    /\ pc[r] = "recover" /\ left[r] = {}
    /\ pc' = [pc EXCEPT ![r] = "pick"]
    /\ UNCHANGED <<diskVars, perms, execVars, ctlVars, waveVars, edits, crashes>>

(* The while condition fails.                                                *)
LeaveLoop(r) ==
    /\ pc[r] = "pick" /\ (shouldStop \/ shouldPause)
    /\ Finish(r, "done", {})
    /\ UNCHANGED <<diskVars, perms, ctlVars, waveVars, edits, crashes>>

Picks(r) == pc[r] = "pick" /\ ~shouldStop /\ ~shouldPause

(* The board is archived or completed: an error, no issues, and not dead.    *)
PickUnloadable(r) ==
    /\ Picks(r) /\ ~CanLoad
    /\ Finish(r, "done", {"error"})
    /\ UNCHANGED <<diskVars, perms, ctlVars, waveVars, edits, crashes>>

PickReady(r) ==
    /\ Picks(r) /\ CanLoad /\ Ready(disk) # {}
    /\ wave' = [wave EXCEPT ![r] = Ready(disk)]
    /\ pc' = [pc EXCEPT ![r] = "limit"]
    /\ board' = Activated
    /\ UNCHANGED <<disk, quoted, reviews, approved, perms, execVars, ctlVars, left,
                   cur, agents, progress, zero, edits, crashes>>

PickDead(r) ==
    /\ Picks(r) /\ CanLoad /\ Ready(disk) = {} /\ Stuck(disk) # {}
    /\ Finish(r, "dead", {"error"})
    /\ board' = Activated
    /\ UNCHANGED <<disk, quoted, reviews, approved, perms, ctlVars, waveVars,
                   edits, crashes>>

PickNothing(r) ==
    /\ Picks(r) /\ CanLoad /\ Ready(disk) = {} /\ Stuck(disk) = {}
    /\ ~AllDone(disk)
    /\ Finish(r, "done", {"complete"})
    /\ board' = Activated
    /\ UNCHANGED <<disk, quoted, reviews, approved, perms, ctlVars, waveVars,
                   edits, crashes>>

PickAllDone(r) ==
    /\ Picks(r) /\ CanLoad /\ Ready(disk) = {} /\ Stuck(disk) = {}
    /\ AllDone(disk)
    /\ emitted' = emitted \cup {"complete"}
    /\ pc' = [pc EXCEPT ![r] = "completeBoard"]
    /\ board' = Activated
    /\ UNCHANGED <<disk, quoted, reviews, approved, perms, status, shouldStop,
                   shouldPause, epicScope, ctlVars, waveVars, edits, crashes>>

(* tryCompleteBoardIfDone writes; hasDeadIssues then loads a board that is   *)
(* no longer active, which is an error event and no dead issue.              *)
CompleteBoard(r) ==
    /\ pc[r] = "completeBoard"
    /\ board' = "completed"
    /\ Finish(r, "done", {"error"})
    /\ UNCHANGED <<disk, quoted, reviews, approved, perms, ctlVars, waveVars,
                   edits, crashes>>
-----------------------------------------------------------------------------
(* executeWave: of the ready issues the first max_parallel_agents by priority *)

FirstOf(ready, n) == {w \in SUBSET ready :
    /\ Cardinality(w) <= n /\ (w = ready \/ Cardinality(w) = n)
    /\ \A i \in w, j \in ready \ w : Priority[i] <= Priority[j]}

(* A new controller replaces whatever controller was there.                  *)
BeginWave(r) ==
    /\ pc[r] = "limit"
    /\ \E n \in ParallelLimits : \E w \in FirstOf(wave[r], n) :
          /\ wave' = [wave EXCEPT ![r] = w]
          /\ left' = [left EXCEPT ![r] = w]
    /\ ctl' = "live" /\ attached' = {} /\ killed' = killed \ {r}
    /\ perms' = TRUE
    /\ progress' = [progress EXCEPT ![r] = FALSE]
    /\ pc' = [pc EXCEPT ![r] = "mark"]
    /\ UNCHANGED <<diskVars, execVars, cur, agents, zero, edits, crashes>>

Mark(r) ==
    /\ pc[r] = "mark"
    /\ \E i \in left[r] : /\ Write(i, "in_progress")
                         /\ left' = [left EXCEPT ![r] = @ \ {i}]
    /\ UNCHANGED <<reviews, approved, board, perms, execVars, ctlVars, pc, wave,
                   cur, agents, progress, zero, edits, crashes>>

(* The agents take the signal of whatever controller the object now holds.   *)
(* A runner whose signal is aborted already starts no agent.                 *)
Spawn(r) ==
    /\ pc[r] = "mark" /\ left[r] = {}
    /\ agents' = [agents EXCEPT ![r] = IF ctl = "aborted" THEN {} ELSE wave[r]]
    /\ attached' = IF ctl = "none" THEN attached ELSE attached \cup {r}
    /\ killed' = IF ctl = "aborted" THEN killed \cup {r} ELSE killed
    /\ pc' = [pc EXCEPT ![r] = "agents"]
    /\ UNCHANGED <<diskVars, perms, execVars, ctl, wave, left, cur, progress,
                   zero, edits, crashes>>

(* The agent's last instruction is to change the status line of its issue.   *)
AgentReports(r, i) ==
    /\ i \in agents[r] /\ disk[i] = "in_progress"
    /\ \E s \in AgentStatuses : Write(i, s)
    /\ UNCHANGED <<reviews, approved, board, perms, execVars, ctlVars, pc, waveVars,
                   edits, crashes>>

(* It is done, gave up, stalled, or was killed.                              *)
AgentExits(r, i) ==
    /\ i \in agents[r]
    /\ agents' = [agents EXCEPT ![r] = @ \ {i}]
    /\ UNCHANGED <<diskVars, perms, execVars, ctlVars, pc, wave, left, cur, progress,
                   zero, edits, crashes>>

Settled(r) ==
    /\ pc[r] = "agents" /\ agents[r] = {}
    /\ pc' = [pc EXCEPT ![r] = "reconcile"]
    /\ left' = [left EXCEPT ![r] = wave[r]]
    /\ UNCHANGED <<diskVars, perms, execVars, ctlVars, wave, cur, agents, progress,
                   zero, edits, crashes>>

(* reconcileWaveResults, for the issues in turn                              *)

Takes(r, i) == /\ pc[r] = "reconcile" /\ i \in left[r]
               /\ left' = [left EXCEPT ![r] = @ \ {i}]

ReconcileMissing(r, i) ==
    /\ Takes(r, i) /\ disk[i] = "absent"
    /\ UNCHANGED <<diskVars, perms, execVars, ctlVars, pc, wave, cur, agents,
                   progress, zero, edits, crashes>>

(* Back to the status it was picked with, which is todo.                     *)
ReconcileIncomplete(r, i) ==
    /\ Takes(r, i) /\ disk[i] # "absent" /\ ~ReadsAs(i, {"in_review", "done"})
    /\ Write(i, "todo")
    /\ UNCHANGED <<reviews, approved, board, perms, execVars, ctlVars, pc, wave, cur,
                   agents, progress, zero, edits, crashes>>

ReconcileUngated(r, i) ==
    /\ Takes(r, i) /\ ReadsAs(i, {"in_review", "done"}) /\ i \in Ungated
    /\ Write(i, "done")
    /\ progress' = [progress EXCEPT ![r] = TRUE]
    /\ UNCHANGED <<reviews, approved, board, perms, execVars, ctlVars, pc, wave, cur,
                   agents, zero, edits, crashes>>

(* runReviewPipeline                                                         *)

\* Mutant: one review too many.
MayBeReviewedOnceMore(i) == reviews[i] <= MAX_REVIEW_ATTEMPTS
MayBeReviewed(i) == reviews[i] < MAX_REVIEW_ATTEMPTS

ReviewAbandon(r, i) ==
    /\ Takes(r, i) /\ ReadsAs(i, {"in_review", "done"}) /\ i \notin Ungated
    /\ ~MayBeReviewed(i)
    /\ Write(i, "cancelled")
    /\ UNCHANGED <<reviews, approved, board, perms, execVars, ctlVars, pc, wave, cur,
                   agents, progress, zero, edits, crashes>>

ReviewBegin(r, i) ==
    /\ Takes(r, i) /\ ReadsAs(i, {"in_review", "done"}) /\ i \notin Ungated
    /\ MayBeReviewed(i)
    /\ Write(i, "in_review")
    /\ cur' = [cur EXCEPT ![r] = {i}]
    /\ pc' = [pc EXCEPT ![r] = "review"]
    /\ UNCHANGED <<reviews, approved, board, perms, execVars, ctlVars, wave, agents,
                   progress, zero, edits, crashes>>

\* Mutant: a failed review is not taken back.
StatusIfReviewed(passed) == "done"
StatusAfterReview(passed) == IF passed THEN "done" ELSE "todo"

(* A review that breaks counts as passed (autoPassResult).  stop() does not  *)
(* reach the reviewer.                                                       *)
ReviewEnd(r, i, passed) ==
    /\ pc[r] = "review" /\ i \in cur[r]
    /\ reviews' = [reviews EXCEPT ![i] = @ + 1]
    /\ approved' = IF passed THEN approved \cup {i} ELSE approved
    /\ Write(i, StatusAfterReview(passed))
    /\ progress' = [progress EXCEPT ![r] = @ \/ passed]
    /\ cur' = [cur EXCEPT ![r] = {}]
    /\ pc' = [pc EXCEPT ![r] = "reconcile"]
    /\ UNCHANGED <<board, perms, execVars, ctlVars, wave, left, agents, zero,
                   edits, crashes>>

(* The finally block, finalizeWave, and the loop's bookkeeping.              *)
WaveDone(r) == pc[r] = "reconcile" /\ left[r] = {}

CloseWave(r) ==
    /\ perms' = FALSE
    /\ ctl' = "none" /\ attached' = {}
    /\ disk' = Reconciled(disk)
    /\ quoted' = {i \in quoted : disk'[i] = disk[i]}
    /\ wave' = [wave EXCEPT ![r] = {}]

GoesOn(r) == progress[r] \/ zero[r] + 1 < MAX_CONSECUTIVE_EMPTY_WAVES

\* Mutant: a wave without completions resets the count too.
EmptyWavesForgotten(r) == 0
EmptyWaves(r) == IF progress[r] THEN 0 ELSE zero[r] + 1

EndWave(r) ==
    /\ WaveDone(r) /\ GoesOn(r)
    /\ CloseWave(r)
    /\ zero' = [zero EXCEPT ![r] = EmptyWaves(r)]
    /\ pc' = [pc EXCEPT ![r] = "pick"]
    /\ UNCHANGED <<reviews, approved, board, execVars, killed, left, cur, agents,
                   progress, edits, crashes>>

Stall(r) ==
    /\ WaveDone(r) /\ ~GoesOn(r)
    /\ CloseWave(r)
    /\ Finish(r, "stalled", {})
    /\ UNCHANGED <<reviews, approved, board, killed, left, cur, agents, progress,
                   zero, edits, crashes>>
-----------------------------------------------------------------------------
(* What the web user may do at any time (plan-execution-handlers,            *)
(* plan-issue-handlers, plan-board-handlers).                                *)

Execute(r) == Start(r, NoEpic)

ExecuteEpic(r, e) == disk[e] # "absent" /\ Start(r, e)

Resume(r) == status = "paused" /\ Start(r, epicScope)

Pause ==
    /\ status # "none" /\ shouldPause' = TRUE
    /\ UNCHANGED <<diskVars, perms, status, shouldStop, epicScope, emitted, ctlVars,
                   pc, waveVars, edits, crashes>>

Stop ==
    /\ status # "none" /\ status' = "stopping" /\ shouldStop' = TRUE
    /\ ctl' = IF ctl = "none" THEN "none" ELSE "aborted"
    /\ killed' = killed \cup attached
    /\ UNCHANGED <<diskVars, perms, shouldPause, epicScope, emitted, attached, pc,
                   waveVars, edits, crashes>>

Edit == edits < MaxEdits /\ edits' = edits + 1

UpdateIssue(i, s) ==
    /\ Edit /\ disk[i] # "absent"
    /\ LET d == [disk EXCEPT ![i] = s]
       IN  /\ disk' = ParentsDone(d, i)
           /\ quoted' = {j \in quoted \cup {i} : disk'[j] = d[j]}
    /\ UNCHANGED <<reviews, approved, board, perms, execVars, ctlVars, pc, waveVars,
                   crashes>>

DeleteIssue(i) ==
    /\ Edit /\ disk[i] # "absent"
    /\ disk' = [disk EXCEPT ![i] = "absent"] /\ quoted' = quoted \ {i}
    /\ UNCHANGED <<reviews, approved, board, perms, execVars, ctlVars, pc, waveVars,
                   crashes>>

(* getNextId counts on from the largest id there is, so a deleted last issue *)
(* comes back under its old path.  A new issue has no blockers.              *)
CreateIssue(i) ==
    /\ Edit /\ disk[i] = "absent" /\ i \notin Epics /\ BlockedBy[i] = {}
    /\ disk' = [disk EXCEPT ![i] = "todo"] /\ UNCHANGED quoted
    /\ UNCHANGED <<reviews, approved, board, perms, execVars, ctlVars, pc, waveVars,
                   crashes>>

SetBoard(s) ==
    /\ Edit /\ board' = s
    /\ UNCHANGED <<disk, quoted, reviews, approved, perms, execVars, ctlVars, pc,
                   waveVars, crashes>>

ArchiveBoard == SetBoard("archived")
(* planRestoreBoard is missing from the dispatch table (handler.ts:160), but  *)
(* planUpdateBoard may set the same status.                                  *)
RestoreBoard == SetBoard("active")

(* The process dies, its agents with it.  What is on disk stays.             *)
Crash ==
    /\ crashes < MaxCrashes /\ crashes' = crashes + 1
    /\ status' = "none" /\ shouldStop' = FALSE /\ shouldPause' = FALSE
    /\ epicScope' = NoEpic /\ emitted' = {}
    /\ ctl' = "none" /\ attached' = {} /\ killed' = {}
    /\ pc' = [r \in Runs |-> "idle"]
    /\ wave' = [r \in Runs |-> {}] /\ left' = [r \in Runs |-> {}]
    /\ cur' = [r \in Runs |-> {}] /\ agents' = [r \in Runs |-> {}]
    /\ progress' = [r \in Runs |-> FALSE] /\ zero' = [r \in Runs |-> 0]
    /\ UNCHANGED <<diskVars, perms, edits>>
-----------------------------------------------------------------------------
RunStep(r) ==
    \/ Recover(r) \/ EnterLoop(r) \/ LeaveLoop(r)
    \/ PickUnloadable(r) \/ PickReady(r) \/ PickDead(r) \/ PickNothing(r)
    \/ PickAllDone(r) \/ CompleteBoard(r)
    \/ BeginWave(r) \/ Mark(r) \/ Spawn(r) \/ Settled(r)
    \/ \E i \in Issues : \/ ReconcileMissing(r, i) \/ ReconcileIncomplete(r, i)
                        \/ ReconcileUngated(r, i) \/ ReviewAbandon(r, i)
                        \/ ReviewBegin(r, i)
                        \/ \E passed \in BOOLEAN : ReviewEnd(r, i, passed)
    \/ EndWave(r) \/ Stall(r)

AgentStep(r) == \E i \in Issues : AgentReports(r, i) \/ AgentExits(r, i)

Command ==
    \/ \E r \in Runs : Execute(r) \/ Resume(r) \/ \E e \in Epics : ExecuteEpic(r, e)
    \/ Pause \/ Stop

UserEdit ==
    \/ \E i \in Issues : \/ \E s \in UserStatuses : UpdateIssue(i, s)
                        \/ DeleteIssue(i) \/ CreateIssue(i)
    \/ ArchiveBoard \/ RestoreBoard

Next == \/ \E r \in Runs : RunStep(r) \/ AgentStep(r)
        \/ Command \/ UserEdit \/ Crash

(* File operations complete, and an agent exits or is killed by its stall    *)
(* timeouts, at the latest by the hard cap of four hours; so does a reviewer *)
(* (REVIEW_STALL_HARD_CAP_MS).  Nothing is owed by the user.                 *)
Fairness == \A r \in Runs :
    WF_vars(RunStep(r)) /\ \A i \in Issues : WF_vars(AgentExits(r, i))

Spec == Init /\ [][Next]_vars /\ Fairness
-----------------------------------------------------------------------------
(* Properties                                                                *)

Live(r) == pc[r] # "idle"

(* Issues a live wave has begun to work on and not yet reconciled.           *)
InWave(r) == CASE pc[r] = "mark" -> wave[r]
               [] pc[r] = "agents" -> wave[r]
               [] pc[r] \in {"reconcile", "review"} -> left[r] \cup cur[r]
               [] OTHER -> {}

Worked == UNION {InWave(r) : r \in Runs}

(* No issue is worked on by two agents: Execute refuses while execution is   *)
(* in progress, so the waves of one board never overlap.                     *)
NoIssueRunTwice == \A r, q \in Runs : r # q => agents[r] \cap agents[q] = {}

(* An agent works on an issue only while everything it is blocked by is done *)
(* or cancelled, through failed reviews, retries, crashes and recovery.      *)
DependencyOrder ==
    \A r \in Runs : \A i \in agents[r] : \A b \in BlockedBy[i] : disk[b] \in Terminal

(* What no wave is working on and no user has set is done only with a passed *)
(* review on file, unless its gate is off or it is an epic.                  *)
ReviewGate ==
    \A i \in Issues \ (Epics \cup Ungated \cup Worked \cup quoted) :
        disk[i] = "done" => i \in approved

(* The reviewer is never asked a fourth time about the same issue.           *)
ReviewBudget == \A i \in Issues : reviews[i] <= MAX_REVIEW_ATTEMPTS

(* Status complete means there was nothing left to run.                      *)
CompleteMeansDrained ==
    status = "complete" => Ready(disk) = {} /\ Stuck(disk) = {}

(* A run that ended leaves nothing in progress or in review behind, whatever *)
(* stopped, paused or stalled it, except what a user put there, and is       *)
(* complete only if nothing was left to run.                                 *)
NothingLeftRunning ==
    /\ /\ status \in {"idle", "paused", "complete", "error"}
       /\ \A r \in Runs : ~Live(r)
       => Stuck(disk) \subseteq quoted
    /\ CompleteMeansDrained

(* While agents run their tool permissions are installed, and the user's own *)
(* settings are back whenever no wave is under way.                          *)
PermissionsFollowWaves ==
    /\ \A r \in Runs : agents[r] # {} => perms
    /\ perms /\ status # "none" =>
          \E r \in Runs : pc[r] \in {"mark", "agents", "reconcile", "review"}

(* The board is marked completed only when every issue is done or cancelled. *)
BoardCompletedWhenDone ==
    [][board # "completed" /\ board' = "completed" =>
           \A i \in Issues : disk[i] \in Terminal \cup {"absent"}]_vars

(* A run ends with one verdict: 'complete' or 'error', not both.             *)
OneVerdict == ~({"complete", "error"} \subseteq emitted)

(* Once stop was asked for, no agent runs on with a signal nobody aborted.   *)
StopKillsAgents ==
    shouldStop => \A r \in Runs : agents[r] # {} => r \in killed

(* An issue that the board shows as done is never put back to todo as work   *)
(* its agent did not complete: every reader makes the same of a status line. *)
DoneIsNotIncomplete ==
    [][\A r \in Runs : \A i \in left[r] :
          pc[r] = "reconcile" /\ disk[i] = "done" /\ edits' = edits
              => disk'[i] # "todo"]_vars

(* Every run ends: the review cap and the empty-wave cap leave no cycle.     *)
RunEnds == \A r \in Runs : Live(r) ~> ~Live(r)

(* Whoever sees 'stopping' sees it end.                                      *)
StoppingEnds == status = "stopping" ~> status # "stopping"
-----------------------------------------------------------------------------
(* The executor implements the life cycle of IssueLifecycle.  An issue is    *)
(* being worked on from the moment its file says in_progress until its wave  *)
(* is reconciled, whatever its agent writes in between; what a crash left in *)
(* progress is open.                                                         *)

Tasks == Issues \ Epics

Marked(r) == IF pc[r] = "mark" THEN wave[r] \ left[r]
             ELSE IF pc[r] \in {"reconcile", "review"} THEN left[r]
             ELSE IF pc[r] = "agents" THEN wave[r] ELSE {}

Phase(i) == IF \E r \in Runs : pc[r] = "review" /\ i \in cur[r] THEN "reviewing"
            ELSE IF \E r \in Runs : i \in Marked(r) THEN "working"
            ELSE IF disk[i] \in Terminal THEN disk[i] ELSE "open"

Life == INSTANCE IssueLifecycle WITH
    Issues <- Tasks, MaxReviews <- MAX_REVIEW_ATTEMPTS,
    phase <- [i \in Tasks |-> Phase(i)], tries <- [i \in Tasks |-> reviews[i]]

(* Each issue goes through the life cycle the board promises, across failed  *)
(* reviews, stops, pauses and crashes, as long as only the executor and its  *)
(* agents write the files.                                                   *)
ImplementsLifecycle == Life!Spec
=============================================================================
